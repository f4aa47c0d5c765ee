----------------------------- MODULE AtomicCache -----------------------------
(***************************************************************************)
(* An entry of an AtomicCache (vm/AtomicCache.h, AtomicCache.cpp), as      *)
(* instanceof (vm/oo/TypeCheck.cpp) and interface calls use them: two      *)
(* keys, the value computed from them, and a version that is odd while     *)
(* they are written and has a flag that locks out other writers.  Readers  *)
(* take no lock; all keys here hash to the entry.                          *)
(*                                                                         *)
(* Between two barriers the fields are read, and written, in any order.    *)
(* The value of two keys is the pair of them.  That the version may count  *)
(* into the flag, at 2^31, the code disregards and the model leaves out.   *)
(***************************************************************************)
EXTENDS Naturals

CONSTANTS Readers, Classes,
          NoClass,        \* key 0 of an entry that is not filled yet
          Unread,
          MaxLookups      \* of all threads

VARIABLES
  version,     \* of the entry: its number, and ATOMIC_LOCK_FLAG
  entry,
  lookup,      \* where each thread is
  keys,        \* what it looks up
  first,       \* firstVersion
  seen,        \* the fields it has read
  unwritten,   \* the fields it has yet to write
  answer,      \* its value
  lookups

cacheVars == <<version, entry, lookup, keys, first, seen, unwritten, answer, lookups>>

Fields == {"key1", "key2", "value"}
FieldsFor(k) == [key1 |-> k[1], key2 |-> k[2], value |-> k]
NoKeys == <<NoClass, NoClass>>
NoVersion == [number |-> 0, locked |-> FALSE]
NothingSeen == [f \in Fields |-> Unread]
Even(n) == n % 2 = 0
Turn(t, to) == lookup' = [lookup EXCEPT ![t] = to]

-----------------------------------------------------------------------------
(* ATOMIC_CACHE_LOOKUP.                                                    *)

ReadVersion(t) ==
  /\ lookup[t] = "none" /\ lookups < MaxLookups
  /\ \E k \in Classes \X Classes : keys' = [keys EXCEPT ![t] = k]
  /\ first' = [first EXCEPT ![t] = version]
  /\ lookups' = lookups + 1 /\ Turn(t, "comparing")
  /\ UNCHANGED <<version, entry, seen, unwritten, answer>>

ReadField(t) ==
  /\ lookup[t] = "comparing"
  /\ \E f \in Fields : /\ seen[t][f] = Unread
                       /\ seen' = [seen EXCEPT ![t][f] = entry[f]]
  /\ UNCHANGED <<version, entry, lookup, keys, first, unwritten, answer, lookups>>

Differs(t) == \E f \in {"key1", "key2"} : seen[t][f] \notin {Unread, FieldsFor(keys[t])[f]}
Matches(t) == ~Differs(t) /\ \A f \in Fields : seen[t][f] # Unread

\* Mutant of NoClash: the version is not read again.
VersionWasEven(t) == Even(first[t].number)
NoClash(t) == Even(first[t].number) /\ first[t] = version

\* What has been read is of no use any more.
Forget(t) == seen' = [seen EXCEPT ![t] = NothingSeen]

\* A hit, unless an update got in the way.
Hit(t) ==
  /\ lookup[t] = "comparing" /\ Matches(t)
  /\ answer' = [answer EXCEPT ![t] = IF NoClash(t) THEN seen[t]["value"] ELSE keys[t]]
  /\ Turn(t, "answered") /\ Forget(t)
  /\ UNCHANGED <<version, entry, keys, first, unwritten, lookups>>

Miss(t) ==
  /\ lookup[t] = "comparing" /\ Differs(t)
  /\ answer' = [answer EXCEPT ![t] = keys[t]]
  /\ Turn(t, "missed") /\ Forget(t)
  /\ UNCHANGED <<version, entry, keys, first, unwritten, lookups>>

Answered(t) ==
  /\ lookup[t] = "answered"
  /\ Turn(t, "none")
  /\ keys' = [keys EXCEPT ![t] = NoKeys] /\ answer' = [answer EXCEPT ![t] = NoKeys]
  /\ first' = [first EXCEPT ![t] = NoVersion]
  /\ UNCHANGED <<version, entry, seen, unwritten, lookups>>

-----------------------------------------------------------------------------
(* dvmUpdateAtomicCache.                                                   *)

MayLock(t) == ~first[t].locked /\ version = first[t]

LockEntry(t) ==
  /\ lookup[t] = "missed" /\ MayLock(t)
  /\ version' = [version EXCEPT !.locked = TRUE]
  /\ Turn(t, "locked")
  /\ UNCHANGED <<entry, keys, first, seen, unwritten, answer, lookups>>

\* The update is skipped.
Contention(t) ==
  /\ lookup[t] = "missed" /\ ~MayLock(t)
  /\ Turn(t, "answered")
  /\ UNCHANGED <<version, entry, keys, first, seen, unwritten, answer, lookups>>

StartUpdate(t) ==
  /\ lookup[t] = "locked"
  /\ version' = [number |-> first[t].number + 1, locked |-> TRUE]
  /\ unwritten' = [unwritten EXCEPT ![t] = Fields]
  /\ Turn(t, "writing")
  /\ UNCHANGED <<entry, keys, first, seen, answer, lookups>>

WriteField(t) ==
  /\ lookup[t] = "writing"
  /\ \E f \in unwritten[t] : /\ entry' = [entry EXCEPT ![f] = FieldsFor(keys[t])[f]]
                             /\ unwritten' = [unwritten EXCEPT ![t] = @ \ {f}]
  /\ UNCHANGED <<version, lookup, keys, first, seen, answer, lookups>>

EndUpdate(t) ==
  /\ lookup[t] = "writing" /\ unwritten[t] = {}
  /\ version' = [number |-> first[t].number + 2, locked |-> TRUE]
  /\ Turn(t, "unlocking")
  /\ UNCHANGED <<entry, keys, first, seen, unwritten, answer, lookups>>

\* The VM aborts if the version is not what this thread has made it.
UnlockEntry(t) ==
  /\ lookup[t] = "unlocking"
  /\ IF version = [number |-> first[t].number + 2, locked |-> TRUE]
     THEN version' = [version EXCEPT !.locked = FALSE] /\ Turn(t, "answered")
     ELSE UNCHANGED version /\ Turn(t, "aborted")
  /\ UNCHANGED <<entry, keys, first, seen, unwritten, answer, lookups>>

-----------------------------------------------------------------------------
CacheInit ==
  /\ version = NoVersion /\ entry = FieldsFor(NoKeys)
  /\ lookup = [t \in Readers |-> "none"] /\ keys = [t \in Readers |-> NoKeys]
  /\ first = [t \in Readers |-> NoVersion] /\ seen = [t \in Readers |-> NothingSeen]
  /\ unwritten = [t \in Readers |-> {}] /\ answer = keys
  /\ lookups = 0

CacheLookup(t) == ReadVersion(t) \/ ReadField(t) \/ Hit(t) \/ Miss(t) \/ Answered(t)
CacheUpdate(t) == \/ LockEntry(t) \/ Contention(t) \/ StartUpdate(t) \/ WriteField(t)
                  \/ EndUpdate(t) \/ UnlockEntry(t)
CacheNext == \E t \in Readers : CacheLookup(t) \/ CacheUpdate(t)

CacheSpec == CacheInit /\ [][CacheNext]_cacheVars

-----------------------------------------------------------------------------
(* Properties.                                                             *)

\* A lookup is answered with the value of its own keys, whoever rewrites the
\* entry meanwhile, and no update finds its version changed (dvmAbort).
AnswersAreRight ==
  \A t \in Readers : /\ lookup[t] \notin {"none", "comparing"} => answer[t] = keys[t]
                     /\ lookup[t] # "aborted"
=============================================================================
