------------------------------ MODULE ConvLock ------------------------------
(***************************************************************************)
(* The per-key mutex of services/agent-runner/internal/convlock: a table   *)
(* from key to a reference-counted mutex that is created by the first      *)
(* caller interested in a key and deleted by the last one to leave.        *)
(*                                                                         *)
(* The table and the counters change only under the table's own short     *)
(* lock, so the lookup half of Lock and the second half of unlock are one  *)
(* step each; between those, a caller blocks on, or holds, the mutex it    *)
(* was given a pointer to.  That pointer outlives the table entry's        *)
(* deletion, which is what could go wrong: two callers of one key holding  *)
(* two different mutexes.                                                  *)
(***************************************************************************)
EXTENDS Naturals, FiniteSets

CONSTANTS
  Keys,       \* the ids locked on
  Callers,    \* the goroutines calling Lock
  Mutexes,    \* addresses the refCountedMutex values can have on the heap
  None        \* no entry, no key, no pointer

ASSUME CallersAssumption == IsFiniteSet(Callers)
ASSUME NoneAssumption ==
  /\ None \notin Keys
  /\ None \notin Callers
  /\ None \notin Mutexes

VARIABLES
  locks,      \* Locks.locks: the mutex of each key, None when there is none
  refs,       \* refCountedMutex.refs
  locked,     \* refCountedMutex.mu
  pc,         \* where each caller is in Lock / unlock
  key,        \* the key a caller asked for
  entry       \* e, the pointer the caller works with

vars == <<locks, refs, locked, pc, key, entry>>

Init ==
  /\ locks  = [k \in Keys |-> None]
  /\ refs   = [m \in Mutexes |-> 0]
  /\ locked = [m \in Mutexes |-> FALSE]
  /\ pc     = [c \in Callers |-> "idle"]
  /\ key    = [c \in Callers |-> None]
  /\ entry  = [c \in Callers |-> None]

\* An address the allocator may hand out: nothing points at it.
Unreferenced(m) ==
  /\ \A k \in Keys : locks[k] # m
  /\ \A c \in Callers : entry[c] # m

\* The table half of Lock when k has an entry already.
Join(c, k) ==
  /\ pc[c] = "idle"
  /\ locks[k] # None
  /\ refs'  = [refs EXCEPT ![locks[k]] = @ + 1]
  /\ pc'    = [pc EXCEPT ![c] = "waiting"]
  /\ key'   = [key EXCEPT ![c] = k]
  /\ entry' = [entry EXCEPT ![c] = locks[k]]
  /\ UNCHANGED <<locks, locked>>

\* MUTANT of Create: the first caller is not counted.
CreateUncounted(c, k) ==
  /\ pc[c] = "idle"
  /\ locks[k] = None
  /\ \E m \in Mutexes :
       /\ Unreferenced(m)
       /\ locks'  = [locks EXCEPT ![k] = m]
       /\ refs'   = [refs EXCEPT ![m] = 0]
       /\ locked' = [locked EXCEPT ![m] = FALSE]
       /\ entry'  = [entry EXCEPT ![c] = m]
  /\ pc'  = [pc EXCEPT ![c] = "waiting"]
  /\ key' = [key EXCEPT ![c] = k]

\* The table half of Lock when k has none: a fresh mutex, counted once.
Create(c, k) ==
  /\ pc[c] = "idle"
  /\ locks[k] = None
  /\ \E m \in Mutexes :
       /\ Unreferenced(m)
       /\ locks'  = [locks EXCEPT ![k] = m]
       /\ refs'   = [refs EXCEPT ![m] = 1]
       /\ locked' = [locked EXCEPT ![m] = FALSE]
       /\ entry'  = [entry EXCEPT ![c] = m]
  /\ pc'  = [pc EXCEPT ![c] = "waiting"]
  /\ key' = [key EXCEPT ![c] = k]

\* MUTANT of Acquire: Lock hands the mutex out without locking it.
AcquireUnlocked(c) ==
  /\ pc[c] = "waiting"
  /\ pc' = [pc EXCEPT ![c] = "held"]
  /\ UNCHANGED <<locks, refs, locked, key, entry>>

\* e.mu.Lock() returns.
Acquire(c) ==
  /\ pc[c] = "waiting"
  /\ ~locked[entry[c]]
  /\ locked' = [locked EXCEPT ![entry[c]] = TRUE]
  /\ pc'     = [pc EXCEPT ![c] = "held"]
  /\ UNCHANGED <<locks, refs, key, entry>>

\* The first half of unlock: e.mu.Unlock().
Unlock(c) ==
  /\ pc[c] = "held"
  /\ locked' = [locked EXCEPT ![entry[c]] = FALSE]
  /\ pc'     = [pc EXCEPT ![c] = "leaving"]
  /\ UNCHANGED <<locks, refs, key, entry>>

\* MUTANT of Leave: unlock deletes the entry without the refs == 0 test.
LeaveAlwaysDeletes(c) ==
  /\ pc[c] = "leaving"
  /\ refs'  = [refs EXCEPT ![entry[c]] = @ - 1]
  /\ locks' = [locks EXCEPT ![key[c]] = None]
  /\ pc'    = [pc EXCEPT ![c] = "idle"]
  /\ key'   = [key EXCEPT ![c] = None]
  /\ entry' = [entry EXCEPT ![c] = None]
  /\ UNCHANGED locked

\* MUTANT of Leave: the test is off by one, the last caller leaves its entry.
LeaveKeepsEntry(c) ==
  /\ pc[c] = "leaving"
  /\ refs'  = [refs EXCEPT ![entry[c]] = @ - 1]
  /\ locks' = IF refs[entry[c]] = 0 THEN [locks EXCEPT ![key[c]] = None] ELSE locks
  /\ pc'    = [pc EXCEPT ![c] = "idle"]
  /\ key'   = [key EXCEPT ![c] = None]
  /\ entry' = [entry EXCEPT ![c] = None]
  /\ UNCHANGED locked

\* The second half: drop the reference, and the table entry with the last one.
Leave(c) ==
  /\ pc[c] = "leaving"
  /\ refs'  = [refs EXCEPT ![entry[c]] = @ - 1]
  /\ locks' = IF refs[entry[c]] = 1 THEN [locks EXCEPT ![key[c]] = None] ELSE locks
  /\ pc'    = [pc EXCEPT ![c] = "idle"]
  /\ key'   = [key EXCEPT ![c] = None]
  /\ entry' = [entry EXCEPT ![c] = None]
  /\ UNCHANGED locked

Next ==
  \E c \in Callers :
    \/ \E k \in Keys : Join(c, k) \/ Create(c, k)
    \/ Acquire(c)
    \/ Unlock(c)
    \/ Leave(c)

Spec == Init /\ [][Next]_vars

-----------------------------------------------------------------------------
Inside(c) == pc[c] \in {"waiting", "held", "leaving"}

\* The variables hold values of their types, and a caller has a key and a
\* pointer exactly while it is inside Lock ... unlock.
TypeOK ==
  /\ locks \in [Keys -> Mutexes \cup {None}]
  /\ refs \in [Mutexes -> Nat]
  /\ locked \in [Mutexes -> BOOLEAN]
  /\ pc \in [Callers -> {"idle", "waiting", "held", "leaving"}]
  /\ key \in [Callers -> Keys \cup {None}]
  /\ entry \in [Callers -> Mutexes \cup {None}]
  /\ \A c \in Callers : Inside(c) <=> key[c] # None
  /\ \A c \in Callers : Inside(c) <=> entry[c] # None

\* "two callers locking the same key are serialized" (convlock.go, package
\* comment): no two callers are between Lock and unlock for one key.
MutualExclusion ==
  \A c, d \in Callers :
    pc[c] = "held" /\ pc[d] = "held" /\ key[c] = key[d] => c = d

\* "only keys with a lock actually held (or queued) have an entry"
\* (convlock.go, Locks): the table holds no key nobody is inside Lock for.
NoStaleEntry ==
  \A k \in Keys : locks[k] # None => \E c \in Callers : Inside(c) /\ key[c] = k

-----------------------------------------------------------------------------
(***************************************************************************)
(* The inductive invariant: every caller inside works with the mutex the   *)
(* table has for its key, the table gives different keys different         *)
(* mutexes, a counter is exact, and a mutex is locked only by a holder.    *)
(***************************************************************************)
Users(m) == {c \in Callers : entry[c] = m}

PointersAgree == \A c \in Callers : Inside(c) => locks[key[c]] = entry[c]
KeysApart     == \A j, k \in Keys : locks[j] = locks[k] /\ locks[j] # None => j = k
CountsExact   == \A m \in Mutexes : refs[m] = Cardinality(Users(m))
HolderLocks   == \A c \in Callers : pc[c] = "held" => locked[entry[c]]
OneHolder     == \A c, d \in Callers :
                   pc[c] = "held" /\ pc[d] = "held" /\ entry[c] = entry[d] => c = d

IInv ==
  /\ TypeOK
  /\ PointersAgree
  /\ KeysApart
  /\ CountsExact
  /\ HolderLocks
  /\ OneHolder
  /\ NoStaleEntry

-----------------------------------------------------------------------------
\* The table of mutexes implements the keyed mutex: a key belongs to the
\* caller between Acquire and Unlock, the callers still waiting want it.
ownerBar ==
  [k \in Keys |-> IF \E c \in Callers : pc[c] = "held" /\ key[c] = k
                    THEN CHOOSE c \in Callers : pc[c] = "held" /\ key[c] = k
                    ELSE None]
wantsBar == [c \in Callers |-> IF pc[c] = "waiting" THEN key[c] ELSE None]

Abstract == INSTANCE KeyedMutex WITH owner <- ownerBar, wants <- wantsBar
ImplementsKeyedMutex == Abstract!Spec
=============================================================================
