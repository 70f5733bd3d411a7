--------------------------- MODULE ConvLockProofs ---------------------------
(***************************************************************************)
(* Proofs about the per-key lock, for any number of keys, callers and heap *)
(* addresses: the invariant IInv of ConvLock is inductive, it gives mutual *)
(* exclusion, and the table of counted mutexes implements KeyedMutex.      *)
(***************************************************************************)
EXTENDS ConvLock, FiniteSetTheorems, TLAPS

USE NoneAssumption

LEMMA InitIInv == Init => IInv
<1> SUFFICES ASSUME Init PROVE IInv
  OBVIOUS
<1>1. TypeOK
  BY DEF Init, TypeOK, Inside
<1>2. CountsExact
  <2> SUFFICES ASSUME NEW m \in Mutexes PROVE refs[m] = Cardinality(Users(m))
    BY DEF CountsExact
  <2>1. Users(m) = {}
    BY DEF Init, Users
  <2> QED BY <2>1, FS_EmptySet DEF Init
<1> QED
  BY <1>1, <1>2 DEF Init, IInv, PointersAgree, KeysApart, HolderLocks, OneHolder, NoStaleEntry, Inside

\* The users of a mutex are finitely many callers, so they can be counted.
LEMMA UsersFinite == \A m : IsFiniteSet(Users(m)) /\ Cardinality(Users(m)) \in Nat
<1> TAKE m
<1>1. Users(m) \subseteq Callers
  BY DEF Users
<1> QED BY <1>1, CallersAssumption, FS_Subset, FS_CardinalityType

\* A caller that is given a pointer becomes one more user of that mutex only.
LEMMA EnterCounts ==
  ASSUME TypeOK, CountsExact, NEW c \in Callers, NEW e \in Mutexes,
         entry[c] = None, entry' = [entry EXCEPT ![c] = e],
         NEW n, refs' = [refs EXCEPT ![e] = n], n = Cardinality(Users(e)) + 1
  PROVE  CountsExact'
<1> SUFFICES ASSUME NEW m \in Mutexes PROVE refs'[m] = Cardinality(Users(m)')
  BY DEF CountsExact
<1>1. CASE m = e
  <2>1. Users(m)' = Users(m) \cup {c} /\ c \notin Users(m)
    BY <1>1 DEF Users, TypeOK
  <2>2. Cardinality(Users(m) \cup {c}) = Cardinality(Users(m)) + 1
    BY <2>1, UsersFinite, FS_AddElement
  <2> QED BY <1>1, <2>1, <2>2 DEF TypeOK
<1>2. CASE m # e
  <2>1. Users(m)' = Users(m)
    BY <1>2 DEF Users, TypeOK
  <2> QED BY <1>2, <2>1 DEF TypeOK, CountsExact
<1> QED BY <1>1, <1>2

LEMMA JoinIInv == ASSUME IInv, NEW c \in Callers, NEW k \in Keys, Join(c, k) PROVE IInv'
<1> USE DEF IInv, Join, Inside
<1>1. locks[k] \in Mutexes /\ entry[c] = None
  BY DEF TypeOK
<1>2. TypeOK'
  BY <1>1 DEF TypeOK
<1>3. CountsExact'
  <2>1. refs' = [refs EXCEPT ![locks[k]] = Cardinality(Users(locks[k])) + 1]
    BY <1>1 DEF CountsExact
  <2> QED BY <1>1, <2>1, EnterCounts
<1>4. PointersAgree' /\ KeysApart' /\ NoStaleEntry'
  BY <1>1 DEF TypeOK, PointersAgree, KeysApart, NoStaleEntry
<1>5. HolderLocks' /\ OneHolder'
  BY <1>1 DEF TypeOK, HolderLocks, OneHolder
<1> QED BY <1>2, <1>3, <1>4, <1>5

LEMMA CreateIInv == ASSUME IInv, NEW c \in Callers, NEW k \in Keys, Create(c, k) PROVE IInv'
<1> USE DEF IInv, Inside
<1> PICK m \in Mutexes :
      /\ Unreferenced(m)
      /\ locks'  = [locks EXCEPT ![k] = m]
      /\ refs'   = [refs EXCEPT ![m] = 1]
      /\ locked' = [locked EXCEPT ![m] = FALSE]
      /\ entry'  = [entry EXCEPT ![c] = m]
  BY DEF Create
<1>0. /\ pc[c] = "idle" /\ locks[k] = None /\ entry[c] = None
      /\ pc' = [pc EXCEPT ![c] = "waiting"] /\ key' = [key EXCEPT ![c] = k]
  BY DEF Create, TypeOK
<1>1. \A d \in Callers : entry[d] # m
  BY DEF Unreferenced
<1>2. TypeOK'
  BY <1>0 DEF TypeOK
<1>3. CountsExact'
  <2>1. Users(m) = {}
    BY <1>1 DEF Users
  <2>2. 1 = Cardinality(Users(m)) + 1
    BY <2>1, FS_EmptySet
  <2> QED BY <1>0, <2>2, EnterCounts
<1>4. PointersAgree'
  BY <1>0 DEF TypeOK, PointersAgree
<1>5. KeysApart'
  BY <1>0 DEF TypeOK, KeysApart, Unreferenced
<1>6. NoStaleEntry'
  BY <1>0 DEF TypeOK, NoStaleEntry
<1>7. HolderLocks' /\ OneHolder'
  BY <1>0, <1>1 DEF TypeOK, HolderLocks, OneHolder
<1> QED BY <1>2, <1>3, <1>4, <1>5, <1>6, <1>7

\* A step that moves no pointer changes no count.
LEMMA SameCounts == ASSUME CountsExact, UNCHANGED <<refs, entry>> PROVE CountsExact'
BY DEF CountsExact, Users

LEMMA AcquireIInv == ASSUME IInv, NEW c \in Callers, Acquire(c) PROVE IInv'
<1> USE DEF IInv, Acquire, Inside
<1>1. entry[c] \in Mutexes /\ UNCHANGED <<refs, entry>>
  BY DEF TypeOK
<1>2. TypeOK'
  BY <1>1 DEF TypeOK
<1>3. CountsExact'
  BY <1>1, SameCounts
<1>4. PointersAgree' /\ KeysApart' /\ NoStaleEntry'
  BY DEF TypeOK, PointersAgree, KeysApart, NoStaleEntry
<1>5. HolderLocks' /\ OneHolder'
  BY <1>1 DEF TypeOK, HolderLocks, OneHolder
<1> QED BY <1>2, <1>3, <1>4, <1>5

LEMMA UnlockIInv == ASSUME IInv, NEW c \in Callers, Unlock(c) PROVE IInv'
<1> USE DEF IInv, Unlock, Inside
<1>1. entry[c] \in Mutexes /\ UNCHANGED <<refs, entry>>
  BY DEF TypeOK
<1>2. TypeOK'
  BY <1>1 DEF TypeOK
<1>3. CountsExact'
  BY <1>1, SameCounts
<1>4. PointersAgree' /\ KeysApart' /\ NoStaleEntry'
  BY DEF TypeOK, PointersAgree, KeysApart, NoStaleEntry
<1>5. HolderLocks' /\ OneHolder'
  BY <1>1 DEF TypeOK, HolderLocks, OneHolder
<1> QED BY <1>2, <1>3, <1>4, <1>5

LEMMA LeaveIInv == ASSUME IInv, NEW c \in Callers, Leave(c) PROVE IInv'
<1> USE DEF IInv, Inside
\* e and k name the values before the step: entry[c] and key[c] change in it.
<1> PICK e \in Mutexes, k \in Keys : e = entry[c] /\ k = key[c] /\ pc[c] = "leaving"
  BY DEF Leave, TypeOK
<1>1. /\ locks[k] = e
      /\ e \in Mutexes /\ k \in Keys /\ e = entry[c] /\ k = key[c] /\ pc[c] = "leaving"
      /\ refs' = [refs EXCEPT ![e] = @ - 1]
      /\ locks' = IF refs[e] = 1 THEN [locks EXCEPT ![k] = None] ELSE locks
      /\ pc' = [pc EXCEPT ![c] = "idle"]
      /\ key' = [key EXCEPT ![c] = None]
      /\ entry' = [entry EXCEPT ![c] = None]
      /\ UNCHANGED locked
  BY DEF Leave, TypeOK, PointersAgree
<1>2. c \in Users(e) /\ refs[e] = Cardinality(Users(e)) /\ refs[e] \in Nat
  BY <1>1 DEF Users, CountsExact, TypeOK
<1>3. /\ Users(e)' = Users(e) \ {c}
      /\ Cardinality(Users(e) \ {c}) = Cardinality(Users(e)) - 1
      /\ Cardinality(Users(e) \ {c}) \in Nat
  <2>1. Users(e)' = Users(e) \ {c}
    BY <1>1 DEF Users, TypeOK
  <2>2. Cardinality(Users(e) \ {c}) = Cardinality(Users(e)) - 1
    BY <1>2, UsersFinite, FS_RemoveElement
  <2>3. Cardinality(Users(e) \ {c}) \in Nat
    BY UsersFinite, FS_RemoveElement, FS_CardinalityType
  <2> QED BY <2>1, <2>2, <2>3
<1>4. refs[e] - 1 \in Nat
  BY <1>2, <1>3
<1>5. TypeOK'
  BY <1>1, <1>4 DEF TypeOK
<1>6. CountsExact'
  <2> SUFFICES ASSUME NEW m \in Mutexes PROVE refs'[m] = Cardinality(Users(m)')
    BY DEF CountsExact
  <2>1. CASE m = e
    BY <2>1, <1>1, <1>2, <1>3 DEF TypeOK
  <2>2. CASE m # e
    <3>1. Users(m)' = Users(m)
      BY <2>2, <1>1 DEF Users, TypeOK
    <3> QED BY <2>2, <1>1, <3>1 DEF TypeOK, CountsExact
  <2> QED BY <2>1, <2>2
\* The last user sees the count 1; if it is not the last, another one remains.
<1>7. refs[e] = 1 => Users(e) = {c}
  <2>1. ASSUME refs[e] = 1 PROVE Users(e) = {c}
    <3>1. Cardinality(Users(e) \ {c}) = 0
      BY <2>1, <1>2, <1>3
    <3>2. Users(e) \ {c} = {}
      BY <3>1, UsersFinite, FS_RemoveElement, FS_EmptySet
    <3> QED BY <3>2, <1>2
  <2> QED BY <2>1
<1>8. refs[e] # 1 => \E d \in Users(e) : d # c
  <2>1. ASSUME \A d \in Users(e) : d = c PROVE refs[e] = 1
    <3>1. Users(e) = {c}
      BY <2>1, <1>2
    <3> QED BY <3>1, <1>2, FS_Singleton
  <2> QED BY <2>1
<1>9. PointersAgree'
  <2> SUFFICES ASSUME NEW d \in Callers, Inside(d)' PROVE locks'[key'[d]] = entry'[d]
    BY DEF PointersAgree
  <2>1. d # c /\ key'[d] = key[d] /\ entry'[d] = entry[d] /\ locks[key[d]] = entry[d] /\ key[d] \in Keys
    BY <1>1 DEF TypeOK, PointersAgree
  <2>2. CASE refs[e] = 1
    <3>1. entry[d] # e
      BY <2>1, <2>2, <1>7 DEF Users
    <3>2. key[d] # k
      BY <3>1, <2>1, <1>1
    <3> QED BY <2>1, <3>2, <1>1 DEF TypeOK
  <2>3. CASE refs[e] # 1
    BY <2>1, <2>3, <1>1
  <2> QED BY <2>2, <2>3
<1>10. KeysApart'
  BY <1>1 DEF KeysApart, TypeOK
<1>11. NoStaleEntry'
  <2> SUFFICES ASSUME NEW j \in Keys, locks'[j] # None
               PROVE  \E d \in Callers : Inside(d)' /\ key'[d] = j
    BY DEF NoStaleEntry
  <2>1. locks[j] # None
    BY <1>1 DEF TypeOK
  <2>2. CASE j = k
    <3>1. refs[e] # 1
      BY <2>2, <1>1 DEF TypeOK
    <3>2. PICK d \in Users(e) : d # c
      BY <3>1, <1>8
    <3>3. d \in Callers /\ Inside(d) /\ locks[key[d]] = e
      BY <3>2, <1>1 DEF Users, TypeOK, PointersAgree
    <3>4. key[d] = k
      BY <3>3, <1>1 DEF KeysApart, TypeOK
    <3> QED BY <3>2, <3>3, <3>4, <2>2, <1>1 DEF TypeOK
  <2>3. CASE j # k
    <3>1. PICK d \in Callers : Inside(d) /\ key[d] = j
      BY <2>1 DEF NoStaleEntry
    <3> QED BY <3>1, <2>3, <1>1 DEF TypeOK
  <2> QED BY <2>2, <2>3
<1>12. HolderLocks' /\ OneHolder'
  BY <1>1 DEF TypeOK, HolderLocks, OneHolder
<1> QED BY <1>5, <1>6, <1>9, <1>10, <1>11, <1>12

LEMMA NextIInv == IInv /\ [Next]_vars => IInv'
<1> SUFFICES ASSUME IInv, [Next]_vars PROVE IInv'
  OBVIOUS
<1>1. ASSUME NEW c \in Callers, NEW k \in Keys, Join(c, k) PROVE IInv'
  BY <1>1, JoinIInv
<1>2. ASSUME NEW c \in Callers, NEW k \in Keys, Create(c, k) PROVE IInv'
  BY <1>2, CreateIInv
<1>3. ASSUME NEW c \in Callers, Acquire(c) PROVE IInv'
  BY <1>3, AcquireIInv
<1>4. ASSUME NEW c \in Callers, Unlock(c) PROVE IInv'
  BY <1>4, UnlockIInv
<1>5. ASSUME NEW c \in Callers, Leave(c) PROVE IInv'
  BY <1>5, LeaveIInv
<1>6. CASE UNCHANGED vars
  <2>1. CountsExact'
    BY <1>6, SameCounts DEF vars, IInv
  <2> QED
    BY <1>6, <2>1 DEF vars, IInv, TypeOK, PointersAgree, KeysApart, HolderLocks, OneHolder,
                      NoStaleEntry, Inside
<1> QED BY <1>1, <1>2, <1>3, <1>4, <1>5, <1>6 DEF Next

\* The inductive invariant of ConvLock holds in every reachable state.
THEOREM Invariance == Spec => []IInv
<1> QED BY InitIInv, NextIInv, PTL DEF Spec

LEMMA IInvExcludes == IInv => MutualExclusion
BY DEF IInv, PointersAgree, OneHolder, MutualExclusion, Inside

\* Two callers are never between Lock and unlock of convlock.Locks for one key.
THEOREM LockExcludes == Spec => []MutualExclusion
<1> QED BY Invariance, IInvExcludes, PTL

LEMMA IInvParts == IInv => TypeOK /\ NoStaleEntry
BY DEF IInv

\* The table, the counts of its entries and what each caller remembers between
\* Lock and unlock have their types: no count falls below zero.
THEOREM LockTypeCorrect == Spec => []TypeOK
<1> QED BY Invariance, IInvParts, PTL

\* The table of convlock.Locks has an entry for a key only while some caller is
\* between Lock and the end of unlock for it: the map does not grow with every
\* conversation there has been.
THEOREM LockTableIsTrimmed == Spec => []NoStaleEntry
<1> QED BY Invariance, IInvParts, PTL

-----------------------------------------------------------------------------
(***************************************************************************)
(* Refinement.  Holds(c, k) is unique for a key, so the CHOOSE in ownerBar *)
(* denotes the holder.                                                     *)
(***************************************************************************)
Holds(c, k) == pc[c] = "held" /\ key[c] = k

LEMMA OwnerIsHolder ==
  ASSUME IInv
  PROVE  /\ \A c \in Callers, k \in Keys : ownerBar[k] = c <=> Holds(c, k)
         /\ \A k \in Keys : ownerBar[k] = None <=> \A c \in Callers : ~Holds(c, k)
<1> USE DEF Holds
<1>1. MutualExclusion
  BY IInvExcludes
<1>2. ASSUME NEW k \in Keys, NEW c \in Callers, Holds(c, k) PROVE ownerBar[k] = c
  BY <1>1, <1>2 DEF ownerBar, MutualExclusion
<1>3. ASSUME NEW k \in Keys, \A c \in Callers : ~Holds(c, k) PROVE ownerBar[k] = None
  BY <1>3 DEF ownerBar
<1> QED BY <1>2, <1>3

LEMMA OwnerPrime ==
  ASSUME IInv'
  PROVE  /\ \A c \in Callers, k \in Keys : ownerBar'[k] = c <=> Holds(c, k)'
         /\ \A k \in Keys : ownerBar'[k] = None <=> \A c \in Callers : ~Holds(c, k)'
         /\ \A k \in Keys : ownerBar'[k] \in Callers \cup {None}
<1> USE DEF Holds
<1>1. MutualExclusion'
  BY IInvExcludes, PTL
<1>2. ASSUME NEW k \in Keys, NEW c \in Callers, Holds(c, k)' PROVE ownerBar'[k] = c
  BY <1>1, <1>2 DEF ownerBar, MutualExclusion
<1>3. ASSUME NEW k \in Keys, \A c \in Callers : ~Holds(c, k)' PROVE ownerBar'[k] = None
  BY <1>3 DEF ownerBar
<1> QED BY <1>2, <1>3

\* The owners after a step, from who holds what after it.
LEMMA OwnersAfter ==
  ASSUME IInv, IInv', NEW new,
         new \in [Keys -> Callers \cup {None}],
         \A c \in Callers, k \in Keys : Holds(c, k)' <=> new[k] = c
  PROVE  ownerBar' = new
<1>1. ASSUME NEW k \in Keys PROVE ownerBar'[k] = new[k]
  BY OwnerPrime
<1>2. ownerBar' = [k \in Keys |-> ownerBar'[k]]
  BY DEF ownerBar
<1> QED BY <1>1, <1>2

LEMMA OwnerType == ASSUME IInv PROVE ownerBar \in [Keys -> Callers \cup {None}]
<1>1. ASSUME NEW k \in Keys PROVE ownerBar[k] \in Callers \cup {None}
  BY OwnerIsHolder
<1> QED BY <1>1 DEF ownerBar

LEMMA EnterRefines ==
  ASSUME IInv, IInv', NEW c \in Callers, NEW k \in Keys,
         pc[c] = "idle", pc' = [pc EXCEPT ![c] = "waiting"], key' = [key EXCEPT ![c] = k]
  PROVE  Abstract!Ask(c, k)
<1> USE DEF IInv, TypeOK, Holds
<1>1. wantsBar[c] = None
  BY DEF wantsBar
<1>2. \A j \in Keys : ownerBar[j] # c
  BY OwnerIsHolder
<1>3. wantsBar' = [wantsBar EXCEPT ![c] = k]
  BY DEF wantsBar
<1>4. ownerBar' = ownerBar
  <2>1. \A d \in Callers, j \in Keys : Holds(d, j)' <=> ownerBar[j] = d
    BY OwnerIsHolder
  <2> QED BY <2>1, OwnersAfter, OwnerType
<1> QED BY <1>1, <1>2, <1>3, <1>4 DEF Abstract!Ask

LEMMA AcquireRefines ==
  ASSUME IInv, IInv', NEW c \in Callers, Acquire(c)
  PROVE  key[c] \in Keys /\ Abstract!Take(c, key[c])
<1> USE DEF IInv, TypeOK, Holds, Acquire
<1>1. key[c] \in Keys /\ wantsBar[c] = key[c]
  BY DEF wantsBar, Inside
<1>2. ownerBar[key[c]] = None
  <2>1. ASSUME NEW d \in Callers, Holds(d, key[c]) PROVE FALSE
    <3>1. entry[d] = entry[c]
      BY <2>1 DEF PointersAgree, Inside
    <3> QED BY <2>1, <3>1 DEF HolderLocks
  <2> QED BY <2>1, <1>1, OwnerIsHolder
<1>3. wantsBar' = [wantsBar EXCEPT ![c] = None]
  BY DEF wantsBar
<1>4. ownerBar' = [ownerBar EXCEPT ![key[c]] = c]
  <2> DEFINE new == [ownerBar EXCEPT ![key[c]] = c]
  <2>1. new \in [Keys -> Callers \cup {None}]
    BY OwnerType
  <2>2. \A d \in Callers, j \in Keys : Holds(d, j)' <=> new[j] = d
    BY OwnerIsHolder, OwnerType, <1>1, <1>2
  <2> HIDE DEF new
  <2>3. ownerBar' = new
    BY <2>1, <2>2, OwnersAfter
  <2> QED BY <2>3 DEF new
<1> QED BY <1>1, <1>2, <1>3, <1>4 DEF Abstract!Take

LEMMA UnlockRefines ==
  ASSUME IInv, IInv', NEW c \in Callers, Unlock(c)
  PROVE  key[c] \in Keys /\ Abstract!Release(c, key[c])
<1> USE DEF IInv, TypeOK, Holds, Unlock
<1>1. key[c] \in Keys /\ ownerBar[key[c]] = c
  BY OwnerIsHolder DEF Inside
<1>2. wantsBar' = wantsBar
  BY DEF wantsBar
<1>3. ownerBar' = [ownerBar EXCEPT ![key[c]] = None]
  <2> DEFINE new == [ownerBar EXCEPT ![key[c]] = None]
  <2>1. new \in [Keys -> Callers \cup {None}]
    BY OwnerType
  <2>2. \A d \in Callers, j \in Keys : Holds(d, j)' <=> new[j] = d
    BY OwnerIsHolder, OwnerType, <1>1
  <2> HIDE DEF new
  <2>3. ownerBar' = new
    BY <2>1, <2>2, OwnersAfter
  <2> QED BY <2>3 DEF new
<1> QED BY <1>1, <1>2, <1>3 DEF Abstract!Release

LEMMA LeaveRefines ==
  ASSUME IInv, IInv', NEW c \in Callers, Leave(c)
  PROVE  UNCHANGED <<ownerBar, wantsBar>>
<1> USE DEF IInv, TypeOK, Holds, Leave
<1>1. wantsBar' = wantsBar
  BY DEF wantsBar
<1>2. \A d \in Callers, j \in Keys : Holds(d, j)' <=> ownerBar[j] = d
  BY OwnerIsHolder
<1>3. ownerBar' = ownerBar
  BY <1>2, OwnersAfter, OwnerType
<1> QED BY <1>1, <1>3

\* The reference-counted table implements the keyed mutex: what users of
\* convlock.Locks may assume is KeyedMutex and nothing about its entries.
THEOREM ConvLockImplementsKeyedMutex == Spec => ImplementsKeyedMutex
<1>1. Init => Abstract!Init
  BY DEF Init, Abstract!Init, ownerBar, wantsBar
<1>2. IInv /\ IInv' /\ [Next]_vars => [Abstract!Next]_(Abstract!mutexVars)
  <2> SUFFICES ASSUME IInv, IInv', [Next]_vars
               PROVE  Abstract!Next \/ UNCHANGED <<ownerBar, wantsBar>>
    BY DEF Abstract!mutexVars
  <2>1. ASSUME NEW c \in Callers, NEW k \in Keys, Join(c, k) \/ Create(c, k)
        PROVE  Abstract!Next
    BY <2>1, EnterRefines DEF Join, Create, Abstract!Next
  <2>2. ASSUME NEW c \in Callers, Acquire(c) PROVE Abstract!Next
    BY <2>2, AcquireRefines DEF Abstract!Next
  <2>3. ASSUME NEW c \in Callers, Unlock(c) PROVE Abstract!Next
    BY <2>3, UnlockRefines DEF Abstract!Next
  <2>4. ASSUME NEW c \in Callers, Leave(c) PROVE UNCHANGED <<ownerBar, wantsBar>>
    BY <2>4, LeaveRefines
  <2>5. CASE UNCHANGED vars
    BY <2>5 DEF vars, ownerBar, wantsBar
  <2> QED BY <2>1, <2>2, <2>3, <2>4, <2>5 DEF Next
<1> QED BY <1>1, <1>2, Invariance, PTL DEF Spec, Abstract!Spec, ImplementsKeyedMutex
=============================================================================
