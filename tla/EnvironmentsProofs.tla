-------------------------- MODULE EnvironmentsProofs --------------------------
(***************************************************************************)
(* Proofs about Environments, for any number of requests, replicas, jobs,  *)
(* conversations, reapers and boots.                                       *)
(***************************************************************************)
EXTENDS Environments, TLAPS

USE SettingsAssumption, ProfileAssumption, BoundsAssumption, RolesAssumption, DistinctAssumption

-----------------------------------------------------------------------------
(* Types.                                                                  *)

LEMMA InitTypeOK == Init => TypeOK
<1> SUFFICES ASSUME Init PROVE TypeOK
  OBVIOUS
<1>1. /\ pc = [t \in Threads |-> "idle"] /\ cmd = [t \in Threads |-> "none"]
      /\ arg = [t \in Threads |-> 0] /\ for = [j \in Jobs |-> None] /\ uses = [t \in Turns |-> 0]
      /\ lock = None /\ commands = [k \in DOMAIN Expected |-> 0]
  BY DEF Init
<1>0. unheeded \in BOOLEAN
  <2>1. unheeded = FALSE
    BY DEF Init
  <2>. QED
    BY <2>1, Zenon
<1>2. /\ setting \in Settings /\ errors = 0 /\ crashes = 0 /\ vanishes = 0
      /\ errors <= setting.errors /\ crashes <= setting.crashes /\ vanishes <= setting.vanishes
  BY DEF Init
<1>3. /\ status = "none" /\ ref = 0 /\ refs = 0 /\ box = NoBox
      /\ {deleted, pending, active, volume} \subseteq BOOLEAN
  BY DEF Init
<1>. QED
  BY <1>0, <1>1, <1>2, <1>3 DEF TypeOK, Points

\* Where an actor goes when its work is over.
LEMMA OverType == \A t \in Threads : Over(t) \in {"idle", "done"}
BY DEF Over

LEMMA RequestTypes ==
  ASSUME TypeOK, Stations, NEW t \in Threads, Request(t) PROVE TypeOK'
<1> USE DEF TypeOK, Points, Goto, Hold, rowVars, dockerVars, localVars, faultVars
<1>1. CASE Create(t)
  BY <1>1 DEF Create, Transitional
<1>2. CASE Ask(t, "start") \/ Ask(t, "stop")
  BY <1>2 DEF Ask
<1>3. CASE Restart(t)
  BY <1>3 DEF Restart
<1>4. CASE Delete(t)
  BY <1>4 DEF Delete
<1>5. CASE ChangePorts(t)
  BY <1>5 DEF ChangePorts
<1>. QED
  BY <1>1, <1>2, <1>3, <1>4, <1>5 DEF Request

LEMMA WriteTypes ==
  ASSUME TypeOK, Stations, NEW t \in Threads, Write(t) PROVE TypeOK'
<1> USE DEF TypeOK, Points, Goto, Hold, rowVars, dockerVars, localVars, faultVars
<1>0. Station(t, pc[t], cmd[t])
  BY DEF Stations
<1>1. CASE Mark(t)
  <2>1. cmd[t] \in {"start", "stop"}
    BY <1>0, <1>1 DEF Mark, Station, Threads, Workers
  <2>. QED
    BY <1>1, <2>1 DEF Mark, Expected, Transitional
<1>2. CASE Append(t)
  <2>1. cmd[t] \in {"create", "start", "stop"}
    BY <1>0, <1>2 DEF Append, Station, Threads, Workers
  <2>. QED
    BY <1>2, <2>1 DEF Append, Expected
<1>3. CASE AppendFails(t) \/ PersistFails(t) \/ StopContainerFails(t)
  BY <1>3 DEF AppendFails, PersistFails, StopContainerFails, Erring, Err
<1>4. CASE Persist(t)
  BY <1>4, OverType DEF Persist
<1>5. CASE Touch(t)
  BY <1>5, OverType DEF Touch
<1>9. CASE ClearPending(t)
  BY <1>9, OverType DEF ClearPending
<1>6. CASE Fail(t)
  BY <1>6, OverType DEF Fail
<1>7. CASE StopContainer(t)
  <2>1. box' \in {box} \cup [ref : 1..Lifespan, up : BOOLEAN, prof : Profiles \cup {Bare}]
    BY <1>7 DEF StopContainer
  <2>. QED
    BY <1>7, <2>1 DEF StopContainer
<1>8. CASE RemoveContainer(t)
  BY <1>8 DEF RemoveContainer
<1>10. CASE WriteStopped(t)
  BY <1>10, OverType DEF WriteStopped
<1>12. CASE SoftDelete(t)
  BY <1>12 DEF SoftDelete
<1>11. CASE RemoveVolume(t)
  BY <1>11 DEF RemoveVolume
<1>. QED
  BY <1>1, <1>2, <1>3, <1>4, <1>5, <1>6, <1>7, <1>8, <1>9, <1>10, <1>11, <1>12
  DEF Write

LEMMA CommandTypes ==
  ASSUME TypeOK, Stations, NEW t \in Threads, Command(t) PROVE TypeOK'
<1> USE DEF TypeOK, Points, Goto, Hold, rowVars, dockerVars, localVars, faultVars
<1>0. Station(t, pc[t], cmd[t])
  BY DEF Stations
<1>1. ASSUME NEW k \in DOMAIN Expected, Receive(t, k) PROVE TypeOK'
  BY <1>1 DEF Receive, Expected
<1>2. CASE Check(t)
  BY <1>2 DEF Check
<1>3. CASE DecryptFails(t)
  BY <1>3, OverType DEF DecryptFails, Erring, Err
<1>4. ASSUME NEW j \in Jobs, Call(t, j) PROVE TypeOK'
  <2>1. t \in Calls \cup Replicas /\ cmd[t] \in {"create", "start", "restart"} /\ j \in Threads
    BY <1>0, <1>4 DEF Call, Station, Threads, Workers
  <2>2. FirstStep[cmd[t]] \in {"building", "locking", "removing"}
    BY <2>1 DEF FirstStep
  <2>. QED
    BY <1>4, <2>1, <2>2 DEF Call
<1>5. CASE GiveUp(t)
  <2>1. errors' \in Nat /\ errors' <= setting.errors /\ UNCHANGED <<setting, crashes, vanishes, unheeded>>
    BY <1>5 DEF GiveUp, Erring, Err
  <2>2. for' \in [Jobs -> Calls \cup Replicas \cup {None}]
    BY <1>5 DEF GiveUp
  <2>. QED
    BY <1>5, <2>1, <2>2 DEF GiveUp
<1>. QED
  BY <1>1, <1>2, <1>3, <1>4, <1>5 DEF Command

\* What a finished or failed piece of work leaves has its types.
LEMMA FinishTypes ==
  ASSUME TypeOK, NEW t \in Workers, NEW new \in 0..Lifespan, Finish(t, new),
         volume' \in BOOLEAN, UNCHANGED faultVars, refs' \in 0..Lifespan,
         box' \in {NoBox} \cup [ref : 1..Lifespan, up : BOOLEAN, prof : Profiles \cup {Bare}]
  PROVE  TypeOK'
<1> USE DEF TypeOK
<1>1. t \in Threads /\ arg[t] \in 0..Lifespan
  BY DEF Threads
<1>2. pc' \in [Threads -> Points]
  BY DEF Finish, Points
<1>3. arg' \in [Threads -> 0..Lifespan]
  BY DEF Finish
<1>4. uses' \in [Turns -> 0..Lifespan]
  BY <1>1 DEF Finish
<1>5. for' \in [Jobs -> Calls \cup Replicas \cup {None}] /\ lock' \in Workers \cup {None}
  BY DEF Finish
<1>6. UNCHANGED <<rowVars, commands, cmd>>
  BY DEF Finish
<1>. QED
  BY <1>2, <1>3, <1>4, <1>5, <1>6 DEF rowVars, faultVars

LEMMA BreakTypes ==
  ASSUME TypeOK, NEW t \in Workers, NEW gone \in BOOLEAN, Break(t, gone), volume' \in BOOLEAN,
         UNCHANGED <<box, refs, setting, crashes, vanishes, unheeded>>,
         errors' \in Nat, errors' <= setting.errors
  PROVE  TypeOK'
<1> USE DEF TypeOK
<1>1. pc' \in [Threads -> Points]
  BY OverType DEF Break, Points, Threads
<1>2. arg' \in [Threads -> 0..Lifespan]
  BY DEF Break
<1>3. for' \in [Jobs -> Calls \cup Replicas \cup {None}] /\ lock' \in Workers \cup {None}
  BY DEF Break
<1>4. UNCHANGED <<rowVars, commands, cmd, uses>>
  BY DEF Break
<1>. QED
  BY <1>1, <1>2, <1>3, <1>4 DEF rowVars

LEMMA WorkTypes ==
  ASSUME TypeOK, Stations, NEW t \in Threads, Work(t) PROVE TypeOK'
<1> USE DEF TypeOK, Points, Goto, Hold, rowVars, dockerVars, localVars, faultVars
<1>0. Station(t, pc[t], cmd[t])
  BY DEF Stations
<1>1. CASE Lock(t)
  <2>1. t \in Workers
    BY <1>0, <1>1 DEF Lock, Station, Threads, Workers
  <2>. QED
    BY <1>1, <2>1 DEF Lock
<1>2. CASE TryLock(t)
  <2>1. t \in Workers
    BY <1>0, <1>2 DEF TryLock, Station, Threads, Workers
  <2>. QED
    BY <1>2, <2>1 DEF TryLock
<1>3. CASE Reread(t)
  BY <1>3 DEF Reread
<1>4. CASE RereadAttach(t)
  BY <1>4 DEF RereadAttach
<1>5. CASE ClearName(t)
  BY <1>5 DEF ClearName
<1>6. CASE Claim(t)
  BY <1>6 DEF Claim
<1>7. ASSUME pc[t] \in {"locking", "starting", "removing", "healing", "building"} PROVE t \in Workers
  BY <1>0, <1>7 DEF Station, Threads, Workers
<1>8. CASE StartContainer(t)
  <2>1. t \in Workers
    BY <1>7, <1>8 DEF StartContainer
  <2>2. \/ Finish(t, 0) /\ box' = [box EXCEPT !.up = TRUE] /\ box # NoBox
        \/ Break(t, TRUE) /\ UNCHANGED box
        \/ /\ pc' \in {[pc EXCEPT ![t] = "removing"], [pc EXCEPT ![t] = "healing"]}
           /\ UNCHANGED <<rowVars, box, commands, lock, localVars>>
    BY <1>8 DEF StartContainer
  <2>3. UNCHANGED <<volume, refs, faultVars>>
    BY <1>8 DEF StartContainer
  <2>. HIDE DEF TypeOK
  <2>4. CASE Finish(t, 0) /\ box' = [box EXCEPT !.up = TRUE] /\ box # NoBox
    <3>1. box' \in {NoBox} \cup [ref : 1..Lifespan, up : BOOLEAN, prof : Profiles \cup {Bare}]
      BY <2>4 DEF TypeOK
    <3>2. refs' \in 0..Lifespan /\ 0 \in 0..Lifespan /\ volume' \in BOOLEAN
      BY <2>3 DEF TypeOK
    <3>. QED
      BY <2>1, <2>3, <2>4, <3>1, <3>2, FinishTypes
  <2>5. CASE Break(t, TRUE) /\ UNCHANGED box
    <3>1. volume' \in BOOLEAN /\ errors' \in Nat /\ errors' <= setting.errors
      BY <2>3 DEF TypeOK
    <3>. QED
      BY <2>1, <2>3, <2>5, <3>1, BreakTypes
  <2>6. CASE /\ pc' \in {[pc EXCEPT ![t] = "removing"], [pc EXCEPT ![t] = "healing"]}
             /\ UNCHANGED <<rowVars, box, commands, lock, localVars>>
    BY <2>3, <2>6 DEF TypeOK
  <2>. QED
    BY <2>2, <2>4, <2>5, <2>6
<1>9. CASE Build(t)
  <2>1. t \in Workers
    BY <1>7, <1>9 DEF Build
  <2>. HIDE DEF TypeOK
  <2>2. CASE /\ refs < Lifespan /\ refs' = refs + 1
             /\ box' = [ref |-> refs + 1, up |-> TRUE, prof |-> Wants(t)]
             /\ volume' = TRUE /\ Finish(t, refs + 1) /\ UNCHANGED faultVars
    <3>1. refs + 1 \in 1..Lifespan /\ Wants(t) \in Profiles \cup {Bare}
      BY <2>2 DEF TypeOK, Wants
    <3>2. box' \in {NoBox} \cup [ref : 1..Lifespan, up : BOOLEAN, prof : Profiles \cup {Bare}]
      BY <2>2, <3>1
    <3>. QED
      BY <2>1, <2>2, <3>1, <3>2, FinishTypes
  <2>3. CASE /\ Break(t, FALSE) /\ UNCHANGED <<box, refs>> /\ UNCHANGED faultVars
             /\ volume' = (volume /\ (cmd[t] # "create" \/ box # NoBox))
    <3>1. volume' \in BOOLEAN /\ errors' \in Nat /\ errors' <= setting.errors
      BY <2>3 DEF TypeOK
    <3>. QED
      BY <2>1, <2>3, <3>1, BreakTypes
  <2>. QED
    BY <1>9, <2>2, <2>3 DEF Build
<1>10. CASE StartFails(t)
  <2>1. t \in Workers
    BY <1>7, <1>10 DEF StartFails
  <2>2. errors' \in Nat /\ errors' <= setting.errors /\ volume' \in BOOLEAN
    BY <1>10 DEF StartFails, Erring, Err
  <2>. QED
    BY <1>10, <2>1, <2>2, BreakTypes DEF StartFails, Erring, Err
<1>. QED
  BY <1>1, <1>2, <1>3, <1>4, <1>5, <1>6, <1>8, <1>9, <1>10 DEF Work

\* What an actor goes on to when its call fails and nothing is written down.
Lost(t, p) ==
  \/ /\ t \in Calls
     /\ \/ pc[t] \in {"marking", "dropping", "failing", "clearing"} /\ p = "done"
        \/ pc[t] = "deleting" /\ p = "failing"
        \/ pc[t] = "touching" /\ cmd[t] = "restart" /\ p = "clearing"
  \/ /\ t \in Replicas
     /\ \/ pc[t] \in {"checking", "failing", "clearing"} /\ p = "idle"
        \/ pc[t] = "stopped" /\ p = "failing"
        \/ pc[t] = "touching" /\ cmd[t] = "restart" /\ p = "clearing"
        \/ pc[t] = "touching" /\ cmd[t] = "start" /\ p = "idle"
  \/ /\ t \in Reapers
     /\ \/ pc[t] \in {"reaping", "touching", "stopped", "failing"} /\ p = "idle"
        \/ pc[t] = "sparing" /\ p = "touching"
  \/ /\ t \in Turns
     /\ \/ pc[t] \in {"locking", "reading", "failing", "working"} /\ p = "done"
        \/ pc[t] = "claiming" /\ p = "touching"
        \/ pc[t] = "touching" /\ p = "working"
  \/ /\ t \in Reconcilers
     /\ \/ pc[t] \in {"trying", "claiming", "failing"} /\ p = "done"
        \/ pc[t] = "reading" /\ p = "starting"
  \/ t \in Jobs /\ pc[t] = "reading" /\ p = "starting"

LEMMA Losing ==
  ASSUME Stations, NEW t \in Threads, Lose(t) PROVE \E p : Lost(t, p) /\ Unwritten(t, pc[t], p)
<1>1. Station(t, pc[t], cmd[t])
  BY DEF Stations
<1>2. PICK f, p : /\ Unwritten(t, f, p)
                  /\ \/ f \in {"marking", "dropping", "working"} /\ p = "done"
                     \/ f = "deleting" /\ p = "failing"
                     \/ f \in {"checking", "reaping"} /\ p = "idle"
                     \/ f = "touching" /\ p = IF t \in Turns THEN "working"
                                              ELSE IF cmd[t] = "restart" THEN "clearing" ELSE Over(t)
                     \/ f \in {"clearing", "failing"} /\ p = Over(t)
                     \/ f = "stopped" /\ p = IF t \in Replicas THEN "failing" ELSE "idle"
                     \/ f = "locking" /\ t \in Turns /\ p = "done"
                     \/ f = "trying" /\ p = "done"
                     \/ f = "reading" /\ p = IF t \in Turns THEN "done" ELSE "starting"
                     \/ f = "claiming" /\ p = IF t \in Turns THEN "touching" ELSE "done"
                     \/ f = "sparing" /\ p = "touching"
  BY DEF Lose, MarkFails, RemoveContainerFails, SoftDeleteFails, CheckFails, TouchFails,
         ClearPendingFails, FailFails, WriteStoppedFails, LockFails, RereadFails, ClaimFails,
         EndTurnFails, ClaimStopFails, SpareFails
<1>3. f = pc[t]
  BY <1>2 DEF Unwritten, Goto
<1>4. Lost(t, p)
  BY <1>1, <1>2, <1>3 DEF Lost, Station, Over, Threads, Workers
<1>. QED
  BY <1>2, <1>3, <1>4

LEMMA LoseTypes ==
  ASSUME TypeOK, Stations, NEW t \in Threads, Lose(t) PROVE TypeOK'
<1>1. PICK p : Lost(t, p) /\ Unwritten(t, pc[t], p)
  BY Losing
<1>2. p \in Points
  BY <1>1 DEF Lost, Points
<1>. QED
  BY <1>1, <1>2 DEF Unwritten, Err, Goto, TypeOK, rowVars, dockerVars

LEMMA NextTypes == ASSUME TypeOK, Stations, [Next]_vars PROVE TypeOK'
<1> USE DEF TypeOK, Points, Goto, Hold, rowVars, dockerVars, localVars, faultVars
<1>1. ASSUME NEW t \in Threads, Turn(t) PROVE TypeOK'
  <2>1. CASE Attach(t)
    BY <2>1 DEF Attach
  <2>2. CASE EndTurn(t)
    <3>1. 0 \in 0..Lifespan /\ uses \in [Turns -> 0..Lifespan] /\ uses' = [uses EXCEPT ![t] = 0]
      BY <2>2 DEF EndTurn
    <3>2. uses' \in [Turns -> 0..Lifespan]
      BY ONLY <3>1
    <3>. QED
      BY <2>2, <3>2 DEF EndTurn
  <2>. QED
    BY <1>1, <2>1, <2>2 DEF Turn
<1>2. ASSUME NEW t \in Threads, Reap(t) PROVE TypeOK'
  <2>1. CASE List(t)
    BY <2>1 DEF List
  <2>2. CASE ClaimStop(t)
    BY <2>2 DEF ClaimStop, Transitional
  <2>3. CASE Probe(t)
    BY <2>3 DEF Probe
  <2>4. CASE Spare(t)
    BY <2>4 DEF Spare
  <2>. QED
    BY <1>2, <2>1, <2>2, <2>3, <2>4 DEF Reap
<1>3. ASSUME NEW t \in Threads, Reconcile(t) PROVE TypeOK'
  BY <1>3 DEF Reconcile
<1>4. ASSUME NEW t \in Threads, Crash(t) PROVE TypeOK'
  <2>1. pc' \in [Threads -> Points] /\ lock' \in Workers \cup {None}
        /\ for' \in [Jobs -> Calls \cup Replicas \cup {None}] /\ uses' \in [Turns -> 0..Lifespan]
    BY <1>4, OverType DEF Crash
  <2>2. commands' \in [DOMAIN Expected -> Nat]
    <3>1. CASE t \in Replicas
      <4>1. cmd[t] \in {"create", "start", "stop", "restart"}
        BY <1>4, <3>1 DEF Crash, Stations, Station
      <4>. QED
        BY <1>4, <3>1, <4>1 DEF Crash, Expected
    <3>2. CASE t \notin Replicas
      BY <1>4, <3>2 DEF Crash
    <3>. QED
      BY <3>1, <3>2
  <2>. QED
    BY <1>4, <2>1, <2>2 DEF Crash
<1>5. CASE Quiet
  BY <1>5 DEF Quiet
<1>6. CASE Vanish
  BY <1>6 DEF Vanish
<1>7. CASE UNCHANGED vars
  BY <1>7 DEF vars
<1>. QED
  BY <1>1, <1>2, <1>3, <1>4, <1>5, <1>6, <1>7, RequestTypes, WriteTypes, CommandTypes, WorkTypes,
     LoseTypes
  DEF Next

-----------------------------------------------------------------------------
(* Actors.                                                                 *)

ActorsKept == Stations' /\ Served' /\ LockHeld' /\ Housed'

\* The container is the one it was, or none.
SameBox == box'.ref = 0 \/ (box'.ref = box.ref /\ box'.prof = box.prof)

\* An actor takes a step that is only its own: it is no job that answers, and no
\* turn that finds its container.
LEMMA Moved ==
  ASSUME ActorsInv, NEW t \in Threads, NEW p, NEW k,
         pc' = [pc EXCEPT ![t] = p], cmd' = [cmd EXCEPT ![t] = k], Station(t, p, k),
         for' = for, pc[t] # "waiting", t \in Jobs => p # "idle",
         \A u \in Workers : lock' = u <=> IF u = t THEN Locking(t, p, k) ELSE lock = u,
         UNCHANGED <<uses, refs>>, SameBox,
         t \in Turns => p # "claiming" /\ (p = "touching" => pc[t] = "claiming")
                                     /\ (p = "working" => pc[t] = "touching")
  PROVE  ActorsKept
<1> USE DEF ActorsInv
<1>0. pc \in [Threads -> Points] /\ cmd \in [Threads -> {"none", "create", "start", "stop", "restart"}]
  BY DEF TypeOK
<1>1. Stations'
  BY <1>0 DEF Stations, Station
<1>2. Served'
  <2>1. \A j \in Jobs : for[j] # None => for[j] \in Threads /\ j \in Threads
    BY DEF TypeOK, Threads, Workers
  <2>. QED
    BY <1>0, <2>1 DEF Served
<1>3. LockHeld'
  BY <1>0 DEF LockHeld, Locking, Workers, Threads
<1>4. Housed'
  <2>1. refs \in Nat /\ box.ref <= refs
    BY DEF TypeOK, Housed
  <2>2. box'.ref <= refs'
    BY <2>1 DEF SameBox
  <2>3. \A u \in Turns : pc'[u] \in {"claiming", "touching", "working"} =>
          pc[u] \in {"claiming", "touching", "working"}
    BY <1>0 DEF Threads, Workers
  <2>4. \A u \in Turns : pc[u] \in {"claiming", "touching", "working"} =>
          uses[u] \in 1..refs' /\ (uses[u] = box'.ref => box'.prof = Profile[u])
    BY <2>1 DEF Housed, SameBox
  <2>. QED
    BY <2>2, <2>3, <2>4 DEF Housed
<1>. QED
  BY <1>1, <1>2, <1>3, <1>4 DEF ActorsKept

\* ... and does not touch the lock.
LEMMA Strode ==
  ASSUME ActorsInv, NEW t \in Threads, NEW p, NEW k,
         pc' = [pc EXCEPT ![t] = p], cmd' = [cmd EXCEPT ![t] = k], Station(t, p, k),
         for' = for, pc[t] # "waiting", t \in Jobs => p # "idle",
         lock' = lock, Locking(t, p, k) <=> Locking(t, pc[t], cmd[t]),
         UNCHANGED <<uses, refs>>, SameBox,
         t \in Turns => p # "claiming" /\ (p = "touching" => pc[t] = "claiming")
                                     /\ (p = "working" => pc[t] = "touching")
  PROVE  ActorsKept
<1>1. \A u \in Workers : lock' = u <=> IF u = t THEN Locking(t, p, k) ELSE lock = u
  BY DEF ActorsInv, LockHeld
<1>. QED
  BY <1>1, Moved

\* What is known of an actor before it moves.
LEMMA Known ==
  ASSUME ActorsInv, NEW t \in Threads
  PROVE  /\ Station(t, pc[t], cmd[t])
         /\ cmd = [cmd EXCEPT ![t] = cmd[t]]
BY DEF ActorsInv, Stations, TypeOK

\* Requests, consumers and reapers, when they do nothing but go on.
LEMMA OutsiderStrode ==
  ASSUME ActorsInv, NEW t \in Calls \cup Replicas \cup Reapers, NEW p, NEW k,
         pc' = [pc EXCEPT ![t] = p], cmd' = [cmd EXCEPT ![t] = k], Station(t, p, k),
         UNCHANGED <<for, lock, uses, refs>>, pc[t] # "waiting", SameBox
  PROVE  ActorsKept
<1>1. t \in Threads /\ t \notin Jobs \cup Turns
  BY DEF Threads, Workers
<1>2. ~Locking(t, p, k) /\ ~Locking(t, pc[t], cmd[t])
  BY DEF Locking, Workers
<1>. QED
  BY <1>1, <1>2, Strode

LEMMA RequestActors ==
  ASSUME ActorsInv, NEW t \in Threads, Request(t) PROVE ActorsKept
<1> USE DEF Goto, Hold, rowVars, dockerVars, localVars, faultVars
<1>1. t \in Calls /\ Station(t, pc[t], cmd[t]) /\ cmd = [cmd EXCEPT ![t] = cmd[t]]
  BY Known DEF Request, Create, Ask, Restart, Delete, ChangePorts
<1>2. UNCHANGED <<for, lock, uses, refs>> /\ pc[t] # "waiting" /\ SameBox
  BY DEF Request, Create, Ask, Restart, Delete, ChangePorts, SameBox
<1>3. PICK p \in {"appending", "marking", "calling", "dropping", "deleting", "done"},
           k \in {cmd[t], "create", "start", "stop", "restart"} :
        /\ pc' = [pc EXCEPT ![t] = p] /\ cmd' = [cmd EXCEPT ![t] = k]
        /\ p = "appending" => k = "create"
        /\ p = "marking" => k \in {"start", "stop"}
        /\ p = "calling" => k = "restart"
  <2>1. CASE Create(t)
    BY <2>1 DEF Create
  <2>2. CASE Ask(t, "start") \/ Ask(t, "stop")
    BY <2>2 DEF Ask
  <2>3. CASE Restart(t)
    BY <2>3 DEF Restart
  <2>4. CASE Delete(t)
    BY <1>1, <2>4 DEF Delete
  <2>5. CASE ChangePorts(t)
    BY <1>1, <2>5 DEF ChangePorts
  <2>. QED
    BY <2>1, <2>2, <2>3, <2>4, <2>5 DEF Request
<1>4. Station(t, p, k)
  BY <1>1, <1>3 DEF Station, Workers
<1>. QED
  BY <1>1, <1>2, <1>3, <1>4, OutsiderStrode

LEMMA OutsiderWriteActors ==
  ASSUME ActorsInv, NEW t \in Calls \cup Replicas \cup Reapers, Write(t) PROVE ActorsKept
<1> USE DEF Goto, Hold, Erring, Err, rowVars, dockerVars, localVars, faultVars
<1>0. t \in Threads /\ t \notin Workers
  BY DEF Threads
<1>1. Station(t, pc[t], cmd[t]) /\ cmd = [cmd EXCEPT ![t] = cmd[t]] /\ Over(t) \in {"idle", "done"}
  BY <1>0, Known, OverType
<1>2. UNCHANGED <<for, uses, refs, cmd>> /\ pc[t] # "waiting"
  BY DEF Write, Mark, Append, AppendFails, Persist, PersistFails, Touch, ClearPending, Fail,
         StopContainer, StopContainerFails, WriteStopped, RemoveContainer, RemoveVolume, SoftDelete
<1>3. lock' = lock
  <2>1. lock # t
    BY <1>0 DEF ActorsInv, TypeOK
  <2>. QED
    BY <2>1 DEF Write, Mark, Append, AppendFails, Persist, PersistFails, Touch, ClearPending, Fail,
         StopContainer, StopContainerFails, WriteStopped, RemoveContainer, RemoveVolume, SoftDelete
<1>4. SameBox
  <2>1. CASE StopContainer(t)
    BY <2>1 DEF StopContainer, SameBox, ActorsInv, TypeOK
  <2>2. CASE RemoveContainer(t)
    BY <2>2 DEF RemoveContainer, SameBox, NoBox
  <2>3. CASE box' = box
    BY <2>3 DEF SameBox
  <2>. QED
    BY <2>1, <2>2, <2>3
    DEF Write, Mark, Append, AppendFails, Persist, PersistFails, Touch, ClearPending, Fail,
        StopContainerFails, WriteStopped, RemoveVolume, SoftDelete
<1>5. PICK p : pc' = [pc EXCEPT ![t] = p] /\ Station(t, p, cmd[t])
  <2>1. CASE Mark(t) \/ Append(t) \/ AppendFails(t)
    BY <1>1, <2>1 DEF Mark, Append, AppendFails, Station, Workers
  <2>2. CASE Persist(t)
    BY <1>1, <2>2 DEF Persist, Station, Workers, Over
  <2>3. CASE PersistFails(t)
    BY <1>1, <2>3 DEF PersistFails, Station, Workers
  <2>4. CASE Touch(t)
    BY <1>0, <1>1, <2>4 DEF Touch, Station, Workers, Over
  <2>5. CASE ClearPending(t)
    BY <1>1, <2>5 DEF ClearPending, Station, Workers, Over
  <2>6. CASE Fail(t)
    BY <1>0, <1>1, <2>6 DEF Fail, Station, Workers, Over
  <2>7. CASE StopContainer(t) \/ StopContainerFails(t)
    BY <1>1, <2>7 DEF StopContainer, StopContainerFails, Station, Workers
  <2>8. CASE WriteStopped(t)
    BY <1>1, <2>8 DEF WriteStopped, Station, Workers, Over
  <2>9. CASE RemoveContainer(t) \/ RemoveVolume(t) \/ SoftDelete(t)
    BY <1>1, <2>9 DEF RemoveContainer, RemoveVolume, SoftDelete, Station, Workers
  <2>. QED
    BY <2>1, <2>2, <2>3, <2>4, <2>5, <2>6, <2>7, <2>8, <2>9 DEF Write
<1>. QED
  BY <1>1, <1>2, <1>3, <1>4, <1>5, OutsiderStrode

\* Of these steps an attach takes two and a boot one: they give up the lock.
LEMMA WorkerWriteActors ==
  ASSUME ActorsInv, NEW t \in Workers, Write(t) PROVE ActorsKept
<1> USE DEF Goto, rowVars, dockerVars, localVars, faultVars
<1>0. t \in Threads
  BY DEF Threads
<1>1. Station(t, pc[t], cmd[t]) /\ cmd = [cmd EXCEPT ![t] = cmd[t]]
  BY <1>0, Known
<1>2. \/ t \in Turns /\ Touch(t)
      \/ t \in Turns \cup Reconcilers /\ Fail(t)
  BY <1>1 DEF Write, Mark, Append, AppendFails, Persist, PersistFails, Touch, ClearPending, Fail,
         StopContainer, StopContainerFails, WriteStopped, RemoveContainer, RemoveVolume, SoftDelete,
         Station, Workers
<1>3. PICK p \in {"working", "done"} :
        /\ pc' = [pc EXCEPT ![t] = p] /\ Station(t, p, cmd[t])
        /\ p = "working" => pc[t] = "touching"
        /\ pc[t] # "waiting" /\ t \notin Jobs
        /\ lock' = IF lock = t THEN None ELSE lock
        /\ UNCHANGED <<for, uses, refs, cmd, box>>
  BY <1>1, <1>2 DEF Touch, Fail, Over, Station, Workers
<1>4. \A u \in Workers : lock' = u <=> IF u = t THEN Locking(t, p, cmd[t]) ELSE lock = u
  BY <1>0, <1>3 DEF Locking, Threads
<1>. QED
  BY <1>0, <1>1, <1>3, <1>4, Moved DEF SameBox

LEMMA WriteActors ==
  ASSUME ActorsInv, NEW t \in Threads, Write(t) PROVE ActorsKept
BY OutsiderWriteActors, WorkerWriteActors DEF Threads

LEMMA CallActors ==
  ASSUME ActorsInv, NEW t \in Threads, NEW j \in Jobs, Call(t, j) PROVE ActorsKept
<1> USE DEF Call
<1>0. /\ pc \in [Threads -> Points] /\ cmd \in [Threads -> {"none", "create", "start", "stop", "restart"}]
      /\ for \in [Jobs -> Calls \cup Replicas \cup {None}] /\ j \in Threads
  BY DEF ActorsInv, TypeOK, Threads, Workers
<1>1. Station(t, pc[t], cmd[t])
  BY Known
<1>2. t \in Calls \cup Replicas /\ cmd[t] \in {"create", "start", "restart"} /\ t # j
  BY <1>1 DEF Station, Threads, Workers
<1>3. FirstStep[cmd[t]] = IF cmd[t] = "create" THEN "building"
                          ELSE IF cmd[t] = "start" THEN "locking" ELSE "removing"
  BY <1>2 DEF FirstStep
<1>4. /\ \A u \in Threads \ {t, j} : pc'[u] = pc[u] /\ cmd'[u] = cmd[u]
      /\ pc'[t] = "waiting" /\ cmd'[t] = cmd[t] /\ pc'[j] = FirstStep[cmd[t]] /\ cmd'[j] = cmd[t]
      /\ for'[j] = t /\ \A i \in Jobs \ {j} : for'[i] = for[i]
  BY <1>0, <1>2
<1>5. Station(t, "waiting", cmd[t]) /\ Station(j, FirstStep[cmd[t]], cmd[t])
  BY <1>1, <1>2, <1>3 DEF Station, Workers
<1>6. Stations'
  <2>1. \A u \in Threads : Station(u, pc'[u], cmd'[u])
    <3>1. ASSUME NEW u \in Threads \ {t, j} PROVE Station(u, pc'[u], cmd'[u])
      BY <1>4 DEF Stations, ActorsInv
    <3>. QED
      BY <1>2, <1>4, <1>5, <3>1
  <2>. QED
    BY <2>1 DEF Stations, Station
<1>7. Served'
  <2>1. \A i \in Jobs : for[i] # t
    BY <1>2, DistinctAssumption DEF ActorsInv, Served
  <2>2. \A i \in Jobs : i \in Threads /\ i # t /\ (for[i] # None => for[i] \in Threads \ {t, j})
    BY <1>0, <1>2, <2>1 DEF Threads, Workers
  <2>3. pc'[j] # "idle"
    BY <1>3, <1>4
  <2>4. \A i \in Jobs : for'[i] # None => pc'[i] # "idle" /\ pc'[for'[i]] = "waiting"
    <3>1. ASSUME NEW i \in Jobs \ {j}, for'[i] # None
          PROVE  pc'[i] # "idle" /\ pc'[for'[i]] = "waiting"
      <4>1. for'[i] = for[i] /\ pc[i] # "idle" /\ pc[for[i]] = "waiting"
        BY <1>4, <3>1 DEF ActorsInv, Served
      <4>2. for[i] \in Threads \ {t, j} /\ i \in Threads \ {t, j}
        BY <2>2, <3>1, <4>1
      <4>. QED
        BY <1>4, <4>1, <4>2
    <3>. QED
      BY <1>4, <2>3, <3>1
  <2>5. \A i, o \in Jobs : for'[i] = for'[o] /\ for'[i] # None => i = o
    BY <1>4, <2>1 DEF ActorsInv, Served
  <2>. QED
    BY <2>4, <2>5 DEF Served
<1>8. LockHeld'
  <2>1. ~Locking(j, pc[j], cmd[j]) /\ ~Locking(j, FirstStep[cmd[t]], cmd[t])
    BY <1>3 DEF Locking
  <2>2. t \notin Workers /\ lock' = lock
    BY <1>2
  <2>3. Locking(j, pc[j], cmd[j])' <=> Locking(j, pc[j], cmd[j])
    BY <1>4, <2>1 DEF Locking
  <2>4. \A u \in Workers \ {j} : Locking(u, pc[u], cmd[u])' <=> Locking(u, pc[u], cmd[u])
    BY <1>4, <2>2 DEF Locking, Threads
  <2>. QED
    BY <2>2, <2>3, <2>4 DEF ActorsInv, LockHeld
<1>9. Housed'
  <2>0. j \notin Turns /\ t \notin Turns /\ Turns \subseteq Threads
    BY <1>2 DEF Threads, Workers
  <2>1. \A u \in Turns : pc'[u] = pc[u]
    BY <1>4, <2>0
  <2>2. UNCHANGED <<box, refs, uses>>
    OBVIOUS
  <2>. QED
    BY <2>1, <2>2 DEF ActorsInv, Housed
<1>. QED
  BY <1>6, <1>7, <1>8, <1>9 DEF ActorsKept

LEMMA GiveUpActors ==
  ASSUME ActorsInv, NEW t \in Threads, GiveUp(t) PROVE ActorsKept
<1> USE DEF GiveUp, Goto
<1>0. /\ pc \in [Threads -> Points] /\ for \in [Jobs -> Calls \cup Replicas \cup {None}]
  BY DEF ActorsInv, TypeOK
<1>1. Station(t, pc[t], cmd[t]) /\ cmd' = cmd /\ UNCHANGED <<lock, box, refs, uses>>
  BY Known DEF dockerVars
<1>2. t \in Calls \cup Replicas /\ t \notin Workers /\ cmd[t] # "none"
  BY <1>1 DEF Station, Threads, Workers
<1>3. Station(t, "failing", cmd[t])
  BY <1>1, <1>2 DEF Station, Workers
<1>4. Stations'
  BY <1>0, <1>1, <1>3 DEF ActorsInv, Stations, Station
<1>5. Served'
  <2>1. \A j \in Jobs : for'[j] = (IF for[j] = t THEN None ELSE for[j]) /\ pc'[j] = pc[j]
    BY <1>0, <1>2 DEF Workers, Threads
  <2>2. \A j \in Jobs : for[j] # None /\ for[j] # t => pc'[for[j]] = pc[for[j]]
    BY <1>0 DEF Threads
  <2>. QED
    BY <2>1, <2>2 DEF ActorsInv, Served
<1>6. LockHeld' /\ Housed'
  <2>1. \A u \in Workers : pc'[u] = pc[u] /\ cmd'[u] = cmd[u]
    BY <1>0, <1>1, <1>2 DEF Threads
  <2>. QED
    BY <1>1, <2>1 DEF ActorsInv, LockHeld, Locking, Housed, Workers
<1>. QED
  BY <1>4, <1>5, <1>6 DEF ActorsKept

LEMMA CommandActors ==
  ASSUME ActorsInv, NEW t \in Threads, Command(t) PROVE ActorsKept
<1> USE DEF Goto, Hold, Erring, Err, rowVars, dockerVars, localVars, faultVars
<1>1. Station(t, pc[t], cmd[t]) /\ cmd = [cmd EXCEPT ![t] = cmd[t]] /\ pc = [pc EXCEPT ![t] = pc[t]]
  BY Known DEF ActorsInv, TypeOK
<1>2. ASSUME NEW k \in DOMAIN Expected, Receive(t, k) PROVE ActorsKept
  <2>1. t \in Replicas /\ pc[t] = "idle" /\ UNCHANGED <<for, lock, uses, refs, box>>
        /\ pc' = [pc EXCEPT ![t] = "checking"] /\ cmd' = [cmd EXCEPT ![t] = k]
        /\ k \in {"create", "start", "stop"}
    BY <1>2 DEF Receive, Expected
  <2>2. Station(t, "checking", k)
    BY <2>1 DEF Station, Workers
  <2>. QED
    BY <2>1, <2>2, OutsiderStrode DEF SameBox
<1>3. CASE Check(t)
  <2>1. t \in Replicas /\ cmd[t] \in {"create", "start", "stop"}
    BY <1>1, <1>3 DEF Check, Station, Threads, Workers
  <2>2. PICK p, k : /\ pc' = [pc EXCEPT ![t] = p] /\ cmd' = [cmd EXCEPT ![t] = k]
                    /\ \/ p = "idle" /\ k = cmd[t]
                       \/ p = "stopping" /\ k = "stop" /\ cmd[t] = "stop"
                       \/ p = "calling" /\ k \in {"create", "start", "restart"}
    BY <1>1, <1>3, <2>1 DEF Check
  <2>3. Station(t, p, k)
    BY <2>1, <2>2 DEF Station, Workers
  <2>. QED
    BY <1>3, <2>1, <2>2, <2>3, OutsiderStrode DEF Check, SameBox
<1>4. CASE DecryptFails(t)
  <2>1. t \in Calls \cup Replicas
    BY <1>1, <1>4 DEF DecryptFails, Station, Threads, Workers
  <2>2. PICK p : pc' = [pc EXCEPT ![t] = p] /\ Station(t, p, cmd[t])
    BY <1>1, <1>4, <2>1 DEF DecryptFails, Station, Workers, Over
  <2>. QED
    BY <1>1, <1>4, <2>1, <2>2, OutsiderStrode DEF DecryptFails, SameBox
<1>. QED
  BY <1>2, <1>3, <1>4, CallActors, GiveUpActors DEF Command

\* A finished piece of work: the job's caller, if it still waits, goes on.
LEMMA FinishActors ==
  ASSUME ActorsInv, NEW t \in Workers, NEW new \in Nat, Finish(t, new),
         pc[t] \in {"starting", "building"},
         box'.ref <= refs', refs <= refs', refs' \in Nat,
         \A u \in Turns : uses[u] \in 1..refs /\ uses[u] = box'.ref =>
           uses[u] = box.ref /\ box'.prof = box.prof,
         t \in Turns => /\ (IF new = 0 THEN arg[t] ELSE new) \in 1..refs'
                       /\ box'.prof = Profile[t]
  PROVE  ActorsKept
<1> DEFINE caller == IF t \in Jobs THEN for[t] ELSE None
<1>0. /\ pc \in [Threads -> Points] /\ for \in [Jobs -> Calls \cup Replicas \cup {None}]
      /\ t \in Threads /\ cmd' = cmd
  BY DEF ActorsInv, TypeOK, Finish, Threads
<1>1. Station(t, pc[t], cmd[t])
  BY <1>0, Known
<1>2. caller \in Calls \cup Replicas \cup {None} /\ caller # t
      /\ (caller # None => pc[caller] = "waiting" /\ caller \in Threads \ Workers)
  BY <1>0 DEF ActorsInv, Served, Threads, Workers
<1>3. /\ \A u \in Threads \ {t, caller} : pc'[u] = pc[u]
      /\ pc'[t] = IF t \in Jobs THEN "idle" ELSE "claiming"
      /\ caller # None => pc'[caller] = "persisting"
  BY <1>0, <1>2 DEF Finish
<1>4. Stations'
  <2>1. Station(t, pc'[t], cmd[t])
    BY <1>1, <1>3 DEF Station, Workers
  <2>2. caller # None => Station(caller, "persisting", cmd[caller])
    <3>1. caller # None => Station(caller, "waiting", cmd[caller])
      BY <1>2 DEF ActorsInv, Stations
    <3>. QED
      BY <1>2, <3>1 DEF Station, Workers
  <2>3. \A u \in Threads \ {t, caller} : Station(u, pc[u], cmd[u])
    BY DEF ActorsInv, Stations
  <2>4. \A u \in Threads : Station(u, pc'[u], cmd'[u])
    BY <1>0, <1>2, <1>3, <2>1, <2>2, <2>3, DistinctAssumption
  <2>. QED
    BY <2>4 DEF Stations, Station
<1>5. Served'
  <2>1. \A i \in Jobs : for'[i] # None => i # t /\ for'[i] = for[i]
    BY <1>0 DEF Finish
  <2>2. \A i \in Jobs \ {t} : for[i] # None => for[i] # caller /\ for[i] \in Threads \ Workers
    BY <1>0 DEF ActorsInv, Served, Threads, Workers
  <2>3. \A i \in Jobs \ {t} : i \in Threads /\ i # caller
    BY <1>2, DistinctAssumption DEF Threads, Workers
  <2>4. \A i \in Jobs : for'[i] # None => pc'[i] # "idle" /\ pc'[for'[i]] = "waiting"
    <3>1. ASSUME NEW i \in Jobs, for'[i] # None PROVE pc'[i] # "idle" /\ pc'[for'[i]] = "waiting"
      <4>1. i # t /\ for'[i] = for[i] /\ pc[i] # "idle" /\ pc[for[i]] = "waiting"
        BY <2>1, <3>1 DEF ActorsInv, Served
      <4>2. for[i] \in Threads \ {t, caller} /\ i \in Threads \ {t, caller}
        BY <2>2, <2>3, <3>1, <4>1
      <4>. QED
        BY <1>3, <4>1, <4>2
    <3>. QED
      BY <3>1
  <2>5. \A i, o \in Jobs : for'[i] = for'[o] /\ for'[i] # None => i = o
    BY <2>1 DEF ActorsInv, Served
  <2>. QED
    BY <2>4, <2>5 DEF Served
<1>6. LockHeld'
  <2>1. \A u \in Workers \ {t} : pc'[u] = pc[u]
    BY <1>2, <1>3 DEF Threads
  <2>2. Locking(t, pc'[t], cmd[t]) <=> t \notin Jobs
    BY <1>3 DEF Locking, Workers
  <2>3. \A u \in Workers : lock' = u <=> IF u = t THEN t \notin Jobs ELSE lock = u
    <3>1. t \notin Jobs => lock = t
      BY DEF ActorsInv, LockHeld, Locking, Workers
    <3>2. lock' = IF t \in Jobs /\ lock = t THEN None ELSE lock
      BY DEF Finish
    <3>. QED
      BY <1>0, <3>1, <3>2, DistinctAssumption DEF Threads
  <2>4. \A u \in Workers : lock' = u <=> Locking(u, pc'[u], cmd'[u])
    BY <1>0, <2>1, <2>2, <2>3 DEF ActorsInv, LockHeld
  <2>. QED
    BY <2>4 DEF LockHeld, Locking
<1>7. Housed'
  <2>1. ASSUME NEW u \in Turns, pc'[u] \in {"claiming", "touching", "working"}
        PROVE  uses'[u] \in 1..refs' /\ (uses'[u] = box'.ref => box'.prof = Profile[u])
    <3>0. uses \in [Turns -> 0..Lifespan] /\ u \in Threads /\ u # caller
      BY <1>2, DistinctAssumption DEF ActorsInv, TypeOK, Threads, Workers
    <3>1. CASE u = t
      <4>1. uses'[t] = IF new = 0 THEN arg[t] ELSE new
        BY <3>0, <3>1 DEF Finish
      <4>. QED
        BY <3>1, <4>1
    <3>2. CASE u # t
      <4>1. uses'[u] = uses[u] /\ pc'[u] = pc[u]
        BY <1>3, <3>0, <3>2 DEF Finish
      <4>2. uses[u] \in 1..refs /\ (uses[u] = box.ref => box.prof = Profile[u])
        BY <2>1, <4>1 DEF ActorsInv, Housed
      <4>3. refs \in Nat
        BY DEF ActorsInv, TypeOK
      <4>. QED
        BY <4>1, <4>2, <4>3
    <3>. QED
      BY <3>1, <3>2
  <2>. QED
    BY <2>1 DEF Housed
<1>. QED
  BY <1>4, <1>5, <1>6, <1>7 DEF ActorsKept

LEMMA BreakActors ==
  ASSUME ActorsInv, NEW t \in Workers, NEW gone \in BOOLEAN, Break(t, gone),
         pc[t] \in {"starting", "removing", "healing", "building"} \/ (pc[t] = "locking" /\ t \in Jobs),
         UNCHANGED <<box, refs>>
  PROVE  ActorsKept
<1> DEFINE caller == IF t \in Jobs THEN for[t] ELSE None
           next   == IF t \in Turns \/ (t \in Reconcilers /\ gone) THEN "failing" ELSE Over(t)
<1>0. /\ pc \in [Threads -> Points] /\ for \in [Jobs -> Calls \cup Replicas \cup {None}]
      /\ t \in Threads /\ cmd' = cmd /\ uses' = uses
  BY DEF ActorsInv, TypeOK, Break, Threads
<1>1. Station(t, pc[t], cmd[t])
  BY <1>0, Known
<1>2. caller \in Calls \cup Replicas \cup {None} /\ caller # t
      /\ (caller # None => pc[caller] = "waiting" /\ caller \in Threads \ Workers)
  BY <1>0 DEF ActorsInv, Served, Threads, Workers
<1>3. /\ \A u \in Threads \ {t, caller} : pc'[u] = pc[u]
      /\ pc'[t] = next
      /\ caller # None => pc'[caller] = "failing"
  BY <1>0, <1>2 DEF Break
<1>a. next = IF t \in Jobs THEN "idle"
             ELSE IF t \in Turns \/ (t \in Reconcilers /\ gone) THEN "failing" ELSE "done"
  BY DEF Over, Workers
<1>. HIDE DEF next
<1>4. Stations'
  <2>1. Station(t, pc'[t], cmd[t])
    BY <1>1, <1>3, <1>a DEF Station, Workers
  <2>2. caller # None => Station(caller, "failing", cmd[caller])
    <3>1. caller # None => Station(caller, "waiting", cmd[caller])
      BY <1>2 DEF ActorsInv, Stations
    <3>. QED
      BY <1>2, <3>1 DEF Station, Workers
  <2>3. \A u \in Threads \ {t, caller} : Station(u, pc[u], cmd[u])
    BY DEF ActorsInv, Stations
  <2>4. \A u \in Threads : Station(u, pc'[u], cmd'[u])
    BY <1>0, <1>2, <1>3, <2>1, <2>2, <2>3, DistinctAssumption
  <2>. QED
    BY <2>4 DEF Stations, Station
<1>5. Served'
  <2>1. \A i \in Jobs : for'[i] # None => i # t /\ for'[i] = for[i]
    BY <1>0, <1>2 DEF Break
  <2>2. \A i \in Jobs \ {t} : for[i] # None => for[i] # caller /\ for[i] \in Threads \ Workers
    BY <1>0 DEF ActorsInv, Served, Threads, Workers
  <2>3. \A i \in Jobs \ {t} : i \in Threads /\ i # caller
    BY <1>2, DistinctAssumption DEF Threads, Workers
  <2>4. \A i \in Jobs : for'[i] # None => pc'[i] # "idle" /\ pc'[for'[i]] = "waiting"
    <3>1. ASSUME NEW i \in Jobs, for'[i] # None PROVE pc'[i] # "idle" /\ pc'[for'[i]] = "waiting"
      <4>1. i # t /\ for'[i] = for[i] /\ pc[i] # "idle" /\ pc[for[i]] = "waiting"
        BY <2>1, <3>1 DEF ActorsInv, Served
      <4>2. for[i] \in Threads \ {t, caller} /\ i \in Threads \ {t, caller}
        BY <2>2, <2>3, <3>1, <4>1
      <4>. QED
        BY <1>3, <4>1, <4>2
    <3>. QED
      BY <3>1
  <2>5. \A i, o \in Jobs : for'[i] = for'[o] /\ for'[i] # None => i = o
    BY <2>1 DEF ActorsInv, Served
  <2>. QED
    BY <2>4, <2>5 DEF Served
<1>6. LockHeld'
  <2>1. \A u \in Workers \ {t} : pc'[u] = pc[u]
    BY <1>2, <1>3 DEF Threads
  <2>2. Locking(t, next, cmd[t]) <=> next = "failing"
    BY <1>a DEF Locking, Workers
  <2>3. \A u \in Workers : lock' = u <=> IF u = t THEN next = "failing" ELSE lock = u
    <3>1. t \notin Jobs => lock = t
      BY DEF ActorsInv, LockHeld, Locking, Workers
    <3>2. lock' = IF lock = t /\ next # "failing" THEN None ELSE lock
      BY DEF Break, next
    <3>. QED
      BY <1>0, <1>a, <3>1, <3>2, DistinctAssumption DEF Threads
  <2>4. \A u \in Workers : lock' = u <=> Locking(u, pc'[u], cmd'[u])
    BY <1>0, <1>3, <2>1, <2>2, <2>3 DEF ActorsInv, LockHeld
  <2>. QED
    BY <2>4 DEF LockHeld, Locking
<1>7. Housed'
  <2>1. \A u \in Turns : pc'[u] \in {"claiming", "touching", "working"} =>
          pc[u] \in {"claiming", "touching", "working"}
    BY <1>0, <1>2, <1>3, <1>a, DistinctAssumption DEF Threads, Workers
  <2>. QED
    BY <1>0, <2>1 DEF ActorsInv, Housed
<1>. QED
  BY <1>4, <1>5, <1>6, <1>7 DEF ActorsKept

LEMMA LockActors ==
  ASSUME ActorsInv, NEW t \in Threads,
         Lock(t) \/ TryLock(t) \/ Reread(t) \/ RereadAttach(t) \/ ClearName(t) \/ Claim(t)
  PROVE  ActorsKept
<1> USE DEF Goto, Hold, rowVars, dockerVars, localVars, faultVars
<1>1. Station(t, pc[t], cmd[t]) /\ cmd = [cmd EXCEPT ![t] = cmd[t]] /\ lock \in Workers \cup {None}
  BY Known DEF ActorsInv, TypeOK
<1>2. t \in Workers => (lock = t <=> Locking(t, pc[t], cmd[t]))
  BY DEF ActorsInv, LockHeld
<1>3. CASE Lock(t)
  <2>1. t \in Jobs \cup Turns /\ (t \in Jobs => cmd[t] = "start")
    BY <1>1, <1>3 DEF Lock, Station, Threads, Workers
  <2>2. Station(t, "reading", cmd[t]) /\ Locking(t, "reading", cmd[t])
    BY <2>1 DEF Station, Locking, Workers
  <2>3. \A u \in Workers : lock' = u <=> IF u = t THEN TRUE ELSE lock = u
    BY <1>3, <2>1, DistinctAssumption DEF Lock, Threads
  <2>. QED
    BY <1>1, <1>3, <2>2, <2>3, Moved DEF Lock, SameBox
<1>4. CASE TryLock(t)
  <2>1. t \in Reconcilers /\ t \notin Jobs \cup Turns /\ lock # t
    BY <1>1, <1>2, <1>4 DEF TryLock, Station, Locking, Threads, Workers
  <2>2. PICK p \in {"reading", "done"} :
          pc' = [pc EXCEPT ![t] = p] /\ lock' = IF p = "reading" THEN t ELSE lock
    BY <1>4 DEF TryLock
  <2>3. (lock = None => p = "reading") /\ (p = "reading" => lock = None)
    BY <1>4, <2>2, <2>1, DistinctAssumption DEF TryLock, ActorsInv, TypeOK
  <2>4. Station(t, p, cmd[t]) /\ (Locking(t, p, cmd[t]) <=> p = "reading")
    BY <2>1 DEF Station, Locking, Workers
  <2>5. \A u \in Workers : lock' = u <=> IF u = t THEN p = "reading" ELSE lock = u
    BY <2>1, <2>2, <2>3, DistinctAssumption DEF Threads
  <2>. QED
    BY <1>1, <1>4, <2>1, <2>2, <2>4, <2>5, Moved DEF TryLock, SameBox
<1>5. CASE Reread(t)
  <2>1. Station(t, "starting", cmd[t]) /\ t \notin Turns
    BY <1>1, <1>5 DEF Reread, Station, Workers
  <2>2. Locking(t, "starting", cmd[t]) <=> Locking(t, pc[t], cmd[t])
    BY <1>5 DEF Reread, Locking
  <2>. QED
    BY <1>1, <1>5, <2>1, <2>2, Strode DEF Reread, SameBox
<1>6. CASE RereadAttach(t)
  <2>1. t \in Turns /\ t \in Workers /\ t \notin Jobs
    BY <1>6 DEF RereadAttach, Workers
  <2>2. lock = t
    BY <1>2, <1>6, <2>1 DEF RereadAttach, Locking
  <2>3. PICK p \in {"starting", "done"} :
          /\ pc' = [pc EXCEPT ![t] = p] /\ lock' = IF p = "starting" THEN t ELSE None
    BY <1>6, <2>2 DEF RereadAttach
  <2>4. Station(t, p, cmd[t]) /\ (Locking(t, p, cmd[t]) <=> p = "starting")
    BY <2>1 DEF Station, Locking, Workers
  <2>5. \A u \in Workers : lock' = u <=> IF u = t THEN p = "starting" ELSE lock = u
    BY <2>1, <2>2, <2>3, DistinctAssumption DEF Threads
  <2>. QED
    BY <1>1, <1>6, <2>1, <2>3, <2>4, <2>5, Moved DEF RereadAttach, SameBox
<1>7. CASE ClearName(t)
  <2>1. Station(t, "building", cmd[t]) /\ (Locking(t, "building", cmd[t]) <=> Locking(t, pc[t], cmd[t]))
    BY <1>1, <1>7 DEF ClearName, Station, Locking, Workers
  <2>2. SameBox /\ pc' = [pc EXCEPT ![t] = "building"] /\ pc[t] # "waiting"
        /\ UNCHANGED <<for, lock, uses, refs, cmd>>
    BY <1>7 DEF ClearName, SameBox, NoBox
  <2>. QED
    BY <1>1, <2>1, <2>2, Strode
<1>8. CASE Claim(t)
  <2>1. t \in Turns \cup Reconcilers /\ t \notin Jobs /\ t \in Workers
    BY <1>1, <1>8 DEF Claim, Station, Threads, Workers
  <2>2. lock = t
    BY <1>2, <1>8, <2>1 DEF Claim, Locking
  <2>3. PICK p : /\ pc' = [pc EXCEPT ![t] = p] /\ p = (IF t \in Turns THEN "touching" ELSE "done")
                 /\ lock' = IF t \in Turns THEN t ELSE None
    BY <1>8, <2>2 DEF Claim
  <2>4. Station(t, p, cmd[t]) /\ (Locking(t, p, cmd[t]) <=> t \in Turns)
    BY <2>1, <2>3 DEF Station, Locking, Workers
  <2>5. \A u \in Workers : lock' = u <=> IF u = t THEN t \in Turns ELSE lock = u
    BY <2>1, <2>2, <2>3, DistinctAssumption DEF Threads
  <2>. QED
    BY <1>1, <1>8, <2>1, <2>3, <2>4, <2>5, Moved DEF Claim, SameBox
<1>. QED
  BY <1>3, <1>4, <1>5, <1>6, <1>7, <1>8

LEMMA BuildActors ==
  ASSUME ActorsInv, NEW t \in Threads, StartContainer(t) \/ Build(t) \/ StartFails(t)
  PROVE  ActorsKept
<1>1. /\ Station(t, pc[t], cmd[t]) /\ cmd = [cmd EXCEPT ![t] = cmd[t]]
      /\ box.ref <= refs /\ refs \in Nat /\ arg[t] \in Nat
      /\ box \in {NoBox} \cup [ref : 1..Lifespan, up : BOOLEAN, prof : Profiles \cup {Bare}]
  BY Known DEF ActorsInv, TypeOK, Housed
<1>2. t \in Workers /\ (pc[t] \in {"starting", "removing", "healing", "building"} \/ (pc[t] = "locking" /\ t \in Jobs))
  BY <1>1 DEF StartContainer, Build, StartFails, Station, Threads, Workers
<1>3. CASE StartContainer(t)
  <2>1. CASE box # NoBox /\ box.ref = arg[t] /\ Suits(t) /\ Finish(t, 0) /\ box' = [box EXCEPT !.up = TRUE]
    <3>1. box'.ref = box.ref /\ box'.prof = box.prof /\ box.ref \in 1..refs /\ refs' = refs
      BY <1>1, <1>3, <2>1 DEF StartContainer
    <3>2. t \in Turns => box.prof = Profile[t]
      BY <2>1 DEF Suits
    <3>3. pc[t] \in {"starting", "building"}
      BY <1>3 DEF StartContainer
    <3>. QED
      BY <1>1, <1>2, <2>1, <3>1, <3>2, <3>3, FinishActors
  <2>2. CASE Break(t, TRUE) /\ UNCHANGED box
    BY <1>2, <1>3, <2>2, BreakActors DEF StartContainer
  <2>3. CASE /\ pc' = [pc EXCEPT ![t] = "removing"] /\ ~Suits(t)
             /\ UNCHANGED <<rowVars, box, commands, lock, localVars>>
    <3>1. Station(t, "removing", cmd[t]) /\ (Locking(t, "removing", cmd[t]) <=> Locking(t, pc[t], cmd[t]))
      BY <1>1, <1>2, <1>3, <2>3 DEF StartContainer, Station, Locking, Workers, Suits
    <3>. QED
      BY <1>1, <1>2, <1>3, <2>3, <3>1, Strode DEF StartContainer, SameBox, localVars
  <2>4. CASE /\ pc' = [pc EXCEPT ![t] = "healing"]
             /\ UNCHANGED <<rowVars, box, commands, lock, localVars>>
    <3>1. Station(t, "healing", cmd[t]) /\ (Locking(t, "healing", cmd[t]) <=> Locking(t, pc[t], cmd[t]))
      BY <1>1, <1>3 DEF StartContainer, Station, Locking, Workers
    <3>. QED
      BY <1>1, <1>2, <1>3, <2>4, <3>1, Strode DEF StartContainer, SameBox, localVars
  <2>. QED
    BY <1>3, <2>1, <2>2, <2>3, <2>4 DEF StartContainer
<1>4. CASE Build(t)
  <2>1. CASE /\ refs' = refs + 1 /\ Finish(t, refs + 1)
             /\ box' = [ref |-> refs + 1, up |-> TRUE, prof |-> Wants(t)]
    <3>1. box'.ref = refs + 1 /\ box'.prof = Wants(t) /\ \A n \in 1..refs : n # refs + 1
      BY <1>1, <2>1
    <3>2. t \in Turns => Wants(t) = Profile[t]
      BY DEF Wants
    <3>3. pc[t] \in {"starting", "building"}
      BY <1>4 DEF Build
    <3>. QED
      BY <1>1, <1>2, <2>1, <3>1, <3>2, <3>3, FinishActors
  <2>2. CASE Break(t, FALSE) /\ UNCHANGED <<box, refs>>
    BY <1>2, <2>2, BreakActors
  <2>. QED
    BY <1>4, <2>1, <2>2 DEF Build
<1>5. CASE StartFails(t)
  BY <1>2, <1>5, BreakActors DEF StartFails
<1>. QED
  BY <1>3, <1>4, <1>5

LEMMA TurnActors ==
  ASSUME ActorsInv, NEW t \in Threads, Turn(t) \/ Reap(t) \/ Reconcile(t) PROVE ActorsKept
<1> USE DEF Goto, Hold, rowVars, dockerVars, localVars, faultVars
<1>1. /\ Station(t, pc[t], cmd[t]) /\ cmd = [cmd EXCEPT ![t] = cmd[t]]
      /\ uses \in [Turns -> 0..Lifespan] /\ pc \in [Threads -> Points]
  BY Known DEF ActorsInv, TypeOK
<1>2. CASE Attach(t)
  <2>1. Station(t, "locking", cmd[t]) /\ ~Locking(t, "locking", cmd[t]) /\ ~Locking(t, pc[t], cmd[t])
    BY <1>2 DEF Attach, Station, Locking, Workers
  <2>2. t \notin Jobs
    BY <1>2 DEF Attach, Workers
  <2>. QED
    BY <1>1, <1>2, <2>1, <2>2, Strode DEF Attach, SameBox
<1>3. CASE EndTurn(t)
  <2>1. t \in Turns /\ t \in Workers
    BY <1>1, <1>3 DEF EndTurn, Station, Threads, Workers
  <2>2. Stations'
    <3>1. Station(t, "done", cmd[t])
      BY <2>1 DEF Station, Workers
    <3>. QED
      BY <1>1, <1>3, <3>1 DEF EndTurn, ActorsInv, Stations, Station
  <2>3. Served'
    <3>1. \A j \in Jobs : j # t /\ for[j] # t /\ (for[j] # None => for[j] \in Threads) /\ j \in Threads
      BY <2>1 DEF ActorsInv, TypeOK, Threads, Workers
    <3>. QED
      BY <1>1, <1>3, <3>1 DEF EndTurn, ActorsInv, Served
  <2>4. LockHeld'
    BY <1>1, <1>3, <2>1 DEF EndTurn, ActorsInv, LockHeld, Locking, Threads, Workers
  <2>5. Housed'
    <3>1. \A u \in Turns \ {t} : uses'[u] = uses[u] /\ pc'[u] = pc[u]
      BY <1>1, <1>3 DEF EndTurn, Threads, Workers
    <3>2. pc'[t] = "done" /\ UNCHANGED <<box, refs>>
      BY <1>1, <1>3 DEF EndTurn
    <3>. QED
      BY <3>1, <3>2 DEF ActorsInv, Housed
  <2>. QED
    BY <2>2, <2>3, <2>4, <2>5 DEF ActorsKept
<1>4. CASE Reap(t)
  <2>1. t \in Reapers /\ UNCHANGED <<for, lock, uses, refs, cmd, box>> /\ pc[t] # "waiting"
    BY <1>1, <1>4 DEF Reap, List, ClaimStop, Probe, Spare, Station, Threads, Workers
  <2>2. PICK p \in {"idle", "reaping", "probing", "stopping", "sparing", "touching"} :
          pc' = [pc EXCEPT ![t] = p]
    BY <1>4 DEF Reap, List, ClaimStop, Probe, Spare
  <2>3. Station(t, p, cmd[t])
    BY <1>1, <2>1, <2>2 DEF Station, Workers
  <2>. QED
    BY <1>1, <2>1, <2>2, <2>3, OutsiderStrode DEF SameBox
<1>5. CASE Reconcile(t)
  <2>1. Station(t, "trying", cmd[t]) /\ ~Locking(t, "trying", cmd[t]) /\ ~Locking(t, pc[t], cmd[t])
        /\ t \notin Jobs \cup Turns
    BY <1>5 DEF Reconcile, Station, Locking, Workers
  <2>. QED
    BY <1>1, <1>5, <2>1, Strode DEF Reconcile, SameBox
<1>. QED
  BY <1>2, <1>3, <1>4, <1>5 DEF Turn

LEMMA LoseActors ==
  ASSUME ActorsInv, NEW t \in Threads, Lose(t) PROVE ActorsKept
<1>1. PICK p : Lost(t, p) /\ Unwritten(t, pc[t], p)
  BY Losing DEF ActorsInv
<1>2. Station(t, pc[t], cmd[t]) /\ cmd = [cmd EXCEPT ![t] = cmd[t]]
  BY Known
<1>3. Station(t, p, cmd[t])
  BY <1>1, <1>2 DEF Lost, Station, Workers
<1>4. /\ pc' = [pc EXCEPT ![t] = p] /\ UNCHANGED <<cmd, for, uses, refs, box>>
      /\ lock' = IF lock = t /\ p \notin {"starting", "touching"} THEN None ELSE lock
  BY <1>1 DEF Unwritten, Goto, dockerVars
<1>5. t \in Workers => (Locking(t, p, cmd[t]) <=>
                          Locking(t, pc[t], cmd[t]) /\ p \in {"starting", "touching"})
  BY <1>1, <1>2 DEF Lost, Locking, Station, Workers
<1>6. \A u \in Workers : lock' = u <=> IF u = t THEN Locking(t, p, cmd[t]) ELSE lock = u
  BY <1>2, <1>4, <1>5, DistinctAssumption DEF ActorsInv, LockHeld, Threads
<1>7. /\ pc[t] # "waiting" /\ (t \in Jobs => p # "idle")
      /\ t \in Turns => p # "claiming" /\ (p = "touching" => pc[t] = "claiming")
                                      /\ (p = "working" => pc[t] = "touching")
  BY <1>1 DEF Lost, Workers
<1>. QED
  BY <1>2, <1>3, <1>4, <1>6, <1>7, Moved DEF SameBox

LEMMA CrashActors ==
  ASSUME ActorsInv, NEW t \in Threads, Crash(t) PROVE ActorsKept
<1>1. /\ pc \in [Threads -> Points] /\ Station(t, pc[t], cmd[t])
      /\ for \in [Jobs -> Calls \cup Replicas \cup {None}] /\ uses \in [Turns -> 0..Lifespan]
  BY Known DEF ActorsInv, TypeOK
<1>2. /\ pc' = [pc EXCEPT ![t] = Over(t)] /\ lock' = IF lock = t THEN None ELSE lock
      /\ for' = [j \in Jobs |-> IF j = t \/ for[j] = t THEN None ELSE for[j]]
      /\ uses' = [u \in Turns |-> IF u = t THEN 0 ELSE uses[u]]
      /\ UNCHANGED <<box, refs, cmd>>
  BY DEF Crash, dockerVars
<1>3. Station(t, Over(t), cmd[t]) /\ ~Locking(t, Over(t), cmd[t])
      /\ Over(t) \notin {"claiming", "touching", "working"}
  BY <1>1 DEF Station, Locking, Over, Workers
<1>4. Stations'
  BY <1>1, <1>2, <1>3 DEF ActorsInv, Stations, Station
<1>5. Served'
  <2>1. \A j \in Jobs : for'[j] # None => j # t /\ for[j] # t /\ for'[j] = for[j]
    BY <1>2
  <2>2. \A j \in Jobs : j \in Threads /\ (for[j] # None => for[j] \in Threads)
    BY <1>1 DEF Threads, Workers
  <2>3. \A u \in Threads \ {t} : pc'[u] = pc[u]
    BY <1>1, <1>2
  <2>. QED
    BY <2>1, <2>2, <2>3 DEF ActorsInv, Served
<1>6. LockHeld'
  <2>1. \A u \in Workers \ {t} : pc'[u] = pc[u]
    BY <1>1, <1>2 DEF Threads
  <2>2. \A u \in Workers : lock' = u <=> (u # t /\ lock = u)
    BY <1>2, DistinctAssumption DEF Threads
  <2>3. \A u \in Workers : lock' = u <=> Locking(u, pc'[u], cmd'[u])
    BY <1>1, <1>2, <1>3, <2>1, <2>2 DEF ActorsInv, LockHeld
  <2>. QED
    BY <2>3 DEF LockHeld, Locking
<1>7. Housed'
  <2>1. \A u \in Turns \ {t} : uses'[u] = uses[u] /\ pc'[u] = pc[u]
    BY <1>1, <1>2 DEF Threads, Workers
  <2>2. pc'[t] \notin {"claiming", "touching", "working"}
    BY <1>1, <1>2, <1>3
  <2>. QED
    BY <1>2, <2>1, <2>2 DEF ActorsInv, Housed
<1>. QED
  BY <1>4, <1>5, <1>6, <1>7 DEF ActorsKept

LEMMA InitActors == Init => ActorsInv
<1> SUFFICES ASSUME Init PROVE ActorsInv
  OBVIOUS
<1>1. /\ pc = [t \in Threads |-> "idle"] /\ lock = None /\ for = [j \in Jobs |-> None]
      /\ cmd = [t \in Threads |-> "none"] /\ refs = 0 /\ box.ref = 0
  BY DEF Init, NoBox
<1>2. Stations
  BY <1>1 DEF Stations, Station, Threads, Workers
<1>3. Served /\ Housed
  BY <1>1 DEF Served, Housed, Threads, Workers
<1>4. LockHeld
  BY <1>1, DistinctAssumption DEF LockHeld, Locking, Threads
<1>. QED
  BY <1>2, <1>3, <1>4, InitTypeOK DEF ActorsInv

LEMMA NextActors == ASSUME ActorsInv, [Next]_vars PROVE ActorsInv'
<1>1. TypeOK'
  BY NextTypes DEF ActorsInv
<1>2. ASSUME NEW t \in Threads, Work(t) PROVE ActorsKept
  BY <1>2, LockActors, BuildActors DEF Work
<1>3. ASSUME Quiet PROVE ActorsKept
  BY <1>3 DEF Quiet, localVars, dockerVars, ActorsKept, ActorsInv, Stations, Station, Served,
              LockHeld, Locking, Housed
<1>4. ASSUME Vanish PROVE ActorsKept
  <2>1. UNCHANGED <<pc, localVars, lock, refs>> /\ box'.ref = 0 /\ refs \in Nat
    BY <1>4 DEF Vanish, NoBox, ActorsInv, TypeOK
  <2>2. Stations' /\ Served' /\ LockHeld'
    BY <2>1 DEF localVars, ActorsInv, Stations, Station, Served, LockHeld, Locking
  <2>3. Housed'
    BY <2>1 DEF localVars, ActorsInv, Housed
  <2>. QED
    BY <2>2, <2>3 DEF ActorsKept
<1>5. ASSUME UNCHANGED vars PROVE ActorsKept
  BY <1>5 DEF vars, localVars, dockerVars, ActorsKept, ActorsInv, Stations, Station, Served,
              LockHeld, Locking, Housed
<1>6. ActorsKept
  BY <1>2, <1>3, <1>4, <1>5, RequestActors, WriteActors, CommandActors, TurnActors, LoseActors,
     CrashActors
  DEF Next
<1>. QED
  BY <1>1, <1>6 DEF ActorsKept, ActorsInv

\* Whatever is asked for and whatever goes wrong: every actor is at a step of its
\* own program, a job replies only to the caller that waits for it, and the start
\* lock belongs to the one worker that is between taking and giving it up.
THEOREM ActorsInvariance == Spec => []ActorsInv
<1>1. Init => ActorsInv
  BY InitActors
<1>2. ActorsInv /\ [Next]_vars => ActorsInv'
  BY NextActors
<1>. QED
  BY <1>1, <1>2, PTL DEF Spec

\* The row, the container, the queue of commands and what each actor has in its
\* hands have their types: no transitional status is misnamed.
THEOREM EnvironmentTypeCorrect == Spec => []TypeOK
<1>1. ActorsInv => TypeOK
  BY DEF ActorsInv
<1>. QED
  BY <1>1, ActorsInvariance, PTL

-----------------------------------------------------------------------------
(* Who answers for a transitional status.                                  *)

\* Nobody changes the setting, and what was lost stays lost.
LEMMA SettingStands == ASSUME [Next]_vars PROVE setting' = setting /\ (unheeded => unheeded')
<1> USE DEF faultVars, Erring, Err
<1>1. ASSUME NEW t \in Threads, Request(t) PROVE setting' = setting /\ (unheeded => unheeded')
  BY <1>1 DEF Request, Create, Ask, Restart, Delete, ChangePorts
<1>2. ASSUME NEW t \in Threads, Write(t) PROVE setting' = setting /\ (unheeded => unheeded')
  BY <1>2
  DEF Write, Mark, Append, AppendFails, Persist, PersistFails, Touch, ClearPending, Fail,
      StopContainer, StopContainerFails, WriteStopped, RemoveContainer, RemoveVolume, SoftDelete
<1>3. ASSUME NEW t \in Threads, Command(t) PROVE setting' = setting /\ (unheeded => unheeded')
  <2>1. CASE \E k \in DOMAIN Expected : Receive(t, k)
    BY <2>1 DEF Receive
  <2>2. CASE Check(t) \/ GiveUp(t)
    BY <2>2 DEF Check, GiveUp
  <2>3. CASE \E j \in Jobs : Call(t, j)
    BY <2>3 DEF Call
  <2>4. CASE DecryptFails(t)
    BY <2>4 DEF DecryptFails
  <2>. QED
    BY <1>3, <2>1, <2>2, <2>3, <2>4 DEF Command
<1>4. ASSUME NEW t \in Threads, Work(t) PROVE setting' = setting /\ (unheeded => unheeded')
  <2>1. CASE Lock(t) \/ TryLock(t) \/ Reread(t) \/ RereadAttach(t) \/ ClearName(t) \/ Claim(t)
    BY <2>1 DEF Lock, TryLock, Reread, RereadAttach, ClearName, Claim
  <2>2. CASE StartContainer(t) \/ Build(t)
    <3>1. UNCHANGED faultVars
      BY <2>2, Zenon DEF StartContainer, Build
    <3>. QED
      BY <3>1
  <2>3. CASE StartFails(t)
    BY <2>3 DEF StartFails
  <2>. QED
    BY <1>4, <2>1, <2>2, <2>3 DEF Work
<1>5. ASSUME NEW t \in Threads, Turn(t) \/ Reap(t) \/ Reconcile(t) \/ Crash(t)
      PROVE  setting' = setting /\ (unheeded => unheeded')
  <2>1. CASE Attach(t) \/ EndTurn(t) \/ List(t) \/ Reconcile(t)
    BY <2>1 DEF Attach, EndTurn, List, Reconcile
  <2>2. CASE ClaimStop(t) \/ Probe(t) \/ Spare(t)
    BY <2>2 DEF ClaimStop, Probe, Spare
  <2>3. CASE Crash(t)
    BY <2>3 DEF Crash
  <2>. QED
    BY <1>5, <2>1, <2>2, <2>3 DEF Turn, Reap
<1>7. ASSUME NEW t \in Threads, Lose(t) PROVE setting' = setting /\ (unheeded => unheeded')
  BY <1>7 DEF Lose, MarkFails, RemoveContainerFails, SoftDeleteFails, CheckFails, TouchFails,
         ClearPendingFails, FailFails, WriteStoppedFails, LockFails, RereadFails, ClaimFails,
         EndTurnFails, ClaimStopFails, SpareFails, Unwritten
<1>6. CASE Quiet \/ Vanish \/ UNCHANGED vars
  BY <1>6 DEF Quiet, Vanish, vars
<1>. QED
  BY <1>1, <1>2, <1>3, <1>4, <1>5, <1>6, <1>7 DEF Next

\* Nobody takes a command from the stream, and only t may stop to answer for the
\* status; if it does, it has queued a command that will.
LEMMA StillAnswered ==
  ASSUME ActorsInv, Answered, NEW t \in Threads,
         status' = status, deleted' = deleted,
         \A u \in Threads \ {t} :
           \/ pc'[u] = pc[u] /\ cmd'[u] = cmd[u]
           \/ u \in Workers
           \/ /\ u \in Calls \cup Replicas /\ cmd'[u] = cmd[u]
              /\ pc[u] = "waiting" /\ pc'[u] \in {"persisting", "failing"},
         \A k \in DOMAIN Expected : commands[k] > 0 => commands'[k] > 0,
         Answers(t, pc[t], cmd[t], status) => \/ Answers(t, pc'[t], cmd'[t], status)
                               \/ \E k \in DOMAIN Expected : Expected[k] = status /\ commands'[k] > 0
  PROVE  Answered'
<1>1. ASSUME NEW u \in Threads \ {t}, Answers(u, pc[u], cmd[u], status) PROVE Answers(u, pc'[u], cmd'[u], status)
  BY <1>1 DEF Answers, Threads, Workers
<1>. QED
  BY <1>1 DEF Answered

LEMMA RequestAnswers ==
  ASSUME ActorsInv, Answered, NEW t \in Threads, Request(t) PROVE Answered'
<1> USE DEF Goto, Hold, rowVars, dockerVars, localVars
<1>1. /\ pc \in [Threads -> Points] /\ cmd \in [Threads -> {"none", "create", "start", "stop", "restart"}]
      /\ t \in Calls
  BY DEF ActorsInv, TypeOK, Request, Create, Ask, Restart, Delete, ChangePorts
<1>2. CASE Create(t)
  <2>1. Answers(t, pc'[t], cmd'[t], "creating") /\ status' = "creating"
    BY <1>1, <1>2 DEF Create, Answers, Expected
  <2>. QED
    BY <2>1 DEF Answered
<1>3. CASE Ask(t, "start") \/ Ask(t, "stop") \/ Restart(t) \/ Delete(t) \/ ChangePorts(t)
  <2>1. /\ status' = status /\ deleted' = deleted /\ commands' = commands
        /\ \A u \in Threads \ {t} : pc'[u] = pc[u] /\ cmd'[u] = cmd[u]
        /\ ~Answers(t, pc[t], cmd[t], status)
    BY <1>1, <1>3 DEF Ask, Restart, Delete, ChangePorts, Answers, Workers
  <2>. QED
    BY <2>1, StillAnswered
<1>. QED
  BY <1>2, <1>3 DEF Request

LEMMA WriteAnswers ==
  ASSUME ActorsInv, Answered, NEW t \in Threads, Write(t) PROVE Answered'
<1> USE DEF Goto, Hold, rowVars, dockerVars, localVars
<1>1. /\ pc \in [Threads -> Points] /\ Station(t, pc[t], cmd[t])
      /\ cmd \in [Threads -> {"none", "create", "start", "stop", "restart"}]
      /\ commands \in [DOMAIN Expected -> Nat]
  BY Known DEF ActorsInv, TypeOK
<1>2. CASE Mark(t)
  <2>1. t \in Calls /\ cmd[t] \in {"start", "stop"}
    BY <1>1, <1>2 DEF Mark, Station, Threads, Workers
  <2>2. Answers(t, pc'[t], cmd'[t], status')
    BY <1>1, <1>2, <2>1 DEF Mark, Answers, Expected
  <2>. QED
    BY <2>2 DEF Answered
<1>3. CASE Append(t)
  <2>1. t \in Calls /\ cmd[t] \in {"create", "start", "stop"}
    BY <1>1, <1>3 DEF Append, Station, Threads, Workers
  <2>2. /\ \A k \in DOMAIN Expected : commands[k] > 0 => commands'[k] > 0
        /\ commands'[cmd[t]] > 0 /\ cmd[t] \in DOMAIN Expected
    BY <1>1, <1>3, <2>1 DEF Append, Expected
  <2>3. Answers(t, pc[t], cmd[t], status) => Expected[cmd[t]] = status
    BY <2>1 DEF Answers, Expected, Workers
  <2>. QED
    BY <1>1, <1>3, <2>2, <2>3, StillAnswered DEF Append
<1>4. CASE Persist(t) \/ Fail(t) \/ WriteStopped(t) \/ SoftDelete(t)
  BY <1>4 DEF Persist, Fail, WriteStopped, SoftDelete, Answered, Transitional
<1>5. CASE AppendFails(t) \/ PersistFails(t) \/ StopContainerFails(t) \/ StopContainer(t)
  <2>1. /\ status' = status /\ deleted' = deleted /\ commands' = commands
        /\ cmd' = cmd /\ \A u \in Threads \ {t} : pc'[u] = pc[u]
    BY <1>1, <1>5 DEF AppendFails, PersistFails, StopContainerFails, StopContainer
  <2>2. Answers(t, pc[t], cmd[t], status) => Answers(t, pc'[t], cmd'[t], status)
    BY <1>1, <1>5, <2>1
    DEF AppendFails, PersistFails, StopContainerFails, StopContainer, Answers, Workers
  <2>. QED
    BY <2>1, <2>2, StillAnswered
<1>6. CASE Touch(t) \/ ClearPending(t) \/ RemoveContainer(t) \/ RemoveVolume(t)
  <2>1. /\ status' = status /\ deleted' = deleted /\ commands' = commands
        /\ cmd' = cmd /\ \A u \in Threads \ {t} : pc'[u] = pc[u]
    BY <1>1, <1>6 DEF Touch, ClearPending, RemoveContainer, RemoveVolume
  <2>2. ~Answers(t, pc[t], cmd[t], status)
    BY <1>1, <1>6
    DEF Touch, ClearPending, RemoveContainer, RemoveVolume, Answers, Station, Workers
  <2>. QED
    BY <2>1, <2>2, StillAnswered
<1>. QED
  BY <1>2, <1>3, <1>4, <1>5, <1>6 DEF Write

LEMMA CommandAnswers ==
  ASSUME ActorsInv, Answered, ~unheeded', NEW t \in Threads, Command(t)
  PROVE  Answered'
<1> USE DEF Goto, Hold, rowVars, dockerVars, localVars
<1>1. /\ pc \in [Threads -> Points] /\ Station(t, pc[t], cmd[t])
      /\ cmd \in [Threads -> {"none", "create", "start", "stop", "restart"}]
      /\ commands \in [DOMAIN Expected -> Nat]
  BY Known DEF ActorsInv, TypeOK
<1>2. ASSUME NEW k \in DOMAIN Expected, Receive(t, k) PROVE Answered'
  <2>1. /\ t \in Replicas /\ status' = status /\ deleted' = deleted
        /\ pc' = [pc EXCEPT ![t] = "checking"] /\ cmd' = [cmd EXCEPT ![t] = k]
        /\ \A c \in DOMAIN Expected \ {k} : commands'[c] = commands[c]
        /\ k \in {"create", "start", "stop"} /\ pc[t] = "idle"
    BY <1>1, <1>2 DEF Receive, Expected
  <2>2. status = Expected[k] => Answers(t, pc'[t], cmd'[t], status)
    BY <1>1, <2>1 DEF Answers
  <2>3. \A u \in Threads : Answers(u, pc[u], cmd[u], status) => Answers(u, pc'[u], cmd'[u], status)
    BY <1>1, <2>1 DEF Answers, Workers
  <2>. QED
    BY <2>1, <2>2, <2>3 DEF Answered
<1>3. CASE Check(t)
  <2>1. t \in Replicas /\ cmd[t] \in {"create", "start", "stop"}
    BY <1>1, <1>3 DEF Check, Station, Threads, Workers
  <2>2. /\ status' = status /\ deleted' = deleted /\ commands' = commands
        /\ \A u \in Threads \ {t} : pc'[u] = pc[u] /\ cmd'[u] = cmd[u]
    BY <1>1, <1>3 DEF Check
  <2>3. Answers(t, pc[t], cmd[t], status) /\ ~deleted => Answers(t, pc'[t], cmd'[t], status)
    <3>1. Answers(t, pc[t], cmd[t], status) => status = Expected[cmd[t]]
      BY <2>1 DEF Answers, Workers
    <3>2. ~deleted /\ status = Expected[cmd[t]] =>
            pc'[t] \in {"stopping", "calling"} /\ (cmd'[t] = cmd[t] \/ (cmd[t] = "start" /\ cmd'[t] = "restart"))
      BY <1>1, <1>3 DEF Check
    <3>. QED
      BY <2>1, <2>2, <3>1, <3>2 DEF Answers
  <2>. QED
    BY <2>2, <2>3, StillAnswered DEF Answered
<1>4. CASE DecryptFails(t)
  <2>2. t \in Replicas => cmd[t] # "restart"
    BY <1>4 DEF DecryptFails
  <2>3. t \in Calls \cup Replicas
    BY <1>1, <1>4 DEF DecryptFails, Station, Threads, Workers
  <2>4. Answers(t, pc[t], cmd[t], status) => Answers(t, pc'[t], cmd'[t], status)
    BY <1>1, <1>4, <2>2, <2>3 DEF DecryptFails, Answers, Workers
  <2>. QED
    BY <1>1, <1>4, <2>4, StillAnswered DEF DecryptFails
<1>5. ASSUME NEW j \in Jobs, Call(t, j) PROVE Answered'
  <2>1. t \in Calls \cup Replicas /\ j \in Workers /\ j # t
    BY <1>1, <1>5 DEF Call, Station, Threads, Workers
  <2>2. /\ status' = status /\ deleted' = deleted /\ commands' = commands /\ cmd'[t] = cmd[t]
        /\ pc'[t] = "waiting" /\ pc[t] = "calling"
        /\ \A u \in Threads \ {t, j} : pc'[u] = pc[u] /\ cmd'[u] = cmd[u]
    BY <1>1, <1>5, <2>1 DEF Call
  <2>3. Answers(t, pc[t], cmd[t], status) => Answers(t, pc'[t], cmd'[t], status)
    BY <2>1, <2>2 DEF Answers, Workers
  <2>. QED
    BY <2>1, <2>2, <2>3, StillAnswered
<1>6. CASE GiveUp(t)
  <2>1. t \in Calls \cup Replicas
    BY <1>1, <1>6 DEF GiveUp, Station, Threads, Workers
  <2>2. Answers(t, pc[t], cmd[t], status) => Answers(t, pc'[t], cmd'[t], status)
    BY <1>1, <1>6, <2>1 DEF GiveUp, Answers, Workers
  <2>. QED
    BY <1>1, <1>6, <2>2, StillAnswered DEF GiveUp
<1>. QED
  BY <1>2, <1>3, <1>4, <1>5, <1>6 DEF Command

LEMMA WorkAnswers ==
  ASSUME ActorsInv, Answered, NEW t \in Threads, Work(t) PROVE Answered'
<1> USE DEF Goto, Hold, rowVars, dockerVars, localVars
<1>1. /\ pc \in [Threads -> Points] /\ Station(t, pc[t], cmd[t])
      /\ cmd \in [Threads -> {"none", "create", "start", "stop", "restart"}]
  BY Known DEF ActorsInv, TypeOK
<1>2. t \in Workers
  BY <1>1 DEF Work, Lock, TryLock, Reread, RereadAttach, StartContainer, StartFails, ClearName,
              Build, Claim, Station, Threads, Workers
<1>3. ~Answers(t, pc[t], cmd[t], status)
  BY <1>2 DEF Answers
<1>4. CASE Claim(t)
  <2>1. CASE status = "stopping"
    BY <1>1, <1>3, <1>4, <2>1, StillAnswered DEF Claim
  <2>2. CASE status # "stopping"
    BY <1>4, <2>2 DEF Claim, Answered, Transitional
  <2>. QED
    BY <2>1, <2>2
<1>5. CASE Lock(t) \/ TryLock(t) \/ Reread(t) \/ RereadAttach(t) \/ ClearName(t)
  BY <1>1, <1>3, <1>5, StillAnswered DEF Lock, TryLock, Reread, RereadAttach, ClearName
<1>6. ASSUME NEW new, Finish(t, new) PROVE Answered'
  <2>1. \A u \in Threads \ {t} :
          cmd'[u] = cmd[u] /\ (pc'[u] = pc[u] \/ (pc[u] = "waiting" /\ pc'[u] = "persisting"))
    BY <1>1, <1>6 DEF Finish, ActorsInv, Served, DistinctAssumption
  <2>2. \A u \in Threads : pc[u] = "waiting" => u \in Calls \cup Replicas
    BY DEF ActorsInv, Stations, Station, Threads, Workers
  <2>. QED
    BY <1>3, <1>6, <2>1, <2>2, StillAnswered DEF Finish
<1>7. ASSUME NEW gone, Break(t, gone) PROVE Answered'
  <2>1. \A u \in Threads \ {t} :
          cmd'[u] = cmd[u] /\ (pc'[u] = pc[u] \/ (pc[u] = "waiting" /\ pc'[u] = "failing"))
    BY <1>1, <1>7 DEF Break, ActorsInv, Served
  <2>2. \A u \in Threads : pc[u] = "waiting" => u \in Calls \cup Replicas
    BY DEF ActorsInv, Stations, Station, Threads, Workers
  <2>. QED
    BY <1>3, <1>7, <2>1, <2>2, StillAnswered DEF Break
<1>8. CASE StartContainer(t) \/ Build(t) \/ StartFails(t)
  <2>1. CASE \E p \in Points : pc' = [pc EXCEPT ![t] = p] /\ UNCHANGED <<rowVars, commands, localVars>>
    BY <1>1, <1>3, <2>1, StillAnswered
  <2>. QED
    BY <1>6, <1>7, <1>8, <2>1 DEF StartContainer, Build, StartFails, Points
<1>. QED
  BY <1>4, <1>5, <1>8 DEF Work

LEMMA LoseAnswers ==
  ASSUME ActorsInv, Answered, ~unheeded', NEW t \in Threads, Lose(t) PROVE Answered'
<1>1. PICK p : Lost(t, p) /\ Unwritten(t, pc[t], p)
  BY Losing DEF ActorsInv
<1>2. /\ pc \in [Threads -> Points] /\ Station(t, pc[t], cmd[t])
  BY Known DEF ActorsInv, TypeOK
<1>3. /\ pc' = [pc EXCEPT ![t] = p] /\ UNCHANGED <<status, deleted, commands, cmd>>
      /\ ~(t \notin Workers /\ p # "failing" /\ pc[t] \in {"checking", "failing", "stopped", "sparing"})
  BY <1>1 DEF Unwritten, Goto, rowVars
<1>4. Answers(t, pc[t], cmd[t], status) => Answers(t, pc'[t], cmd'[t], status)
  BY <1>1, <1>2, <1>3 DEF Lost, Answers, Threads, Workers
<1>. QED
  BY <1>2, <1>3, <1>4, StillAnswered

LEMMA NextAnswers == ASSUME ActorsInv, Answered, ~unheeded', [Next]_vars PROVE Answered'
<1> USE DEF Goto, Hold, rowVars, dockerVars, localVars
<1>1. /\ pc \in [Threads -> Points] /\ commands \in [DOMAIN Expected -> Nat]
      /\ cmd \in [Threads -> {"none", "create", "start", "stop", "restart"}]
  BY DEF ActorsInv, TypeOK
<1>2. ASSUME NEW t \in Threads, Turn(t) \/ Reconcile(t) \/ List(t) \/ Probe(t) PROVE Answered'
  <2>1. /\ status' = status /\ deleted' = deleted /\ commands' = commands /\ cmd' = cmd
        /\ \A u \in Threads \ {t} : pc'[u] = pc[u]
    BY <1>1, <1>2 DEF Turn, Attach, EndTurn, Reconcile, List, Probe
  <2>2. Answers(t, pc[t], cmd[t], status) => Answers(t, pc'[t], cmd'[t], status)
    <3>1. Station(t, pc[t], cmd[t])
      BY <1>1, Known
    <3>. QED
      BY <1>1, <1>2, <2>1, <3>1
      DEF Turn, Attach, EndTurn, Reconcile, List, Probe, Answers, Station, Threads, Workers
  <2>. QED
    BY <1>1, <2>1, <2>2, StillAnswered
<1>3. ASSUME NEW t \in Threads, ClaimStop(t) PROVE Answered'
  <2>1. Station(t, pc[t], cmd[t])
    BY <1>1, Known
  <2>2. t \in Reapers /\ ~Answers(t, pc[t], cmd[t], status)
    BY <1>3, <2>1 DEF ClaimStop, Answers, Station, Threads, Workers
  <2>3. CASE status = "running"
    <3>1. Answers(t, pc'[t], cmd'[t], "stopping")
      BY <1>1, <1>3, <2>2, <2>3 DEF ClaimStop, Answers
    <3>. QED
      BY <1>3, <2>3, <3>1 DEF ClaimStop, Answered
  <2>4. CASE status # "running"
    BY <1>1, <1>3, <2>2, <2>4, StillAnswered DEF ClaimStop
  <2>. QED
    BY <2>3, <2>4
<1>4. ASSUME NEW t \in Threads, Spare(t) PROVE Answered'
  BY <1>4 DEF Spare, Answered, Transitional
<1>5. ASSUME NEW t \in Threads, Crash(t) PROVE Answered'
  <2>1. /\ Station(t, pc[t], cmd[t])
        /\ t \in Calls \cup Reapers => pc[t] \notin
             {"appending", "failing", "probing", "stopping", "stopped", "sparing"}
    BY <1>1, <1>5, Known DEF Crash
  <2>2. /\ status' = status /\ deleted' = deleted /\ cmd' = cmd
        /\ \A u \in Threads \ {t} : pc'[u] = pc[u]
    BY <1>1, <1>5 DEF Crash
  <2>3. CASE t \in Replicas
    <3>1. cmd[t] \in {"create", "start", "stop", "restart"}
      BY <1>1, <1>5, <2>1, <2>3 DEF Crash, Station, Workers
    <3>2. PICK c \in DOMAIN Expected : /\ commands' = [commands EXCEPT ![c] = @ + 1]
                                       /\ c = IF cmd[t] = "restart" THEN "start" ELSE cmd[t]
      BY <1>5, <2>3, <3>1 DEF Crash, Expected
    <3>3. Answers(t, pc[t], cmd[t], status) => Expected[c] = status
      BY <2>3, <3>2 DEF Answers, Workers
    <3>. QED
      BY <1>1, <2>2, <3>2, <3>3, StillAnswered
  <2>4. CASE t \notin Replicas
    <3>1. ~Answers(t, pc[t], cmd[t], status) /\ commands' = commands
      BY <1>5, <2>1, <2>4 DEF Crash, Answers, Workers
    <3>. QED
      BY <1>1, <2>2, <3>1, StillAnswered
  <2>. QED
    BY <2>3, <2>4
<1>6. CASE Quiet \/ Vanish \/ UNCHANGED vars
  BY <1>1, <1>6 DEF Quiet, Vanish, vars, Answered, Answers
<1>. QED
  BY <1>1, <1>2, <1>3, <1>4, <1>5, <1>6, RequestAnswers, WriteAnswers, CommandAnswers, WorkAnswers,
     LoseAnswers
  DEF Next, Reap

\* Whoever is to move the row out of a transitional status is there, or one of the
\* writes the code gives up on was lost: what keeps AnswersInv from one step to the next.
THEOREM AnswersInvariance == Spec => []AnswersInv
<1>1. Init => AnswersInv
  BY InitActors DEF Init, AnswersInv, NotStranded, Answered, Transitional, Threads
<1>2. AnswersInv /\ [Next]_vars => AnswersInv'
  <2> SUFFICES ASSUME AnswersInv, [Next]_vars PROVE AnswersInv'
    OBVIOUS
  <2>1. ActorsInv' /\ (unheeded => unheeded')
    BY NextActors, SettingStands DEF AnswersInv
  <2>. QED
    BY <2>1, NextAnswers DEF AnswersInv, NotStranded
<1>. QED
  BY <1>1, <1>2, PTL DEF Spec

\* While the row says creating, starting or stopping, somebody is left who will
\* write the outcome, whatever fails and whoever dies -- but for the writes and reads
\* the code gives up on, which NotStranded lists and the variable unheeded records.
THEOREM EnvironmentsNotStranded == Spec => []NotStranded
<1>1. AnswersInv => NotStranded
  BY DEF AnswersInv
<1>. QED
  BY <1>1, AnswersInvariance, PTL

-----------------------------------------------------------------------------
(***************************************************************************)
(* The row and the container, when only attaches, boots, the creation and  *)
(* deletes touch them.                                                     *)
(***************************************************************************)
CreationInv == Quietened /\ OneCreation /\ NotYet
AgreeInv == RowAgrees /\ HolderKnows

\* Where the actors are then.
LEMMA ShelteredStations ==
  ASSUME ActorsInv, Quietened
  PROVE  /\ \A t \in Calls : pc[t] \in {"idle", "done", "appending", "failing", "deleting",
                                         "unmounting", "dropping"}
         /\ \A t \in Replicas : pc[t] \in {"idle", "checking", "calling", "waiting", "persisting",
                                            "failing"}
         /\ \A t \in Jobs : pc[t] \in {"idle", "building"}
         /\ \A t \in Reapers : pc[t] = "idle"
<1> USE DEF ActorsInv, Stations, Quietened
<1>1. ASSUME NEW t \in Calls
      PROVE  pc[t] \in {"idle", "done", "appending", "failing", "deleting", "unmounting", "dropping"}
  BY DEF Station, Threads
<1>2. ASSUME NEW t \in Replicas
      PROVE  pc[t] \in {"idle", "checking", "calling", "waiting", "persisting", "failing"}
  BY DEF Station, Threads
<1>3. ASSUME NEW t \in Jobs PROVE pc[t] \in {"idle", "building"}
  BY DEF Station, Threads, Workers
<1>. QED
  BY <1>1, <1>2, <1>3

\* What an actor of each role can then do.
CallStep(t) ==
  \/ Create(t) \/ Append(t) \/ AppendFails(t) \/ Fail(t) \/ Delete(t) \/ ChangePorts(t)
  \/ RemoveContainer(t) \/ RemoveVolume(t) \/ SoftDelete(t) \/ Lose(t) \/ Crash(t)
ReplicaStep(t) ==
  \/ Receive(t, "create") \/ Check(t) \/ DecryptFails(t) \/ (\E j \in Jobs : Call(t, j)) \/ GiveUp(t)
  \/ Persist(t) \/ PersistFails(t) \/ Fail(t) \/ Lose(t)
ClaimerStep(t) ==
  \/ Attach(t) \/ Reconcile(t) \/ Lock(t) \/ TryLock(t) \/ Reread(t) \/ RereadAttach(t)
  \/ StartContainer(t) \/ StartFails(t) \/ ClearName(t) \/ Build(t) \/ Claim(t)
  \/ Touch(t) \/ Fail(t) \/ EndTurn(t) \/ Lose(t)

LEMMA ShelteredSteps ==
  ASSUME ActorsInv, Sheltered, Quietened, [Next]_vars
  PROVE  \/ \E t \in Calls : CallStep(t)
         \/ \E t \in Replicas : ReplicaStep(t)
         \/ \E t \in Jobs : Build(t) \/ StartFails(t) \/ Crash(t)
         \/ \E t \in Claimers : ClaimerStep(t)
         \/ Quiet \/ Vanish \/ UNCHANGED vars
<1> USE DEF Goto
<1>1. ASSUME NEW t \in Threads PROVE Station(t, pc[t], cmd[t])
  BY Known
<1>2. ASSUME NEW t \in Threads, Request(t) PROVE t \in Calls /\ CallStep(t)
  BY <1>2 DEF Request, Create, Ask, Restart, Delete, ChangePorts, CallStep, Sheltered
<1>3. ASSUME NEW t \in Threads, Write(t)
      PROVE  \/ t \in Calls /\ CallStep(t)
             \/ t \in Replicas /\ ReplicaStep(t)
             \/ t \in Claimers /\ ClaimerStep(t)
  <2>1. CASE t \in Calls
    <3>1. /\ pc[t] \in {"idle", "done", "appending", "failing", "deleting", "unmounting", "dropping"}
          /\ pc[t] # "marking"
      BY <2>1, ShelteredStations
    <3>2. CASE Mark(t) \/ Append(t) \/ AppendFails(t) \/ Fail(t)
      BY <2>1, <3>1, <3>2 DEF Mark, CallStep
    <3>3. CASE RemoveContainer(t) \/ RemoveVolume(t) \/ SoftDelete(t)
      BY <2>1, <3>3 DEF CallStep
    <3>4. ~Persist(t) /\ ~PersistFails(t) /\ ~Touch(t) /\ ~ClearPending(t)
      BY <3>1 DEF Persist, PersistFails, Touch, ClearPending
    <3>5. ~StopContainer(t) /\ ~StopContainerFails(t) /\ ~WriteStopped(t)
      BY <3>1 DEF StopContainer, StopContainerFails, WriteStopped
    <3>. QED
      BY <1>3, <3>2, <3>3, <3>4, <3>5 DEF Write
  <2>2. CASE t \in Replicas
    BY <1>3, <2>2, ShelteredStations
    DEF Write, Mark, Append, AppendFails, Persist, PersistFails, Touch, ClearPending, Fail,
        StopContainer, StopContainerFails, WriteStopped, RemoveContainer, RemoveVolume, SoftDelete,
        ReplicaStep
  <2>3. CASE t \in Jobs \cup Reapers
    BY <1>3, <2>3, ShelteredStations
    DEF Write, Mark, Append, AppendFails, Persist, PersistFails, Touch, ClearPending, Fail,
        StopContainer, StopContainerFails, WriteStopped, RemoveContainer, RemoveVolume, SoftDelete
  <2>4. CASE t \in Claimers
    BY <1>1, <1>3, <2>4
    DEF Write, Mark, Append, AppendFails, Persist, PersistFails, Touch, ClearPending, Fail,
        StopContainer, StopContainerFails, WriteStopped, RemoveContainer, RemoveVolume, SoftDelete,
        ClaimerStep, Claimers, Station, Workers
  <2>. QED
    BY <2>1, <2>2, <2>3, <2>4 DEF Threads, Workers, Claimers
<1>4. ASSUME NEW t \in Threads, Command(t) PROVE t \in Replicas /\ ReplicaStep(t)
  <2>1. ASSUME NEW k \in DOMAIN Expected, Receive(t, k) PROVE t \in Replicas /\ k = "create"
    BY <2>1 DEF Receive, Expected, Quietened
  <2>2. pc[t] \in {"checking", "calling", "waiting"} => t \in Replicas
    BY <1>1, ShelteredStations DEF Station, Threads, Workers
  <2>. QED
    BY <1>4, <2>1, <2>2 DEF Command, Check, DecryptFails, Call, GiveUp, ReplicaStep
<1>5. ASSUME NEW t \in Threads, Work(t)
      PROVE  \/ t \in Jobs /\ (Build(t) \/ StartFails(t))
             \/ t \in Claimers /\ ClaimerStep(t)
  <2>1. t \in Jobs => pc[t] \in {"idle", "building"}
    BY ShelteredStations
  <2>2. t \in Jobs \cup Claimers
    BY <1>1, <1>5 DEF Work, Lock, TryLock, Reread, RereadAttach, StartContainer, StartFails,
         ClearName, Build, Claim, Station, Threads, Workers, Claimers
  <2>. QED
    BY <1>5, <2>1, <2>2 DEF Work, Lock, TryLock, Reread, RereadAttach, StartContainer, StartFails,
         ClearName, Build, Claim, ClaimerStep
<1>6. ASSUME NEW t \in Threads, Turn(t) \/ Reconcile(t) PROVE t \in Claimers /\ ClaimerStep(t)
  BY <1>1, <1>6
  DEF Turn, Attach, EndTurn, Reconcile, ClaimerStep, Claimers, Station, Threads, Workers
<1>7. ASSUME NEW t \in Threads PROVE ~Reap(t)
  BY <1>1, ShelteredStations
  DEF Reap, List, ClaimStop, Probe, Spare, Sheltered, Station, Threads, Workers
<1>8. ASSUME NEW t \in Threads, Crash(t)
      PROVE  \/ t \in Calls /\ CallStep(t)
             \/ t \in Jobs
  BY <1>8, ShelteredStations DEF Crash, Sheltered, CallStep, Threads, Workers
<1>9. ASSUME NEW t \in Threads, Lose(t)
      PROVE  \/ t \in Calls /\ CallStep(t)
             \/ t \in Replicas /\ ReplicaStep(t)
             \/ t \in Claimers /\ ClaimerStep(t)
  <2>1. t \notin Jobs \cup Reapers
    BY <1>9, Losing, ShelteredStations DEF Lost, ActorsInv, Workers
  <2>. QED
    BY <1>9, <2>1 DEF CallStep, ReplicaStep, ClaimerStep, Claimers, Threads, Workers
<1>. QED
  BY <1>2, <1>3, <1>4, <1>5, <1>6, <1>7, <1>8, <1>9 DEF Next

\* The creation is nobody's business while there is a backend_ref.
LEMMA CreatedThen ==
  ASSUME ActorsInv, CreationInv, ref # 0
  PROVE  /\ status # "none" /\ Creators = {} /\ commands["create"] = 0
         /\ \A j \in Jobs : pc[j] = "idle"
         /\ \A t \in Replicas : pc[t] = "idle"
         /\ \A t \in Calls : pc[t] # "appending"
<1>1. commands["create"] \in Nat
  BY DEF ActorsInv, TypeOK, Expected
<1>2. Creators = {} /\ commands["create"] # 1 /\ commands["create"] <= 1 /\ status # "none"
      /\ \A j \in Jobs : pc[j] = "idle"
  BY DEF CreationInv, OneCreation, NotYet
<1>. QED
  BY <1>1, <1>2 DEF Creators

\* Nobody but the container's own actors changes what they agree on.
LEMMA AgreeKept ==
  ASSUME AgreeInv, \A u \in Claimers : pc'[u] = pc[u] /\ arg'[u] = arg[u],
         ref' = ref, deleted => deleted', box' \in {box, NoBox}
  PROVE  AgreeInv'
<1>1. RowAgrees'
  BY DEF AgreeInv, RowAgrees
<1>2. ASSUME NEW u \in Claimers PROVE Knows(u)'
  <2>1. Knows(u) /\ pc'[u] = pc[u] /\ arg'[u] = arg[u]
    BY <1>2 DEF AgreeInv, HolderKnows
  <2>. QED
    BY <2>1 DEF Knows, Suits
<1>. QED
  BY <1>1, <1>2 DEF AgreeInv, HolderKnows

LEMMA AgreeIdle ==
  ASSUME \A u \in Claimers : pc'[u] \in {"idle", "done"},
         ref' # 0 /\ box' # NoBox => box'.ref = ref'
  PROVE  AgreeInv'
<1>1. RowAgrees'
  BY DEF RowAgrees
<1>2. ASSUME NEW u \in Claimers PROVE Knows(u)'
  BY <1>2 DEF Knows
<1>. QED
  BY <1>1, <1>2 DEF AgreeInv, HolderKnows

-----------------------------------------------------------------------------
(* Requests.                                                               *)

\* A step of t alone.
Alone(t) == \A u \in Threads \ {t} : pc'[u] = pc[u] /\ cmd'[u] = cmd[u] /\ arg'[u] = arg[u]

LEMMA CallOn ==
  ASSUME ActorsInv, CreationInv, NEW t \in Calls, Alone(t),
         pc'[t] \in {"done", "failing", "deleting", "unmounting", "dropping"},
         pc'[t] = "failing" => arg'[t] = 0,
         ref' = ref, commands' = commands, \A j \in Jobs : for'[j] = for[j],
         status' \in {status, "error"}, box' \in {box, NoBox}
  PROVE  CreationInv'
<1>1. \A u \in Replicas \cup Jobs \cup Claimers \cup Reapers \cup (Calls \ {t}) :
        pc'[u] = pc[u] /\ cmd'[u] = cmd[u] /\ arg'[u] = arg[u]
  BY RolesAssumption DEF Alone, Threads, Workers, Claimers
<1>2. Creators' \subseteq Creators /\ \A u \in Creators' : pc'[u] = pc[u]
  BY <1>1, RolesAssumption DEF Creators, Workers
<1>3. Quietened'
  BY <1>1 DEF CreationInv, Quietened
<1>4. NotYet'
  BY <1>1 DEF CreationInv, NotYet
<1>5. OneCreation'
  BY <1>1, <1>2 DEF CreationInv, OneCreation, NoBox
<1>. QED
  BY <1>3, <1>4, <1>5 DEF CreationInv

LEMMA CallCreation ==
  ASSUME ActorsInv, Sheltered, CreationInv, AgreeInv, NEW t \in Calls, CallStep(t)
  PROVE  CreationInv' /\ AgreeInv'
<1> USE DEF Goto, Hold, rowVars, dockerVars, localVars, faultVars
<1>1. /\ pc \in [Threads -> Points] /\ t \in Threads
      /\ cmd \in [Threads -> {"none", "create", "start", "stop", "restart"}]
      /\ arg \in [Threads -> 0..Lifespan] /\ for \in [Jobs -> Calls \cup Replicas \cup {None}]
      /\ commands \in [DOMAIN Expected -> Nat]
  BY DEF ActorsInv, TypeOK, Threads
<1>2. Over(t) = "done"
  BY RolesAssumption DEF Over, Workers
<1>3. pc[t] \in {"idle", "done", "appending", "failing", "deleting", "unmounting", "dropping"}
      /\ (pc[t] = "appending" => cmd[t] = "create")
      /\ (pc[t] \in {"idle", "appending", "failing"} => arg[t] = 0)
  BY ShelteredStations DEF CreationInv, Quietened
<1>c. ASSUME Lose(t)
      PROVE  /\ Alone(t) /\ UNCHANGED <<status, ref, deleted, box, commands, for>>
             /\ pc'[t] \in {"done", "failing"} /\ (pc'[t] = "failing" => arg'[t] = 0)
  <2>1. PICK p : Lost(t, p) /\ Unwritten(t, pc[t], p)
    BY <1>1, <1>c, Losing DEF ActorsInv
  <2>2. p \in {"done", "failing"}
    BY <1>3, <2>1, RolesAssumption DEF Lost, Workers
  <2>. QED
    BY <1>1, <2>1, <2>2 DEF Unwritten, Alone
<1>4. Alone(t)
  BY <1>1, <1>c DEF CallStep, Create, Append, AppendFails, Fail, Delete, ChangePorts, RemoveContainer,
              RemoveVolume, SoftDelete, Crash, Alone
<1>5. AgreeInv'
  <2>1. \A u \in Claimers : pc'[u] = pc[u] /\ arg'[u] = arg[u]
    BY <1>4, RolesAssumption DEF Alone, Claimers, Threads, Workers
  <2>2. ref' = ref /\ (deleted => deleted') /\ box' \in {box, NoBox}
    BY <1>3, <1>c DEF CallStep, Create, Append, AppendFails, Fail, Delete, ChangePorts,
                RemoveContainer, RemoveVolume, SoftDelete, Crash
  <2>. QED
    BY <2>1, <2>2, AgreeKept
<1>6. ASSUME pc'[t] \in {"done", "failing", "deleting", "unmounting", "dropping"},
             pc'[t] = "failing" => arg'[t] = 0,
             ref' = ref, commands' = commands, \A j \in Jobs : for'[j] = for[j],
             status' \in {status, "error"}, box' \in {box, NoBox}
      PROVE  CreationInv' /\ AgreeInv'
  BY <1>4, <1>5, <1>6, CallOn
<1>7. CASE \/ AppendFails(t) \/ Fail(t) \/ Delete(t) \/ ChangePorts(t)
           \/ RemoveContainer(t) \/ RemoveVolume(t) \/ SoftDelete(t)
  <2>1. CASE AppendFails(t)
    BY <1>1, <1>3, <1>6, <2>1 DEF AppendFails
  <2>2. CASE Fail(t)
    BY <1>1, <1>2, <1>3, <1>6, <2>2 DEF Fail
  <2>3. CASE Delete(t)
    BY <1>1, <1>6, <2>3 DEF Delete
  <2>4. CASE ChangePorts(t)
    BY <1>1, <1>6, <2>4 DEF ChangePorts
  <2>5. CASE RemoveContainer(t)
    BY <1>1, <1>6, <2>5 DEF RemoveContainer
  <2>6. CASE RemoveVolume(t)
    BY <1>1, <1>6, <2>6 DEF RemoveVolume
  <2>7. CASE SoftDelete(t)
    BY <1>1, <1>6, <2>7 DEF SoftDelete
  <2>. QED
    BY <1>7, <2>1, <2>2, <2>3, <2>4, <2>5, <2>6, <2>7
<1>12. CASE Lose(t)
  BY <1>6, <1>12, <1>c
<1>8. CASE Crash(t)
  <2>1. \A j \in Jobs : for'[j] = for[j]
    BY <1>1, <1>3, <1>8, RolesAssumption DEF Crash, ActorsInv, Served, Workers
  <2>2. commands' = commands
    BY <1>8, RolesAssumption DEF Crash
  <2>. QED
    BY <1>1, <1>2, <1>6, <1>8, <2>1, <2>2 DEF Crash
<1>9. \A u \in Replicas \cup Jobs \cup Claimers \cup Reapers \cup (Calls \ {t}) :
        pc'[u] = pc[u] /\ cmd'[u] = cmd[u] /\ arg'[u] = arg[u]
  BY <1>4, RolesAssumption DEF Alone, Threads, Workers, Claimers
<1>10. CASE Create(t)
  <2>1. /\ status = "none" /\ status' = "creating" /\ pc'[t] = "appending" /\ cmd'[t] = "create"
        /\ arg'[t] = 0 /\ ref' = ref /\ box' = box /\ commands' = commands /\ for' = for
    BY <1>1, <1>3, <1>10 DEF Create
  <2>2. /\ ref = 0 /\ box = NoBox /\ Creators = {} /\ commands["create"] # 1
        /\ \A j \in Jobs : pc[j] = "idle"
    BY <2>1 DEF CreationInv, OneCreation, NotYet
  <2>3. Creators' = {t}
    BY <1>9, <2>1, <2>2 DEF Creators
  <2>4. \A u \in Replicas : pc[u] = "idle"
    BY <2>2 DEF Creators
  <2>5. Quietened'
    BY <1>9, <2>1 DEF CreationInv, Quietened
  <2>6. NotYet'
    BY <1>9, <2>1, <2>2 DEF CreationInv, NotYet
  <2>7. OneCreation'
    BY <1>9, <2>1, <2>2, <2>3, <2>4 DEF CreationInv, OneCreation
  <2>. QED
    BY <1>5, <2>5, <2>6, <2>7 DEF CreationInv
<1>11. CASE Append(t)
  <2>1. /\ pc[t] = "appending" /\ pc'[t] = "done" /\ arg'[t] = arg[t] /\ ref' = ref /\ box' = box
        /\ status' = status /\ for' = for /\ commands' = [commands EXCEPT !["create"] = @ + 1]
    BY <1>1, <1>3, <1>11 DEF Append
  <2>2. Creators = {t}
    BY <2>1 DEF CreationInv, OneCreation, Creators
  <2>3. commands["create"] = 0 /\ commands'["create"] = 1
    BY <1>1, <2>1, <2>2 DEF CreationInv, OneCreation, Expected
  <2>4. Creators' = {}
    BY <1>9, <2>1, <2>2, RolesAssumption DEF Creators
  <2>5. Quietened'
    BY <1>1, <1>9, <2>1 DEF CreationInv, Quietened, Expected
  <2>6. NotYet'
    BY <1>9, <2>1 DEF CreationInv, NotYet
  <2>7. ref = 0 /\ status # "none" /\ \A j \in Jobs : pc[j] = "idle"
    BY <2>1, <2>2 DEF CreationInv, OneCreation
  <2>8. \A u \in Replicas : pc[u] = "idle"
    BY <2>1, <2>2, RolesAssumption DEF Creators
  <2>9. OneCreation'
    BY <1>9, <2>1, <2>3, <2>4, <2>7, <2>8 DEF OneCreation
  <2>. QED
    BY <1>5, <2>5, <2>6, <2>9 DEF CreationInv
<1>. QED
  BY <1>5, <1>7, <1>8, <1>10, <1>11, <1>12 DEF CallStep

-----------------------------------------------------------------------------
(* The replica and the job that have the creation.                         *)

\* While they have it the claimers have nothing to attach to.
LEMMA CreatorAtWork ==
  ASSUME ActorsInv, CreationInv, NEW t \in Replicas, pc[t] # "idle"
  PROVE  /\ Creators = {t} /\ cmd[t] = "create" /\ commands["create"] = 0
         /\ ref = 0 /\ status # "none"
         /\ \A u \in Claimers : pc[u] \in {"idle", "done"}
         /\ \A u \in Replicas \ {t} : pc[u] = "idle"
         /\ \A u \in Calls : pc[u] # "appending"
<1>1. t \in Creators
  BY DEF Creators
<1>2. Creators = {t} /\ commands["create"] # 1 /\ commands["create"] <= 1
      /\ ref = 0 /\ status # "none"
  BY <1>1 DEF CreationInv, OneCreation
<1>3. commands["create"] \in Nat
  BY DEF ActorsInv, TypeOK, Expected
<1>4. \A u \in Replicas \ {t} : pc[u] = "idle"
  BY <1>2 DEF Creators
<1>5. \A u \in Calls : pc[u] # "appending"
  BY <1>2, RolesAssumption DEF Creators
<1>. QED
  BY <1>2, <1>3, <1>4, <1>5 DEF CreationInv, Quietened, NotYet

\* The replica takes a step of its own.
LEMMA ReplicaOn ==
  ASSUME ActorsInv, CreationInv, NEW t \in Replicas, Alone(t), pc[t] # "idle",
         cmd'[t] = cmd[t], box' = box, commands' = commands, ref' = ref,
         status' \in {status, "error"},
         pc'[t] \in {"calling", "failing", "idle"},
         pc'[t] = "calling" => pc[t] = "checking",
         pc'[t] = "failing" => arg'[t] = 0,
         \A j \in Jobs : for'[j] = for[j] \/ (for[j] = t /\ pc'[t] = "failing")
  PROVE  CreationInv' /\ AgreeInv'
<1>1. \A u \in Calls \cup Jobs \cup Claimers \cup Reapers \cup (Replicas \ {t}) :
        pc'[u] = pc[u] /\ cmd'[u] = cmd[u] /\ arg'[u] = arg[u]
  BY RolesAssumption DEF Alone, Threads, Workers, Claimers
<1>2. /\ Creators = {t} /\ cmd[t] = "create" /\ commands["create"] = 0
      /\ ref = 0 /\ status # "none"
      /\ \A u \in Claimers : pc[u] \in {"idle", "done"}
      /\ \A u \in Replicas \ {t} : pc[u] = "idle"
      /\ \A u \in Calls : pc[u] # "appending"
  BY CreatorAtWork
<1>3. Creators' \subseteq {t}
  BY <1>1, <1>2 DEF Creators
<1>4. Quietened'
  BY <1>1, <1>2 DEF CreationInv, Quietened
<1>5. NotYet'
  BY <1>1, <1>2 DEF CreationInv, NotYet
<1>6. \A j \in Jobs : pc'[j] # "idle" => for'[j] # None \/ \A u \in Creators' : pc'[u] = "failing"
  <2> SUFFICES ASSUME NEW j \in Jobs, pc'[j] # "idle", for'[j] = None, pc'[t] # "failing"
               PROVE  t \notin Creators'
    BY <1>3
  <2>1. pc[j] # "idle" /\ for[j] = None
    BY <1>1
  <2>2. pc[t] = "failing"
    BY <1>2, <2>1 DEF CreationInv, OneCreation
  <2>3. pc'[t] = "idle"
    BY <2>2
  <2>. QED
    BY <2>3, RolesAssumption DEF Creators
<1>7. OneCreation'
  BY <1>1, <1>2, <1>3, <1>6 DEF CreationInv, OneCreation
<1>8. AgreeInv'
  BY <1>1, <1>2, AgreeIdle
<1>. QED
  BY <1>4, <1>5, <1>7, <1>8 DEF CreationInv

LEMMA ReplicaCreation ==
  ASSUME ActorsInv, Sheltered, CreationInv, AgreeInv, NEW t \in Replicas, ReplicaStep(t)
  PROVE  CreationInv' /\ AgreeInv'
<1> USE DEF Goto, Hold, rowVars, dockerVars, localVars, faultVars
<1>1. /\ pc \in [Threads -> Points] /\ t \in Threads
      /\ cmd \in [Threads -> {"none", "create", "start", "stop", "restart"}]
      /\ arg \in [Threads -> 0..Lifespan] /\ for \in [Jobs -> Calls \cup Replicas \cup {None}]
      /\ commands \in [DOMAIN Expected -> Nat]
  BY DEF ActorsInv, TypeOK, Threads
<1>2. Over(t) = "idle"
  BY DEF Over
<1>3. CASE Receive(t, "create")
  <2>1. /\ pc[t] = "idle" /\ pc'[t] = "checking" /\ cmd'[t] = "create" /\ Alone(t)
        /\ commands["create"] > 0 /\ commands' = [commands EXCEPT !["create"] = @ - 1]
        /\ status' = status /\ ref' = ref /\ deleted' = deleted /\ box' = box /\ for' = for
        /\ arg' = arg
    BY <1>1, <1>3 DEF Receive, Alone
  <2>2. \A u \in Calls \cup Jobs \cup Claimers \cup Reapers \cup (Replicas \ {t}) :
          pc'[u] = pc[u] /\ cmd'[u] = cmd[u] /\ arg'[u] = arg[u]
    BY <2>1, RolesAssumption DEF Alone, Threads, Workers, Claimers
  <2>3. commands["create"] = 1 /\ commands'["create"] = 0
    BY <1>1, <2>1 DEF CreationInv, OneCreation, Expected
  <2>4. Creators = {} /\ ref = 0 /\ status # "none" /\ \A j \in Jobs : pc[j] = "idle"
    BY <2>3 DEF CreationInv, OneCreation
  <2>5. Creators' = {t}
    BY <2>1, <2>2, <2>4 DEF Creators
  <2>6. Quietened'
    BY <1>1, <2>1, <2>2 DEF CreationInv, Quietened, Expected
  <2>7. NotYet'
    BY <2>1, <2>2 DEF CreationInv, NotYet
  <2>8. \A u \in Calls : pc[u] # "appending"
    BY <2>4 DEF Creators
  <2>9. OneCreation'
    BY <2>1, <2>2, <2>3, <2>4, <2>5, <2>8 DEF CreationInv, OneCreation
  <2>10. AgreeInv'
    BY <2>1, <2>2, AgreeKept
  <2>. QED
    BY <2>6, <2>7, <2>9, <2>10 DEF CreationInv
<1>4. ASSUME pc[t] # "idle", Alone(t), cmd'[t] = cmd[t], box' = box, commands' = commands, ref' = ref,
             status' \in {status, "error"}, pc'[t] \in {"calling", "failing", "idle"},
             pc'[t] = "calling" => pc[t] = "checking", pc'[t] = "failing" => arg'[t] = 0,
             \A j \in Jobs : for'[j] = for[j] \/ (for[j] = t /\ pc'[t] = "failing")
      PROVE  CreationInv' /\ AgreeInv'
  BY <1>4, ReplicaOn
<1>5. CASE Check(t)
  <2>1. cmd[t] = "create" /\ pc[t] # "idle"
    BY <1>5, CreatorAtWork DEF Check
  <2>. QED
    BY <1>1, <1>4, <1>5, <2>1 DEF Check, Alone
<1>6. CASE DecryptFails(t)
  BY <1>1, <1>2, <1>4, <1>6, CreatorAtWork DEF DecryptFails, Alone
<1>7. CASE GiveUp(t)
  <2>1. \A j \in Jobs : for'[j] = for[j] \/ for[j] = t
    BY <1>7 DEF GiveUp
  <2>2. pc[t] # "idle" /\ pc'[t] = "failing" /\ arg'[t] = 0 /\ cmd' = cmd /\ Alone(t)
        /\ box' = box /\ commands' = commands /\ ref' = ref /\ status' = status
    BY <1>1, <1>7 DEF GiveUp, Alone
  <2>. QED
    BY <1>4, <2>1, <2>2
<1>8. CASE PersistFails(t)
  <2>1. cmd[t] = "create" /\ pc[t] # "idle"
    BY <1>8, CreatorAtWork DEF PersistFails
  <2>. QED
    BY <1>1, <1>4, <1>8, <2>1 DEF PersistFails, Alone
<1>9. CASE Fail(t)
  <2>1. arg[t] = 0 /\ pc[t] # "idle"
    BY <1>9 DEF Fail, CreationInv, Quietened
  <2>. QED
    BY <1>1, <1>2, <1>4, <1>9, <2>1 DEF Fail, Alone
<1>12. CASE Lose(t)
  <2>1. PICK p : Lost(t, p) /\ Unwritten(t, pc[t], p)
    BY <1>1, <1>12, Losing DEF ActorsInv
  <2>2. /\ pc[t] \in {"checking", "failing"} /\ p = "idle"
    BY <2>1, ShelteredStations, RolesAssumption DEF Lost, CreationInv, Workers
  <2>. QED
    BY <1>1, <1>4, <2>1, <2>2 DEF Unwritten, Alone
<1>10. ASSUME NEW j \in Jobs, Call(t, j) PROVE CreationInv' /\ AgreeInv'
  <2>1. /\ Creators = {t} /\ cmd[t] = "create" /\ commands["create"] = 0
        /\ ref = 0 /\ status # "none"
        /\ \A u \in Claimers : pc[u] \in {"idle", "done"}
        /\ \A u \in Replicas \ {t} : pc[u] = "idle"
        /\ \A u \in Calls : pc[u] # "appending"
    BY <1>10, CreatorAtWork DEF Call
  <2>2. \A i \in Jobs : pc[i] = "idle"
    BY <1>10 DEF Call, CreationInv, OneCreation
  <2>3. /\ pc'[t] = "waiting" /\ pc'[j] = "building" /\ cmd'[j] = "create" /\ cmd'[t] = "create"
        /\ for'[j] = t /\ commands' = commands /\ status' = status /\ ref' = ref /\ box' = box
        /\ \A u \in Threads \ {t, j} : pc'[u] = pc[u] /\ cmd'[u] = cmd[u] /\ arg'[u] = arg[u]
    BY <1>1, <1>10, <2>1, RolesAssumption DEF Call, FirstStep, Threads, Workers
  <2>4. \A u \in Calls \cup (Jobs \ {j}) \cup Claimers \cup Reapers \cup (Replicas \ {t}) :
          pc'[u] = pc[u] /\ cmd'[u] = cmd[u] /\ arg'[u] = arg[u]
    BY <2>3, RolesAssumption DEF Threads, Workers, Claimers
  <2>5. Creators' = {t}
    BY <2>1, <2>3, <2>4 DEF Creators
  <2>6. Quietened'
    BY <2>1, <2>3, <2>4 DEF CreationInv, Quietened
  <2>7. NotYet'
    BY <2>1, <2>3, <2>4 DEF CreationInv, NotYet
  <2>8. t # None
    BY <1>1, DistinctAssumption
  <2>9. OneCreation'
    BY <2>1, <2>2, <2>3, <2>4, <2>5, <2>8 DEF OneCreation
  <2>10. AgreeInv'
    BY <2>1, <2>3, <2>4, AgreeIdle
  <2>. QED
    BY <2>6, <2>7, <2>9, <2>10 DEF CreationInv
<1>11. CASE Persist(t)
  <2>1. /\ Creators = {t} /\ cmd[t] = "create" /\ commands["create"] = 0
        /\ ref = 0 /\ status # "none"
        /\ \A u \in Claimers : pc[u] \in {"idle", "done"}
        /\ \A u \in Replicas \ {t} : pc[u] = "idle"
        /\ \A u \in Calls : pc[u] # "appending"
    BY <1>11, CreatorAtWork DEF Persist
  <2>2. pc[t] = "persisting" /\ arg[t] # 0 /\ box.ref \in {0, arg[t]}
    BY <1>11 DEF Persist, CreationInv, OneCreation
  <2>3. \A j \in Jobs : pc[j] = "idle"
    <3> SUFFICES ASSUME NEW j \in Jobs, pc[j] # "idle" PROVE FALSE
      OBVIOUS
    <3>1. for[j] # None
      BY <2>1, <2>2 DEF CreationInv, OneCreation
    <3>2. for[j] \in Calls \cup Replicas /\ pc[for[j]] = "waiting"
      BY <1>1, <3>1 DEF ActorsInv, Served
    <3>. QED
      BY <2>1, <2>2, <3>2 DEF CreationInv, Quietened
  <2>4. /\ pc'[t] = "idle" /\ status' = "running" /\ ref' = arg[t] /\ box' = box
        /\ commands' = commands /\ Alone(t)
    BY <1>1, <1>2, <1>11, <2>1, <2>2 DEF Persist, Alone
  <2>5. \A u \in Calls \cup Jobs \cup Claimers \cup Reapers \cup (Replicas \ {t}) :
          pc'[u] = pc[u] /\ cmd'[u] = cmd[u] /\ arg'[u] = arg[u]
    BY <2>4, RolesAssumption DEF Alone, Threads, Workers, Claimers
  <2>6. Creators' = {}
    BY <2>1, <2>4, <2>5 DEF Creators
  <2>7. Quietened'
    BY <2>4, <2>5 DEF CreationInv, Quietened
  <2>8. NotYet'
    BY <2>2, <2>4 DEF NotYet
  <2>9. OneCreation'
    BY <2>1, <2>3, <2>4, <2>5, <2>6 DEF OneCreation
  <2>10. AgreeInv'
    <3>1. box # NoBox => box.ref # 0
      BY DEF ActorsInv, TypeOK, NoBox
    <3>. QED
      BY <2>1, <2>2, <2>4, <2>5, <3>1, AgreeIdle
  <2>. QED
    BY <2>7, <2>8, <2>9, <2>10 DEF CreationInv
<1>. QED
  BY <1>3, <1>5, <1>6, <1>7, <1>8, <1>9, <1>10, <1>11, <1>12 DEF ReplicaStep

LEMMA JobCreation ==
  ASSUME ActorsInv, Sheltered, CreationInv, AgreeInv, NEW t \in Jobs, Build(t) \/ StartFails(t) \/ Crash(t)
  PROVE  CreationInv' /\ AgreeInv'
<1> USE DEF Goto, Hold, rowVars, dockerVars, localVars, faultVars
<1>1. /\ pc \in [Threads -> Points] /\ t \in Threads
      /\ cmd \in [Threads -> {"none", "create", "start", "stop", "restart"}]
      /\ arg \in [Threads -> 0..Lifespan] /\ for \in [Jobs -> Calls \cup Replicas \cup {None}]
      /\ commands \in [DOMAIN Expected -> Nat] /\ refs \in Nat
      /\ t \notin Calls \cup Replicas \cup Claimers \cup Reapers
  BY RolesAssumption DEF ActorsInv, TypeOK, Threads, Workers, Claimers
<1>2. pc[t] # "idle" /\ cmd[t] = "create"
  BY <1>1 DEF Build, StartFails, Crash, CreationInv, Quietened
<1>3. /\ ref = 0 /\ status # "none" /\ commands["create"] # 1
      /\ for[t] # None \/ \A u \in Creators : pc[u] = "failing"
      /\ \A u \in Claimers : pc[u] \in {"idle", "done"}
      /\ \A u \in Replicas : pc[u] \notin {"checking", "calling"}
      /\ \A u \in Calls : pc[u] # "appending"
  BY <1>2 DEF CreationInv, OneCreation, NotYet
\* The replica it works for, if that still waits, is the one that creates.
<1>4. for[t] # None => /\ for[t] \in Replicas /\ pc[for[t]] = "waiting" /\ Creators = {for[t]}
                        /\ \A j \in Jobs \ {t} : pc[j] = "idle"
  <2> SUFFICES ASSUME for[t] # None
               PROVE  /\ for[t] \in Replicas /\ pc[for[t]] = "waiting" /\ Creators = {for[t]}
                      /\ \A j \in Jobs \ {t} : pc[j] = "idle"
    OBVIOUS
  <2>1. for[t] \in Calls \cup Replicas /\ pc[for[t]] = "waiting"
    BY <1>1 DEF ActorsInv, Served
  <2>2. for[t] \in Replicas
    BY <2>1 DEF CreationInv, Quietened
  <2>3. Creators = {for[t]}
    BY <2>1, <2>2, CreatorAtWork
  <2>4. ASSUME NEW j \in Jobs \ {t}, pc[j] # "idle" PROVE FALSE
    <3>1. for[j] # None
      BY <2>1, <2>3, <2>4 DEF CreationInv, OneCreation
    <3>2. for[j] \in Replicas /\ pc[for[j]] = "waiting"
      BY <1>1, <2>4, <3>1 DEF ActorsInv, Served, CreationInv, Quietened
    <3>3. for[j] = for[t]
      BY <2>3, <3>2 DEF Creators
    <3>. QED
      BY <2>4, <3>1, <3>3 DEF ActorsInv, Served
  <2>. QED
    BY <2>1, <2>2, <2>3, <2>4
\* What a step of the job does, whichever it is.
<1>5. ASSUME NEW p \in {"persisting", "failing", "waiting"}, NEW new \in Nat,
             pc'[t] = "idle", commands' = commands, status' = status, ref' = ref, cmd' = cmd,
             \A u \in Threads \ {t} :
               /\ u # for[t] => pc'[u] = pc[u] /\ arg'[u] = arg[u]
               /\ u = for[t] => pc'[u] = p /\ (p # "waiting" => arg'[u] = new),
             \A j \in Jobs : j # t => for'[j] = for[j],
             for[t] # None => /\ p = "persisting" => new # 0 /\ box'.ref = new
                              /\ p = "failing" => new = 0
      PROVE  CreationInv' /\ AgreeInv'
  <2>1. \A u \in Calls \cup (Jobs \ {t}) \cup Claimers \cup Reapers :
          pc'[u] = pc[u] /\ arg'[u] = arg[u]
    BY <1>1, <1>4, <1>5, RolesAssumption, DistinctAssumption DEF Threads, Workers, Claimers
  <2>2. \A u \in Replicas : /\ pc'[u] = pc[u] \/ u = for[t]
                            /\ u # for[t] => arg'[u] = arg[u]
                            /\ u = for[t] => pc'[u] = p /\ (p # "waiting" => arg'[u] = new)
    BY <1>1, <1>5 DEF Threads
  <2>3. \A u : u \in Creators' <=> u \in Creators
    <3>1. \A u \in Calls : pc'[u] = pc[u]
      BY <2>1
    <3>2. \A u \in Replicas : pc'[u] = "idle" <=> pc[u] = "idle"
      BY <1>4, <2>2, DistinctAssumption DEF Threads
    <3>. QED
      BY <3>1, <3>2 DEF Creators
  <2>4. Quietened'
    <3>1. \A u \in Replicas : pc'[u] = "failing" => arg'[u] = 0
      BY <1>4, <1>5, <2>2, DistinctAssumption DEF CreationInv, Quietened, Threads
    <3>2. \A u \in Replicas : pc'[u] # "idle" => pc[u] # "idle"
      BY <1>4, <2>2, DistinctAssumption DEF Threads
    <3>. QED
      BY <1>5, <2>1, <3>1, <3>2 DEF CreationInv, Quietened
  <2>5. NotYet'
    BY <1>3, <1>5, <2>1 DEF CreationInv, NotYet
  <2>6. OneCreation'
    <3>1. \A u, v \in Creators' : u = v
      BY <2>3 DEF CreationInv, OneCreation
    <3>2. commands'["create"] <= 1 /\ commands'["create"] # 1 /\ ref' = 0 /\ status' # "none"
      BY <1>3, <1>5 DEF CreationInv, OneCreation
    <3>3. \A u \in Replicas : pc'[u] \notin {"checking", "calling"}
      BY <1>3, <1>5, <2>2
    <3>4. \A u \in Calls : pc'[u] # "appending"
      BY <1>3, <2>1
    <3>5. ASSUME NEW j \in Jobs, pc'[j] # "idle"
          PROVE  for'[j] # None \/ \A u \in Creators' : pc'[u] = "failing"
      <4>1. j # t /\ pc[j] # "idle" /\ for'[j] = for[j]
        BY <1>5, <2>1, <3>5
      <4>2. for[t] = None
        BY <1>4, <4>1
      <4>3. \A u \in Creators : pc'[u] = "failing"
        BY <1>3, <2>1, <2>2, <4>2, DistinctAssumption DEF Creators, Threads
      <4>. QED
        BY <2>3, <4>3
    <3>6. \A u \in Replicas : pc'[u] = "persisting" => arg'[u] # 0 /\ box'.ref \in {0, arg'[u]}
      <4> SUFFICES ASSUME NEW u \in Replicas, pc'[u] = "persisting"
                   PROVE  arg'[u] # 0 /\ box'.ref \in {0, arg'[u]}
        OBVIOUS
      <4>1. CASE u = for[t]
        BY <1>1, <1>5, <2>2, <4>1, DistinctAssumption DEF Threads
      <4>2. CASE u # for[t]
        <5>1. pc[u] = "persisting" /\ u \in Creators
          BY <2>2, <4>2 DEF Creators
        <5>. QED
          BY <1>3, <1>4, <4>2, <5>1
      <4>. QED
        BY <4>1, <4>2
    <3>. QED
      BY <3>1, <3>2, <3>3, <3>4, <3>5, <3>6 DEF OneCreation
  <2>7. AgreeInv'
    BY <1>3, <1>5, <2>1, AgreeIdle
  <2>. QED
    BY <2>4, <2>5, <2>6, <2>7 DEF CreationInv
<1>6. CASE Crash(t)
  <2>1. for' = [j \in Jobs |-> IF j = t \/ for[j] = t THEN None ELSE for[j]]
    BY <1>6 DEF Crash
  <2>2. \A j \in Jobs : j # t => for'[j] = for[j]
    BY <1>1, <2>1, RolesAssumption DEF Workers
  <2>3. Over(t) = "idle"
    BY DEF Over
  <2>. QED
    BY SMTT(30), <1>1, <1>4, <1>5, <1>6, <2>2, <2>3 DEF Crash
<1>7. ASSUME Finish(t, refs + 1), box'.ref = refs + 1 PROVE CreationInv' /\ AgreeInv'
  <2>1. /\ pc'[t] = "idle" /\ commands' = commands /\ status' = status /\ ref' = ref /\ cmd' = cmd
        /\ \A u \in Threads \ {t} :
             /\ u # for[t] => pc'[u] = pc[u] /\ arg'[u] = arg[u]
             /\ u = for[t] => pc'[u] = "persisting" /\ arg'[u] = refs + 1
        /\ \A j \in Jobs : j # t => for'[j] = for[j]
    BY <1>1, <1>7 DEF Finish
  <2>2. refs + 1 \in Nat /\ refs + 1 # 0
    BY <1>1
  <2>. QED
    BY <1>5, <1>7, <2>1, <2>2
<1>8. ASSUME Break(t, FALSE) PROVE CreationInv' /\ AgreeInv'
  BY <1>1, <1>5, <1>8, RolesAssumption DEF Break, Workers, Over, Claimers
<1>9. CASE Build(t)
  <2>1. CASE Finish(t, refs + 1) /\ box' = [ref |-> refs + 1, up |-> TRUE, prof |-> Wants(t)]
    BY <1>7, <2>1
  <2>. QED
    BY <1>8, <1>9, <2>1 DEF Build
<1>10. CASE StartFails(t)
  BY <1>8, <1>10 DEF StartFails
<1>. QED
  BY <1>6, <1>9, <1>10

-----------------------------------------------------------------------------
(* Attaches and reconciliations, once there is a backend_ref.              *)

LEMMA ClaimerCreation ==
  ASSUME ActorsInv, CreationInv, NEW t \in Claimers, Alone(t), ref # 0, ref' # 0,
         status' \in {status, "running", "error"}, commands' = commands
  PROVE  CreationInv'
<1>1. \A u \in Calls \cup Replicas \cup Jobs \cup Reapers :
        pc'[u] = pc[u] /\ cmd'[u] = cmd[u] /\ arg'[u] = arg[u]
  BY RolesAssumption DEF Alone, Threads, Workers, Claimers
<1>2. /\ status # "none" /\ Creators = {} /\ commands["create"] = 0
      /\ \A j \in Jobs : pc[j] = "idle"
      /\ \A u \in Replicas : pc[u] = "idle"
      /\ \A u \in Calls : pc[u] # "appending"
  BY CreatedThen
<1>3. Creators' = {}
  BY <1>1, <1>2 DEF Creators
<1>4. Quietened'
  BY <1>1 DEF CreationInv, Quietened
<1>5. NotYet'
  BY <1>2 DEF NotYet
<1>6. OneCreation'
  BY <1>1, <1>2, <1>3 DEF OneCreation
<1>. QED
  BY <1>4, <1>5, <1>6 DEF CreationInv

\* Only the holder of the lock is at the steps that matter.
LEMMA OneHolder ==
  ASSUME ActorsInv, NEW t \in Claimers, Locking(t, pc[t], cmd[t]), NEW u \in Claimers \ {t}
  PROVE  pc[u] \notin {"starting", "removing", "healing", "building", "claiming"}
BY DEF ActorsInv, LockHeld, Locking, Claimers, Workers

LEMMA AgreeHolder ==
  ASSUME ActorsInv, NEW t \in Claimers, Locking(t, pc[t], cmd[t]), Alone(t),
         Knows(t)', RowAgrees'
  PROVE  AgreeInv'
<1>1. ASSUME NEW u \in Claimers \ {t} PROVE Knows(u)'
  <2>1. pc'[u] = pc[u]
    BY DEF Alone, Claimers, Threads, Workers
  <2>2. pc[u] \notin {"starting", "removing", "healing", "building", "claiming"}
    BY OneHolder
  <2>. QED
    BY <2>1, <2>2 DEF Knows
<1>. QED
  BY <1>1 DEF AgreeInv, HolderKnows

\* With no lock, or only looking, an actor changes nothing they agree on.
LEMMA AgreeLooking ==
  ASSUME AgreeInv, NEW t \in Claimers, Alone(t), ref' = ref, box' = box, deleted' = deleted,
         pc[t] # "claiming", Knows(t)'
  PROVE  AgreeInv'
<1>1. \A u \in Claimers \ {t} : pc'[u] = pc[u] /\ arg'[u] = arg[u]
  BY DEF Alone, Claimers, Threads, Workers
<1>2. RowAgrees'
  BY <1>1 DEF AgreeInv, RowAgrees
<1>3. ASSUME NEW u \in Claimers \ {t} PROVE Knows(u)'
  <2>1. Knows(u) /\ pc'[u] = pc[u] /\ arg'[u] = arg[u]
    BY <1>1, <1>3 DEF AgreeInv, HolderKnows
  <2>. QED
    BY <2>1 DEF Knows, Suits
<1>. QED
  BY <1>2, <1>3 DEF AgreeInv, HolderKnows

LEMMA ClaimerAgrees ==
  ASSUME ActorsInv, Sheltered, CreationInv, AgreeInv, NEW t \in Claimers, ClaimerStep(t)
  PROVE  CreationInv' /\ AgreeInv'
<1> USE DEF Goto, Hold, rowVars, dockerVars, localVars, faultVars
<1>1. /\ pc \in [Threads -> Points] /\ t \in Threads /\ t \notin Calls \cup Replicas \cup Jobs
      /\ cmd \in [Threads -> {"none", "create", "start", "stop", "restart"}]
      /\ arg \in [Threads -> 0..Lifespan] /\ refs \in Nat
      /\ box = NoBox \/ box.ref # 0
      /\ Station(t, pc[t], cmd[t]) /\ Knows(t) /\ RowAgrees
      /\ status \in {"none", "creating", "running", "error"}
  BY RolesAssumption, Known
  DEF ActorsInv, TypeOK, Threads, Workers, Claimers, AgreeInv, HolderKnows, CreationInv, Quietened
<1>2. ref # 0
  <2>1. pc[t] \notin {"idle", "done"} => ref # 0
    BY DEF CreationInv, NotYet
  <2>2. Lose(t) => pc[t] \notin {"idle", "done"}
    BY <1>1, Losing DEF Lost, ActorsInv
  <2>. QED
    BY <2>1, <2>2 DEF ClaimerStep, Attach, Ready, Reconcile, Lock, TryLock, Reread, RereadAttach,
             StartContainer, StartFails, ClearName, Build, Claim, Touch, Fail, EndTurn
<1>3. ASSUME NEW new, Finish(t, new)
      PROVE  /\ Alone(t) /\ UNCHANGED <<rowVars, commands>>
             /\ pc'[t] = "claiming" /\ arg'[t] = new
  BY <1>1, <1>3, DistinctAssumption DEF Finish, Alone, Threads
<1>4. ASSUME NEW gone, Break(t, gone)
      PROVE  /\ Alone(t) /\ UNCHANGED <<rowVars, commands>>
             /\ pc'[t] \in {"failing", "idle", "done"}
  BY <1>1, <1>4, DistinctAssumption DEF Break, Alone, Threads, Over
\* Looking.
<1>5. ASSUME Alone(t), ref' = ref, box' = box, deleted' = deleted, commands' = commands,
             status' \in {status, "error"}, pc[t] # "claiming", Knows(t)'
      PROVE  CreationInv' /\ AgreeInv'
  BY <1>2, <1>5, ClaimerCreation, AgreeLooking
<1>6. CASE Attach(t)
  BY <1>1, <1>5, <1>6 DEF Attach, Alone, Knows
<1>7. CASE Reconcile(t)
  BY <1>1, <1>5, <1>7 DEF Reconcile, Alone, Knows
<1>8. CASE Lock(t)
  BY <1>1, <1>5, <1>8 DEF Lock, Alone, Knows
<1>9. CASE TryLock(t)
  BY <1>1, <1>5, <1>9 DEF TryLock, Alone, Knows
<1>10. CASE Reread(t)
  BY <1>1, <1>2, <1>5, <1>10 DEF Reread, Alone, Knows
<1>11. CASE RereadAttach(t)
  BY <1>1, <1>5, <1>11 DEF RereadAttach, Alone, Knows
<1>12. CASE Touch(t)
  BY <1>1, <1>5, <1>12 DEF Touch, Alone, Knows, Over
<1>13. CASE Fail(t)
  BY <1>1, <1>5, <1>13 DEF Fail, Alone, Knows, Over
<1>14. CASE EndTurn(t)
  BY <1>1, <1>5, <1>14 DEF EndTurn, Alone, Knows
<1>22. CASE Lose(t)
  <2>1. PICK p : Lost(t, p) /\ Unwritten(t, pc[t], p)
    BY <1>1, <1>22, Losing DEF ActorsInv
  <2>2. pc[t] \notin {"claiming", "reading"}
    BY <2>1 DEF Unwritten, Err, Sheltered
  <2>3. p \in {"done", "working"}
    BY <1>1, <2>1, <2>2, RolesAssumption DEF Lost, Claimers, Workers
  <2>. QED
    BY <1>1, <1>5, <2>1, <2>2, <2>3 DEF Unwritten, Alone, Knows
\* With the lock.
<1>15. ASSUME pc[t] \in {"starting", "removing", "healing", "building", "claiming"}
       PROVE  /\ Locking(t, pc[t], cmd[t])
              /\ \A u \in Claimers : pc[u] = "claiming" => u = t
  <2>1. Locking(t, pc[t], cmd[t])
    BY <1>15 DEF Locking, Claimers
  <2>. QED
    BY <2>1, OneHolder
<1>16. ASSUME Alone(t), commands' = commands, Locking(t, pc[t], cmd[t]), ref' # 0,
              status' \in {status, "running", "error"}, Knows(t)', RowAgrees'
       PROVE  CreationInv' /\ AgreeInv'
  BY <1>2, <1>16, ClaimerCreation, AgreeHolder
<1>17. CASE StartContainer(t)
  <2>1. pc[t] = "starting" /\ Locking(t, pc[t], cmd[t])
    BY <1>15, <1>17 DEF StartContainer
  <2>2. box # NoBox => box.ref = ref
    BY <1>1, <1>2, <1>15, <2>1 DEF RowAgrees
  <2>3. CASE /\ pc' = [pc EXCEPT ![t] = "removing"] /\ box # NoBox /\ box.ref = arg[t] /\ ~Suits(t)
             /\ UNCHANGED <<rowVars, box, commands, lock, localVars>>
    BY <1>1, <1>5, <2>1, <2>3 DEF Alone, Knows, Suits
  <2>4. CASE /\ pc' = [pc EXCEPT ![t] = "healing"] /\ ~(box # NoBox /\ box.ref = arg[t])
             /\ UNCHANGED <<rowVars, box, commands, lock, localVars>>
    <3>1. deleted \/ box = NoBox
      BY <1>1, <2>1, <2>2, <2>4 DEF Knows
    <3>. QED
      BY <1>1, <1>5, <2>1, <2>4, <3>1 DEF Alone, Knows
  <2>5. CASE box # NoBox /\ box' = [box EXCEPT !.up = TRUE] /\ Finish(t, 0)
    <3>1. box'.ref = box.ref
      BY <1>1, <2>5 DEF ActorsInv, TypeOK
    <3>2. /\ Alone(t) /\ ref' = ref /\ status' = status /\ commands' = commands
          /\ pc'[t] = "claiming" /\ arg'[t] = 0
      BY <1>3, <2>5
    <3>3. Knows(t)' /\ RowAgrees'
      BY <2>2, <2>5, <3>1, <3>2 DEF Knows, RowAgrees
    <3>. QED
      BY <1>2, <1>16, <2>1, <3>2, <3>3
  <2>6. CASE Break(t, TRUE) /\ UNCHANGED box
    BY <1>1, <1>4, <1>5, <2>1, <2>6 DEF Knows
  <2>. QED
    BY <1>17, <2>3, <2>4, <2>5, <2>6 DEF StartContainer
<1>18. CASE StartFails(t)
  <2>1. Break(t, FALSE) /\ box' = box /\ pc[t] # "claiming"
    BY <1>1, <1>18 DEF StartFails
  <2>. QED
    BY <1>4, <1>5, <2>1 DEF Knows
<1>19. CASE ClearName(t)
  <2>1. /\ pc[t] \in {"removing", "healing"} /\ Alone(t) /\ pc'[t] = "building" /\ commands' = commands
        /\ ref' = ref /\ status' = status /\ deleted' = deleted
    BY <1>1, <1>19 DEF ClearName, Alone
  <2>2. box' = NoBox
    BY <1>1, <1>19 DEF ClearName, Knows
  <2>3. Knows(t)' /\ RowAgrees'
    BY <2>1, <2>2 DEF Knows, RowAgrees
  <2>. QED
    BY <1>2, <1>15, <1>16, <2>1, <2>3
<1>20. CASE Build(t)
  <2>1. pc[t] = "building" /\ box = NoBox /\ Locking(t, pc[t], cmd[t])
    BY <1>1, <1>15, <1>20 DEF Build, Knows
  <2>2. CASE Finish(t, refs + 1) /\ box' = [ref |-> refs + 1, up |-> TRUE, prof |-> Wants(t)]
    <3>1. /\ Alone(t) /\ ref' = ref /\ status' = status /\ commands' = commands
          /\ pc'[t] = "claiming" /\ arg'[t] = refs + 1
      BY <1>3, <2>2
    <3>2. Knows(t)' /\ RowAgrees'
      BY <1>1, <2>2, <3>1 DEF Knows, RowAgrees
    <3>. QED
      BY <1>2, <1>16, <2>1, <3>1, <3>2
  <2>3. CASE Break(t, FALSE) /\ UNCHANGED box
    BY <1>4, <1>5, <2>1, <2>3 DEF Knows
  <2>. QED
    BY <1>20, <2>2, <2>3 DEF Build
<1>21. CASE Claim(t)
  <2>1. /\ pc[t] = "claiming" /\ Alone(t) /\ pc'[t] \in {"touching", "done"} /\ commands' = commands
        /\ box' = box
    BY <1>1, <1>21 DEF Claim, Alone
  <2>2. status' = "running" /\ ref' = IF arg[t] # 0 THEN arg[t] ELSE ref
    BY <1>1, <1>21 DEF Claim
  <2>3. Knows(t)' /\ RowAgrees'
    BY <1>1, <2>1, <2>2 DEF Knows, RowAgrees
  <2>. QED
    BY <1>2, <1>15, <1>16, <2>1, <2>2, <2>3
<1>. QED
  BY <1>6, <1>7, <1>8, <1>9, <1>10, <1>11, <1>12, <1>13, <1>14, <1>17, <1>18, <1>19, <1>20, <1>21, <1>22
  DEF ClaimerStep

-----------------------------------------------------------------------------
LEMMA WorldAgrees ==
  ASSUME ActorsInv, CreationInv, AgreeInv, Quiet \/ Vanish \/ UNCHANGED vars
  PROVE  CreationInv' /\ AgreeInv'
<1> USE DEF rowVars, dockerVars, localVars, faultVars, vars
<1>1. /\ pc' = pc /\ cmd' = cmd /\ arg' = arg /\ for' = for /\ commands' = commands
      /\ ref' = ref /\ status' = status /\ deleted' = deleted /\ box' \in {box, NoBox}
  BY DEF Quiet, Vanish
<1>2. Creators' = Creators
  BY <1>1 DEF Creators
<1>3. Quietened' /\ NotYet'
  BY <1>1 DEF CreationInv, Quietened, NotYet
<1>4. OneCreation'
  BY <1>1, <1>2 DEF CreationInv, OneCreation, NoBox
<1>5. AgreeInv'
  BY <1>1, AgreeKept
<1>. QED
  BY <1>3, <1>4, <1>5 DEF CreationInv

LEMMA NextSheltered ==
  ASSUME ActorsInv, Sheltered, CreationInv, AgreeInv, [Next]_vars
  PROVE  CreationInv' /\ AgreeInv'
BY ShelteredSteps, CallCreation, ReplicaCreation, JobCreation, ClaimerAgrees, WorldAgrees
DEF CreationInv

LEMMA InitSheltered == Init => CreationInv /\ AgreeInv
BY DEF Init, CreationInv, Quietened, OneCreation, NotYet, Creators, AgreeInv, RowAgrees, HolderKnows,
       Knows, Threads, Workers, Claimers, Expected

\* Everything above, together: the invariant of the environments.
THEOREM ShelterInvariance == Spec => []IInv
<1>1. Init => ShelterInv
  BY InitSheltered DEF ShelterInv, CreationInv, AgreeInv
<1>2. AnswersInv /\ ShelterInv /\ [Next]_vars => ShelterInv'
  <2> SUFFICES ASSUME AnswersInv, ShelterInv, [Next]_vars, Sheltered'
               PROVE  CreationInv' /\ AgreeInv'
    BY DEF ShelterInv, CreationInv, AgreeInv
  <2>1. Sheltered
    BY SettingStands DEF Sheltered
  <2>. QED
    BY <2>1, NextSheltered DEF AnswersInv, ShelterInv, CreationInv, AgreeInv
<1>. QED
  BY <1>1, <1>2, AnswersInvariance, PTL DEF Spec, IInv

\* While nobody holds the start lock the row names the container there is, unless
\* the container is being created or its creation has failed, in every setting in
\* which nobody but attaches, boots, the creation and deletes touches the environment,
\* no replica, turn or boot dies, and neither a claim nor the second look at the row
\* fails; any other call may.  One that dies or errs between creating a container and
\* writing its ID into the row leaves the row with the ID of the one before.
THEOREM RowsNameContainers == Spec => []RowNamesContainer
<1>1. IInv => RowNamesContainer
  <2> SUFFICES ASSUME IInv, Sheltered, lock = None, box # NoBox,
                      ~ \E t \in Replicas : cmd[t] = "create" /\ pc[t] # "idle",
                      status \notin {"creating", "error"}
               PROVE  ref = box.ref
    BY DEF RowNamesContainer
  <2>1. \A t \in Claimers : pc[t] # "claiming"
    BY DistinctAssumption
    DEF IInv, AnswersInv, ActorsInv, LockHeld, Locking, Claimers, Workers, Threads
  <2>2. ref # 0
    BY DEF IInv, ShelterInv, NotYet
  <2>. QED
    BY <2>1, <2>2 DEF IInv, ShelterInv, RowAgrees
<1>. QED
  BY <1>1, ShelterInvariance, PTL

\* Neither an attach nor a booting runner removes the container a conversation works
\* in when all want the same variables, in the same settings.
THEOREM WorkersAreSpared == Spec => SparesWorkers
<1>1. IInv /\ [Next]_vars =>
        [\A t \in Turns \cup Reconcilers, u \in Turns :
           /\ Sheltered
           /\ pc[t] \in {"removing", "healing"} /\ pc'[t] = "building" /\ ~deleted
           /\ pc[u] = "working" /\ (u # t /\ t \in Turns => Profile[u] = Profile[t])
           => uses[u] # box.ref]_vars
  <2> SUFFICES ASSUME IInv, Sheltered, NEW t \in Turns \cup Reconcilers, NEW u \in Turns,
                      pc[t] \in {"removing", "healing"}, ~deleted, pc[u] = "working",
                      u # t /\ t \in Turns => Profile[u] = Profile[t], uses[u] = box.ref
               PROVE  FALSE
    OBVIOUS
  <2>1. Knows(t) /\ uses[u] # 0 /\ box.prof = Profile[u] /\ u # t
    BY DEF IInv, AnswersInv, ActorsInv, Housed, ShelterInv, HolderKnows, Claimers
  <2>2. box # NoBox
    BY <2>1 DEF NoBox
  <2>3. CASE pc[t] = "healing"
    BY <2>1, <2>2, <2>3 DEF Knows
  <2>4. CASE pc[t] = "removing"
    <3>1. ~Suits(t)
      BY <2>1, <2>2, <2>4 DEF Knows
    <3>. QED
      BY <2>1, <3>1 DEF Suits
  <2>. QED
    BY <2>3, <2>4
<1>. QED
  BY <1>1, ShelterInvariance, PTL DEF Spec, SparesWorkers
=============================================================================
