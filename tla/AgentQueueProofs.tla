--------------------------- MODULE AgentQueueProofs ---------------------------
(***************************************************************************)
(* Proofs about AgentQueue, for any number of conversations, requests and  *)
(* replicas: types, LimitRespected, DispatchedOnce, RunningIsWork and      *)
(* QueuedIsRecorded, by the inductive invariant IInv of that module.  Each *)
(* of its parts has a lemma, with one step for each action.                *)
(***************************************************************************)
EXTENDS AgentQueue, FiniteSetTheorems, TLAPS

-----------------------------------------------------------------------------
\* Every step of Next keeps every variable's type.
LEMMA TypeStep ==
  ASSUME TypeOK, HandsFull, ReplayUnacked, [Next]_vars
  PROVE  TypeOK'
<1>. USE DEF Goto, streamVars, runnerVars, faultVars, TypeOK, PC, Status, Terminal, Threads,
         localVars
<1>1. ASSUME NEW t \in Threads, NEW c \in Conversations, Assign(t, c) PROVE TypeOK'
  BY <1>1, DistinctAssumption DEF Assign
<1>2. ASSUME NEW t \in Threads, NEW c \in Conversations, NEW b \in OnBusy, Start(t, c, b)
      PROVE TypeOK'
  BY <1>2, KindsAssumption, DistinctAssumption DEF Start, Verdict, rowVars
<1>3. ASSUME NEW t \in Threads, NEW c \in Conversations, NEW b \in OnBusy, Resume(t, c, b)
      PROVE TypeOK'
  BY <1>3, DistinctAssumption DEF Resume, Verdict, rowVars
<1>4. ASSUME NEW t \in Threads, NEW c \in Conversations, Stop(t, c) PROVE TypeOK'
  BY <1>4, DistinctAssumption DEF Stop, rowVars
<1>5. ASSUME NEW t \in Threads, NEW l \in Limits, Update(t, l) PROVE TypeOK'
  BY <1>5, LimitAssumption, DistinctAssumption DEF Update
<1>6. ASSUME NEW t \in Threads, Check(t) PROVE TypeOK'
  BY <1>6 DEF Check, HasRoom, rowVars
<1>7. ASSUME NEW t \in Threads, Create(t) PROVE TypeOK'
  BY <1>7 DEF Create, HandsFull, Holding, Carrying
<1>8. ASSUME NEW t \in Threads, ClaimResume(t) PROVE TypeOK'
  BY <1>8 DEF ClaimResume, HandsFull, Holding, Carrying
<1>9. ASSUME NEW t \in Threads, WriteStopped(t) PROVE TypeOK'
  BY <1>9 DEF WriteStopped
<1>10. ASSUME NEW t \in Threads, Unqueue(t) PROVE TypeOK'
  BY <1>10 DEF Unqueue
<1>11. ASSUME NEW t \in Threads, Announce(t) PROVE TypeOK'
  BY <1>11 DEF Announce, rowVars
<1>12. ASSUME NEW t \in Threads, Claim(t) PROVE TypeOK'
  BY <1>12 DEF Claim, HasRoom
<1>13. ASSUME NEW t \in Threads, Publish(t) PROVE TypeOK'
  BY <1>13 DEF Publish, Return, rowVars, HandsFull, Holding, Carrying
<1>14. ASSUME NEW t \in Threads, Revert(t) PROVE TypeOK'
  BY <1>14 DEF Revert, Abort
<1>15. ASSUME NEW t \in Threads, Enqueue(t) PROVE TypeOK'
  BY <1>15 DEF Enqueue, Abort, Row, HandsFull, Holding, Carrying
<1>16. ASSUME NEW t \in Threads, Restore(t) PROVE TypeOK'
  BY <1>16 DEF Restore, Return, Row, HandsFull, Holding, Carrying
<1>17. ASSUME NEW t \in Threads, Count(t) PROVE TypeOK'
  <2>1. Cardinality(Running) \in Nat
    BY FiniteAssumption, FS_Subset, FS_CardinalityType DEF Running
  <2>2. limit - Cardinality(Running) \in Nat \/ ~HasRoom
    BY <2>1, LimitAssumption DEF HasRoom, TypeOK
  <2>3. room' \in [Threads -> Nat]
    BY <1>17, <2>2 DEF Count, TypeOK
  <2>4. PICK p \in {"acking", "done", "dequeueing"} : pc[t] = "counting" /\ pc' = [pc EXCEPT ![t] = p]
    BY <1>17 DEF Count, Goto, Return
  <2>. QED
    BY <1>17, <2>3, <2>4
    DEF Count, TypeOK, PC, Threads, rowVars, streamVars, runnerVars, localVars, faultVars
<1>18. ASSUME NEW t \in Threads, Dequeue(t) PROVE TypeOK'
  BY <1>18 DEF Dequeue, Return, rowVars
<1>19. ASSUME NEW t \in Threads, Ack(t) PROVE TypeOK'
  <2>1. CASE t \in Replicas
    BY <1>19, <2>1
    DEF Ack, Goto, TypeOK, PC, Threads, rowVars, streamVars, runnerVars, localVars, faultVars
  <2>2. CASE t \notin Replicas
    <3>1. pel' = pel
      BY <1>19, <2>2 DEF Ack, TypeOK
    <3>. QED
      BY <1>19, <2>2, <3>1
      DEF Ack, Goto, TypeOK, PC, Threads, rowVars, streamVars, runnerVars, localVars, faultVars
  <2>. QED
    BY <2>1, <2>2
<1>20. ASSUME NEW r \in Replicas, Receive(r) PROVE TypeOK'
  BY <1>20 DEF Receive, rowVars
<1>21. ASSUME NEW r \in Replicas, Replay(r) PROVE TypeOK'
  BY <1>21 DEF Replay, rowVars, ReplayUnacked
<1>22. ASSUME NEW c \in Conversations, RunnerStart(c) PROVE TypeOK'
  BY <1>22 DEF RunnerStart
<1>23. ASSUME NEW c \in Conversations, RunnerEnd(c) PROVE TypeOK'
  BY <1>23 DEF RunnerEnd
<1>24. ASSUME NEW c \in Conversations, RunnerTells(c) PROVE TypeOK'
  BY <1>24 DEF RunnerTells, rowVars
<1>25. ASSUME NEW c \in Conversations, RunnerTellFails(c) PROVE TypeOK'
  BY <1>25, BoundsAssumption DEF RunnerTellFails, rowVars
<1>26. ASSUME NEW c \in Conversations, RunnerTeardown(c) PROVE TypeOK'
  BY <1>26 DEF RunnerTeardown
<1>27. ASSUME NEW t \in Threads, PublishFails(t) PROVE TypeOK'
  BY <1>27, BoundsAssumption DEF PublishFails, rowVars
<1>28. ASSUME NEW t \in Threads, CallFails(t) PROVE TypeOK'
  BY <1>28, BoundsAssumption DEF CallFails, Abort, rowVars
<1>29. ASSUME NEW t \in Threads, Crash(t) PROVE TypeOK'
  BY <1>29, BoundsAssumption DEF Crash, Abort, rowVars
<1>30. CASE UNCHANGED vars
  BY <1>30 DEF vars, rowVars
<1>. QED
  BY <1>1, <1>2, <1>3, <1>4, <1>5, <1>6, <1>7, <1>8, <1>9, <1>10, <1>11, <1>12, <1>13,
     <1>14, <1>15, <1>16, <1>17, <1>18, <1>19, <1>20, <1>21, <1>22,
     <1>23, <1>24, <1>25, <1>26, <1>27, <1>28, <1>29, <1>30
  DEF Next, Request, Proceed, Read, RunnerStep, Fail

\* A thread takes a conversation before it does anything with one.
LEMMA HandsStep ==
  ASSUME TypeOK, HandsFull, [Next]_vars
  PROVE  HandsFull'
<1>. USE DEF Goto, streamVars, runnerVars, faultVars, HandsFull, Holding, Carrying, TypeOK,
         Threads, localVars
<1>1. ASSUME NEW t \in Threads, NEW c \in Conversations, Assign(t, c) PROVE HandsFull'
  BY <1>1 DEF Assign
<1>2. ASSUME NEW t \in Threads, NEW c \in Conversations, NEW b \in OnBusy, Start(t, c, b)
      PROVE HandsFull'
  BY <1>2 DEF Start, Verdict, rowVars
<1>3. ASSUME NEW t \in Threads, NEW c \in Conversations, NEW b \in OnBusy, Resume(t, c, b)
      PROVE HandsFull'
  BY <1>3 DEF Resume, Verdict, rowVars
<1>4. ASSUME NEW t \in Threads, NEW c \in Conversations, Stop(t, c) PROVE HandsFull'
  BY <1>4 DEF Stop, rowVars
<1>5. ASSUME NEW t \in Threads, NEW l \in Limits, Update(t, l) PROVE HandsFull'
  BY <1>5 DEF Update
<1>6. ASSUME NEW t \in Threads, Check(t) PROVE HandsFull'
  BY <1>6 DEF Check, HasRoom, rowVars
<1>7. ASSUME NEW t \in Threads, Create(t) PROVE HandsFull'
  BY <1>7 DEF Create
<1>8. ASSUME NEW t \in Threads, ClaimResume(t) PROVE HandsFull'
  BY <1>8 DEF ClaimResume
<1>9. ASSUME NEW t \in Threads, WriteStopped(t) PROVE HandsFull'
  BY <1>9 DEF WriteStopped
<1>10. ASSUME NEW t \in Threads, Unqueue(t) PROVE HandsFull'
  BY <1>10 DEF Unqueue
<1>11. ASSUME NEW t \in Threads, Announce(t) PROVE HandsFull'
  BY <1>11 DEF Announce, rowVars
<1>12. ASSUME NEW t \in Threads, Claim(t) PROVE HandsFull'
  BY <1>12 DEF Claim, HasRoom
<1>13. ASSUME NEW t \in Threads, Publish(t) PROVE HandsFull'
  BY <1>13 DEF Publish, Return, rowVars
<1>14. ASSUME NEW t \in Threads, Revert(t) PROVE HandsFull'
  BY <1>14 DEF Revert, Abort
<1>15. ASSUME NEW t \in Threads, Enqueue(t) PROVE HandsFull'
  BY <1>15 DEF Enqueue, Abort, Row
<1>16. ASSUME NEW t \in Threads, Restore(t) PROVE HandsFull'
  BY <1>16 DEF Restore, Return, Row
<1>17. ASSUME NEW t \in Threads, Count(t) PROVE HandsFull'
  BY <1>17 DEF Count, Return, HasRoom, rowVars
<1>18. ASSUME NEW t \in Threads, Dequeue(t) PROVE HandsFull'
  BY <1>18 DEF Dequeue, Return, rowVars
<1>19. ASSUME NEW t \in Threads, Ack(t) PROVE HandsFull'
  BY <1>19 DEF Ack, rowVars
<1>20. ASSUME NEW r \in Replicas, Receive(r) PROVE HandsFull'
  BY <1>20 DEF Receive, rowVars
<1>21. ASSUME NEW r \in Replicas, Replay(r) PROVE HandsFull'
  BY <1>21 DEF Replay, rowVars
<1>22. ASSUME NEW c \in Conversations, RunnerStart(c) PROVE HandsFull'
  BY <1>22 DEF RunnerStart
<1>23. ASSUME NEW c \in Conversations, RunnerEnd(c) PROVE HandsFull'
  BY <1>23 DEF RunnerEnd
<1>24. ASSUME NEW c \in Conversations, RunnerTells(c) PROVE HandsFull'
  BY <1>24 DEF RunnerTells, rowVars
<1>25. ASSUME NEW c \in Conversations, RunnerTellFails(c) PROVE HandsFull'
  BY <1>25 DEF RunnerTellFails, rowVars
<1>26. ASSUME NEW c \in Conversations, RunnerTeardown(c) PROVE HandsFull'
  BY <1>26 DEF RunnerTeardown
<1>27. ASSUME NEW t \in Threads, PublishFails(t) PROVE HandsFull'
  BY <1>27 DEF PublishFails, rowVars
<1>28. ASSUME NEW t \in Threads, CallFails(t) PROVE HandsFull'
  BY <1>28 DEF CallFails, Abort, rowVars
<1>29. ASSUME NEW t \in Threads, Crash(t) PROVE HandsFull'
  BY <1>29 DEF Crash, Abort, rowVars
<1>30. CASE UNCHANGED vars
  BY <1>30 DEF vars, rowVars
<1>. QED
  BY <1>1, <1>2, <1>3, <1>4, <1>5, <1>6, <1>7, <1>8, <1>9, <1>10, <1>11, <1>12, <1>13,
     <1>14, <1>15, <1>16, <1>17, <1>18, <1>19, <1>20, <1>21, <1>22,
     <1>23, <1>24, <1>25, <1>26, <1>27, <1>28, <1>29, <1>30
  DEF Next, Request, Proceed, Read, RunnerStep, Fail

\* Replayed events stay unacknowledged until their turn is over (Ack).
LEMMA ReplayStep ==
  ASSUME TypeOK, ReplayUnacked, [Next]_vars
  PROVE  ReplayUnacked'
<1>. USE DistinctAssumption DEF Goto, streamVars, runnerVars, faultVars, ReplayUnacked,
         TypeOK, Threads, localVars
<1>1. ASSUME NEW t \in Threads, NEW c \in Conversations, Assign(t, c) PROVE ReplayUnacked'
  BY <1>1 DEF Assign
<1>2. ASSUME NEW t \in Threads, NEW c \in Conversations, NEW b \in OnBusy, Start(t, c, b)
      PROVE ReplayUnacked'
  BY <1>2 DEF Start, Verdict, rowVars
<1>3. ASSUME NEW t \in Threads, NEW c \in Conversations, NEW b \in OnBusy, Resume(t, c, b)
      PROVE ReplayUnacked'
  BY <1>3 DEF Resume, Verdict, rowVars
<1>4. ASSUME NEW t \in Threads, NEW c \in Conversations, Stop(t, c) PROVE ReplayUnacked'
  BY <1>4 DEF Stop, rowVars
<1>5. ASSUME NEW t \in Threads, NEW l \in Limits, Update(t, l) PROVE ReplayUnacked'
  BY <1>5 DEF Update
<1>6. ASSUME NEW t \in Threads, Check(t) PROVE ReplayUnacked'
  BY <1>6 DEF Check, HasRoom, rowVars
<1>7. ASSUME NEW t \in Threads, Create(t) PROVE ReplayUnacked'
  BY <1>7 DEF Create
<1>8. ASSUME NEW t \in Threads, ClaimResume(t) PROVE ReplayUnacked'
  BY <1>8 DEF ClaimResume
<1>9. ASSUME NEW t \in Threads, WriteStopped(t) PROVE ReplayUnacked'
  BY <1>9 DEF WriteStopped
<1>10. ASSUME NEW t \in Threads, Unqueue(t) PROVE ReplayUnacked'
  BY <1>10 DEF Unqueue
<1>11. ASSUME NEW t \in Threads, Announce(t) PROVE ReplayUnacked'
  BY <1>11 DEF Announce, rowVars
<1>12. ASSUME NEW t \in Threads, Claim(t) PROVE ReplayUnacked'
  BY <1>12 DEF Claim, HasRoom
<1>13. ASSUME NEW t \in Threads, Publish(t) PROVE ReplayUnacked'
  BY <1>13 DEF Publish, Return, rowVars
<1>14. ASSUME NEW t \in Threads, Revert(t) PROVE ReplayUnacked'
  BY <1>14 DEF Revert, Abort
<1>15. ASSUME NEW t \in Threads, Enqueue(t) PROVE ReplayUnacked'
  BY <1>15 DEF Enqueue, Abort, Row
<1>16. ASSUME NEW t \in Threads, Restore(t) PROVE ReplayUnacked'
  BY <1>16 DEF Restore, Return, Row
<1>17. ASSUME NEW t \in Threads, Count(t) PROVE ReplayUnacked'
  BY <1>17 DEF Count, Return, HasRoom, rowVars
<1>18. ASSUME NEW t \in Threads, Dequeue(t) PROVE ReplayUnacked'
  BY <1>18 DEF Dequeue, Return, rowVars
<1>19. ASSUME NEW t \in Threads, Ack(t) PROVE ReplayUnacked'
  BY <1>19 DEF Ack, rowVars
<1>20. ASSUME NEW r \in Replicas, Receive(r) PROVE ReplayUnacked'
  BY <1>20 DEF Receive, rowVars
<1>21. ASSUME NEW r \in Replicas, Replay(r) PROVE ReplayUnacked'
  BY <1>21 DEF Replay, rowVars
<1>22. ASSUME NEW c \in Conversations, RunnerStart(c) PROVE ReplayUnacked'
  BY <1>22 DEF RunnerStart
<1>23. ASSUME NEW c \in Conversations, RunnerEnd(c) PROVE ReplayUnacked'
  BY <1>23 DEF RunnerEnd
<1>24. ASSUME NEW c \in Conversations, RunnerTells(c) PROVE ReplayUnacked'
  BY <1>24 DEF RunnerTells, rowVars
<1>25. ASSUME NEW c \in Conversations, RunnerTellFails(c) PROVE ReplayUnacked'
  BY <1>25 DEF RunnerTellFails, rowVars
<1>26. ASSUME NEW c \in Conversations, RunnerTeardown(c) PROVE ReplayUnacked'
  BY <1>26 DEF RunnerTeardown
<1>27. ASSUME NEW t \in Threads, PublishFails(t) PROVE ReplayUnacked'
  BY <1>27 DEF PublishFails, rowVars
<1>28. ASSUME NEW t \in Threads, CallFails(t) PROVE ReplayUnacked'
  BY <1>28 DEF CallFails, Abort, rowVars
<1>29. ASSUME NEW t \in Threads, Crash(t) PROVE ReplayUnacked'
  BY <1>29 DEF Crash, Abort, rowVars
<1>30. CASE UNCHANGED vars
  BY <1>30 DEF vars, rowVars
<1>. QED
  BY <1>1, <1>2, <1>3, <1>4, <1>5, <1>6, <1>7, <1>8, <1>9, <1>10, <1>11, <1>12, <1>13,
     <1>14, <1>15, <1>16, <1>17, <1>18, <1>19, <1>20, <1>21, <1>22,
     <1>23, <1>24, <1>25, <1>26, <1>27, <1>28, <1>29, <1>30
  DEF Next, Request, Proceed, Read, RunnerStep, Fail

\* A thread starts to stop a conversation only where calls may ask for it.
LEMMA NoStopStep ==
  ASSUME TypeOK, NoStops, NobodyStops, [Next]_vars
  PROVE  NobodyStops'
<1>. USE DEF NobodyStops, Goto, streamVars, runnerVars, faultVars, NoStops, TypeOK, Threads,
         localVars
<1>1. ASSUME NEW t \in Threads, NEW c \in Conversations, Assign(t, c) PROVE NobodyStops'
  BY <1>1 DEF Assign
<1>2. ASSUME NEW t \in Threads, NEW c \in Conversations, NEW b \in OnBusy, Start(t, c, b)
      PROVE NobodyStops'
  BY <1>2 DEF Start, Verdict, rowVars
<1>3. ASSUME NEW t \in Threads, NEW c \in Conversations, NEW b \in OnBusy, Resume(t, c, b)
      PROVE NobodyStops'
  BY <1>3 DEF Resume, Verdict, rowVars
<1>4. ASSUME NEW t \in Threads, NEW c \in Conversations, Stop(t, c) PROVE NobodyStops'
  BY <1>4 DEF Stop, rowVars
<1>5. ASSUME NEW t \in Threads, NEW l \in Limits, Update(t, l) PROVE NobodyStops'
  BY <1>5 DEF Update
<1>6. ASSUME NEW t \in Threads, Check(t) PROVE NobodyStops'
  BY <1>6 DEF Check, HasRoom, rowVars
<1>7. ASSUME NEW t \in Threads, Create(t) PROVE NobodyStops'
  BY <1>7 DEF Create
<1>8. ASSUME NEW t \in Threads, ClaimResume(t) PROVE NobodyStops'
  BY <1>8 DEF ClaimResume
<1>9. ASSUME NEW t \in Threads, WriteStopped(t) PROVE NobodyStops'
  BY <1>9 DEF WriteStopped
<1>10. ASSUME NEW t \in Threads, Unqueue(t) PROVE NobodyStops'
  BY <1>10 DEF Unqueue
<1>11. ASSUME NEW t \in Threads, Announce(t) PROVE NobodyStops'
  BY <1>11 DEF Announce, rowVars
<1>12. ASSUME NEW t \in Threads, Claim(t) PROVE NobodyStops'
  BY <1>12 DEF Claim, HasRoom
<1>13. ASSUME NEW t \in Threads, Publish(t) PROVE NobodyStops'
  BY <1>13 DEF Publish, Return, rowVars
<1>14. ASSUME NEW t \in Threads, Revert(t) PROVE NobodyStops'
  BY <1>14 DEF Revert, Abort
<1>15. ASSUME NEW t \in Threads, Enqueue(t) PROVE NobodyStops'
  BY <1>15 DEF Enqueue, Abort, Row
<1>16. ASSUME NEW t \in Threads, Restore(t) PROVE NobodyStops'
  BY <1>16 DEF Restore, Return, Row
<1>17. ASSUME NEW t \in Threads, Count(t) PROVE NobodyStops'
  BY <1>17 DEF Count, Return, HasRoom, rowVars
<1>18. ASSUME NEW t \in Threads, Dequeue(t) PROVE NobodyStops'
  BY <1>18 DEF Dequeue, Return, rowVars
<1>19. ASSUME NEW t \in Threads, Ack(t) PROVE NobodyStops'
  BY <1>19 DEF Ack, rowVars
<1>20. ASSUME NEW r \in Replicas, Receive(r) PROVE NobodyStops'
  BY <1>20 DEF Receive, rowVars
<1>21. ASSUME NEW r \in Replicas, Replay(r) PROVE NobodyStops'
  BY <1>21 DEF Replay, rowVars
<1>22. ASSUME NEW c \in Conversations, RunnerStart(c) PROVE NobodyStops'
  BY <1>22 DEF RunnerStart
<1>23. ASSUME NEW c \in Conversations, RunnerEnd(c) PROVE NobodyStops'
  BY <1>23 DEF RunnerEnd
<1>24. ASSUME NEW c \in Conversations, RunnerTells(c) PROVE NobodyStops'
  BY <1>24 DEF RunnerTells, rowVars
<1>25. ASSUME NEW c \in Conversations, RunnerTellFails(c) PROVE NobodyStops'
  BY <1>25 DEF RunnerTellFails, rowVars
<1>26. ASSUME NEW c \in Conversations, RunnerTeardown(c) PROVE NobodyStops'
  BY <1>26 DEF RunnerTeardown
<1>27. ASSUME NEW t \in Threads, PublishFails(t) PROVE NobodyStops'
  BY <1>27 DEF PublishFails, rowVars
<1>28. ASSUME NEW t \in Threads, CallFails(t) PROVE NobodyStops'
  BY <1>28 DEF CallFails, Abort, rowVars
<1>29. ASSUME NEW t \in Threads, Crash(t) PROVE NobodyStops'
  BY <1>29 DEF Crash, Abort, rowVars
<1>30. CASE UNCHANGED vars
  BY <1>30 DEF vars, rowVars
<1>. QED
  BY <1>1, <1>2, <1>3, <1>4, <1>5, <1>6, <1>7, <1>8, <1>9, <1>10, <1>11, <1>12, <1>13,
     <1>14, <1>15, <1>16, <1>17, <1>18, <1>19, <1>20, <1>21, <1>22,
     <1>23, <1>24, <1>25, <1>26, <1>27, <1>28, <1>29, <1>30
  DEF Next, Request, Proceed, Read, RunnerStep, Fail

\* A thread starts to resume a conversation only where calls may ask for it.
LEMMA NoResumeStep ==
  ASSUME TypeOK, NoResumes, NobodyResumes, [Next]_vars
  PROVE  NobodyResumes'
<1>. USE DEF NobodyResumes, Goto, streamVars, runnerVars, faultVars, NoResumes, TypeOK,
         Threads, localVars
<1>1. ASSUME NEW t \in Threads, NEW c \in Conversations, Assign(t, c) PROVE NobodyResumes'
  BY <1>1 DEF Assign
<1>2. ASSUME NEW t \in Threads, NEW c \in Conversations, NEW b \in OnBusy, Start(t, c, b)
      PROVE NobodyResumes'
  BY <1>2 DEF Start, Verdict, rowVars
<1>3. ASSUME NEW t \in Threads, NEW c \in Conversations, NEW b \in OnBusy, Resume(t, c, b)
      PROVE NobodyResumes'
  BY <1>3 DEF Resume, Verdict, rowVars
<1>4. ASSUME NEW t \in Threads, NEW c \in Conversations, Stop(t, c) PROVE NobodyResumes'
  BY <1>4 DEF Stop, rowVars
<1>5. ASSUME NEW t \in Threads, NEW l \in Limits, Update(t, l) PROVE NobodyResumes'
  BY <1>5 DEF Update
<1>6. ASSUME NEW t \in Threads, Check(t) PROVE NobodyResumes'
  BY <1>6 DEF Check, HasRoom, rowVars
<1>7. ASSUME NEW t \in Threads, Create(t) PROVE NobodyResumes'
  BY <1>7 DEF Create
<1>8. ASSUME NEW t \in Threads, ClaimResume(t) PROVE NobodyResumes'
  BY <1>8 DEF ClaimResume
<1>9. ASSUME NEW t \in Threads, WriteStopped(t) PROVE NobodyResumes'
  BY <1>9 DEF WriteStopped
<1>10. ASSUME NEW t \in Threads, Unqueue(t) PROVE NobodyResumes'
  BY <1>10 DEF Unqueue
<1>11. ASSUME NEW t \in Threads, Announce(t) PROVE NobodyResumes'
  BY <1>11 DEF Announce, rowVars
<1>12. ASSUME NEW t \in Threads, Claim(t) PROVE NobodyResumes'
  BY <1>12 DEF Claim, HasRoom
<1>13. ASSUME NEW t \in Threads, Publish(t) PROVE NobodyResumes'
  BY <1>13 DEF Publish, Return, rowVars
<1>14. ASSUME NEW t \in Threads, Revert(t) PROVE NobodyResumes'
  BY <1>14 DEF Revert, Abort
<1>15. ASSUME NEW t \in Threads, Enqueue(t) PROVE NobodyResumes'
  BY <1>15 DEF Enqueue, Abort, Row
<1>16. ASSUME NEW t \in Threads, Restore(t) PROVE NobodyResumes'
  BY <1>16 DEF Restore, Return, Row
<1>17. ASSUME NEW t \in Threads, Count(t) PROVE NobodyResumes'
  BY <1>17 DEF Count, Return, HasRoom, rowVars
<1>18. ASSUME NEW t \in Threads, Dequeue(t) PROVE NobodyResumes'
  BY <1>18 DEF Dequeue, Return, rowVars
<1>19. ASSUME NEW t \in Threads, Ack(t) PROVE NobodyResumes'
  BY <1>19 DEF Ack, rowVars
<1>20. ASSUME NEW r \in Replicas, Receive(r) PROVE NobodyResumes'
  BY <1>20 DEF Receive, rowVars
<1>21. ASSUME NEW r \in Replicas, Replay(r) PROVE NobodyResumes'
  BY <1>21 DEF Replay, rowVars
<1>22. ASSUME NEW c \in Conversations, RunnerStart(c) PROVE NobodyResumes'
  BY <1>22 DEF RunnerStart
<1>23. ASSUME NEW c \in Conversations, RunnerEnd(c) PROVE NobodyResumes'
  BY <1>23 DEF RunnerEnd
<1>24. ASSUME NEW c \in Conversations, RunnerTells(c) PROVE NobodyResumes'
  BY <1>24 DEF RunnerTells, rowVars
<1>25. ASSUME NEW c \in Conversations, RunnerTellFails(c) PROVE NobodyResumes'
  BY <1>25 DEF RunnerTellFails, rowVars
<1>26. ASSUME NEW c \in Conversations, RunnerTeardown(c) PROVE NobodyResumes'
  BY <1>26 DEF RunnerTeardown
<1>27. ASSUME NEW t \in Threads, PublishFails(t) PROVE NobodyResumes'
  BY <1>27 DEF PublishFails, rowVars
<1>28. ASSUME NEW t \in Threads, CallFails(t) PROVE NobodyResumes'
  BY <1>28 DEF CallFails, Abort, rowVars
<1>29. ASSUME NEW t \in Threads, Crash(t) PROVE NobodyResumes'
  BY <1>29 DEF Crash, Abort, rowVars
<1>30. CASE UNCHANGED vars
  BY <1>30 DEF vars, rowVars
<1>. QED
  BY <1>1, <1>2, <1>3, <1>4, <1>5, <1>6, <1>7, <1>8, <1>9, <1>10, <1>11, <1>12, <1>13,
     <1>14, <1>15, <1>16, <1>17, <1>18, <1>19, <1>20, <1>21, <1>22,
     <1>23, <1>24, <1>25, <1>26, <1>27, <1>28, <1>29, <1>30
  DEF Next, Request, Proceed, Read, RunnerStep, Fail

\* Claiming, publishing, starting and ending a turn hand a conversation's slot on,
\* and nothing else touches it where nobody stops conversations.
LEMMA HolderStep ==
  ASSUME TypeOK, HandsFull, NobodyStops, OneHolder, OnePlace, [Next]_vars
  PROVE  OneHolder'
<1>. USE DistinctAssumption DEF NobodyStops, Goto, streamVars, runnerVars, faultVars,
         OneHolder, OnePlace, Undecided, Terminal, Unstarted, Claimed, TypeOK, Threads,
         HandsFull, Holding, Carrying, localVars
<1>1. ASSUME NEW t \in Threads, NEW c \in Conversations, Assign(t, c) PROVE OneHolder'
  BY <1>1 DEF Assign
<1>2. ASSUME NEW t \in Threads, NEW c \in Conversations, NEW b \in OnBusy, Start(t, c, b)
      PROVE OneHolder'
  BY <1>2 DEF Start, Verdict, rowVars
<1>3. ASSUME NEW t \in Threads, NEW c \in Conversations, NEW b \in OnBusy, Resume(t, c, b)
      PROVE OneHolder'
  BY <1>3 DEF Resume, Verdict, rowVars
<1>4. ASSUME NEW t \in Threads, NEW c \in Conversations, Stop(t, c) PROVE OneHolder'
  BY <1>4 DEF Stop, rowVars
<1>5. ASSUME NEW t \in Threads, NEW l \in Limits, Update(t, l) PROVE OneHolder'
  BY <1>5 DEF Update
<1>6. ASSUME NEW t \in Threads, Check(t) PROVE OneHolder'
  BY <1>6 DEF Check, HasRoom, rowVars
<1>7. ASSUME NEW t \in Threads, Create(t) PROVE OneHolder'
  BY <1>7 DEF Create
<1>8. ASSUME NEW t \in Threads, ClaimResume(t) PROVE OneHolder'
  BY <1>8 DEF ClaimResume
<1>9. ASSUME NEW t \in Threads, WriteStopped(t) PROVE OneHolder'
  BY <1>9 DEF WriteStopped
<1>10. ASSUME NEW t \in Threads, Unqueue(t) PROVE OneHolder'
  BY <1>10 DEF Unqueue
<1>11. ASSUME NEW t \in Threads, Announce(t) PROVE OneHolder'
  BY <1>11 DEF Announce, rowVars
<1>12. ASSUME NEW t \in Threads, Claim(t) PROVE OneHolder'
  BY <1>12 DEF Claim, HasRoom
<1>13. ASSUME NEW t \in Threads, Publish(t) PROVE OneHolder'
  BY <1>13 DEF Publish, Return, rowVars
<1>14. ASSUME NEW t \in Threads, Revert(t) PROVE OneHolder'
  BY <1>14 DEF Revert, Abort
<1>15. ASSUME NEW t \in Threads, Enqueue(t) PROVE OneHolder'
  BY <1>15 DEF Enqueue, Abort, Row
<1>16. ASSUME NEW t \in Threads, Restore(t) PROVE OneHolder'
  BY <1>16 DEF Restore, Return, Row
<1>17. ASSUME NEW t \in Threads, Count(t) PROVE OneHolder'
  BY <1>17 DEF Count, Return, HasRoom, rowVars
<1>18. ASSUME NEW t \in Threads, Dequeue(t) PROVE OneHolder'
  BY <1>18 DEF Dequeue, Return, rowVars
<1>19. ASSUME NEW t \in Threads, Ack(t) PROVE OneHolder'
  BY <1>19 DEF Ack, rowVars
<1>20. ASSUME NEW r \in Replicas, Receive(r) PROVE OneHolder'
  BY <1>20 DEF Receive, rowVars
<1>21. ASSUME NEW r \in Replicas, Replay(r) PROVE OneHolder'
  BY <1>21 DEF Replay, rowVars
<1>22. ASSUME NEW c \in Conversations, RunnerStart(c) PROVE OneHolder'
  BY <1>22 DEF RunnerStart
<1>23. ASSUME NEW c \in Conversations, RunnerEnd(c) PROVE OneHolder'
  BY <1>23 DEF RunnerEnd
<1>24. ASSUME NEW c \in Conversations, RunnerTells(c) PROVE OneHolder'
  BY <1>24 DEF RunnerTells, rowVars
<1>25. ASSUME NEW c \in Conversations, RunnerTellFails(c) PROVE OneHolder'
  BY <1>25 DEF RunnerTellFails, rowVars
<1>26. ASSUME NEW c \in Conversations, RunnerTeardown(c) PROVE OneHolder'
  BY <1>26 DEF RunnerTeardown
<1>27. ASSUME NEW t \in Threads, PublishFails(t) PROVE OneHolder'
  BY <1>27 DEF PublishFails, rowVars
<1>28. ASSUME NEW t \in Threads, CallFails(t) PROVE OneHolder'
  BY <1>28 DEF CallFails, Abort, rowVars
<1>29. ASSUME NEW t \in Threads, Crash(t) PROVE OneHolder'
  BY <1>29 DEF Crash, Abort, rowVars
<1>30. CASE UNCHANGED vars
  BY <1>30 DEF vars, rowVars
<1>. QED
  BY <1>1, <1>2, <1>3, <1>4, <1>5, <1>6, <1>7, <1>8, <1>9, <1>10, <1>11, <1>12, <1>13,
     <1>14, <1>15, <1>16, <1>17, <1>18, <1>19, <1>20, <1>21, <1>22,
     <1>23, <1>24, <1>25, <1>26, <1>27, <1>28, <1>29, <1>30
  DEF Next, Request, Proceed, Read, RunnerStep, Fail

\* A trigger goes from hand to row to hand to stream to turn, and no step leaves a
\* second one behind where nobody stops conversations.
LEMMA PlaceStep ==
  ASSUME TypeOK, HandsFull, NobodyStops, OneHolder, OnePlace, [Next]_vars
  PROVE  OnePlace'
<1>. USE DistinctAssumption DEF NobodyStops, Goto, streamVars, runnerVars, faultVars,
         OneHolder, OnePlace, Undecided, Terminal, Unstarted, Claimed, TypeOK, Threads,
         HandsFull, Holding, Carrying, localVars
<1>1. ASSUME NEW t \in Threads, NEW c \in Conversations, Assign(t, c) PROVE OnePlace'
  BY <1>1 DEF Assign
<1>2. ASSUME NEW t \in Threads, NEW c \in Conversations, NEW b \in OnBusy, Start(t, c, b)
      PROVE OnePlace'
  BY <1>2 DEF Start, Verdict, rowVars
<1>3. ASSUME NEW t \in Threads, NEW c \in Conversations, NEW b \in OnBusy, Resume(t, c, b)
      PROVE OnePlace'
  BY <1>3 DEF Resume, Verdict, rowVars
<1>4. ASSUME NEW t \in Threads, NEW c \in Conversations, Stop(t, c) PROVE OnePlace'
  BY <1>4 DEF Stop, rowVars
<1>5. ASSUME NEW t \in Threads, NEW l \in Limits, Update(t, l) PROVE OnePlace'
  BY <1>5 DEF Update
<1>6. ASSUME NEW t \in Threads, Check(t) PROVE OnePlace'
  BY <1>6 DEF Check, HasRoom, rowVars
<1>7. ASSUME NEW t \in Threads, Create(t) PROVE OnePlace'
  BY <1>7 DEF Create
<1>8. ASSUME NEW t \in Threads, ClaimResume(t) PROVE OnePlace'
  BY <1>8 DEF ClaimResume
<1>9. ASSUME NEW t \in Threads, WriteStopped(t) PROVE OnePlace'
  BY <1>9 DEF WriteStopped
<1>10. ASSUME NEW t \in Threads, Unqueue(t) PROVE OnePlace'
  BY <1>10 DEF Unqueue
<1>11. ASSUME NEW t \in Threads, Announce(t) PROVE OnePlace'
  BY <1>11 DEF Announce, rowVars
<1>12. ASSUME NEW t \in Threads, Claim(t) PROVE OnePlace'
  BY <1>12 DEF Claim, HasRoom
<1>13. ASSUME NEW t \in Threads, Publish(t) PROVE OnePlace'
  BY <1>13 DEF Publish, Return, rowVars
<1>14. ASSUME NEW t \in Threads, Revert(t) PROVE OnePlace'
  BY <1>14 DEF Revert, Abort
<1>15. ASSUME NEW t \in Threads, Enqueue(t) PROVE OnePlace'
  BY <1>15 DEF Enqueue, Abort, Row
<1>16. ASSUME NEW t \in Threads, Restore(t) PROVE OnePlace'
  BY <1>16 DEF Restore, Return, Row
<1>17. ASSUME NEW t \in Threads, Count(t) PROVE OnePlace'
  BY <1>17 DEF Count, Return, HasRoom, rowVars
<1>18. ASSUME NEW t \in Threads, Dequeue(t) PROVE OnePlace'
  BY <1>18 DEF Dequeue, Return, rowVars
<1>19. ASSUME NEW t \in Threads, Ack(t) PROVE OnePlace'
  BY <1>19 DEF Ack, rowVars
<1>20. ASSUME NEW r \in Replicas, Receive(r) PROVE OnePlace'
  BY <1>20 DEF Receive, rowVars
<1>21. ASSUME NEW r \in Replicas, Replay(r) PROVE OnePlace'
  BY <1>21 DEF Replay, rowVars
<1>22. ASSUME NEW c \in Conversations, RunnerStart(c) PROVE OnePlace'
  BY <1>22 DEF RunnerStart
<1>23. ASSUME NEW c \in Conversations, RunnerEnd(c) PROVE OnePlace'
  BY <1>23 DEF RunnerEnd
<1>24. ASSUME NEW c \in Conversations, RunnerTells(c) PROVE OnePlace'
  BY <1>24 DEF RunnerTells, rowVars
<1>25. ASSUME NEW c \in Conversations, RunnerTellFails(c) PROVE OnePlace'
  BY <1>25 DEF RunnerTellFails, rowVars
<1>26. ASSUME NEW c \in Conversations, RunnerTeardown(c) PROVE OnePlace'
  BY <1>26 DEF RunnerTeardown
<1>27. ASSUME NEW t \in Threads, PublishFails(t) PROVE OnePlace'
  BY <1>27 DEF PublishFails, rowVars
<1>28. ASSUME NEW t \in Threads, CallFails(t) PROVE OnePlace'
  BY <1>28 DEF CallFails, Abort, rowVars
<1>29. ASSUME NEW t \in Threads, Crash(t) PROVE OnePlace'
  BY <1>29 DEF Crash, Abort, rowVars
<1>30. CASE UNCHANGED vars
  BY <1>30 DEF vars, rowVars
<1>. QED
  BY <1>1, <1>2, <1>3, <1>4, <1>5, <1>6, <1>7, <1>8, <1>9, <1>10, <1>11, <1>12, <1>13,
     <1>14, <1>15, <1>16, <1>17, <1>18, <1>19, <1>20, <1>21, <1>22,
     <1>23, <1>24, <1>25, <1>26, <1>27, <1>28, <1>29, <1>30
  DEF Next, Request, Proceed, Read, RunnerStep, Fail

\* A claim is followed by a publish or taken back: no step leaves a running
\* conversation without anybody who will change that.
LEMMA WorkStep ==
  ASSUME TypeOK, HandsFull, Mends, RunningIsWork, [Next]_vars
  PROVE  RunningIsWork'
<1>. USE DEF Goto, streamVars, runnerVars, faultVars, RunningIsWork, InHand, Running,
         TypeOK, Threads, HandsFull, Holding, Carrying, localVars
<1>1. ASSUME NEW t \in Threads, NEW c \in Conversations, Assign(t, c) PROVE RunningIsWork'
  BY <1>1 DEF Assign
<1>2. ASSUME NEW t \in Threads, NEW c \in Conversations, NEW b \in OnBusy, Start(t, c, b)
      PROVE RunningIsWork'
  BY <1>2 DEF Start, Verdict, rowVars
<1>3. ASSUME NEW t \in Threads, NEW c \in Conversations, NEW b \in OnBusy, Resume(t, c, b)
      PROVE RunningIsWork'
  BY <1>3 DEF Resume, Verdict, rowVars
<1>4. ASSUME NEW t \in Threads, NEW c \in Conversations, Stop(t, c) PROVE RunningIsWork'
  BY <1>4 DEF Stop, rowVars
<1>5. ASSUME NEW t \in Threads, NEW l \in Limits, Update(t, l) PROVE RunningIsWork'
  BY <1>5 DEF Update
<1>6. ASSUME NEW t \in Threads, Check(t) PROVE RunningIsWork'
  BY <1>6 DEF Check, HasRoom, rowVars
<1>7. ASSUME NEW t \in Threads, Create(t) PROVE RunningIsWork'
  BY <1>7 DEF Create
<1>8. ASSUME NEW t \in Threads, ClaimResume(t) PROVE RunningIsWork'
  BY <1>8 DEF ClaimResume
<1>9. ASSUME NEW t \in Threads, WriteStopped(t) PROVE RunningIsWork'
  BY <1>9 DEF WriteStopped, Terminal
<1>10. ASSUME NEW t \in Threads, Unqueue(t) PROVE RunningIsWork'
  BY <1>10 DEF Unqueue
<1>11. ASSUME NEW t \in Threads, Announce(t) PROVE RunningIsWork'
  BY <1>11 DEF Announce, rowVars
<1>12. ASSUME NEW t \in Threads, Claim(t) PROVE RunningIsWork'
  BY <1>12 DEF Claim, HasRoom
<1>13. ASSUME NEW t \in Threads, Publish(t) PROVE RunningIsWork'
  BY <1>13 DEF Publish, Return, rowVars
<1>14. ASSUME NEW t \in Threads, Revert(t) PROVE RunningIsWork'
  BY <1>14 DEF Revert, Abort
<1>15. ASSUME NEW t \in Threads, Enqueue(t) PROVE RunningIsWork'
  BY <1>15 DEF Enqueue, Abort, Row
<1>16. ASSUME NEW t \in Threads, Restore(t) PROVE RunningIsWork'
  BY <1>16 DEF Restore, Return, Row
<1>17. ASSUME NEW t \in Threads, Count(t) PROVE RunningIsWork'
  BY <1>17 DEF Count, Return, HasRoom, rowVars
<1>18. ASSUME NEW t \in Threads, Dequeue(t) PROVE RunningIsWork'
  BY <1>18 DEF Dequeue, Return, rowVars
<1>19. ASSUME NEW t \in Threads, Ack(t) PROVE RunningIsWork'
  BY <1>19 DEF Ack, rowVars
<1>20. ASSUME NEW r \in Replicas, Receive(r) PROVE RunningIsWork'
  BY <1>20 DEF Receive, rowVars
<1>21. ASSUME NEW r \in Replicas, Replay(r) PROVE RunningIsWork'
  BY <1>21 DEF Replay, rowVars
<1>22. ASSUME NEW c \in Conversations, RunnerStart(c) PROVE RunningIsWork'
  BY <1>22 DEF RunnerStart
<1>23. ASSUME NEW c \in Conversations, RunnerEnd(c) PROVE RunningIsWork'
  BY <1>23 DEF RunnerEnd, Terminal
<1>24. ASSUME NEW c \in Conversations, RunnerTells(c) PROVE RunningIsWork'
  BY <1>24 DEF RunnerTells, rowVars
<1>25. ASSUME NEW c \in Conversations, RunnerTellFails(c) PROVE RunningIsWork'
  BY <1>25 DEF RunnerTellFails, rowVars
<1>26. ASSUME NEW c \in Conversations, RunnerTeardown(c) PROVE RunningIsWork'
  BY <1>26 DEF RunnerTeardown
<1>27. ASSUME NEW t \in Threads, PublishFails(t) PROVE RunningIsWork'
  BY <1>27 DEF PublishFails, rowVars
<1>28. ASSUME NEW t \in Threads, CallFails(t) PROVE RunningIsWork'
  BY <1>28 DEF CallFails, Abort, rowVars, Mends, Mending
<1>29. ASSUME NEW t \in Threads, Crash(t) PROVE RunningIsWork'
  BY <1>29 DEF Crash, Abort, rowVars
<1>30. CASE UNCHANGED vars
  BY <1>30 DEF vars, rowVars
<1>. QED
  BY <1>1, <1>2, <1>3, <1>4, <1>5, <1>6, <1>7, <1>8, <1>9, <1>10, <1>11, <1>12, <1>13,
     <1>14, <1>15, <1>16, <1>17, <1>18, <1>19, <1>20, <1>21, <1>22,
     <1>23, <1>24, <1>25, <1>26, <1>27, <1>28, <1>29, <1>30
  DEF Next, Request, Proceed, Read, RunnerStep, Fail

\* A queued conversation is passed from a row to a thread or back, never lost.
LEMMA RecordStep ==
  ASSUME TypeOK, HandsFull, Mends, NobodyStops, QueuedIsRecorded, [Next]_vars
  PROVE  QueuedIsRecorded'
<1>. USE DEF NobodyStops, Goto, streamVars, runnerVars, faultVars, QueuedIsRecorded, Waits,
         InHand, TypeOK, Threads, HandsFull, Holding, Carrying, rowVars, localVars
<1>1. ASSUME NEW t \in Threads, NEW c \in Conversations, Assign(t, c) PROVE QueuedIsRecorded'
  BY <1>1 DEF Assign
<1>2. ASSUME NEW t \in Threads, NEW c \in Conversations, NEW b \in OnBusy, Start(t, c, b)
      PROVE QueuedIsRecorded'
  BY <1>2 DEF Start, Verdict
<1>3. ASSUME NEW t \in Threads, NEW c \in Conversations, NEW b \in OnBusy, Resume(t, c, b)
      PROVE QueuedIsRecorded'
  BY <1>3 DEF Resume, Verdict
<1>4. ASSUME NEW t \in Threads, NEW c \in Conversations, Stop(t, c) PROVE QueuedIsRecorded'
  BY <1>4 DEF Stop
<1>5. ASSUME NEW t \in Threads, NEW l \in Limits, Update(t, l) PROVE QueuedIsRecorded'
  BY <1>5 DEF Update
<1>6. ASSUME NEW t \in Threads, Check(t) PROVE QueuedIsRecorded'
  BY <1>6 DEF Check, HasRoom
<1>7. ASSUME NEW t \in Threads, Create(t) PROVE QueuedIsRecorded'
  BY <1>7 DEF Create
<1>8. ASSUME NEW t \in Threads, ClaimResume(t) PROVE QueuedIsRecorded'
  BY <1>8 DEF ClaimResume
<1>9. ASSUME NEW t \in Threads, WriteStopped(t) PROVE QueuedIsRecorded'
  BY <1>9 DEF WriteStopped
<1>10. ASSUME NEW t \in Threads, Unqueue(t) PROVE QueuedIsRecorded'
  BY <1>10 DEF Unqueue
<1>11. ASSUME NEW t \in Threads, Announce(t) PROVE QueuedIsRecorded'
  BY <1>11 DEF Announce
<1>12. ASSUME NEW t \in Threads, Claim(t) PROVE QueuedIsRecorded'
  BY <1>12 DEF Claim, HasRoom
<1>13. ASSUME NEW t \in Threads, Publish(t) PROVE QueuedIsRecorded'
  BY <1>13 DEF Publish, Return
<1>14. ASSUME NEW t \in Threads, Revert(t) PROVE QueuedIsRecorded'
  BY <1>14 DEF Revert, Abort
<1>15. ASSUME NEW t \in Threads, Enqueue(t) PROVE QueuedIsRecorded'
  <2>1. pending' = pending \cup {[conv |-> job[t], at |-> clock + 1]}
        /\ status' = status /\ job' = job /\ crashes' = crashes
    BY <1>15 DEF Enqueue, Row, localVars, faultVars
  <2>2. \E q \in pending' : q.conv = job[t]
    <3>1. [conv |-> job[t], at |-> clock + 1] \in pending'
      BY <2>1
    <3>2. [conv |-> job[t], at |-> clock + 1].conv = job[t]
      OBVIOUS
    <3>. QED
      BY <3>1, <3>2
  <2>3. \A c \in Conversations : Waits(c) => Waits(c)'
    BY <2>1 DEF Waits
  <2>4. \A u \in Threads : u # t => pc'[u] = pc[u]
    BY <1>15 DEF Enqueue, Goto, TypeOK
  <2>5. SUFFICES ASSUME crashes' = 0, NEW c \in Conversations, status'[c] = "queued"
                
                      
                             PROVE  (Waits(c) \/ InHand(c, {"checking", "claiming", "requeueing", "enqueueing", "restoring"}))'
    BY DEF QueuedIsRecorded
  <2>6. Waits(c) \/ InHand(c, {"checking", "claiming", "requeueing", "enqueueing", "restoring"})
    BY <2>1, <2>5 DEF QueuedIsRecorded
  <2>7. CASE c = job[t]
    BY <2>2, <2>7 DEF Waits
  <2>8. CASE c # job[t]
    BY <2>1, <2>3, <2>4, <2>6, <2>8 DEF InHand
  <2>. QED
    BY <2>7, <2>8
<1>16. ASSUME NEW t \in Threads, Restore(t) PROVE QueuedIsRecorded'
  <2>1. pending' = pending \cup {[conv |-> job[t], at |-> age[t]]}
        /\ status' = status /\ job' = job /\ crashes' = crashes
    BY <1>16 DEF Restore, Row, localVars, faultVars
  <2>2. \E q \in pending' : q.conv = job[t]
    <3>1. [conv |-> job[t], at |-> age[t]] \in pending'
      BY <2>1
    <3>2. [conv |-> job[t], at |-> age[t]].conv = job[t]
      OBVIOUS
    <3>. QED
      BY <3>1, <3>2
  <2>3. \A c \in Conversations : Waits(c) => Waits(c)'
    BY <2>1 DEF Waits
  <2>4. \A u \in Threads : u # t => pc'[u] = pc[u]
    BY <1>16 DEF Restore, Goto, TypeOK
  <2>5. SUFFICES ASSUME crashes' = 0, NEW c \in Conversations, status'[c] = "queued"
                
                      
                             PROVE  (Waits(c) \/ InHand(c, {"checking", "claiming", "requeueing", "enqueueing", "restoring"}))'
    BY DEF QueuedIsRecorded
  <2>6. Waits(c) \/ InHand(c, {"checking", "claiming", "requeueing", "enqueueing", "restoring"})
    BY <2>1, <2>5 DEF QueuedIsRecorded
  <2>7. CASE c = job[t]
    BY <2>2, <2>7 DEF Waits
  <2>8. CASE c # job[t]
    BY <2>1, <2>3, <2>4, <2>6, <2>8 DEF InHand
  <2>. QED
    BY <2>7, <2>8
<1>17. ASSUME NEW t \in Threads, Count(t) PROVE QueuedIsRecorded'
  BY <1>17 DEF Count, Return, HasRoom
<1>18. ASSUME NEW t \in Threads, Dequeue(t) PROVE QueuedIsRecorded'
  BY <1>18 DEF Dequeue, Return
<1>19. ASSUME NEW t \in Threads, Ack(t) PROVE QueuedIsRecorded'
  BY <1>19 DEF Ack
<1>20. ASSUME NEW r \in Replicas, Receive(r) PROVE QueuedIsRecorded'
  BY <1>20 DEF Receive
<1>21. ASSUME NEW r \in Replicas, Replay(r) PROVE QueuedIsRecorded'
  BY <1>21 DEF Replay
<1>22. ASSUME NEW c \in Conversations, RunnerStart(c) PROVE QueuedIsRecorded'
  BY <1>22 DEF RunnerStart
<1>23. ASSUME NEW c \in Conversations, RunnerEnd(c) PROVE QueuedIsRecorded'
  BY <1>23 DEF RunnerEnd, Terminal
<1>24. ASSUME NEW c \in Conversations, RunnerTells(c) PROVE QueuedIsRecorded'
  BY <1>24 DEF RunnerTells
<1>25. ASSUME NEW c \in Conversations, RunnerTellFails(c) PROVE QueuedIsRecorded'
  BY <1>25 DEF RunnerTellFails
<1>26. ASSUME NEW c \in Conversations, RunnerTeardown(c) PROVE QueuedIsRecorded'
  BY <1>26 DEF RunnerTeardown
<1>27. ASSUME NEW t \in Threads, PublishFails(t) PROVE QueuedIsRecorded'
  BY <1>27 DEF PublishFails
<1>28. ASSUME NEW t \in Threads, CallFails(t) PROVE QueuedIsRecorded'
  BY <1>28 DEF CallFails, Abort, Mends, Mending
<1>29. ASSUME NEW t \in Threads, Crash(t) PROVE QueuedIsRecorded'
  BY <1>29 DEF Crash, Abort
<1>30. CASE UNCHANGED vars
  BY <1>30 DEF vars
<1>. QED
  BY <1>1, <1>2, <1>3, <1>4, <1>5, <1>6, <1>7, <1>8, <1>9, <1>10, <1>11, <1>12, <1>13,
     <1>14, <1>15, <1>16, <1>17, <1>18, <1>19, <1>20, <1>21, <1>22,
     <1>23, <1>24, <1>25, <1>26, <1>27, <1>28, <1>29, <1>30
  DEF Next, Request, Proceed, Read, RunnerStep, Fail

\* ClaimQueuedForDispatch is the only step after which more conversations run.
LEMMA OnlyClaimAdds ==
  ASSUME TypeOK, HandsFull, OnlyRaised, NobodyStops, NobodyResumes,
         OneHolder, [Next]_vars
  PROVE  (Running' \subseteq Running /\ limit' >= limit) \/ (\E u \in Threads : Claim(u))
<1>. USE LimitAssumption DEF NobodyStops, NobodyResumes, Goto, streamVars, runnerVars,
         faultVars, Running, OneHolder, TypeOK, HandsFull, Holding, Carrying, Terminal,
         localVars
<1>1. ASSUME NEW t \in Threads, NEW c \in Conversations, Assign(t, c) 
       PROVE (Running' \subseteq Running /\ limit' >= limit) \/ (\E u \in Threads : Claim(u))
  BY <1>1 DEF Assign
<1>2. ASSUME NEW t \in Threads, NEW c \in Conversations, NEW b \in OnBusy, Start(t, c, b) 
       PROVE (Running' \subseteq Running /\ limit' >= limit) \/ (\E u \in Threads : Claim(u))
  BY <1>2 DEF Start, Verdict, rowVars
<1>3. ASSUME NEW t \in Threads, NEW c \in Conversations, NEW b \in OnBusy, Resume(t, c, b) 
       PROVE (Running' \subseteq Running /\ limit' >= limit) \/ (\E u \in Threads : Claim(u))
  BY <1>3 DEF Resume, Verdict, rowVars
<1>4. ASSUME NEW t \in Threads, NEW c \in Conversations, Stop(t, c) 
       PROVE (Running' \subseteq Running /\ limit' >= limit) \/ (\E u \in Threads : Claim(u))
  BY <1>4 DEF Stop, rowVars
<1>5. ASSUME NEW t \in Threads, NEW l \in Limits, Update(t, l) 
       PROVE (Running' \subseteq Running /\ limit' >= limit) \/ (\E u \in Threads : Claim(u))
  BY <1>5 DEF Update, OnlyRaised
<1>6. ASSUME NEW t \in Threads, Check(t) 
       PROVE (Running' \subseteq Running /\ limit' >= limit) \/ (\E u \in Threads : Claim(u))
  BY <1>6 DEF Check, HasRoom, rowVars
<1>7. ASSUME NEW t \in Threads, Create(t) 
       PROVE (Running' \subseteq Running /\ limit' >= limit) \/ (\E u \in Threads : Claim(u))
  BY <1>7 DEF Create
<1>8. ASSUME NEW t \in Threads, ClaimResume(t) 
       PROVE (Running' \subseteq Running /\ limit' >= limit) \/ (\E u \in Threads : Claim(u))
  BY <1>8 DEF ClaimResume
<1>9. ASSUME NEW t \in Threads, WriteStopped(t) 
       PROVE (Running' \subseteq Running /\ limit' >= limit) \/ (\E u \in Threads : Claim(u))
  BY <1>9 DEF WriteStopped
<1>10. ASSUME NEW t \in Threads, Unqueue(t) 
       PROVE (Running' \subseteq Running /\ limit' >= limit) \/ (\E u \in Threads : Claim(u))
  BY <1>10 DEF Unqueue
<1>11. ASSUME NEW t \in Threads, Announce(t) 
       PROVE (Running' \subseteq Running /\ limit' >= limit) \/ (\E u \in Threads : Claim(u))
  BY <1>11 DEF Announce, rowVars
<1>12. ASSUME NEW t \in Threads, Claim(t) 
       PROVE (Running' \subseteq Running /\ limit' >= limit) \/ (\E u \in Threads : Claim(u))
  BY <1>12
<1>13. ASSUME NEW t \in Threads, Publish(t) 
       PROVE (Running' \subseteq Running /\ limit' >= limit) \/ (\E u \in Threads : Claim(u))
  BY <1>13 DEF Publish, Return, rowVars
<1>14. ASSUME NEW t \in Threads, Revert(t) 
       PROVE (Running' \subseteq Running /\ limit' >= limit) \/ (\E u \in Threads : Claim(u))
  BY <1>14 DEF Revert, Abort
<1>15. ASSUME NEW t \in Threads, Enqueue(t) 
       PROVE (Running' \subseteq Running /\ limit' >= limit) \/ (\E u \in Threads : Claim(u))
  BY <1>15 DEF Enqueue, Abort, Row
<1>16. ASSUME NEW t \in Threads, Restore(t) 
       PROVE (Running' \subseteq Running /\ limit' >= limit) \/ (\E u \in Threads : Claim(u))
  BY <1>16 DEF Restore, Return, Row
<1>17. ASSUME NEW t \in Threads, Count(t) 
       PROVE (Running' \subseteq Running /\ limit' >= limit) \/ (\E u \in Threads : Claim(u))
  BY <1>17 DEF Count, Return, HasRoom, rowVars
<1>18. ASSUME NEW t \in Threads, Dequeue(t) 
       PROVE (Running' \subseteq Running /\ limit' >= limit) \/ (\E u \in Threads : Claim(u))
  BY <1>18 DEF Dequeue, Return, rowVars
<1>19. ASSUME NEW t \in Threads, Ack(t) 
       PROVE (Running' \subseteq Running /\ limit' >= limit) \/ (\E u \in Threads : Claim(u))
  BY <1>19 DEF Ack, rowVars
<1>20. ASSUME NEW r \in Replicas, Receive(r) 
       PROVE (Running' \subseteq Running /\ limit' >= limit) \/ (\E u \in Threads : Claim(u))
  BY <1>20 DEF Receive, rowVars
<1>21. ASSUME NEW r \in Replicas, Replay(r) 
       PROVE (Running' \subseteq Running /\ limit' >= limit) \/ (\E u \in Threads : Claim(u))
  BY <1>21 DEF Replay, rowVars
<1>22. ASSUME NEW c \in Conversations, RunnerStart(c) 
       PROVE (Running' \subseteq Running /\ limit' >= limit) \/ (\E u \in Threads : Claim(u))
  BY <1>22 DEF RunnerStart
<1>23. ASSUME NEW c \in Conversations, RunnerEnd(c) 
       PROVE (Running' \subseteq Running /\ limit' >= limit) \/ (\E u \in Threads : Claim(u))
  BY <1>23 DEF RunnerEnd
<1>24. ASSUME NEW c \in Conversations, RunnerTells(c) 
       PROVE (Running' \subseteq Running /\ limit' >= limit) \/ (\E u \in Threads : Claim(u))
  BY <1>24 DEF RunnerTells, rowVars
<1>25. ASSUME NEW c \in Conversations, RunnerTellFails(c) 
       PROVE (Running' \subseteq Running /\ limit' >= limit) \/ (\E u \in Threads : Claim(u))
  BY <1>25 DEF RunnerTellFails, rowVars
<1>26. ASSUME NEW c \in Conversations, RunnerTeardown(c) 
       PROVE (Running' \subseteq Running /\ limit' >= limit) \/ (\E u \in Threads : Claim(u))
  BY <1>26 DEF RunnerTeardown
<1>27. ASSUME NEW t \in Threads, PublishFails(t) 
       PROVE (Running' \subseteq Running /\ limit' >= limit) \/ (\E u \in Threads : Claim(u))
  BY <1>27 DEF PublishFails, rowVars
<1>28. ASSUME NEW t \in Threads, CallFails(t) 
       PROVE (Running' \subseteq Running /\ limit' >= limit) \/ (\E u \in Threads : Claim(u))
  BY <1>28 DEF CallFails, Abort, rowVars
<1>29. ASSUME NEW t \in Threads, Crash(t) 
       PROVE (Running' \subseteq Running /\ limit' >= limit) \/ (\E u \in Threads : Claim(u))
  BY <1>29 DEF Crash, Abort, rowVars
<1>30. CASE UNCHANGED vars
  BY <1>30 DEF vars, rowVars
<1>. QED
  BY <1>1, <1>2, <1>3, <1>4, <1>5, <1>6, <1>7, <1>8, <1>9, <1>10, <1>11, <1>12, <1>13,
     <1>14, <1>15, <1>16, <1>17, <1>18, <1>19, <1>20, <1>21, <1>22,
     <1>23, <1>24, <1>25, <1>26, <1>27, <1>28, <1>29, <1>30
  DEF Next, Request, Proceed, Read, RunnerStep, Fail

\* ClaimQueuedForDispatch verifies the limit in the transaction that claims, and an
\* update does not lower it.
LEMMA LimitStep ==
  ASSUME TypeOK, HandsFull, OnlyRaised, NobodyStops, NobodyResumes,
         OneHolder, ReplayUnacked,
         LimitRespected, [Next]_vars
  PROVE  LimitRespected'
<1>1. IsFiniteSet(Running) /\ Cardinality(Running) \in Nat
  BY FiniteAssumption, FS_Subset, FS_CardinalityType DEF Running
<1>2. limit \in Nat
  BY LimitAssumption DEF TypeOK
<1>3. CASE Running' \subseteq Running /\ limit' >= limit
  <2>1. Cardinality(Running') \in Nat /\ Cardinality(Running') <= Cardinality(Running)
    BY <1>1, <1>3, FS_Subset, FS_CardinalityType
  <2>2. limit' \in Nat
    BY TypeStep, LimitAssumption DEF TypeOK
  <2>. QED
    BY <1>1, <1>2, <1>3, <2>1, <2>2 DEF LimitRespected
<1>4. ASSUME NEW t \in Threads, Claim(t) PROVE LimitRespected'
  <2>1. limit' = limit
    BY <1>4 DEF Claim
  <2>2. CASE status' = status
    BY <2>1, <2>2 DEF Running, LimitRespected
  <2>3. CASE HasRoom /\ status' = [status EXCEPT ![job[t]] = "running"]
    <3>1. Running' \subseteq Running \cup {job[t]}
      BY <2>3 DEF Running, TypeOK
    <3>2. IsFiniteSet(Running \cup {job[t]}) /\ Cardinality(Running \cup {job[t]}) \in Nat
          /\ Cardinality(Running \cup {job[t]}) <= Cardinality(Running) + 1
      <4>1. /\ IsFiniteSet(Running \cup {job[t]})
            /\ \/ Cardinality(Running \cup {job[t]}) = Cardinality(Running)
               \/ Cardinality(Running \cup {job[t]}) = Cardinality(Running) + 1
        BY <1>1, FS_AddElement
      <4>. QED
        BY <1>1, <4>1
    <3>3. Cardinality(Running') \in Nat
          /\ Cardinality(Running') <= Cardinality(Running \cup {job[t]})
      BY <3>1, <3>2, FS_Subset, FS_CardinalityType
    <3>4. Cardinality(Running) < limit
      BY <2>3 DEF HasRoom
    <3>. QED
      BY <1>1, <1>2, <2>1, <3>2, <3>3, <3>4 DEF LimitRespected
  <2>. QED
    BY <1>4, <2>2, <2>3 DEF Claim
<1>. QED
  BY <1>3, <1>4, OnlyClaimAdds

\* The state services/api starts in satisfies the invariant.
LEMMA InitHolds == Init => IInv
<1>. SUFFICES ASSUME Init PROVE IInv
  OBVIOUS
<1>1. TypeOK
  BY LimitAssumption, BoundsAssumption DEF Init, TypeOK, PC, Status, Threads, Terminal
<1>2. HandsFull /\ ReplayUnacked
  BY DEF Init, HandsFull, Holding, Carrying, ReplayUnacked, Threads
<1>3. RunningIsWork /\ QueuedIsRecorded
  BY DEF Init, RunningIsWork, QueuedIsRecorded, Running
<1>4. \A t \in Threads : pc[t] = "idle"
  BY DEF Init
<1>5. OneHolder /\ OnePlace
  BY <1>4 DEF Init, OneHolder, Claimed, OnePlace, Undecided, Carrying
<1>6. LimitRespected
  <2>1. Running = {}
    BY DEF Init, Running
  <2>. QED
    BY <2>1, FS_EmptySet, LimitAssumption DEF Init, LimitRespected
<1>. QED
  BY <1>1, <1>2, <1>3, <1>4, <1>5, <1>6 DEF IInv, NobodyStops, NobodyResumes

-----------------------------------------------------------------------------
\* The inductive invariant of deliverTrigger, dispatchPendingTrigger and
\* AdvanceQueue holds in every reachable state.
THEOREM Invariance == Spec => []IInv
<1>1. IInv /\ [Next]_vars => IInv'
  <2>. SUFFICES ASSUME IInv, [Next]_vars PROVE IInv'
    OBVIOUS
  <2>1. TypeOK' /\ HandsFull' /\ ReplayUnacked'
    BY TypeStep, HandsStep, ReplayStep DEF IInv
  <2>2. ASSUME NoStops
        PROVE  NobodyStops'
    BY <2>2, NoStopStep DEF IInv
  <2>3. ASSUME NoResumes PROVE NobodyResumes'
    BY <2>3, NoResumeStep DEF IInv
  <2>4. ASSUME NoStops PROVE OneHolder' /\ OnePlace'
    BY <2>4, HolderStep, PlaceStep DEF IInv
  <2>5. ASSUME NoStops, NoResumes, OnlyRaised PROVE LimitRespected'
    BY <2>5, LimitStep DEF IInv
  <2>6. ASSUME Mends PROVE RunningIsWork'
    BY <2>6, WorkStep DEF IInv
  <2>7. ASSUME Mends, NoStops PROVE QueuedIsRecorded'
    BY <2>7, RecordStep DEF IInv
  <2>8. /\ NoStops' = NoStops /\ NoResumes' = NoResumes
        /\ OnlyRaised' = OnlyRaised /\ Mends' = Mends
    BY DEF NoStops, NoResumes, OnlyRaised, Mends, Mending
  <2>. QED
    BY <2>1, <2>2, <2>3, <2>4, <2>5, <2>6, <2>7, <2>8 DEF IInv
<1>. QED
  BY InitHolds, <1>1, PTL DEF Spec

\* Every variable keeps its type, and a replica acknowledges only events it was
\* given.
THEOREM TypeCorrect == Spec => []TypeOK
<1>1. IInv => TypeOK
  BY DEF IInv
<1>. QED
  BY <1>1, Invariance, PTL

\* The limit holds, whatever fails or dies, for an agent whose conversations are
\* neither stopped nor resumed and whose limit is at most raised: no interleaving
\* of requests, replicas and redelivered events claims one slot twice
\* (ClaimQueuedForDispatch).
THEOREM LimitHolds ==
  ASSUME NoStops, NoResumes, OnlyRaised
  PROVE  Spec => []LimitRespected
<1>1. IInv => LimitRespected
  BY DEF IInv
<1>. QED
  BY <1>1, Invariance, PTL

\* A conversation's trigger is nowhere twice, and is nowhere any more once its turn
\* has ended, whatever fails or dies, for an agent whose conversations are not
\* stopped: neither a redelivered event, nor a restored row, nor two resumes of one
\* conversation start the agent twice (ClaimQueuedForDispatch,
\* ClaimConversationStatus).
THEOREM DispatchedAtMostOnce ==
  ASSUME NoStops
  PROVE  Spec => []DispatchedOnce
<1>1. IInv => DispatchedOnce
  <2>. SUFFICES ASSUME IInv, NEW c \in Conversations
                PROVE  /\ Cardinality(Places(c)) <= 1
                       /\ status[c] \in Terminal \cup {"paused"} => Places(c) = {}
    BY DEF DispatchedOnce
  <2>1. TypeOK /\ OneHolder /\ OnePlace /\ HandsFull
    BY DEF IInv
  <2>2. ASSUME NEW p \in pending, p.conv = c
        PROVE  /\ status[c] = "queued" /\ triggers[c] = 0 /\ c \notin turns
               /\ \A t \in Threads : pc[t] \in Carrying => job[t] # c
               /\ \A q \in pending : q.conv = c => q = p
    BY <2>1, <2>2 DEF TypeOK, OneHolder, OnePlace
  <2>3. ASSUME NEW t \in Threads, pc[t] \in Carrying, job[t] = c
        PROVE  /\ status[c] \in {"none", "queued", "running"}
               /\ triggers[c] = 0 /\ c \notin turns
               /\ \A u \in Threads : pc[u] \in Carrying /\ job[u] = c => u = t
    BY <2>1, <2>3 DEF TypeOK, OneHolder, OnePlace, Carrying, Undecided, Claimed, Unstarted
  <2>4. triggers[c] > 0 => triggers[c] = 1 /\ status[c] = "running" /\ c \notin turns
    BY <2>1 DEF OneHolder
  <2>5. c \in turns => status[c] = "running"
    BY <2>1 DEF OneHolder
  <2>6. triggers[c] \in Nat
    BY <2>1 DEF TypeOK
  <2>7. ASSUME NEW x \in Places(c)
        PROVE  /\ status[c] \notin Terminal \cup {"paused"}
               /\ \A y \in Places(c) : y = x
    <3>1. CASE \E p \in pending : p.conv = c /\ x = <<"row", p.at>>
      BY <3>1, <2>2, <2>6 DEF Places, Terminal
    <3>2. CASE \E t \in Threads : job[t] = c /\ pc[t] \in Carrying /\ x = <<"hand", t>>
      BY <3>2, <2>2, <2>3, <2>6 DEF Places, Terminal
    <3>3. CASE \E n \in 1..triggers[c] : x = <<"stream", n>>
      BY <3>3, <2>2, <2>3, <2>4, <2>6 DEF Places, Terminal
    <3>4. CASE c \in turns /\ x = <<"turn", c>>
      BY <3>4, <2>2, <2>3, <2>4, <2>5, <2>6 DEF Places, Terminal
    <3>. QED
      BY <3>1, <3>2, <3>3, <3>4 DEF Places
  <2>8. CASE Places(c) = {}
    BY <2>8, FS_EmptySet
  <2>9. CASE Places(c) # {}
    <3>1. PICK x \in Places(c) : Places(c) = {x}
      BY <2>9, <2>7
    <3>2. Cardinality(Places(c)) = 1
      BY <3>1, FS_Singleton
    <3>. QED
      BY <3>1, <3>2, <2>7
  <2>. QED
    BY <2>8, <2>9
<1>. QED
  BY <1>1, Invariance, PTL

\* No slot leaks: while no process dies, and the steps that undo a claim do not
\* fail themselves, a running conversation has a trigger or a turn, or a thread
\* that is about to publish or to take the claim back (revertFailedDispatch).
THEOREM NoSlotLost ==
  ASSUME Mends
  PROVE  Spec => []RunningIsWork
<1>1. IInv => RunningIsWork
  BY DEF IInv
<1>. QED
  BY <1>1, Invariance, PTL

\* Nobody is forgotten in the queue: where conversations are not stopped, under
\* the same conditions, a queued conversation has a row or a thread that will
\* claim it or write one (deliverTrigger, dispatchPendingTrigger).
THEOREM NobodyForgotten ==
  ASSUME Mends, NoStops
  PROVE  Spec => []QueuedIsRecorded
<1>1. IInv => QueuedIsRecorded
  BY DEF IInv
<1>. QED
  BY <1>1, Invariance, PTL
=============================================================================
