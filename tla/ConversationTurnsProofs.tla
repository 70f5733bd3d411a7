------------------------ MODULE ConversationTurnsProofs ------------------------
(***************************************************************************)
(* Proofs about ConversationTurns: IInv is inductive, and from it          *)
(* WithinLimit, SandboxInUseStaysUp, CachedIndexFresh, OneOwner and        *)
(* RunningRowHasTurn are invariants for any numbers of conversations,      *)
(* turns, control messages and slots.                                      *)
(***************************************************************************)
EXTENDS ConversationTurns, FiniteSetTheorems, TLAPS

\* The inductive invariant in groups that rest on each other.
Serial    == TurnsSerialized /\ RegisteredAtWork /\ ResumeLocked
Sandboxes == HandlesOfOwnConversation /\ KeptRuns /\ PoppedIsUnused /\ SandboxInUseStaysUp
Custody   == KeptIsCurrent /\ PoppedOnce

-----------------------------------------------------------------------------
(* Types.                                                                  *)

\* The types are inductive together with what WellPlaced says of arguments.
LEMMA TypeStep == TypeOK /\ WellPlaced /\ [Next]_vars => TypeOK' /\ WellPlaced'
<1> SUFFICES ASSUME TypeOK, WellPlaced, [Next]_vars PROVE TypeOK' /\ WellPlaced'
  OBVIOUS
<1> USE BoundAssumption
    DEF TypeOK, WellPlaced, Goto, Step, Terminal, Nothing, State, Returns, InMemory, vars,
        rowVars, turnVars, lockVars, inFlight, keptVars, workerVars, faultVars
<1>1. ASSUME NEW t \in Turns, LockConversation(t) PROVE TypeOK' /\ WellPlaced'
  BY <1>1 DEF LockConversation
<1>2. ASSUME NEW t \in Turns, Admit(t) PROVE TypeOK' /\ WellPlaced'
  BY <1>2 DEF Admit
<1>3. ASSUME NEW t \in Turns, Release(t) PROVE TypeOK' /\ WellPlaced'
  BY <1>3 DEF Release, Forget
<1>4. ASSUME NEW t \in Turns, HandleFails(t) PROVE TypeOK' /\ WellPlaced'
  BY <1>4 DEF HandleFails
<1>5. ASSUME NEW t \in Turns, MarkRunning(t) PROVE TypeOK' /\ WellPlaced'
  BY <1>5 DEF MarkRunning
<1>6. ASSUME NEW t \in Turns, SkillsFail(t) PROVE TypeOK' /\ WellPlaced'
  BY <1>6 DEF SkillsFail
<1>7. ASSUME NEW t \in Turns, Register(t) PROVE TypeOK' /\ WellPlaced'
  BY <1>7 DEF Register
<1>8. ASSUME NEW t \in Turns, GetKept(t) PROVE TypeOK' /\ WellPlaced'
  <2>0. tconv[t] \in Conversations
    BY <1>8 DEF GetKept
  <2>1. tbox' \in [Turns -> Turns \cup {None}] /\ tclient' \in [Turns -> BOOLEAN]
            /\ tresume' \in [Turns -> BOOLEAN]
    <3>1. kept[tconv[t]] \in [box : Turns \cup {None}, client : BOOLEAN, present : BOOLEAN]
      BY <2>0
    <3>2. kept[tconv[t]].box \in Turns \cup {None} /\ kept[tconv[t]].client \in BOOLEAN
      BY <3>1
    <3>3. \/ UNCHANGED <<tbox, tclient, tresume>>
          \/ /\ tbox' = [tbox EXCEPT ![t] = kept[tconv[t]].box]
             /\ tclient' = [tclient EXCEPT ![t] = kept[tconv[t]].client]
             /\ tresume' = [tresume EXCEPT ![t] = TRUE]
      BY <1>8 DEF GetKept
    <3>4. tbox \in [Turns -> Turns \cup {None}] /\ tclient \in [Turns -> BOOLEAN]
            /\ tresume \in [Turns -> BOOLEAN]
      OBVIOUS
    <3>. HIDE DEF TypeOK, WellPlaced, vars, rowVars, turnVars, lockVars, inFlight, keptVars,
              workerVars, faultVars, InMemory, Goto, Step
    <3> QED BY <3>2, <3>3, <3>4
  <2>2. resumeOwner' \in [Conversations -> Turns \cup Workers \cup {None}]
    BY <1>8, <2>0 DEF GetKept
  <2>3. tpc' \in [Turns -> InMemory \cup {"unused", "claimed", "sent", "done", "lost"}]
    BY <1>8, <2>0 DEF GetKept
  <2>4. WellPlaced'
    BY <1>8, <2>0 DEF GetKept
  <2> QED BY <1>8, <2>0, <2>1, <2>2, <2>3, <2>4 DEF GetKept
<1>9. ASSUME NEW t \in Turns, ReadIndex(t) PROVE TypeOK' /\ WellPlaced'
  BY <1>9 DEF ReadIndex
<1>10. ASSUME NEW t \in Turns, ReadIndexFails(t) PROVE TypeOK' /\ WellPlaced'
  BY <1>10 DEF ReadIndexFails
<1>11. ASSUME NEW t \in Turns, SaveUserMessage(t) PROVE TypeOK' /\ WellPlaced'
  BY <1>11 DEF SaveUserMessage, InsertEvent
<1>12. ASSUME NEW t \in Turns, SaveUserMessageFails(t) PROVE TypeOK' /\ WellPlaced'
  BY <1>12 DEF SaveUserMessageFails
<1>13. ASSUME NEW t \in Turns, StartSandbox(t) PROVE TypeOK' /\ WellPlaced'
  BY <1>13 DEF StartSandbox
<1>14. ASSUME NEW t \in Turns, Connect(t) PROVE TypeOK' /\ WellPlaced'
  BY <1>14 DEF Connect
<1>15. ASSUME NEW t \in Turns, Attach(t) PROVE TypeOK' /\ WellPlaced'
  BY <1>15 DEF Attach
<1>16. ASSUME NEW t \in Turns, Reattach(t) PROVE TypeOK' /\ WellPlaced'
  BY <1>16 DEF Reattach
<1>17. ASSUME NEW t \in Turns, EndTurn(t) PROVE TypeOK' /\ WellPlaced'
  BY <1>17 DEF EndTurn, InsertEvent
<1>18. ASSUME NEW t \in Turns, EndCancelled(t) PROVE TypeOK' /\ WellPlaced'
  <2>1. PICK p \in {"keeping", "tearing"} : tpc' = [tpc EXCEPT ![t] = p] /\ tpc[t] = "returned"
    BY <1>18 DEF EndCancelled
  <2>2. PICK s \in {"paused", "stopped"} : tend' = [tend EXCEPT ![t] = s]
    BY <1>18 DEF EndCancelled
  <2>3. WellPlaced'
    BY <1>18, <2>1, <2>2 DEF EndCancelled
  <2> QED BY <1>18, <2>1, <2>2, <2>3 DEF EndCancelled
<1>19. ASSUME NEW t \in Turns, EndFailed(t) PROVE TypeOK' /\ WellPlaced'
  <2>1. tpc' = [tpc EXCEPT ![t] = "tearing"] /\ tpc[t] = "returned"
    BY <1>19 DEF EndFailed
  <2>2. PICK s \in {"paused", "failed"} : tend' = [tend EXCEPT ![t] = s]
    BY <1>19 DEF EndFailed
  <2>3. WellPlaced'
    BY <1>19, <2>1, <2>2 DEF EndFailed
  <2> QED BY <1>19, <2>1, <2>2, <2>3 DEF EndFailed
<1>20. ASSUME NEW t \in Turns, Keep(t) PROVE TypeOK' /\ WellPlaced'
  BY <1>20 DEF Keep
<1>21. ASSUME NEW t \in Turns, PopKept(t) PROVE TypeOK' /\ WellPlaced'
  BY <1>21 DEF PopKept
<1>22. ASSUME NEW t \in Turns, StopOwnSandbox(t) PROVE TypeOK' /\ WellPlaced'
  BY <1>22 DEF StopOwnSandbox
<1>23. ASSUME NEW t \in Turns, StopOwnSandboxFails(t) PROVE TypeOK' /\ WellPlaced'
  BY <1>23 DEF StopOwnSandboxFails
<1>24. ASSUME NEW t \in Turns, WriteStatus(t) PROVE TypeOK' /\ WellPlaced'
  BY <1>24 DEF WriteStatus, Verdict
<1>25. ASSUME NEW t \in Turns, WriteStatusFails(t) PROVE TypeOK' /\ WellPlaced'
  BY <1>25 DEF WriteStatusFails
<1>26. ASSUME NEW t \in Turns, Unregister(t) PROVE TypeOK' /\ WellPlaced'
  <2>0. tconv[t] \in Conversations
    BY <1>26 DEF Unregister
  <2>1. tpc' \in [Turns -> InMemory \cup {"unused", "claimed", "sent", "done", "lost"}]
    BY <1>26, <2>0 DEF Unregister
  <2>2. registered' \in [Conversations -> Turns \cup {None}]
    BY <1>26, <2>0 DEF Unregister
  <2>3. reason' \in [Conversations -> {"none", "stop", "pause"}]
    BY <1>26, <2>0 DEF Unregister
  <2>4. WellPlaced'
    BY <1>26, <2>0 DEF Unregister
  <2> QED BY <1>26, <2>0, <2>1, <2>2, <2>3, <2>4 DEF Unregister
<1>27. ASSUME NEW t \in Turns, Publish(t) PROVE TypeOK' /\ WellPlaced'
  BY <1>27 DEF Publish
<1>28. ASSUME NEW t \in Turns, Deliver(t) PROVE TypeOK' /\ WellPlaced'
  BY <1>28 DEF Deliver
<1>29. ASSUME NEW w \in Workers, CheckRegistered(w) PROVE TypeOK' /\ WellPlaced'
  <2>1. PICK p \in {"unused", "done", "popping"} : wpc' = [wpc EXCEPT ![w] = p] /\ wpc[w] = "teardown"
    BY <1>29 DEF CheckRegistered, AfterTeardown
  <2>2. resumeOwner' = resumeOwner \/ resumeOwner' = [resumeOwner EXCEPT ![wconv[w]] = w]
    BY <1>29 DEF CheckRegistered
  <2>3. WellPlaced'
    BY <1>29, <2>1 DEF CheckRegistered
  <2> QED BY SMTT(30), <1>29, <2>1, <2>2, <2>3 DEF CheckRegistered
<1>30. ASSUME NEW w \in Workers, Pop(w) PROVE TypeOK' /\ WellPlaced'
  BY <1>30 DEF Pop, AfterTeardown
<1>31. ASSUME NEW w \in Workers, StopPopped(w) PROVE TypeOK' /\ WellPlaced'
  BY <1>31 DEF StopPopped, AfterTeardown
<1>32. ASSUME NEW w \in Workers, WriteTornDown(w) PROVE TypeOK' /\ WellPlaced'
  BY <1>32 DEF WriteTornDown, AfterTeardown
<1>33. ASSUME NEW w \in Workers, DeliverControl(w) PROVE TypeOK' /\ WellPlaced'
  BY <1>33 DEF DeliverControl
<1>34. ASSUME NEW w \in Workers, Interrupt(w) PROVE TypeOK' /\ WellPlaced'
  BY <1>34 DEF Interrupt
<1>35. ASSUME NEW w \in Workers, InterruptMisses(w) PROVE TypeOK' /\ WellPlaced'
  BY <1>35 DEF InterruptMisses
<1>36. ASSUME NEW w \in Workers, WriteStop(w) PROVE TypeOK' /\ WellPlaced'
  BY <1>36 DEF WriteStop
<1>37. ASSUME NEW w \in Workers, PublishStop(w) PROVE TypeOK' /\ WellPlaced'
  BY <1>37 DEF PublishStop
<1>38. ASSUME NEW t \in Turns, NEW how \in Returns, RunReturns(t, how) PROVE TypeOK' /\ WellPlaced'
  <2>1. tpc' \in [Turns -> InMemory \cup {"unused", "claimed", "sent", "done", "lost"}]
    BY <1>38 DEF RunReturns, InRun
  <2>2. tend' \in [Turns -> Returns \cup {"none", "error", "paused", "dropped", "unwritten"}
                               \cup Terminal]
    BY <1>38 DEF RunReturns, InRun
  <2>3. WellPlaced'
    BY <1>38 DEF RunReturns, InRun
  <2> QED BY <1>38, <2>1, <2>2, <2>3 DEF RunReturns, InRun
<1>39. ASSUME NEW t \in Turns, NEW c \in Conversations, Claim(t, c) PROVE TypeOK' /\ WellPlaced'
  <2>1. status' \in [Conversations -> {"none", "running", "paused"} \cup Terminal]
    BY <1>39 DEF Claim
  <2>2. tpc' \in [Turns -> InMemory \cup {"unused", "claimed", "sent", "done", "lost"}]
    BY <1>39 DEF Claim
  <2>3. WellPlaced'
    BY <1>39 DEF Claim
  <2> QED BY <1>39, <2>1, <2>2, <2>3 DEF Claim
<1>40. ASSUME NEW w \in Workers, NEW c \in Conversations, CheckStop(w, c)
      PROVE TypeOK' /\ WellPlaced'
  BY <1>40 DEF CheckStop
<1>41. ASSUME NEW w \in Workers, NEW c \in Conversations, RequestPause(w, c)
      PROVE TypeOK' /\ WellPlaced'
  BY <1>41 DEF RequestPause
<1>42. ASSUME NEW c \in Conversations, Heartbeat(c) PROVE TypeOK' /\ WellPlaced'
  BY <1>42 DEF Heartbeat
<1>43. ASSUME NEW c \in Conversations, GrowIdle(c) PROVE TypeOK' /\ WellPlaced'
  BY <1>43 DEF GrowIdle
<1>44. ASSUME NEW c \in Conversations, FailOrphan(c) PROVE TypeOK' /\ WellPlaced'
  BY <1>44 DEF FailOrphan
<1>45. ASSUME NEW c \in Conversations, ReapNext(c) PROVE TypeOK' /\ WellPlaced'
  BY <1>45 DEF ReapNext, Workers
<1>46. ASSUME FindIdle PROVE TypeOK' /\ WellPlaced'
  BY <1>46 DEF FindIdle
<1>47. ASSUME ListOrphans PROVE TypeOK' /\ WellPlaced'
  <2>1. PICK recent \in SUBSET Conversations :
          LET alone == EnvBacked \cup recent
                         \cup {c \in Conversations : \E b \in live : tconv[b] = c} IN
          /\ todo' = {c \in Conversations \ alone : status[c] = "running"}
          /\ spared' = {c \in alone : status[c] = "running"}
    BY <1>47 DEF ListOrphans
  <2>2. todo' \subseteq Conversations /\ spared' \subseteq Conversations
    BY <2>1, KindAssumption
  <2> QED BY <1>47, <2>2 DEF ListOrphans
<1>48. ASSUME ProcessDies, crashes' \in 0..MaxCrashes PROVE TypeOK' /\ WellPlaced'
  <2>1. tpc' \in [Turns -> InMemory \cup {"unused", "claimed", "sent", "done", "lost"}]
    BY <1>48 DEF ProcessDies
  <2>2. wpc' \in [Workers -> {"unused", "checked", "written", "sent", "handling", "teardown",
                             "popping", "closing", "announcing", "done"}]
    BY <1>48 DEF ProcessDies
  <2>3. WellPlaced'
    BY <1>48 DEF ProcessDies
  <2> QED BY <1>48, <2>1, <2>2, <2>3 DEF ProcessDies
<1>49. ASSUME UNCHANGED vars PROVE TypeOK' /\ WellPlaced'
  BY <1>49
<1>50. CASE Crash
  BY <1>50, <1>48 DEF Crash
<1>51. ASSUME NEW t \in Turns, PromptPanics(t) PROVE TypeOK' /\ WellPlaced'
  BY <1>51, <1>48 DEF PromptPanics
<1>52. ASSUME NEW w \in Workers, StopPanics(w) PROVE TypeOK' /\ WellPlaced'
  BY <1>52, <1>48 DEF StopPanics
<1>60. ASSUME NEW t \in Turns, Drop(t) PROVE TypeOK' /\ WellPlaced'
  BY <1>60 DEF Drop
<1>61. ASSUME NEW t \in Turns, RecordFailure(t) PROVE TypeOK' /\ WellPlaced'
  BY <1>61 DEF RecordFailure
<1>62. ASSUME NEW t \in Turns, RecordFailureFails(t) PROVE TypeOK' /\ WellPlaced'
  BY <1>62 DEF RecordFailureFails
<1>63. ASSUME NEW t \in Turns, EndTurnFails(t) PROVE TypeOK' /\ WellPlaced'
  BY <1>63 DEF EndTurnFails
<1>64. ASSUME NEW w \in Workers, StopPoppedFails(w) PROVE TypeOK' /\ WellPlaced'
  BY <1>64 DEF StopPoppedFails
<1>65. ASSUME NEW w \in Workers, WriteTornDownFails(w) PROVE TypeOK' /\ WellPlaced'
  BY <1>65 DEF WriteTornDownFails, AfterTeardown
<1>66. ASSUME ListOrphansFails PROVE TypeOK' /\ WellPlaced'
  BY <1>66 DEF ListOrphansFails
<1>67. ASSUME NEW c \in Conversations, FailOrphanFails(c) PROVE TypeOK' /\ WellPlaced'
  BY <1>67 DEF FailOrphanFails
<1> HIDE DEF TypeOK, WellPlaced, vars
<1>100. ASSUME NEW t \in Turns, TurnStep(t) \/ TurnFails(t) \/ Deliver(t)
      PROVE TypeOK' /\ WellPlaced'
  BY <1>100, <1>1, <1>2, <1>3, <1>4, <1>5, <1>6, <1>7, <1>8, <1>9, <1>10, <1>11, <1>12,
     <1>13, <1>14, <1>15, <1>16, <1>17, <1>18, <1>19, <1>20, <1>21, <1>22, <1>23, <1>24,
     <1>25, <1>26, <1>28, <1>38, <1>51,
     <1>60, <1>61, <1>62, <1>63 DEF TurnStep, TurnFails
<1>101. ASSUME NEW w \in Workers, TeardownStep(w) PROVE TypeOK' /\ WellPlaced'
  BY <1>101, <1>29, <1>30, <1>31, <1>32, <1>52 DEF TeardownStep
<1>102. ASSUME NEW w \in Controls, ControlStep(w) PROVE TypeOK' /\ WellPlaced'
  BY <1>102, <1>33, <1>34, <1>35 DEF ControlStep, Workers
<1>103. CASE UserStep
  BY <1>103, <1>39, <1>40, <1>41, <1>42, <1>43 DEF UserStep, Workers
<1>104. CASE ApiStep
  BY <1>104, <1>27, <1>36, <1>37 DEF ApiStep, Workers
<1>105. CASE ReaperStep
  BY <1>105, <1>101, <1>45, <1>46 DEF ReaperStep, Workers
<1>106. CASE ReconcileStep
  BY <1>106, <1>44, <1>47 DEF ReconcileStep
<1>107. ASSUME NEW w \in Workers, TeardownFails(w) PROVE TypeOK' /\ WellPlaced'
  BY <1>107, <1>64, <1>65 DEF TeardownFails
<1>108. CASE ReconcileFails
  BY <1>108, <1>66, <1>67 DEF ReconcileFails
<1> QED
  BY <1>100, <1>101, <1>102, <1>103, <1>104, <1>105, <1>106, <1>107, <1>108,
      <1>49, <1>50 DEF Next, Workers


-----------------------------------------------------------------------------
(* The steps, group by group.                                              *)

\* The three locks: turns of a conversation, in-flight entries and resumeLock.
LEMMA SerialStep == TypeOK /\ WellPlaced /\ Serial /\ [Next]_vars => Serial'
<1> SUFFICES ASSUME TypeOK, WellPlaced, Serial, [Next]_vars PROVE Serial'
  OBVIOUS
<1>1. tpc \in [Turns -> InMemory \cup {"unused", "claimed", "sent", "done", "lost"}]
  BY DEF TypeOK
<1>2. tconv \in [Turns -> Conversations \cup {None}]
  BY DEF TypeOK
<1>3. /\ convOwner \in [Conversations -> Turns \cup {None}]
      /\ registered \in [Conversations -> Turns \cup {None}]
      /\ resumeOwner \in [Conversations -> Turns \cup Workers \cup {None}]
  BY DEF TypeOK
<1>4. /\ wpc \in [Workers -> {"unused", "checked", "written", "sent", "handling", "teardown",
                         "popping", "closing", "announcing", "done"}]
      /\ wconv \in [Workers -> Conversations \cup {None}]
  BY DEF TypeOK
<1>5. Turns \cap Workers = {} /\ None \notin Turns \cup Workers
  BY DistinctAssumption DEF Workers
<1> USE <1>1, <1>2, <1>3, <1>4, <1>5 
       DEF Serial, WellPlaced, TurnsSerialized, RegisteredAtWork, ResumeLocked, Owned, InFlightPC,
           InMemory, Goto, Step,
           rowVars, turnVars, lockVars, inFlight, keptVars,
           workerVars, faultVars
<1>6. ASSUME NEW t \in Turns, Publish(t) \/ Deliver(t)
     PROVE  Serial'
  BY <1>6 DEF Publish, Deliver
<1>7. ASSUME NEW w \in Workers, StopPopped(w) \/ WriteTornDown(w) \/ DeliverControl(w) \/
            Interrupt(w) \/ InterruptMisses(w) \/ WriteStop(w) \/ PublishStop(w)
     PROVE  Serial'
  BY <1>7 DEF StopPopped, AfterTeardown, WriteTornDown, DeliverControl, Interrupt,
         InterruptMisses, WriteStop, PublishStop
<1>8. ASSUME NEW w \in Workers, NEW c \in Conversations, CheckStop(w, c) \/ RequestPause(w,
            c)
     PROVE  Serial'
  BY <1>8 DEF CheckStop, RequestPause
<1>9. ASSUME NEW c \in Conversations, Heartbeat(c) \/ GrowIdle(c) \/ FailOrphan(c)
     PROVE  Serial'
  BY <1>9 DEF Heartbeat, GrowIdle, FailOrphan
<1>10. ASSUME NEW t \in Turns, LockConversation(t) PROVE Serial'
  BY <1>10 DEF LockConversation
<1>11. ASSUME NEW t \in Turns, Admit(t) PROVE Serial'
  BY <1>11 DEF Admit
<1>12. ASSUME NEW t \in Turns, Release(t) PROVE Serial'
  BY <1>12 DEF Release, Forget
<1>13. ASSUME NEW t \in Turns, HandleFails(t) PROVE Serial'
  BY <1>13 DEF HandleFails
<1>14. ASSUME NEW t \in Turns, MarkRunning(t) PROVE Serial'
  BY <1>14 DEF MarkRunning
<1>15. ASSUME NEW t \in Turns, SkillsFail(t) PROVE Serial'
  BY <1>15 DEF SkillsFail
<1>16. ASSUME NEW t \in Turns, Register(t) PROVE Serial'
  BY <1>16 DEF Register
<1>17. ASSUME NEW t \in Turns, GetKept(t) PROVE Serial'
  BY <1>17 DEF GetKept
<1>18. ASSUME NEW t \in Turns, ReadIndex(t) PROVE Serial'
  BY <1>18 DEF ReadIndex
<1>19. ASSUME NEW t \in Turns, ReadIndexFails(t) PROVE Serial'
  BY <1>19 DEF ReadIndexFails
<1>20. ASSUME NEW t \in Turns, SaveUserMessage(t) PROVE Serial'
  BY <1>20 DEF SaveUserMessage, InsertEvent
<1>21. ASSUME NEW t \in Turns, SaveUserMessageFails(t) PROVE Serial'
  BY <1>21 DEF SaveUserMessageFails
<1>22. ASSUME NEW t \in Turns, StartSandbox(t) PROVE Serial'
  BY <1>22 DEF StartSandbox
<1>23. ASSUME NEW t \in Turns, Connect(t) PROVE Serial'
  BY <1>23 DEF Connect
<1>24. ASSUME NEW t \in Turns, Attach(t) PROVE Serial'
  BY <1>24 DEF Attach
<1>25. ASSUME NEW t \in Turns, Reattach(t) PROVE Serial'
  BY <1>25 DEF Reattach
<1>26. ASSUME NEW t \in Turns, EndTurn(t) PROVE Serial'
  BY <1>26 DEF EndTurn, InsertEvent
<1>27. ASSUME NEW t \in Turns, EndCancelled(t) PROVE Serial'
  BY <1>27 DEF EndCancelled
<1>28. ASSUME NEW t \in Turns, EndFailed(t) PROVE Serial'
  BY <1>28 DEF EndFailed
<1>29. ASSUME NEW t \in Turns, Keep(t) PROVE Serial'
  BY <1>29 DEF Keep
<1>30. ASSUME NEW t \in Turns, PopKept(t) PROVE Serial'
  BY <1>30 DEF PopKept
<1>31. ASSUME NEW t \in Turns, StopOwnSandbox(t) PROVE Serial'
  BY <1>31 DEF StopOwnSandbox
<1>32. ASSUME NEW t \in Turns, StopOwnSandboxFails(t) PROVE Serial'
  BY <1>32 DEF StopOwnSandboxFails
<1>33. ASSUME NEW t \in Turns, WriteStatus(t) PROVE Serial'
  BY <1>33 DEF WriteStatus, Verdict
<1>34. ASSUME NEW t \in Turns, WriteStatusFails(t) PROVE Serial'
  BY <1>34 DEF WriteStatusFails
<1>35. ASSUME NEW t \in Turns, Unregister(t) PROVE Serial'
  BY <1>35 DEF Unregister
<1>36. ASSUME NEW t \in Turns, NEW how \in Returns, RunReturns(t, how) PROVE Serial'
  BY <1>36 DEF RunReturns, InRun, Returns
<1>37. ASSUME NEW t \in Turns, NEW c \in Conversations, Claim(t, c) PROVE Serial'
  BY <1>37 DEF Claim
<1>38. ASSUME NEW w \in Workers, CheckRegistered(w) PROVE Serial'
  BY <1>38 DEF CheckRegistered, AfterTeardown
<1>39. ASSUME NEW w \in Workers, Pop(w) PROVE Serial'
  BY <1>39 DEF Pop, AfterTeardown
<1>40. ASSUME NEW c \in Conversations, ReapNext(c) PROVE Serial'
  BY <1>40 DEF ReapNext
<1>41. ASSUME FindIdle PROVE Serial'
  BY <1>41 DEF FindIdle
<1>42. ASSUME ListOrphans PROVE Serial'
  BY <1>42 DEF ListOrphans
<1>43. ASSUME ProcessDies PROVE Serial'
  BY <1>43 DEF ProcessDies
<1>44. ASSUME UNCHANGED vars PROVE Serial'
  BY <1>44 DEF vars
<1>45. CASE Crash
  BY <1>45, <1>43 DEF Crash
<1>46. ASSUME NEW t \in Turns, PromptPanics(t) PROVE Serial'
  BY <1>46, <1>43 DEF PromptPanics
<1>47. ASSUME NEW w \in Workers, StopPanics(w) PROVE Serial'
  BY <1>47, <1>43 DEF StopPanics
<1>60. ASSUME NEW t \in Turns, Drop(t) PROVE Serial'
  BY <1>60 DEF Drop
<1>61. ASSUME NEW t \in Turns, RecordFailure(t) PROVE Serial'
  BY <1>61 DEF RecordFailure
<1>62. ASSUME NEW t \in Turns, RecordFailureFails(t) PROVE Serial'
  BY <1>62 DEF RecordFailureFails
<1>63. ASSUME NEW t \in Turns, EndTurnFails(t) PROVE Serial'
  BY <1>63 DEF EndTurnFails
<1>64. ASSUME NEW w \in Workers, StopPoppedFails(w) PROVE Serial'
  BY <1>64 DEF StopPoppedFails
<1>65. ASSUME NEW w \in Workers, WriteTornDownFails(w) PROVE Serial'
  BY <1>65 DEF WriteTornDownFails, AfterTeardown
<1>66. ASSUME ListOrphansFails PROVE Serial'
  BY <1>66 DEF ListOrphansFails
<1>67. ASSUME NEW c \in Conversations, FailOrphanFails(c) PROVE Serial'
  BY <1>67 DEF FailOrphanFails
<1> HIDE DEF TypeOK, WellPlaced, vars
<1>100. ASSUME NEW t \in Turns, TurnStep(t) \/ TurnFails(t) \/ Deliver(t) PROVE Serial'
  BY <1>100, <1>6, <1>10, <1>11, <1>12, <1>13, <1>14, <1>15, <1>16, <1>17, <1>18, <1>19,
     <1>20, <1>21, <1>22, <1>23, <1>24, <1>25, <1>26, <1>27, <1>28, <1>29, <1>30, <1>31,
     <1>32, <1>33, <1>34, <1>35, <1>36, <1>46,
     <1>60, <1>61, <1>62, <1>63 DEF TurnStep, TurnFails
<1>101. ASSUME NEW w \in Workers, TeardownStep(w) PROVE Serial'
  BY <1>101, <1>7, <1>38, <1>39, <1>47 DEF TeardownStep
<1>102. ASSUME NEW w \in Controls, ControlStep(w) PROVE Serial'
  BY <1>102, <1>7 DEF ControlStep, Workers
<1>103. CASE UserStep
  BY <1>103, <1>8, <1>9, <1>37 DEF UserStep, Workers
<1>104. CASE ApiStep
  BY <1>104, <1>6, <1>7 DEF ApiStep, Workers
<1>105. CASE ReaperStep
  BY <1>105, <1>101, <1>40, <1>41 DEF ReaperStep, Workers
<1>106. CASE ReconcileStep
  BY <1>106, <1>9, <1>42 DEF ReconcileStep
<1>107. ASSUME NEW w \in Workers, TeardownFails(w) PROVE Serial'
  BY <1>107, <1>64, <1>65 DEF TeardownFails
<1>108. CASE ReconcileFails
  BY <1>108, <1>66, <1>67 DEF ReconcileFails
<1> QED
  BY <1>100, <1>101, <1>102, <1>103, <1>104, <1>105, <1>106, <1>107, <1>108,
      <1>44, <1>45 DEF Next, Workers

\* The semaphore.
LEMMA SlotStep == TypeOK /\ WellPlaced /\ SlotsHeld /\ [Next]_vars => SlotsHeld'
<1> SUFFICES ASSUME TypeOK, WellPlaced, SlotsHeld, [Next]_vars PROVE SlotsHeld'
  OBVIOUS
<1>1. tpc \in [Turns -> InMemory \cup {"unused", "claimed", "sent", "done", "lost"}]
  BY DEF TypeOK
<1>2. IsFiniteSet(Admitted) /\ Cardinality(Admitted) \in Nat /\ MaxConcurrent \in Nat
  BY FiniteAssumption, BoundAssumption, FS_Subset, FS_CardinalityType DEF Admitted
<1> USE <1>1, <1>2 
       DEF SlotsHeld, WithinLimit, Admitted, InMemory, Goto, Step,
           rowVars, turnVars, lockVars, inFlight, keptVars,
           workerVars, faultVars
<1>3. ASSUME NEW t \in Turns, HandleFails(t) \/ SkillsFail(t) \/ ReadIndexFails(t) \/
            SaveUserMessageFails(t) \/ StopOwnSandboxFails(t) \/ WriteStatusFails(t)
     PROVE  SlotsHeld'
  BY <1>3 DEF HandleFails, SkillsFail, ReadIndexFails, SaveUserMessageFails,
         StopOwnSandboxFails, WriteStatusFails
<1>4. ASSUME NEW w \in Workers, CheckRegistered(w) \/ Pop(w) \/ StopPopped(w) \/
            WriteTornDown(w) \/ DeliverControl(w) \/ Interrupt(w) \/ InterruptMisses(w) \/
            WriteStop(w) \/ PublishStop(w)
     PROVE  SlotsHeld'
  BY <1>4 DEF CheckRegistered, AfterTeardown, Pop, StopPopped, WriteTornDown, DeliverControl,
         Interrupt, InterruptMisses, WriteStop, PublishStop
<1>5. ASSUME NEW w \in Workers, NEW c \in Conversations, CheckStop(w, c) \/ RequestPause(w,
            c)
     PROVE  SlotsHeld'
  BY <1>5 DEF CheckStop, RequestPause
<1>6. ASSUME NEW c \in Conversations, Heartbeat(c) \/ GrowIdle(c) \/ FailOrphan(c) \/
            ReapNext(c)
     PROVE  SlotsHeld'
  BY <1>6 DEF Heartbeat, GrowIdle, FailOrphan, ReapNext
<1>7. ASSUME NEW t \in Turns, LockConversation(t) PROVE SlotsHeld'
  BY <1>7 DEF LockConversation
<1>8. ASSUME NEW t \in Turns, Admit(t) PROVE SlotsHeld'
  <2>1. Admitted' = Admitted \cup {t} /\ slots' = slots \cup {t} /\ t \notin Admitted
    BY <1>8 DEF Admit
  <2>2. Cardinality(Admitted \cup {t}) = Cardinality(Admitted) + 1
    <3> HIDE DEF Admitted
    <3> QED BY <2>1, FS_AddElement
  <2>3. Cardinality(Admitted) < MaxConcurrent
    BY <1>8 DEF Admit
  <2>4. Cardinality(Admitted') <= MaxConcurrent
    <3> HIDE DEF Admitted
    <3> QED BY <2>1, <2>2, <2>3
  <2> QED BY <2>1, <2>4
<1>9. ASSUME NEW t \in Turns, Release(t) PROVE SlotsHeld'
  <2>1. Admitted' = Admitted \ {t} /\ slots' = slots \ {t} /\ t \in Admitted
    BY <1>9 DEF Release, Forget
  <2>2. Cardinality(Admitted \ {t}) = Cardinality(Admitted) - 1
    <3> HIDE DEF Admitted
    <3> QED BY <2>1, FS_RemoveElement
  <2>3. Cardinality(Admitted') <= MaxConcurrent
    <3> HIDE DEF Admitted
    <3> QED BY <2>1, <2>2 DEF SlotsHeld, WithinLimit
  <2> QED BY <2>1, <2>3
<1>10. ASSUME NEW t \in Turns, MarkRunning(t) PROVE SlotsHeld'
  BY <1>10 DEF MarkRunning
<1>11. ASSUME NEW t \in Turns, Register(t) PROVE SlotsHeld'
  BY <1>11 DEF Register
<1>12. ASSUME NEW t \in Turns, GetKept(t) PROVE SlotsHeld'
  BY <1>12 DEF GetKept
<1>13. ASSUME NEW t \in Turns, ReadIndex(t) PROVE SlotsHeld'
  BY <1>13 DEF ReadIndex
<1>14. ASSUME NEW t \in Turns, SaveUserMessage(t) PROVE SlotsHeld'
  BY <1>14 DEF SaveUserMessage, InsertEvent
<1>15. ASSUME NEW t \in Turns, StartSandbox(t) PROVE SlotsHeld'
  BY <1>15 DEF StartSandbox
<1>16. ASSUME NEW t \in Turns, Connect(t) PROVE SlotsHeld'
  BY <1>16 DEF Connect
<1>17. ASSUME NEW t \in Turns, Attach(t) PROVE SlotsHeld'
  BY <1>17 DEF Attach
<1>18. ASSUME NEW t \in Turns, Reattach(t) PROVE SlotsHeld'
  BY <1>18 DEF Reattach
<1>19. ASSUME NEW t \in Turns, EndTurn(t) PROVE SlotsHeld'
  BY <1>19 DEF EndTurn, InsertEvent
<1>20. ASSUME NEW t \in Turns, EndCancelled(t) PROVE SlotsHeld'
  <2>1. PICK p \in {"keeping", "tearing"} : tpc' = [tpc EXCEPT ![t] = p] /\ tpc[t] = "returned"
    BY <1>20 DEF EndCancelled
  <2> QED BY <1>20, <2>1 DEF EndCancelled
<1>21. ASSUME NEW t \in Turns, EndFailed(t) PROVE SlotsHeld'
  BY <1>21 DEF EndFailed
<1>22. ASSUME NEW t \in Turns, Keep(t) PROVE SlotsHeld'
  BY <1>22 DEF Keep
<1>23. ASSUME NEW t \in Turns, PopKept(t) PROVE SlotsHeld'
  BY <1>23 DEF PopKept
<1>24. ASSUME NEW t \in Turns, StopOwnSandbox(t) PROVE SlotsHeld'
  BY <1>24 DEF StopOwnSandbox
<1>25. ASSUME NEW t \in Turns, WriteStatus(t) PROVE SlotsHeld'
  BY <1>25 DEF WriteStatus, Verdict
<1>26. ASSUME NEW t \in Turns, Unregister(t) PROVE SlotsHeld'
  BY <1>26 DEF Unregister
<1>27. ASSUME NEW t \in Turns, Publish(t) PROVE SlotsHeld'
  BY <1>27 DEF Publish
<1>28. ASSUME NEW t \in Turns, Deliver(t) PROVE SlotsHeld'
  BY <1>28 DEF Deliver
<1>29. ASSUME NEW t \in Turns, NEW how \in Returns, RunReturns(t, how) PROVE SlotsHeld'
  BY <1>29 DEF RunReturns, InRun, Returns
<1>30. ASSUME NEW t \in Turns, NEW c \in Conversations, Claim(t, c) PROVE SlotsHeld'
  BY <1>30 DEF Claim
<1>31. ASSUME FindIdle PROVE SlotsHeld'
  BY <1>31 DEF FindIdle
<1>32. ASSUME ListOrphans PROVE SlotsHeld'
  BY <1>32 DEF ListOrphans
<1>33. ASSUME ProcessDies PROVE SlotsHeld'
  <2>1. Admitted' = {} /\ slots' = {}
    BY <1>33 DEF ProcessDies
  <2>2. Cardinality({}) = 0
    BY FS_EmptySet
  <2> QED BY <2>1, <2>2
<1>34. ASSUME UNCHANGED vars PROVE SlotsHeld'
  BY <1>34 DEF vars
<1>35. CASE Crash
  BY <1>35, <1>33 DEF Crash
<1>36. ASSUME NEW t \in Turns, PromptPanics(t) PROVE SlotsHeld'
  BY <1>36, <1>33 DEF PromptPanics
<1>37. ASSUME NEW w \in Workers, StopPanics(w) PROVE SlotsHeld'
  BY <1>37, <1>33 DEF StopPanics
<1>60. ASSUME NEW t \in Turns, Drop(t) PROVE SlotsHeld'
  BY <1>60 DEF Drop
<1>61. ASSUME NEW t \in Turns, RecordFailure(t) PROVE SlotsHeld'
  BY <1>61 DEF RecordFailure
<1>62. ASSUME NEW t \in Turns, RecordFailureFails(t) PROVE SlotsHeld'
  BY <1>62 DEF RecordFailureFails
<1>63. ASSUME NEW t \in Turns, EndTurnFails(t) PROVE SlotsHeld'
  BY <1>63 DEF EndTurnFails
<1>64. ASSUME NEW w \in Workers, StopPoppedFails(w) PROVE SlotsHeld'
  BY <1>64 DEF StopPoppedFails
<1>65. ASSUME NEW w \in Workers, WriteTornDownFails(w) PROVE SlotsHeld'
  BY <1>65 DEF WriteTornDownFails, AfterTeardown
<1>66. ASSUME ListOrphansFails PROVE SlotsHeld'
  BY <1>66 DEF ListOrphansFails
<1>67. ASSUME NEW c \in Conversations, FailOrphanFails(c) PROVE SlotsHeld'
  BY <1>67 DEF FailOrphanFails
<1> HIDE DEF TypeOK, WellPlaced, vars
<1>100. ASSUME NEW t \in Turns, TurnStep(t) \/ TurnFails(t) \/ Deliver(t) PROVE SlotsHeld'
  BY <1>100, <1>3, <1>7, <1>8, <1>9, <1>10, <1>11, <1>12, <1>13, <1>14, <1>15, <1>16, <1>17,
     <1>18, <1>19, <1>20, <1>21, <1>22, <1>23, <1>24, <1>25, <1>26, <1>28, <1>29, <1>36,
     <1>60, <1>61, <1>62, <1>63 DEF
     TurnStep, TurnFails
<1>101. ASSUME NEW w \in Workers, TeardownStep(w) PROVE SlotsHeld'
  BY <1>101, <1>4, <1>37 DEF TeardownStep
<1>102. ASSUME NEW w \in Controls, ControlStep(w) PROVE SlotsHeld'
  BY <1>102, <1>4 DEF ControlStep, Workers
<1>103. CASE UserStep
  BY <1>103, <1>5, <1>6, <1>30 DEF UserStep, Workers
<1>104. CASE ApiStep
  BY <1>104, <1>4, <1>27 DEF ApiStep, Workers
<1>105. CASE ReaperStep
  BY <1>105, <1>101, <1>6, <1>31 DEF ReaperStep, Workers
<1>106. CASE ReconcileStep
  BY <1>106, <1>6, <1>32 DEF ReconcileStep
<1>107. ASSUME NEW w \in Workers, TeardownFails(w) PROVE SlotsHeld'
  BY <1>107, <1>64, <1>65 DEF TeardownFails
<1>108. CASE ReconcileFails
  BY <1>108, <1>66, <1>67 DEF ReconcileFails
<1> QED
  BY <1>100, <1>101, <1>102, <1>103, <1>104, <1>105, <1>106, <1>107, <1>108,
      <1>34, <1>35 DEF Next, Workers

\* Sandboxes: handles, the kept ones, the popped ones and those in use.
LEMMA SandboxStep == TypeOK /\ WellPlaced /\ Serial /\ Sandboxes /\ [Next]_vars => Sandboxes'
<1> SUFFICES ASSUME TypeOK, WellPlaced, Serial, Sandboxes, [Next]_vars PROVE Sandboxes'
  OBVIOUS
<1>1. tpc \in [Turns -> InMemory \cup {"unused", "claimed", "sent", "done", "lost"}]
  BY DEF TypeOK
<1>2. tconv \in [Turns -> Conversations \cup {None}] /\ tbox \in [Turns -> Turns \cup {None}]
  BY DEF TypeOK
<1>3. registered \in [Conversations -> Turns \cup {None}]
  BY DEF TypeOK
<1>4. /\ wpc \in [Workers -> {"unused", "checked", "written", "sent", "handling", "teardown",
                         "popping", "closing", "announcing", "done"}]
      /\ wconv \in [Workers -> Conversations \cup {None}]
      /\ wbox \in [Workers -> Turns \cup {None}]
  BY DEF TypeOK
<1>5. kept \in [Conversations -> [box : Turns \cup {None}, client : BOOLEAN, present : BOOLEAN]]
  BY DEF TypeOK
<1>6. None \notin Turns
  BY DistinctAssumption
<1> USE <1>1, <1>2, <1>3, <1>4, <1>5, <1>6 
       DEF Serial, Sandboxes, WellPlaced, TurnsSerialized, RegisteredAtWork, ResumeLocked,
           HandlesOfOwnConversation, KeptRuns, PoppedIsUnused, SandboxInUseStaysUp, Using, Holding, Started,
           Fetching, Owned, InFlightPC, InMemory, Goto, Step, Nothing, State,
           rowVars, turnVars, lockVars, inFlight, keptVars,
           workerVars, faultVars
<1>7. ASSUME NEW w \in Workers, WriteTornDown(w) \/ DeliverControl(w) \/ Interrupt(w) \/
            InterruptMisses(w) \/ WriteStop(w) \/ PublishStop(w)
     PROVE  Sandboxes'
  BY <1>7 DEF WriteTornDown, AfterTeardown, DeliverControl, Interrupt, InterruptMisses,
         WriteStop, PublishStop
<1>8. ASSUME NEW w \in Workers, NEW c \in Conversations, CheckStop(w, c) \/ RequestPause(w,
            c)
     PROVE  Sandboxes'
  BY <1>8 DEF CheckStop, RequestPause
<1>9. ASSUME NEW c \in Conversations, Heartbeat(c) \/ GrowIdle(c) \/ FailOrphan(c)
     PROVE  Sandboxes'
  BY <1>9 DEF Heartbeat, GrowIdle, FailOrphan
<1>10. ASSUME NEW t \in Turns, LockConversation(t) PROVE Sandboxes'
  BY <1>10 DEF LockConversation
<1>11. ASSUME NEW t \in Turns, Admit(t) PROVE Sandboxes'
  BY <1>11 DEF Admit
<1>12. ASSUME NEW t \in Turns, Release(t) PROVE Sandboxes'
  BY <1>12 DEF Release, Forget
<1>13. ASSUME NEW t \in Turns, HandleFails(t) PROVE Sandboxes'
  BY <1>13 DEF HandleFails
<1>14. ASSUME NEW t \in Turns, MarkRunning(t) PROVE Sandboxes'
  BY <1>14 DEF MarkRunning
<1>15. ASSUME NEW t \in Turns, SkillsFail(t) PROVE Sandboxes'
  BY <1>15 DEF SkillsFail
<1>16. ASSUME NEW t \in Turns, Register(t) PROVE Sandboxes'
  BY <1>16 DEF Register
<1>17. ASSUME NEW t \in Turns, GetKept(t) PROVE Sandboxes'
  BY <1>17 DEF GetKept
<1>18. ASSUME NEW t \in Turns, ReadIndex(t) PROVE Sandboxes'
  BY <1>18 DEF ReadIndex
<1>19. ASSUME NEW t \in Turns, ReadIndexFails(t) PROVE Sandboxes'
  BY <1>19 DEF ReadIndexFails
<1>20. ASSUME NEW t \in Turns, SaveUserMessage(t) PROVE Sandboxes'
  BY <1>20 DEF SaveUserMessage, InsertEvent
<1>21. ASSUME NEW t \in Turns, SaveUserMessageFails(t) PROVE Sandboxes'
  BY <1>21 DEF SaveUserMessageFails
<1>22. ASSUME NEW t \in Turns, StartSandbox(t) PROVE Sandboxes'
  BY <1>22 DEF StartSandbox
<1>23. ASSUME NEW t \in Turns, Connect(t) PROVE Sandboxes'
  BY <1>23 DEF Connect
<1>24. ASSUME NEW t \in Turns, Attach(t) PROVE Sandboxes'
  BY <1>24 DEF Attach
<1>25. ASSUME NEW t \in Turns, Reattach(t) PROVE Sandboxes'
  BY <1>25 DEF Reattach
<1>26. ASSUME NEW t \in Turns, EndTurn(t) PROVE Sandboxes'
  BY <1>26 DEF EndTurn, InsertEvent
<1>27. ASSUME NEW t \in Turns, EndCancelled(t) PROVE Sandboxes'
  <2>1. PICK p \in {"keeping", "tearing"} : tpc' = [tpc EXCEPT ![t] = p] /\ tpc[t] = "returned"
    BY <1>27 DEF EndCancelled
  <2> QED BY <1>27, <2>1 DEF EndCancelled
<1>28. ASSUME NEW t \in Turns, EndFailed(t) PROVE Sandboxes'
  BY <1>28 DEF EndFailed
<1>29. ASSUME NEW t \in Turns, Keep(t) PROVE Sandboxes'
  BY <1>29 DEF Keep
<1>30. ASSUME NEW t \in Turns, PopKept(t) PROVE Sandboxes'
  BY <1>30 DEF PopKept
<1>31. ASSUME NEW t \in Turns, StopOwnSandbox(t) PROVE Sandboxes'
  BY <1>31 DEF StopOwnSandbox
<1>32. ASSUME NEW t \in Turns, StopOwnSandboxFails(t) PROVE Sandboxes'
  BY <1>32 DEF StopOwnSandboxFails
<1>33. ASSUME NEW t \in Turns, WriteStatus(t) PROVE Sandboxes'
  BY <1>33 DEF WriteStatus, Verdict
<1>34. ASSUME NEW t \in Turns, WriteStatusFails(t) PROVE Sandboxes'
  BY <1>34 DEF WriteStatusFails
<1>35. ASSUME NEW t \in Turns, Unregister(t) PROVE Sandboxes'
  BY <1>35 DEF Unregister
<1>36. ASSUME NEW t \in Turns, Publish(t) PROVE Sandboxes'
  BY <1>36 DEF Publish
<1>37. ASSUME NEW t \in Turns, Deliver(t) PROVE Sandboxes'
  BY <1>37 DEF Deliver
<1>38. ASSUME NEW t \in Turns, NEW how \in Returns, RunReturns(t, how) PROVE Sandboxes'
  BY <1>38 DEF RunReturns, InRun, Returns
<1>39. ASSUME NEW t \in Turns, NEW c \in Conversations, Claim(t, c) PROVE Sandboxes'
  BY <1>39 DEF Claim
<1>40. ASSUME NEW w \in Workers, CheckRegistered(w) PROVE Sandboxes'
  BY <1>40 DEF CheckRegistered, AfterTeardown
<1>41. ASSUME NEW w \in Workers, Pop(w) PROVE Sandboxes'
  BY <1>41 DEF Pop, AfterTeardown
<1>42. ASSUME NEW w \in Workers, StopPopped(w) PROVE Sandboxes'
  BY <1>42 DEF StopPopped, AfterTeardown
<1>43. ASSUME NEW c \in Conversations, ReapNext(c) PROVE Sandboxes'
  BY <1>43 DEF ReapNext
<1>44. ASSUME FindIdle PROVE Sandboxes'
  BY <1>44 DEF FindIdle
<1>45. ASSUME ListOrphans PROVE Sandboxes'
  BY <1>45 DEF ListOrphans
<1>46. ASSUME ProcessDies PROVE Sandboxes'
  BY <1>46 DEF ProcessDies
<1>47. ASSUME UNCHANGED vars PROVE Sandboxes'
  BY <1>47 DEF vars
<1>48. CASE Crash
  BY <1>48, <1>46 DEF Crash
<1>49. ASSUME NEW t \in Turns, PromptPanics(t) PROVE Sandboxes'
  BY <1>49, <1>46 DEF PromptPanics
<1>50. ASSUME NEW w \in Workers, StopPanics(w) PROVE Sandboxes'
  BY <1>50, <1>46 DEF StopPanics
<1>60. ASSUME NEW t \in Turns, Drop(t) PROVE Sandboxes'
  BY <1>60 DEF Drop
<1>61. ASSUME NEW t \in Turns, RecordFailure(t) PROVE Sandboxes'
  BY <1>61 DEF RecordFailure
<1>62. ASSUME NEW t \in Turns, RecordFailureFails(t) PROVE Sandboxes'
  BY <1>62 DEF RecordFailureFails
<1>63. ASSUME NEW t \in Turns, EndTurnFails(t) PROVE Sandboxes'
  BY <1>63 DEF EndTurnFails
<1>64. ASSUME NEW w \in Workers, StopPoppedFails(w) PROVE Sandboxes'
  BY <1>64 DEF StopPoppedFails
<1>65. ASSUME NEW w \in Workers, WriteTornDownFails(w) PROVE Sandboxes'
  BY <1>65 DEF WriteTornDownFails, AfterTeardown
<1>66. ASSUME ListOrphansFails PROVE Sandboxes'
  BY <1>66 DEF ListOrphansFails
<1>67. ASSUME NEW c \in Conversations, FailOrphanFails(c) PROVE Sandboxes'
  BY <1>67 DEF FailOrphanFails
<1> HIDE DEF TypeOK, WellPlaced, vars
<1>100. ASSUME NEW t \in Turns, TurnStep(t) \/ TurnFails(t) \/ Deliver(t) PROVE Sandboxes'
  BY <1>100, <1>10, <1>11, <1>12, <1>13, <1>14, <1>15, <1>16, <1>17, <1>18, <1>19, <1>20,
     <1>21, <1>22, <1>23, <1>24, <1>25, <1>26, <1>27, <1>28, <1>29, <1>30, <1>31, <1>32,
     <1>33, <1>34, <1>35, <1>37, <1>38, <1>49,
     <1>60, <1>61, <1>62, <1>63 DEF TurnStep, TurnFails
<1>101. ASSUME NEW w \in Workers, TeardownStep(w) PROVE Sandboxes'
  BY <1>101, <1>7, <1>40, <1>41, <1>42, <1>50 DEF TeardownStep
<1>102. ASSUME NEW w \in Controls, ControlStep(w) PROVE Sandboxes'
  BY <1>102, <1>7 DEF ControlStep, Workers
<1>103. CASE UserStep
  BY <1>103, <1>8, <1>9, <1>39 DEF UserStep, Workers
<1>104. CASE ApiStep
  BY <1>104, <1>7, <1>36 DEF ApiStep, Workers
<1>105. CASE ReaperStep
  BY <1>105, <1>101, <1>43, <1>44 DEF ReaperStep, Workers
<1>106. CASE ReconcileStep
  BY <1>106, <1>9, <1>45 DEF ReconcileStep
<1>107. ASSUME NEW w \in Workers, TeardownFails(w) PROVE Sandboxes'
  BY <1>107, <1>64, <1>65 DEF TeardownFails
<1>108. CASE ReconcileFails
  BY <1>108, <1>66, <1>67 DEF ReconcileFails
<1> QED
  BY <1>100, <1>101, <1>102, <1>103, <1>104, <1>105, <1>106, <1>107, <1>108,
      <1>47, <1>48 DEF Next, Workers

\* Custody: what is kept is the turn's own, what is popped is popped once.
LEMMA CustodyStep ==
  TypeOK /\ WellPlaced /\ Serial /\ Sandboxes /\ Custody /\ [Next]_vars => Custody'
<1> SUFFICES ASSUME TypeOK, WellPlaced, Serial, Sandboxes, Custody, [Next]_vars PROVE Custody'
  OBVIOUS
<1>1. tpc \in [Turns -> InMemory \cup {"unused", "claimed", "sent", "done", "lost"}]
  BY DEF TypeOK
<1>2. /\ tconv \in [Turns -> Conversations \cup {None}] /\ tbox \in [Turns -> Turns \cup {None}]
      /\ tclient \in [Turns -> BOOLEAN] /\ tresume \in [Turns -> BOOLEAN]
  BY DEF TypeOK
<1>3. registered \in [Conversations -> Turns \cup {None}]
  BY DEF TypeOK
<1>4. /\ wpc \in [Workers -> {"unused", "checked", "written", "sent", "handling", "teardown",
                         "popping", "closing", "announcing", "done"}]
      /\ wconv \in [Workers -> Conversations \cup {None}]
      /\ wbox \in [Workers -> Turns \cup {None}]
  BY DEF TypeOK
<1>5. kept \in [Conversations -> [box : Turns \cup {None}, client : BOOLEAN, present : BOOLEAN]]
  BY DEF TypeOK
<1>6. None \notin Turns
  BY DistinctAssumption
<1> USE <1>1, <1>2, <1>3, <1>4, <1>5, <1>6
       DEF Serial, Sandboxes, Custody, WellPlaced, TurnsSerialized, RegisteredAtWork, ResumeLocked,
           HandlesOfOwnConversation, KeptRuns, PoppedIsUnused, KeptIsCurrent, PoppedOnce, Using,
           Holding, Started, Fetching, Owned, InFlightPC, InMemory, Goto, Step, Nothing, State,
           rowVars, turnVars, lockVars, inFlight, keptVars, workerVars, faultVars
<1>7. ASSUME NEW w \in Workers, WriteTornDown(w) \/ DeliverControl(w) \/ Interrupt(w) \/
            InterruptMisses(w) \/ WriteStop(w) \/ PublishStop(w)
     PROVE  Custody'
  BY <1>7 DEF WriteTornDown, AfterTeardown, DeliverControl, Interrupt, InterruptMisses,
         WriteStop, PublishStop
<1>8. ASSUME NEW w \in Workers, NEW c \in Conversations, CheckStop(w, c) \/ RequestPause(w,
            c)
     PROVE  Custody'
  BY <1>8 DEF CheckStop, RequestPause
<1>9. ASSUME NEW c \in Conversations, Heartbeat(c) \/ GrowIdle(c) \/ FailOrphan(c)
     PROVE  Custody'
  BY <1>9 DEF Heartbeat, GrowIdle, FailOrphan
<1>10. ASSUME NEW t \in Turns, LockConversation(t) PROVE Custody'
  BY <1>10 DEF LockConversation
<1>11. ASSUME NEW t \in Turns, Admit(t) PROVE Custody'
  BY <1>11 DEF Admit
<1>12. ASSUME NEW t \in Turns, Release(t) PROVE Custody'
  BY <1>12 DEF Release, Forget
<1>13. ASSUME NEW t \in Turns, HandleFails(t) PROVE Custody'
  BY <1>13 DEF HandleFails
<1>14. ASSUME NEW t \in Turns, MarkRunning(t) PROVE Custody'
  BY <1>14 DEF MarkRunning
<1>15. ASSUME NEW t \in Turns, SkillsFail(t) PROVE Custody'
  BY <1>15 DEF SkillsFail
<1>16. ASSUME NEW t \in Turns, Register(t) PROVE Custody'
  BY <1>16 DEF Register
<1>17. ASSUME NEW t \in Turns, GetKept(t) PROVE Custody'
  BY <1>17 DEF GetKept
<1>18. ASSUME NEW t \in Turns, ReadIndex(t) PROVE Custody'
  BY <1>18 DEF ReadIndex
<1>19. ASSUME NEW t \in Turns, ReadIndexFails(t) PROVE Custody'
  BY <1>19 DEF ReadIndexFails
<1>20. ASSUME NEW t \in Turns, SaveUserMessage(t) PROVE Custody'
  BY <1>20 DEF SaveUserMessage, InsertEvent
<1>21. ASSUME NEW t \in Turns, SaveUserMessageFails(t) PROVE Custody'
  BY <1>21 DEF SaveUserMessageFails
<1>22. ASSUME NEW t \in Turns, StartSandbox(t) PROVE Custody'
  BY <1>22 DEF StartSandbox
<1>23. ASSUME NEW t \in Turns, Connect(t) PROVE Custody'
  BY <1>23 DEF Connect
<1>24. ASSUME NEW t \in Turns, Attach(t) PROVE Custody'
  BY <1>24 DEF Attach
<1>25. ASSUME NEW t \in Turns, Reattach(t) PROVE Custody'
  BY <1>25 DEF Reattach
<1>26. ASSUME NEW t \in Turns, EndTurn(t) PROVE Custody'
  BY <1>26 DEF EndTurn, InsertEvent
<1>27. ASSUME NEW t \in Turns, EndCancelled(t) PROVE Custody'
  <2>1. PICK p \in {"keeping", "tearing"} : tpc' = [tpc EXCEPT ![t] = p] /\ tpc[t] = "returned"
    BY <1>27 DEF EndCancelled
  <2> QED BY <1>27, <2>1 DEF EndCancelled
<1>28. ASSUME NEW t \in Turns, EndFailed(t) PROVE Custody'
  BY <1>28 DEF EndFailed
<1>29. ASSUME NEW t \in Turns, Keep(t) PROVE Custody'
  BY <1>29 DEF Keep
<1>30. ASSUME NEW t \in Turns, PopKept(t) PROVE Custody'
  BY <1>30 DEF PopKept
<1>31. ASSUME NEW t \in Turns, StopOwnSandbox(t) PROVE Custody'
  BY <1>31 DEF StopOwnSandbox
<1>32. ASSUME NEW t \in Turns, StopOwnSandboxFails(t) PROVE Custody'
  BY <1>32 DEF StopOwnSandboxFails
<1>33. ASSUME NEW t \in Turns, WriteStatus(t) PROVE Custody'
  BY <1>33 DEF WriteStatus, Verdict
<1>34. ASSUME NEW t \in Turns, WriteStatusFails(t) PROVE Custody'
  BY <1>34 DEF WriteStatusFails
<1>35. ASSUME NEW t \in Turns, Unregister(t) PROVE Custody'
  BY <1>35 DEF Unregister
<1>36. ASSUME NEW t \in Turns, Publish(t) PROVE Custody'
  BY <1>36 DEF Publish
<1>37. ASSUME NEW t \in Turns, Deliver(t) PROVE Custody'
  BY <1>37 DEF Deliver
<1>38. ASSUME NEW t \in Turns, NEW how \in Returns, RunReturns(t, how) PROVE Custody'
  BY <1>38 DEF RunReturns, InRun, Returns
<1>39. ASSUME NEW t \in Turns, NEW c \in Conversations, Claim(t, c) PROVE Custody'
  BY <1>39 DEF Claim
<1>40. ASSUME NEW w \in Workers, CheckRegistered(w) PROVE Custody'
  BY <1>40 DEF CheckRegistered, AfterTeardown
<1>41. ASSUME NEW w \in Workers, Pop(w) PROVE Custody'
  BY <1>41 DEF Pop, AfterTeardown
<1>42. ASSUME NEW w \in Workers, StopPopped(w) PROVE Custody'
  BY <1>42 DEF StopPopped, AfterTeardown
<1>43. ASSUME NEW c \in Conversations, ReapNext(c) PROVE Custody'
  BY <1>43 DEF ReapNext
<1>44. ASSUME FindIdle PROVE Custody'
  BY <1>44 DEF FindIdle
<1>45. ASSUME ListOrphans PROVE Custody'
  BY <1>45 DEF ListOrphans
<1>46. ASSUME ProcessDies PROVE Custody'
  BY <1>46 DEF ProcessDies
<1>47. ASSUME UNCHANGED vars PROVE Custody'
  BY <1>47 DEF vars
<1>48. CASE Crash
  BY <1>48, <1>46 DEF Crash
<1>49. ASSUME NEW t \in Turns, PromptPanics(t) PROVE Custody'
  BY <1>49, <1>46 DEF PromptPanics
<1>50. ASSUME NEW w \in Workers, StopPanics(w) PROVE Custody'
  BY <1>50, <1>46 DEF StopPanics
<1>60. ASSUME NEW t \in Turns, Drop(t) PROVE Custody'
  BY <1>60 DEF Drop
<1>61. ASSUME NEW t \in Turns, RecordFailure(t) PROVE Custody'
  BY <1>61 DEF RecordFailure
<1>62. ASSUME NEW t \in Turns, RecordFailureFails(t) PROVE Custody'
  BY <1>62 DEF RecordFailureFails
<1>63. ASSUME NEW t \in Turns, EndTurnFails(t) PROVE Custody'
  BY <1>63 DEF EndTurnFails
<1>64. ASSUME NEW w \in Workers, StopPoppedFails(w) PROVE Custody'
  BY <1>64 DEF StopPoppedFails
<1>65. ASSUME NEW w \in Workers, WriteTornDownFails(w) PROVE Custody'
  BY <1>65 DEF WriteTornDownFails, AfterTeardown
<1>66. ASSUME ListOrphansFails PROVE Custody'
  BY <1>66 DEF ListOrphansFails
<1>67. ASSUME NEW c \in Conversations, FailOrphanFails(c) PROVE Custody'
  BY <1>67 DEF FailOrphanFails
<1> HIDE DEF TypeOK, WellPlaced, vars
<1>100. ASSUME NEW t \in Turns, TurnStep(t) \/ TurnFails(t) \/ Deliver(t) PROVE Custody'
  BY <1>100, <1>10, <1>11, <1>12, <1>13, <1>14, <1>15, <1>16, <1>17, <1>18, <1>19, <1>20,
     <1>21, <1>22, <1>23, <1>24, <1>25, <1>26, <1>27, <1>28, <1>29, <1>30, <1>31, <1>32,
     <1>33, <1>34, <1>35, <1>37, <1>38, <1>49,
     <1>60, <1>61, <1>62, <1>63 DEF TurnStep, TurnFails
<1>101. ASSUME NEW w \in Workers, TeardownStep(w) PROVE Custody'
  BY <1>101, <1>7, <1>40, <1>41, <1>42, <1>50 DEF TeardownStep
<1>102. ASSUME NEW w \in Controls, ControlStep(w) PROVE Custody'
  BY <1>102, <1>7 DEF ControlStep, Workers
<1>103. CASE UserStep
  BY <1>103, <1>8, <1>9, <1>39 DEF UserStep, Workers
<1>104. CASE ApiStep
  BY <1>104, <1>7, <1>36 DEF ApiStep, Workers
<1>105. CASE ReaperStep
  BY <1>105, <1>101, <1>43, <1>44 DEF ReaperStep, Workers
<1>106. CASE ReconcileStep
  BY <1>106, <1>9, <1>45 DEF ReconcileStep
<1>107. ASSUME NEW w \in Workers, TeardownFails(w) PROVE Custody'
  BY <1>107, <1>64, <1>65 DEF TeardownFails
<1>108. CASE ReconcileFails
  BY <1>108, <1>66, <1>67 DEF ReconcileFails
<1> QED
  BY <1>100, <1>101, <1>102, <1>103, <1>104, <1>105, <1>106, <1>107, <1>108,
      <1>47, <1>48 DEF Next, Workers


\* While nothing failed, every container has someone responsible for it.
LEMMA LeakStep ==
  TypeOK /\ WellPlaced /\ Serial /\ Sandboxes /\ Custody /\ NoneLeaked /\ [Next]_vars => NoneLeaked'
<1> SUFFICES ASSUME TypeOK, WellPlaced, Serial, Sandboxes, Custody, NoneLeaked, [Next]_vars
      PROVE NoneLeaked'
  OBVIOUS
<1>1. tpc \in [Turns -> InMemory \cup {"unused", "claimed", "sent", "done", "lost"}]
  BY DEF TypeOK
<1>2. /\ tconv \in [Turns -> Conversations \cup {None}] /\ tbox \in [Turns -> Turns \cup {None}]
      /\ tresume \in [Turns -> BOOLEAN]
  BY DEF TypeOK
<1>3. errors \in Nat /\ live \subseteq Turns
  BY BoundAssumption DEF TypeOK
<1>4. /\ wpc \in [Workers -> {"unused", "checked", "written", "sent", "handling", "teardown",
                         "popping", "closing", "announcing", "done"}]
      /\ wconv \in [Workers -> Conversations \cup {None}]
      /\ wbox \in [Workers -> Turns \cup {None}]
  BY DEF TypeOK
<1>5. kept \in [Conversations -> [box : Turns \cup {None}, client : BOOLEAN, present : BOOLEAN]]
  BY DEF TypeOK
<1>6. None \notin Turns
  BY DistinctAssumption
<1> USE <1>1, <1>2, <1>3, <1>4, <1>5, <1>6
       DEF Custody, WellPlaced, KeptIsCurrent, PoppedOnce, NoneLeaked, Using, Holding, InMemory, Goto,
           Step, Nothing, State, rowVars, turnVars, lockVars, inFlight, keptVars, workerVars, faultVars
<1>7. ASSUME NEW w \in Workers, WriteTornDown(w) \/ DeliverControl(w) \/ Interrupt(w) \/
            InterruptMisses(w) \/ WriteStop(w) \/ PublishStop(w)
     PROVE  NoneLeaked'
  BY <1>7 DEF WriteTornDown, AfterTeardown, DeliverControl, Interrupt, InterruptMisses,
         WriteStop, PublishStop
<1>8. ASSUME NEW w \in Workers, NEW c \in Conversations, CheckStop(w, c) \/ RequestPause(w,
            c)
     PROVE  NoneLeaked'
  BY <1>8 DEF CheckStop, RequestPause
<1>9. ASSUME NEW c \in Conversations, Heartbeat(c) \/ GrowIdle(c) \/ FailOrphan(c)
     PROVE  NoneLeaked'
  BY <1>9 DEF Heartbeat, GrowIdle, FailOrphan
<1>10. ASSUME NEW t \in Turns, LockConversation(t) PROVE NoneLeaked'
  BY <1>10 DEF LockConversation
<1>11. ASSUME NEW t \in Turns, Admit(t) PROVE NoneLeaked'
  BY <1>11 DEF Admit
<1>12. ASSUME NEW t \in Turns, Release(t) PROVE NoneLeaked'
  BY <1>12 DEF Release, Forget
<1>13. ASSUME NEW t \in Turns, HandleFails(t) PROVE NoneLeaked'
  BY <1>13 DEF HandleFails
<1>14. ASSUME NEW t \in Turns, MarkRunning(t) PROVE NoneLeaked'
  BY <1>14 DEF MarkRunning
<1>15. ASSUME NEW t \in Turns, SkillsFail(t) PROVE NoneLeaked'
  BY <1>15 DEF SkillsFail
<1>16. ASSUME NEW t \in Turns, Register(t) PROVE NoneLeaked'
  BY <1>16 DEF Register
<1>17. ASSUME NEW t \in Turns, GetKept(t) PROVE NoneLeaked'
  BY <1>17 DEF GetKept
<1>18. ASSUME NEW t \in Turns, ReadIndex(t) PROVE NoneLeaked'
  BY <1>18 DEF ReadIndex
<1>19. ASSUME NEW t \in Turns, ReadIndexFails(t) PROVE NoneLeaked'
  BY <1>19 DEF ReadIndexFails
<1>20. ASSUME NEW t \in Turns, SaveUserMessage(t) PROVE NoneLeaked'
  BY <1>20 DEF SaveUserMessage, InsertEvent
<1>21. ASSUME NEW t \in Turns, SaveUserMessageFails(t) PROVE NoneLeaked'
  BY <1>21 DEF SaveUserMessageFails
<1>22. ASSUME NEW t \in Turns, StartSandbox(t) PROVE NoneLeaked'
  BY <1>22 DEF StartSandbox
<1>23. ASSUME NEW t \in Turns, Connect(t) PROVE NoneLeaked'
  BY <1>23 DEF Connect
<1>24. ASSUME NEW t \in Turns, Attach(t) PROVE NoneLeaked'
  BY <1>24 DEF Attach
<1>25. ASSUME NEW t \in Turns, Reattach(t) PROVE NoneLeaked'
  BY <1>25 DEF Reattach
<1>26. ASSUME NEW t \in Turns, EndTurn(t) PROVE NoneLeaked'
  BY <1>26 DEF EndTurn, InsertEvent
<1>27. ASSUME NEW t \in Turns, EndCancelled(t) PROVE NoneLeaked'
  <2>1. PICK p \in {"keeping", "tearing"} : tpc' = [tpc EXCEPT ![t] = p] /\ tpc[t] = "returned"
    BY <1>27 DEF EndCancelled
  <2> QED BY <1>27, <2>1 DEF EndCancelled
<1>28. ASSUME NEW t \in Turns, EndFailed(t) PROVE NoneLeaked'
  BY <1>28 DEF EndFailed
<1>29. ASSUME NEW t \in Turns, Keep(t) PROVE NoneLeaked'
  BY <1>29 DEF Keep
<1>30. ASSUME NEW t \in Turns, PopKept(t) PROVE NoneLeaked'
  BY <1>30 DEF PopKept
<1>31. ASSUME NEW t \in Turns, StopOwnSandbox(t) PROVE NoneLeaked'
  BY <1>31 DEF StopOwnSandbox
<1>32. ASSUME NEW t \in Turns, StopOwnSandboxFails(t) PROVE NoneLeaked'
  BY <1>32 DEF StopOwnSandboxFails
<1>33. ASSUME NEW t \in Turns, WriteStatus(t) PROVE NoneLeaked'
  BY <1>33 DEF WriteStatus, Verdict
<1>34. ASSUME NEW t \in Turns, WriteStatusFails(t) PROVE NoneLeaked'
  BY <1>34 DEF WriteStatusFails
<1>35. ASSUME NEW t \in Turns, Unregister(t) PROVE NoneLeaked'
  BY <1>35 DEF Unregister
<1>36. ASSUME NEW t \in Turns, Publish(t) PROVE NoneLeaked'
  BY <1>36 DEF Publish
<1>37. ASSUME NEW t \in Turns, Deliver(t) PROVE NoneLeaked'
  BY <1>37 DEF Deliver
<1>38. ASSUME NEW t \in Turns, NEW how \in Returns, RunReturns(t, how) PROVE NoneLeaked'
  BY <1>38 DEF RunReturns, InRun, Returns
<1>39. ASSUME NEW t \in Turns, NEW c \in Conversations, Claim(t, c) PROVE NoneLeaked'
  BY <1>39 DEF Claim
<1>40. ASSUME NEW w \in Workers, CheckRegistered(w) PROVE NoneLeaked'
  BY <1>40 DEF CheckRegistered, AfterTeardown
<1>41. ASSUME NEW w \in Workers, Pop(w) PROVE NoneLeaked'
  BY <1>41 DEF Pop, AfterTeardown
<1>42. ASSUME NEW w \in Workers, StopPopped(w) PROVE NoneLeaked'
  BY <1>42 DEF StopPopped, AfterTeardown
<1>43. ASSUME NEW c \in Conversations, ReapNext(c) PROVE NoneLeaked'
  BY <1>43 DEF ReapNext
<1>44. ASSUME FindIdle PROVE NoneLeaked'
  BY <1>44 DEF FindIdle
<1>45. ASSUME ListOrphans PROVE NoneLeaked'
  BY <1>45 DEF ListOrphans
<1>46. ASSUME ProcessDies PROVE NoneLeaked'
  BY <1>46 DEF ProcessDies
<1>47. ASSUME UNCHANGED vars PROVE NoneLeaked'
  BY <1>47 DEF vars
<1>48. CASE Crash
  BY <1>48, <1>46 DEF Crash
<1>49. ASSUME NEW t \in Turns, PromptPanics(t) PROVE NoneLeaked'
  BY <1>49, <1>46 DEF PromptPanics
<1>50. ASSUME NEW w \in Workers, StopPanics(w) PROVE NoneLeaked'
  BY <1>50, <1>46 DEF StopPanics
<1>60. ASSUME NEW t \in Turns, Drop(t) PROVE NoneLeaked'
  BY <1>60 DEF Drop
<1>61. ASSUME NEW t \in Turns, RecordFailure(t) PROVE NoneLeaked'
  BY <1>61 DEF RecordFailure
<1>62. ASSUME NEW t \in Turns, RecordFailureFails(t) PROVE NoneLeaked'
  BY <1>62 DEF RecordFailureFails
<1>63. ASSUME NEW t \in Turns, EndTurnFails(t) PROVE NoneLeaked'
  BY <1>63 DEF EndTurnFails
<1>64. ASSUME NEW w \in Workers, StopPoppedFails(w) PROVE NoneLeaked'
  BY <1>64 DEF StopPoppedFails
<1>65. ASSUME NEW w \in Workers, WriteTornDownFails(w) PROVE NoneLeaked'
  BY <1>65 DEF WriteTornDownFails, AfterTeardown
<1>66. ASSUME ListOrphansFails PROVE NoneLeaked'
  BY <1>66 DEF ListOrphansFails
<1>67. ASSUME NEW c \in Conversations, FailOrphanFails(c) PROVE NoneLeaked'
  BY <1>67 DEF FailOrphanFails
<1> HIDE DEF TypeOK, WellPlaced, vars
<1>100. ASSUME NEW t \in Turns, TurnStep(t) \/ TurnFails(t) \/ Deliver(t) PROVE NoneLeaked'
  BY <1>100, <1>10, <1>11, <1>12, <1>13, <1>14, <1>15, <1>16, <1>17, <1>18, <1>19, <1>20,
     <1>21, <1>22, <1>23, <1>24, <1>25, <1>26, <1>27, <1>28, <1>29, <1>30, <1>31, <1>32,
     <1>33, <1>34, <1>35, <1>37, <1>38, <1>49,
     <1>60, <1>61, <1>62, <1>63 DEF TurnStep, TurnFails
<1>101. ASSUME NEW w \in Workers, TeardownStep(w) PROVE NoneLeaked'
  BY <1>101, <1>7, <1>40, <1>41, <1>42, <1>50 DEF TeardownStep
<1>102. ASSUME NEW w \in Controls, ControlStep(w) PROVE NoneLeaked'
  BY <1>102, <1>7 DEF ControlStep, Workers
<1>103. CASE UserStep
  BY <1>103, <1>8, <1>9, <1>39 DEF UserStep, Workers
<1>104. CASE ApiStep
  BY <1>104, <1>7, <1>36 DEF ApiStep, Workers
<1>105. CASE ReaperStep
  BY <1>105, <1>101, <1>43, <1>44 DEF ReaperStep, Workers
<1>106. CASE ReconcileStep
  BY <1>106, <1>9, <1>45 DEF ReconcileStep
<1>107. ASSUME NEW w \in Workers, TeardownFails(w) PROVE NoneLeaked'
  BY <1>107, <1>64, <1>65 DEF TeardownFails
<1>108. CASE ReconcileFails
  BY <1>108, <1>66, <1>67 DEF ReconcileFails
<1> QED
  BY <1>100, <1>101, <1>102, <1>103, <1>104, <1>105, <1>106, <1>107, <1>108,
      <1>47, <1>48 DEF Next, Workers


\* A row that says running has a turn to write its verdict, or one that left by an
\* exit that writes none, or reconciliation.
LEMMA RowStep ==
  TypeOK /\ WellPlaced /\ RunningRowHasTurn /\ [Next]_vars => RunningRowHasTurn'
<1> SUFFICES ASSUME TypeOK, WellPlaced, RunningRowHasTurn, [Next]_vars PROVE RunningRowHasTurn'
  OBVIOUS
<1>1. tpc \in [Turns -> InMemory \cup {"unused", "claimed", "sent", "done", "lost"}]
  BY DEF TypeOK
<1>2. /\ tconv \in [Turns -> Conversations \cup {None}]
      /\ tend \in [Turns -> Returns \cup {"none", "error", "paused", "dropped", "unwritten"}
                             \cup Terminal]
  BY DEF TypeOK
<1>3. errors \in Nat
  BY BoundAssumption DEF TypeOK
<1>4. wconv \in [Workers -> Conversations \cup {None}]
  BY DEF TypeOK
<1>5. status \in [Conversations -> {"none", "running", "paused"} \cup Terminal]
  BY DEF TypeOK
<1> USE <1>1, <1>2, <1>3, <1>4, <1>5
       DEF WellPlaced, RunningRowHasTurn, AtWork, Unanswered, NoVerdict, InMemory, Goto, Step, Terminal, rowVars, turnVars, lockVars,
           inFlight, keptVars, workerVars, faultVars
<1>7. ASSUME NEW w \in Workers, WriteTornDown(w) \/ DeliverControl(w) \/ Interrupt(w) \/
            InterruptMisses(w) \/ WriteStop(w) \/ PublishStop(w)
     PROVE  RunningRowHasTurn'
  BY <1>7 DEF WriteTornDown, AfterTeardown, DeliverControl, Interrupt, InterruptMisses,
         WriteStop, PublishStop
<1>8. ASSUME NEW w \in Workers, NEW c \in Conversations, CheckStop(w, c) \/ RequestPause(w,
            c)
     PROVE  RunningRowHasTurn'
  BY <1>8 DEF CheckStop, RequestPause
<1>9. ASSUME NEW c \in Conversations, Heartbeat(c) \/ GrowIdle(c) \/ FailOrphan(c)
     PROVE  RunningRowHasTurn'
  BY <1>9 DEF Heartbeat, GrowIdle, FailOrphan
<1>10. ASSUME NEW t \in Turns, LockConversation(t) PROVE RunningRowHasTurn'
  BY <1>10 DEF LockConversation
<1>11. ASSUME NEW t \in Turns, Admit(t) PROVE RunningRowHasTurn'
  BY <1>11 DEF Admit
<1>12. ASSUME NEW t \in Turns, Release(t) PROVE RunningRowHasTurn'
  BY <1>12 DEF Release, Forget
<1>13. ASSUME NEW t \in Turns, HandleFails(t) PROVE RunningRowHasTurn'
  BY <1>13 DEF HandleFails
<1>14. ASSUME NEW t \in Turns, MarkRunning(t) PROVE RunningRowHasTurn'
  BY <1>14 DEF MarkRunning
<1>15. ASSUME NEW t \in Turns, SkillsFail(t) PROVE RunningRowHasTurn'
  BY <1>15 DEF SkillsFail
<1>16. ASSUME NEW t \in Turns, Register(t) PROVE RunningRowHasTurn'
  BY <1>16 DEF Register
<1>17. ASSUME NEW t \in Turns, GetKept(t) PROVE RunningRowHasTurn'
  BY <1>17 DEF GetKept
<1>18. ASSUME NEW t \in Turns, ReadIndex(t) PROVE RunningRowHasTurn'
  BY <1>18 DEF ReadIndex
<1>19. ASSUME NEW t \in Turns, ReadIndexFails(t) PROVE RunningRowHasTurn'
  BY <1>19 DEF ReadIndexFails
<1>20. ASSUME NEW t \in Turns, SaveUserMessage(t) PROVE RunningRowHasTurn'
  BY <1>20 DEF SaveUserMessage, InsertEvent
<1>21. ASSUME NEW t \in Turns, SaveUserMessageFails(t) PROVE RunningRowHasTurn'
  BY <1>21 DEF SaveUserMessageFails
<1>22. ASSUME NEW t \in Turns, StartSandbox(t) PROVE RunningRowHasTurn'
  BY <1>22 DEF StartSandbox
<1>23. ASSUME NEW t \in Turns, Connect(t) PROVE RunningRowHasTurn'
  BY <1>23 DEF Connect
<1>24. ASSUME NEW t \in Turns, Attach(t) PROVE RunningRowHasTurn'
  BY <1>24 DEF Attach
<1>25. ASSUME NEW t \in Turns, Reattach(t) PROVE RunningRowHasTurn'
  BY <1>25 DEF Reattach
<1>26. ASSUME NEW t \in Turns, EndTurn(t) PROVE RunningRowHasTurn'
  BY <1>26 DEF EndTurn, InsertEvent
<1>27. ASSUME NEW t \in Turns, EndCancelled(t) PROVE RunningRowHasTurn'
  <2>1. PICK p \in {"keeping", "tearing"} : tpc' = [tpc EXCEPT ![t] = p] /\ tpc[t] = "returned"
    BY <1>27 DEF EndCancelled
  <2> QED BY <1>27, <2>1 DEF EndCancelled
<1>28. ASSUME NEW t \in Turns, EndFailed(t) PROVE RunningRowHasTurn'
  BY <1>28 DEF EndFailed
<1>29. ASSUME NEW t \in Turns, Keep(t) PROVE RunningRowHasTurn'
  BY <1>29 DEF Keep
<1>30. ASSUME NEW t \in Turns, PopKept(t) PROVE RunningRowHasTurn'
  BY <1>30 DEF PopKept
<1>31. ASSUME NEW t \in Turns, StopOwnSandbox(t) PROVE RunningRowHasTurn'
  BY <1>31 DEF StopOwnSandbox
<1>32. ASSUME NEW t \in Turns, StopOwnSandboxFails(t) PROVE RunningRowHasTurn'
  BY <1>32 DEF StopOwnSandboxFails
<1>33. ASSUME NEW t \in Turns, WriteStatus(t) PROVE RunningRowHasTurn'
  BY <1>33 DEF WriteStatus, Verdict
<1>34. ASSUME NEW t \in Turns, WriteStatusFails(t) PROVE RunningRowHasTurn'
  BY <1>34 DEF WriteStatusFails
<1>35. ASSUME NEW t \in Turns, Unregister(t) PROVE RunningRowHasTurn'
  BY <1>35 DEF Unregister
<1>36. ASSUME NEW t \in Turns, Publish(t) PROVE RunningRowHasTurn'
  BY <1>36 DEF Publish
<1>37. ASSUME NEW t \in Turns, Deliver(t) PROVE RunningRowHasTurn'
  BY <1>37 DEF Deliver
<1>38. ASSUME NEW t \in Turns, NEW how \in Returns, RunReturns(t, how) PROVE RunningRowHasTurn'
  BY <1>38 DEF RunReturns, InRun, Returns
<1>39. ASSUME NEW t \in Turns, NEW c \in Conversations, Claim(t, c) PROVE RunningRowHasTurn'
  <2>1. /\ tconv' = [tconv EXCEPT ![t] = c] /\ tpc' = [tpc EXCEPT ![t] = "claimed"]
        /\ tpc[t] = "unused" /\ status' = [status EXCEPT ![c] = "running"]
        /\ UNCHANGED <<faultVars, tend>>
    BY <1>39 DEF Claim
  <2> SUFFICES ASSUME NEW d \in Conversations, status'[d] = "running", recon # "due",
                      d \notin todo \cup spared
        PROVE  \E s \in Turns : tconv'[s] = d /\ (AtWork(s)' \/ Unanswered(s)')
    BY <2>1
  <2>2. CASE d = c
    BY <2>1, <2>2
  <2>3. CASE d # c
    <3>1. PICK s \in Turns : tconv[s] = d /\ (AtWork(s) \/ Unanswered(s))
      BY <2>1, <2>3
    <3>2. d # None
      BY DistinctAssumption
    <3>3. s # t
      BY <2>1, <3>1, <3>2
    <3>4. tconv'[s] = tconv[s] /\ tpc'[s] = tpc[s] /\ tend'[s] = tend[s]
      BY <2>1, <3>3
    <3> QED BY <3>1, <3>4
  <2> QED BY <2>2, <2>3
<1>40. ASSUME NEW w \in Workers, CheckRegistered(w) PROVE RunningRowHasTurn'
  BY <1>40 DEF CheckRegistered, AfterTeardown
<1>41. ASSUME NEW w \in Workers, Pop(w) PROVE RunningRowHasTurn'
  BY <1>41 DEF Pop, AfterTeardown
<1>42. ASSUME NEW w \in Workers, StopPopped(w) PROVE RunningRowHasTurn'
  BY <1>42 DEF StopPopped, AfterTeardown
<1>43. ASSUME NEW c \in Conversations, ReapNext(c) PROVE RunningRowHasTurn'
  BY <1>43 DEF ReapNext
<1>44. ASSUME FindIdle PROVE RunningRowHasTurn'
  BY <1>44 DEF FindIdle
<1>45. ASSUME ListOrphans PROVE RunningRowHasTurn'
  BY <1>45 DEF ListOrphans
<1>46. ASSUME ProcessDies PROVE RunningRowHasTurn'
  BY <1>46 DEF ProcessDies
<1>47. ASSUME UNCHANGED vars PROVE RunningRowHasTurn'
  BY <1>47 DEF vars
<1>48. CASE Crash
  BY <1>48, <1>46 DEF Crash
<1>49. ASSUME NEW t \in Turns, PromptPanics(t) PROVE RunningRowHasTurn'
  BY <1>49, <1>46 DEF PromptPanics
<1>50. ASSUME NEW w \in Workers, StopPanics(w) PROVE RunningRowHasTurn'
  BY <1>50, <1>46 DEF StopPanics
<1>60. ASSUME NEW t \in Turns, Drop(t) PROVE RunningRowHasTurn'
  BY <1>60 DEF Drop
<1>61. ASSUME NEW t \in Turns, RecordFailure(t) PROVE RunningRowHasTurn'
  BY <1>61 DEF RecordFailure
<1>62. ASSUME NEW t \in Turns, RecordFailureFails(t) PROVE RunningRowHasTurn'
  BY <1>62 DEF RecordFailureFails
<1>63. ASSUME NEW t \in Turns, EndTurnFails(t) PROVE RunningRowHasTurn'
  BY <1>63 DEF EndTurnFails
<1>64. ASSUME NEW w \in Workers, StopPoppedFails(w) PROVE RunningRowHasTurn'
  BY <1>64 DEF StopPoppedFails
<1>65. ASSUME NEW w \in Workers, WriteTornDownFails(w) PROVE RunningRowHasTurn'
  BY <1>65 DEF WriteTornDownFails, AfterTeardown
<1>66. ASSUME ListOrphansFails PROVE RunningRowHasTurn'
  BY <1>66 DEF ListOrphansFails
<1>67. ASSUME NEW c \in Conversations, FailOrphanFails(c) PROVE RunningRowHasTurn'
  BY <1>67 DEF FailOrphanFails
<1> HIDE DEF TypeOK, WellPlaced, vars
<1>100. ASSUME NEW t \in Turns, TurnStep(t) \/ TurnFails(t) \/ Deliver(t) PROVE RunningRowHasTurn'
  BY <1>100, <1>10, <1>11, <1>12, <1>13, <1>14, <1>15, <1>16, <1>17, <1>18, <1>19, <1>20,
     <1>21, <1>22, <1>23, <1>24, <1>25, <1>26, <1>27, <1>28, <1>29, <1>30, <1>31, <1>32,
     <1>33, <1>34, <1>35, <1>37, <1>38, <1>49,
     <1>60, <1>61, <1>62, <1>63 DEF TurnStep, TurnFails
<1>101. ASSUME NEW w \in Workers, TeardownStep(w) PROVE RunningRowHasTurn'
  BY <1>101, <1>7, <1>40, <1>41, <1>42, <1>50 DEF TeardownStep
<1>102. ASSUME NEW w \in Controls, ControlStep(w) PROVE RunningRowHasTurn'
  BY <1>102, <1>7 DEF ControlStep, Workers
<1>103. CASE UserStep
  BY <1>103, <1>8, <1>9, <1>39 DEF UserStep, Workers
<1>104. CASE ApiStep
  BY <1>104, <1>7, <1>36 DEF ApiStep, Workers
<1>105. CASE ReaperStep
  BY <1>105, <1>101, <1>43, <1>44 DEF ReaperStep, Workers
<1>106. CASE ReconcileStep
  BY <1>106, <1>9, <1>45 DEF ReconcileStep
<1>107. ASSUME NEW w \in Workers, TeardownFails(w) PROVE RunningRowHasTurn'
  BY <1>107, <1>64, <1>65 DEF TeardownFails
<1>108. CASE ReconcileFails
  BY <1>108, <1>66, <1>67 DEF ReconcileFails
<1> QED
  BY <1>100, <1>101, <1>102, <1>103, <1>104, <1>105, <1>106, <1>107, <1>108,
      <1>47, <1>48 DEF Next, Workers


\* A turn's event index: nobody else inserts events of its conversation.
LEMMA FreshStep == TypeOK /\ WellPlaced /\ Serial /\ CachedIndexFresh /\ [Next]_vars => CachedIndexFresh'
<1> SUFFICES ASSUME TypeOK, WellPlaced, Serial, CachedIndexFresh, [Next]_vars
      PROVE CachedIndexFresh'
  OBVIOUS
<1>1. tpc \in [Turns -> InMemory \cup {"unused", "claimed", "sent", "done", "lost"}]
  BY DEF TypeOK
<1>2. tconv \in [Turns -> Conversations \cup {None}]
  BY DEF TypeOK
<1>3. events \in [Conversations -> Nat] /\ tidx \in [Turns -> Nat]
  BY DEF TypeOK
<1> USE <1>1, <1>2, <1>3 
       DEF Serial, WellPlaced, TurnsSerialized, CachedIndexFresh, Owned, InMemory, Goto, Step,
           rowVars, turnVars, lockVars, inFlight, keptVars,
           workerVars, faultVars
<1>4. ASSUME NEW w \in Workers, CheckRegistered(w) \/ Pop(w) \/ StopPopped(w) \/
            WriteTornDown(w) \/ DeliverControl(w) \/ Interrupt(w) \/ InterruptMisses(w) \/
            WriteStop(w) \/ PublishStop(w)
     PROVE  CachedIndexFresh'
  BY <1>4 DEF CheckRegistered, AfterTeardown, Pop, StopPopped, WriteTornDown, DeliverControl,
         Interrupt, InterruptMisses, WriteStop, PublishStop
<1>5. ASSUME NEW w \in Workers, NEW c \in Conversations, CheckStop(w, c) \/ RequestPause(w,
            c)
     PROVE  CachedIndexFresh'
  BY <1>5 DEF CheckStop, RequestPause
<1>6. ASSUME NEW c \in Conversations, Heartbeat(c) \/ GrowIdle(c) \/ FailOrphan(c) \/
            ReapNext(c)
     PROVE  CachedIndexFresh'
  BY <1>6 DEF Heartbeat, GrowIdle, FailOrphan, ReapNext
<1>7. ASSUME NEW t \in Turns, LockConversation(t) PROVE CachedIndexFresh'
  BY <1>7 DEF LockConversation
<1>8. ASSUME NEW t \in Turns, Admit(t) PROVE CachedIndexFresh'
  BY <1>8 DEF Admit
<1>9. ASSUME NEW t \in Turns, Release(t) PROVE CachedIndexFresh'
  BY <1>9 DEF Release, Forget
<1>10. ASSUME NEW t \in Turns, HandleFails(t) PROVE CachedIndexFresh'
  BY <1>10 DEF HandleFails
<1>11. ASSUME NEW t \in Turns, MarkRunning(t) PROVE CachedIndexFresh'
  BY <1>11 DEF MarkRunning
<1>12. ASSUME NEW t \in Turns, SkillsFail(t) PROVE CachedIndexFresh'
  BY <1>12 DEF SkillsFail
<1>13. ASSUME NEW t \in Turns, Register(t) PROVE CachedIndexFresh'
  BY <1>13 DEF Register
<1>14. ASSUME NEW t \in Turns, GetKept(t) PROVE CachedIndexFresh'
  BY <1>14 DEF GetKept
<1>15. ASSUME NEW t \in Turns, ReadIndex(t) PROVE CachedIndexFresh'
  BY <1>15 DEF ReadIndex
<1>16. ASSUME NEW t \in Turns, ReadIndexFails(t) PROVE CachedIndexFresh'
  BY <1>16 DEF ReadIndexFails
<1>17. ASSUME NEW t \in Turns, SaveUserMessage(t) PROVE CachedIndexFresh'
  BY <1>17 DEF SaveUserMessage, InsertEvent
<1>18. ASSUME NEW t \in Turns, SaveUserMessageFails(t) PROVE CachedIndexFresh'
  BY <1>18 DEF SaveUserMessageFails
<1>19. ASSUME NEW t \in Turns, StartSandbox(t) PROVE CachedIndexFresh'
  BY <1>19 DEF StartSandbox
<1>20. ASSUME NEW t \in Turns, Connect(t) PROVE CachedIndexFresh'
  BY <1>20 DEF Connect
<1>21. ASSUME NEW t \in Turns, Attach(t) PROVE CachedIndexFresh'
  BY <1>21 DEF Attach
<1>22. ASSUME NEW t \in Turns, Reattach(t) PROVE CachedIndexFresh'
  BY <1>22 DEF Reattach
<1>23. ASSUME NEW t \in Turns, EndTurn(t) PROVE CachedIndexFresh'
  BY <1>23 DEF EndTurn, InsertEvent
<1>24. ASSUME NEW t \in Turns, EndCancelled(t) PROVE CachedIndexFresh'
  <2>1. PICK p \in {"keeping", "tearing"} : tpc' = [tpc EXCEPT ![t] = p] /\ tpc[t] = "returned"
    BY <1>24 DEF EndCancelled
  <2> QED BY <1>24, <2>1 DEF EndCancelled
<1>25. ASSUME NEW t \in Turns, EndFailed(t) PROVE CachedIndexFresh'
  BY <1>25 DEF EndFailed
<1>26. ASSUME NEW t \in Turns, Keep(t) PROVE CachedIndexFresh'
  BY <1>26 DEF Keep
<1>27. ASSUME NEW t \in Turns, PopKept(t) PROVE CachedIndexFresh'
  BY <1>27 DEF PopKept
<1>28. ASSUME NEW t \in Turns, StopOwnSandbox(t) PROVE CachedIndexFresh'
  BY <1>28 DEF StopOwnSandbox
<1>29. ASSUME NEW t \in Turns, StopOwnSandboxFails(t) PROVE CachedIndexFresh'
  BY <1>29 DEF StopOwnSandboxFails
<1>30. ASSUME NEW t \in Turns, WriteStatus(t) PROVE CachedIndexFresh'
  BY <1>30 DEF WriteStatus, Verdict
<1>31. ASSUME NEW t \in Turns, WriteStatusFails(t) PROVE CachedIndexFresh'
  BY <1>31 DEF WriteStatusFails
<1>32. ASSUME NEW t \in Turns, Unregister(t) PROVE CachedIndexFresh'
  BY <1>32 DEF Unregister
<1>33. ASSUME NEW t \in Turns, Publish(t) PROVE CachedIndexFresh'
  BY <1>33 DEF Publish
<1>34. ASSUME NEW t \in Turns, Deliver(t) PROVE CachedIndexFresh'
  BY <1>34 DEF Deliver
<1>35. ASSUME NEW t \in Turns, NEW how \in Returns, RunReturns(t, how) PROVE CachedIndexFresh'
  BY <1>35 DEF RunReturns, InRun, Returns
<1>36. ASSUME NEW t \in Turns, NEW c \in Conversations, Claim(t, c) PROVE CachedIndexFresh'
  BY <1>36 DEF Claim
<1>37. ASSUME FindIdle PROVE CachedIndexFresh'
  BY <1>37 DEF FindIdle
<1>38. ASSUME ListOrphans PROVE CachedIndexFresh'
  BY <1>38 DEF ListOrphans
<1>39. ASSUME ProcessDies PROVE CachedIndexFresh'
  BY <1>39 DEF ProcessDies
<1>40. ASSUME UNCHANGED vars PROVE CachedIndexFresh'
  BY <1>40 DEF vars
<1>41. CASE Crash
  BY <1>41, <1>39 DEF Crash
<1>42. ASSUME NEW t \in Turns, PromptPanics(t) PROVE CachedIndexFresh'
  BY <1>42, <1>39 DEF PromptPanics
<1>43. ASSUME NEW w \in Workers, StopPanics(w) PROVE CachedIndexFresh'
  BY <1>43, <1>39 DEF StopPanics
<1>60. ASSUME NEW t \in Turns, Drop(t) PROVE CachedIndexFresh'
  BY <1>60 DEF Drop
<1>61. ASSUME NEW t \in Turns, RecordFailure(t) PROVE CachedIndexFresh'
  BY <1>61 DEF RecordFailure
<1>62. ASSUME NEW t \in Turns, RecordFailureFails(t) PROVE CachedIndexFresh'
  BY <1>62 DEF RecordFailureFails
<1>63. ASSUME NEW t \in Turns, EndTurnFails(t) PROVE CachedIndexFresh'
  BY <1>63 DEF EndTurnFails
<1>64. ASSUME NEW w \in Workers, StopPoppedFails(w) PROVE CachedIndexFresh'
  BY <1>64 DEF StopPoppedFails
<1>65. ASSUME NEW w \in Workers, WriteTornDownFails(w) PROVE CachedIndexFresh'
  BY <1>65 DEF WriteTornDownFails, AfterTeardown
<1>66. ASSUME ListOrphansFails PROVE CachedIndexFresh'
  BY <1>66 DEF ListOrphansFails
<1>67. ASSUME NEW c \in Conversations, FailOrphanFails(c) PROVE CachedIndexFresh'
  BY <1>67 DEF FailOrphanFails
<1> HIDE DEF TypeOK, WellPlaced, vars
<1>100. ASSUME NEW t \in Turns, TurnStep(t) \/ TurnFails(t) \/ Deliver(t) PROVE CachedIndexFresh'
  BY <1>100, <1>7, <1>8, <1>9, <1>10, <1>11, <1>12, <1>13, <1>14, <1>15, <1>16, <1>17,
     <1>18, <1>19, <1>20, <1>21, <1>22, <1>23, <1>24, <1>25, <1>26, <1>27, <1>28, <1>29,
     <1>30, <1>31, <1>32, <1>34, <1>35, <1>42,
     <1>60, <1>61, <1>62, <1>63 DEF TurnStep, TurnFails
<1>101. ASSUME NEW w \in Workers, TeardownStep(w) PROVE CachedIndexFresh'
  BY <1>101, <1>4, <1>43 DEF TeardownStep
<1>102. ASSUME NEW w \in Controls, ControlStep(w) PROVE CachedIndexFresh'
  BY <1>102, <1>4 DEF ControlStep, Workers
<1>103. CASE UserStep
  BY <1>103, <1>5, <1>6, <1>36 DEF UserStep, Workers
<1>104. CASE ApiStep
  BY <1>104, <1>4, <1>33 DEF ApiStep, Workers
<1>105. CASE ReaperStep
  BY <1>105, <1>101, <1>6, <1>37 DEF ReaperStep, Workers
<1>106. CASE ReconcileStep
  BY <1>106, <1>6, <1>38 DEF ReconcileStep
<1>107. ASSUME NEW w \in Workers, TeardownFails(w) PROVE CachedIndexFresh'
  BY <1>107, <1>64, <1>65 DEF TeardownFails
<1>108. CASE ReconcileFails
  BY <1>108, <1>66, <1>67 DEF ReconcileFails
<1> QED
  BY <1>100, <1>101, <1>102, <1>103, <1>104, <1>105, <1>106, <1>107, <1>108,
      <1>40, <1>41 DEF Next, Workers

LEMMA InitHolds == Init => IInv
<1> SUFFICES ASSUME Init PROVE IInv
  OBVIOUS
<1>1. TypeOK
  BY BoundAssumption DEF Init, TypeOK, Nothing
<1>2. WellPlaced
  BY DEF Init, WellPlaced
<1>3. TurnsSerialized /\ RegisteredAtWork /\ ResumeLocked
  BY DEF Init, TurnsSerialized, RegisteredAtWork, ResumeLocked, Owned, InFlightPC, InMemory
<1>4. SlotsHeld
  <2>1. Admitted = {}
    BY DEF Init, Admitted, InMemory
  <2> QED BY <2>1, FS_EmptySet, BoundAssumption DEF Init, SlotsHeld, WithinLimit
<1>5. HandlesOfOwnConversation /\ KeptRuns /\ PoppedIsUnused /\ SandboxInUseStaysUp
  BY DEF Init, HandlesOfOwnConversation, KeptRuns, PoppedIsUnused, SandboxInUseStaysUp, Using,
         Nothing, Fetching
<1>6. CachedIndexFresh
  BY DEF Init, CachedIndexFresh
<1>7. KeptIsCurrent /\ PoppedOnce /\ NoneLeaked
  <2>1. KeptIsCurrent
    BY DEF Init, KeptIsCurrent, Nothing, Holding
  <2>2. PoppedOnce /\ NoneLeaked
    BY DEF Init, PoppedOnce, NoneLeaked
  <2> QED BY <2>1, <2>2
<1>8. RunningRowHasTurn
  BY DEF Init, RunningRowHasTurn
<1> QED BY <1>1, <1>2, <1>3, <1>4, <1>5, <1>6, <1>7, <1>8 DEF IInv

-----------------------------------------------------------------------------
(* Theorems.                                                               *)

\* The inductive invariant holds for any number of conversations, messages and
\* slots: through crashes, failed calls, stops, pauses and the idle reaper.
THEOREM Invariance == Spec => []IInv
<1>1. Init => IInv
  BY InitHolds
<1>2. IInv /\ [Next]_vars => IInv'
  BY TypeStep, SerialStep, SlotStep, SandboxStep, CustodyStep, LeakStep, RowStep, FreshStep
     DEF IInv, Serial, Sandboxes, Custody
<1> QED BY <1>1, <1>2, PTL DEF Spec

\* Every variable keeps its type (the records and tables of internal/handler,
\* internal/registry and internal/chatsandbox).
THEOREM TypeCorrect == Spec => []TypeOK
<1>1. IInv => TypeOK
  BY DEF IInv
<1> QED BY <1>1, Invariance, PTL

\* The consumer never handles more than MaxConcurrent triggers at a time.
THEOREM ConcurrencyBounded == Spec => []WithinLimit
<1>1. IInv => WithinLimit
  BY DEF IInv, SlotsHeld
<1> QED BY <1>1, Invariance, PTL

\* No stop message and no idle reaper stops a container a turn is working in.
THEOREM SandboxSafe == Spec => []SandboxInUseStaysUp
<1>1. IInv => SandboxInUseStaysUp
  BY DEF IInv
<1> QED BY <1>1, Invariance, PTL

\* No event of a turn collides with one that is already stored.
THEOREM NoEventLost == Spec => []CachedIndexFresh
<1>1. IInv => CachedIndexFresh
  BY DEF IInv
<1> QED BY <1>1, Invariance, PTL

\* While no process died and no stop failed, every running container has exactly
\* one turn, registry entry or goroutine that will stop it: none is leaked, and
\* none is stopped twice.
THEOREM OneResponsible == Spec => []OneOwner
<1>1. IInv => OneOwner
  <2> SUFFICES ASSUME IInv, recon = "never", errors = 0, NEW b \in live
        PROVE  \E o \in Owners(b) : Owners(b) = {o}
    BY DEF OneOwner
  <2>1. TypeOK /\ Serial /\ Sandboxes /\ Custody /\ NoneLeaked
    BY DEF IInv, Serial, Sandboxes, Custody
  <2>2. b \in Turns /\ b # None /\ Turns \cap Workers = {}
    BY <2>1, DistinctAssumption DEF TypeOK, Workers
  <2>3. \E o : o \in Owners(b)
    BY <2>1 DEF NoneLeaked, Owners
  <2>4. ASSUME NEW o \in Owners(b), NEW p \in Owners(b) PROVE o = p
    <3>1. ASSUME NEW s \in Turns, NEW t \in Turns, Using(s), Using(t), tbox[s] = b, tbox[t] = b
          PROVE  s = t
      BY <2>1, <3>1 DEF Serial, Sandboxes, TurnsSerialized, HandlesOfOwnConversation, Using, Holding,
                        Owned, InMemory
    <3>2. ASSUME NEW c \in Conversations, NEW d \in Conversations, kept[c].box = b, kept[d].box = b
          PROVE  c = d
      BY <2>1, <2>2, <3>2 DEF Sandboxes, KeptRuns
    <3>3. ASSUME NEW v \in Workers, NEW w \in Workers, wbox[v] = b, wbox[w] = b PROVE v = w
      BY <2>1, <2>2, <3>3 DEF Custody, PoppedOnce
    <3>4. ASSUME NEW w \in Workers, wbox[w] = b
          PROVE  /\ \A c \in Conversations : kept[c].box # b
                 /\ \A t \in Turns : Using(t) => tbox[t] # b
      BY <2>1, <2>2, <3>4 DEF Sandboxes, PoppedIsUnused
    <3> QED BY <3>1, <3>2, <3>3, <3>4 DEF Owners
  <2> QED BY <2>3, <2>4
<1> QED BY <1>1, Invariance, PTL

\* Through any number of failing calls and deaths of the process, a row that says
\* running has a turn that is still to write its verdict, or one that left by an
\* exit that writes none (the gate, an error returned, a last write that fails),
\* or reconciliation is to come to it or has passed it over: no other exit of
\* Handle and no other death leaves services/api an orphan to count.
THEOREM RowsHaveTurns == Spec => []RunningRowHasTurn
<1>1. IInv => RunningRowHasTurn
  BY DEF IInv
<1> QED BY <1>1, Invariance, PTL
===============================================================================
