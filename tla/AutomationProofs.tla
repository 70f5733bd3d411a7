--------------------------- MODULE AutomationProofs ---------------------------
(***************************************************************************)
(* Proofs about Automation, for any number of replicas, automations and    *)
(* settings: types, OneResumer and FiresOnceInTime, by the inductive       *)
(* invariant IInv of that module.  Few actions write each table: the       *)
(* lemmas of the first part say which; those of the second what is left of *)
(* the rows; the third follows the thread that moves and the one that      *)
(* holds a lease.                                                          *)
(*                                                                         *)
(* Then NoSelfTrigger, for any number of messages and crashes, by the      *)
(* inductive invariant CausesInv: what may still open a run is counted.  A *)
(* message moves from the stream to the replica that has read it and is    *)
(* used up by the run it opens; a crash puts one back, an occurrence and a *)
(* task that is done bring one, and nothing else does.                     *)
(***************************************************************************)
EXTENDS Automation, FiniteSetTheorems, TLAPS

USE DistinctAssumption

-----------------------------------------------------------------------------
(* Which actions touch what.                                               *)

\* Ten actions of threads write a run.
WritesRun(t) ==
  \/ Open(t) \/ Look(t) \/ Apply(t) \/ Ask(t) \/ FailNode(t) \/ Record(t)
  \/ Resume(t) \/ Close(t) \/ Note(t) \/ Crash(t)

\* The schedulers take leases and give them back.
MovesLease(t) == Lead(t) \/ Yield(t) \/ LeadClock(t) \/ YieldClock(t)

\* What is read by others than the thread that moves.
tables == <<setting, clock, nodes, run, conv, fired, lease>>

\* A conversation is started by a walk and ends from outside, only an edit removes a
\* node, only a schedule records what has fired, and leases lapse.
LEMMA Frame ==
  ASSUME [Next]_vars
  PROVE  \/ UNCHANGED tables
         \/ \E t \in Threads : WritesRun(t) /\ UNCHANGED <<setting, clock, nodes, conv, fired, lease>>
         \/ \E t \in Threads :
              StartConversation(t) /\ UNCHANGED <<setting, clock, nodes, run, fired, lease>>
         \/ \E t \in Threads : MovesLease(t) /\ UNCHANGED <<setting, clock, nodes, run, conv, fired>>
         \/ \E t \in Threads : RecordFire(t) /\ UNCHANGED <<setting, clock, nodes, run, conv, lease>>
         \/ \E c \in DOMAIN conv : /\ EndConversation(c) \/ StopConversation(c)
                                   /\ UNCHANGED <<setting, clock, nodes, run, fired, lease>>
         \/ Occur /\ UNCHANGED <<setting, nodes, run, conv, fired, lease>>
         \/ \E n \in nodes : RemoveNode(n) /\ UNCHANGED <<setting, clock, conv, fired, lease>>
         \/ \E kind \in {"wait", "clock"} :
              Lapse(kind) /\ UNCHANGED <<setting, clock, nodes, run, conv, fired>>
<1> USE DEF worldVars, dbVars, streamVars, tables
<1>1. ASSUME NEW t \in Threads,
             WritesRun(t)
      PROVE  UNCHANGED <<setting, clock, nodes, conv, fired, lease>>
  BY <1>1 DEF WritesRun, Open, Look, Reach, FailNode, Apply, Ask, Record, Resume, Close, Note, Crash
<1>2. ASSUME NEW t \in Threads, StartConversation(t)
      PROVE  UNCHANGED <<setting, clock, nodes, run, fired, lease>>
  BY <1>2 DEF StartConversation
<1>3. ASSUME NEW t \in Threads,
             Take(t) \/ Handle(t) \/ HandleExternal(t) \/ HandleSprint(t) \/ Ack(t) \/
             CreateDelay(t) \/ CreateWait(t) \/ EndWalk(t)
      PROVE  UNCHANGED tables
  BY <1>3
  DEF Take, Goto, Keep, Handle, HandleExternal, HandleSprint, Ack, CreateDelay, Erring, Spend,
      CreateWait, EndWalk
<1>4. ASSUME NEW t \in Threads,
             CountWaits(t) \/ CountDelays(t) \/ Judge(t) \/ FailToClose(t) \/ Find(t) \/
             Resolve(t) \/ Check(t) \/ Abandon(t)
      PROVE  UNCHANGED tables
  BY <1>4
  DEF CountWaits, Goto, Over, CountDelays, Judge, Keep, FailToClose, Erring, Spend, Find,
      Resolve, AfterLast, Check, Abandon
<1>5. ASSUME NEW t \in Threads,
             ListDue(t) \/ Renew(t) \/ Revive(t) \/ Clear(t) \/ ListFires(t)
      PROVE  UNCHANGED tables
  BY <1>5
  DEF ListDue, Goto, Keep, Renew, Revive, Clear, Erring, Spend, ListFires
<1>6. ASSUME NEW t \in Threads, MovesLease(t)
      PROVE  UNCHANGED <<setting, clock, nodes, run, conv, fired>>
  BY <1>6 DEF MovesLease, Lead, Yield, LeadClock, YieldClock
<1>7. ASSUME NEW t \in Threads, RecordFire(t)
      PROVE  UNCHANGED <<setting, clock, nodes, run, conv, lease>>
  BY <1>7 DEF RecordFire
<1>8. ASSUME NEW c \in DOMAIN conv, EndConversation(c) \/ StopConversation(c)
      PROVE  UNCHANGED <<setting, clock, nodes, run, fired, lease>>
  BY <1>8 DEF EndConversation, StopConversation
<1>9. CASE (\E d \in delays : FallDue(d)) \/ Toggle \/ \E i \in setting.watched : FinishTask(i)
  BY <1>9 DEF FallDue, Toggle, FinishTask
<1>10. CASE Occur
  BY <1>10 DEF Occur
<1>11. CASE \E n \in nodes : RemoveNode(n)
  BY <1>11 DEF RemoveNode
<1>12. CASE \E kind \in {"wait", "clock"} : Lapse(kind)
  BY <1>12 DEF Lapse
<1>13. CASE UNCHANGED vars
  BY <1>13 DEF vars
<1>14. CASE \E t \in Threads : Step(t) \/ Crash(t)
  BY <1>14, <1>1, <1>2, <1>3, <1>4, <1>5, <1>6, <1>7 DEF Step, WritesRun, MovesLease
<1>. QED
  BY <1>8, <1>9, <1>10, <1>11, <1>12, <1>13, <1>14 DEF Next

-----------------------------------------------------------------------------
(* What is left of the rows.                                               *)

LEMMA Replaced ==
  ASSUME NEW S, NEW s \in Seq(S), NEW i \in DOMAIN s, NEW v \in S
  PROVE  /\ [s EXCEPT ![i] = v] \in Seq(S) /\ Len([s EXCEPT ![i] = v]) = Len(s)
         /\ \A j \in DOMAIN s : [s EXCEPT ![i] = v][j] = IF j = i THEN v ELSE s[j]
OBVIOUS

LEMMA RowChanges ==
  ASSUME NEW row \in RunRow, NEW n \in DOMAIN Graph.kind,
         NEW s \in {"running", "completed", "failed"}
  PROVE  /\ [row EXCEPT !.steps[n] = @ + 1] \in RunRow
         /\ [row EXCEPT !.failed = @ \cup {n}] \in RunRow
         /\ [row EXCEPT !.visits[n] = @ + 1] \in RunRow
         /\ [row EXCEPT !.lost = @ \cup {n}] \in RunRow
         /\ [row EXCEPT !.steps[n] = 0, !.failed = @ \ {n}] \in RunRow
         /\ [row EXCEPT !.status = s] \in RunRow
<1>1. [row EXCEPT !.steps[n] = @ + 1] \in RunRow /\ [row EXCEPT !.failed = @ \cup {n}] \in RunRow
  BY DEF RunRow
<1>2. [row EXCEPT !.steps[n] = 0, !.failed = @ \ {n}] \in RunRow
  BY DEF RunRow
<1>3. [row EXCEPT !.status = s] \in RunRow
  BY DEF RunRow
<1>4. [row EXCEPT !.visits[n] = @ + 1] \in RunRow /\ [row EXCEPT !.lost = @ \cup {n}] \in RunRow
  BY DEF RunRow
<1>. QED
  BY <1>1, <1>2, <1>3, <1>4

\* Each run keeps its cause, and there are no more of them.
KeepsCauses ==
  /\ run' \in Seq(RunRow) /\ Len(run') = Len(run)
  /\ \A r \in DOMAIN run : run'[r].cause = run[r].cause

LEMMA Replacing ==
  ASSUME Rows, NEW r \in DOMAIN run, NEW row \in RunRow, row.cause = run[r].cause,
         run' = [run EXCEPT ![r] = row]
  PROVE  KeepsCauses
BY Replaced DEF Rows, KeepsCauses

LEMMA StepRecorded ==
  ASSUME Rows, NEW r \in DOMAIN run, NEW n,
         run' = run \/ run' = WithStep(r, n) \/ run' = WithFailed(r, n)
  PROVE  KeepsCauses
<1>1. run[r] \in RunRow /\ nodes \subseteq DOMAIN Graph.kind /\ run \in Seq(RunRow)
  BY DEF Rows
<1>2. CASE n \in nodes /\ run' # run
  <2> DEFINE stepped == [run[r] EXCEPT !.steps[n] = @ + 1]
             failing == [run[r] EXCEPT !.failed = @ \cup {n}]
  <2>1. stepped \in RunRow /\ failing \in RunRow
    BY <1>1, <1>2, RowChanges
  <2>2. stepped.cause = run[r].cause /\ failing.cause = run[r].cause
    BY <1>1 DEF RunRow
  <2>3. run' = [run EXCEPT ![r] = stepped] \/ run' = [run EXCEPT ![r] = failing]
    BY <1>2 DEF WithStep, WithFailed
  <2> HIDE DEF stepped, failing
  <2>. QED
    BY <2>1, <2>2, <2>3, Replacing
<1>3. CASE n \notin nodes \/ run' = run
  BY <1>1, <1>3 DEF WithStep, WithFailed, KeepsCauses
<1>. QED
  BY <1>2, <1>3

LEMMA VisitRecorded ==
  ASSUME Rows, NEW r \in DOMAIN run, NEW n \in DOMAIN Graph.kind, NEW t,
         run' = WithVisit(r, n) \/ run' = Forgets(t, r, n)
  PROVE  KeepsCauses
<1>1. run[r] \in RunRow /\ run \in Seq(RunRow)
  BY DEF Rows
<1> DEFINE visited == [run[r] EXCEPT !.visits[n] = @ + 1]
           without == [run[r] EXCEPT !.lost = @ \cup {n}]
<1>2. visited \in RunRow /\ without \in RunRow
  BY <1>1, RowChanges
<1>3. visited.cause = run[r].cause /\ without.cause = run[r].cause
  BY <1>1 DEF RunRow
<1>4. \/ run' = run \/ run' = [run EXCEPT ![r] = visited] \/ run' = [run EXCEPT ![r] = without]
  BY DEF WithVisit, Forgets
<1> HIDE DEF visited, without
<1>5. CASE run' = run
  BY <1>1, <1>5 DEF KeepsCauses
<1>. QED
  BY <1>2, <1>3, <1>4, <1>5, Replacing

\* A run is opened by a thread whose automation is active, with the cause it brings.
Opens(t) ==
  /\ pc[t] = "opening" /\ pc' = [pc EXCEPT ![t] = "walking"]
  /\ run' = Append(run, [status |-> "running", cause |-> job[t].cause,
                         steps |-> [n \in DOMAIN Graph.kind |-> 0], failed |-> {},
                         visits |-> [n \in DOMAIN Graph.kind |-> 0], lost |-> {}])

LEMMA RunsStep ==
  ASSUME Rows, Jobs, [Next]_vars
  PROVE  KeepsCauses \/ \E t \in Threads : Opens(t)
<1>0. run \in Seq(RunRow) /\ nodes \subseteq DOMAIN Graph.kind
  BY DEF Rows
<1>1. ASSUME run' = run PROVE KeepsCauses
  BY <1>0, <1>1 DEF KeepsCauses
<1>2. ASSUME NEW t \in Threads, WritesRun(t)
      PROVE  KeepsCauses \/ Opens(t)
  <2>1. CASE Open(t)
    BY <1>1, <2>1 DEF Open, Opens, Goto
  <2>2. ASSUME ~Open(t), ~Close(t)
        PROVE  \/ \E n : \/ run' = run
                         \/ run' = WithStep(job[t].run, n)
                         \/ run' = WithFailed(job[t].run, n)
               \/ \E n \in DOMAIN Graph.kind : run' = WithVisit(job[t].run, n)
               \/ pc[t] = "acting" /\ run' = Forgets(t, job[t].run, job[t].node)
    <3>1. CASE Look(t) \/ Apply(t) \/ Ask(t)
      BY <3>1 DEF Look, Apply, Ask, Reach, Is
    <3>2. CASE FailNode(t) \/ Record(t) \/ Resume(t) \/ Note(t) \/ Crash(t)
      BY <3>2 DEF FailNode, Record, Resume, Note, Crash, Goto
    <3>. QED
      BY <1>2, <2>2, <3>1, <3>2 DEF WritesRun
  <2>3. ASSUME ~Open(t), run' # run PROVE pc[t] \in WithRun
    BY <1>2, <2>3
    DEF WritesRun, Look, Apply, Ask, Reach, FailNode, Record, Resume, Note, Close, Crash, Goto,
        WithRun, Walking, Closing
  <2>4. ASSUME ~Open(t), run' # run PROVE job[t].run \in DOMAIN run
    BY <2>3, <2>4 DEF Jobs, Sound
  <2>5. CASE ~Open(t) /\ ~Close(t) /\ run' # run
    <3>1. pc[t] = "acting" => job[t].node \in DOMAIN Graph.kind
      BY DEF Jobs, Sound
    <3>. QED
      BY <2>2, <2>4, <2>5, <3>1, StepRecorded, VisitRecorded
  <2>6. CASE Close(t) /\ ~Open(t) /\ run' # run
    <3> DEFINE r == job[t].run
               closed == [run[r] EXCEPT !.status = job[t].verdict]
    <3>1. job[t].verdict \in {"completed", "failed"}
      BY <2>6 DEF Close, Goto, Jobs, Sound
    <3>2. r \in DOMAIN run /\ run[r] \in RunRow
      BY <1>0, <2>4, <2>6
    <3>3. closed \in RunRow /\ closed.cause = run[r].cause
      BY <3>1, <3>2 DEF RunRow
    <3>4. run' = [run EXCEPT ![r] = closed]
      BY <2>6 DEF Close
    <3> HIDE DEF closed, r
    <3>. QED
      BY <3>2, <3>3, <3>4, Replacing
  <2>. QED
    BY <1>1, <2>1, <2>5, <2>6
<1>3. ASSUME NEW n \in nodes, RemoveNode(n) PROVE KeepsCauses
  <2> DEFINE without(r) == [run[r] EXCEPT !.steps[n] = 0, !.failed = @ \ {n}]
  <2>1. ASSUME NEW r \in DOMAIN run
        PROVE  without(r) \in RunRow /\ without(r).cause = run[r].cause
    <3>1. run[r] \in RunRow
      BY <1>0
    <3>2. without(r) \in RunRow
      BY <1>0, <3>1, RowChanges
    <3>3. without(r).cause = run[r].cause
      BY <3>1 DEF RunRow
    <3>. QED
      BY <3>2, <3>3
  <2>2. run' = [r \in DOMAIN run |-> without(r)]
    BY <1>3 DEF RemoveNode
  <2> HIDE DEF without
  <2>3. DOMAIN run = 1..Len(run) /\ Len(run) \in Nat
    BY <1>0
  <2>4. run' \in Seq(RunRow) /\ Len(run') = Len(run)
    BY <2>1, <2>2, <2>3
  <2>. QED
    BY <2>1, <2>2, <2>4 DEF KeepsCauses
<1>. QED
  BY <1>1, <1>2, <1>3, Frame DEF tables

LEMMA Lists ==
  ASSUME NEW s, IsList(s), NEW x
  PROVE  /\ DOMAIN s = 1..Len(s)
         /\ IsList(Append(s, x)) /\ Len(Append(s, x)) = Len(s) + 1
         /\ Append(s, x)[Len(s) + 1] = x
         /\ \A i \in DOMAIN s : Append(s, x)[i] = s[i]
         /\ \A i \in DOMAIN s : LET new == [s EXCEPT ![i] = x] IN
              IsList(new) /\ Len(new) = Len(s) /\ \A j \in DOMAIN s : new[j] = IF j = i THEN x ELSE s[j]
<1> DEFINE S == {s[i] : i \in DOMAIN s} \cup {x}
<1>1. DOMAIN s = 1..Len(s) /\ Len(s) \in Nat
  BY DEF IsList
<1>2. s \in Seq(S) /\ x \in S
  BY <1>1 DEF IsList
<1> HIDE DEF S
<1>3. /\ Append(s, x) \in Seq(S) /\ Len(Append(s, x)) = Len(s) + 1
      /\ Append(s, x)[Len(s) + 1] = x
      /\ \A i \in DOMAIN s : Append(s, x)[i] = s[i]
  BY <1>1, <1>2
<1>4. ASSUME NEW q \in Seq(S) PROVE IsList(q)
  BY DEF IsList
<1>5. ASSUME NEW i \in DOMAIN s
      PROVE  LET new == [s EXCEPT ![i] = x] IN
               IsList(new) /\ Len(new) = Len(s) /\ \A j \in DOMAIN s : new[j] = IF j = i THEN x ELSE s[j]
  BY <1>2, <1>4, Replaced
<1>. QED
  BY <1>1, <1>3, <1>4, <1>5

\* A conversation stays with its run and node.
KeepsConversations ==
  /\ IsList(conv)' /\ DOMAIN conv \subseteq DOMAIN conv'
  /\ \A c \in DOMAIN conv' : DOMAIN conv'[c] = {"run", "node", "status"}
  /\ \A c \in DOMAIN conv : conv'[c].run = conv[c].run /\ conv'[c].node = conv[c].node
  /\ \A c \in DOMAIN conv' \ DOMAIN conv : conv'[c].run \in DOMAIN run

LEMMA ConvsStep ==
  ASSUME Rows, Jobs, [Next]_vars PROVE KeepsConversations
<1>0. /\ IsList(conv) /\ DOMAIN conv = 1..Len(conv) /\ Len(conv) \in Nat
      /\ \A c \in DOMAIN conv : DOMAIN conv[c] = {"run", "node", "status"}
  BY DEF Rows, IsList
<1>1. CASE conv' = conv
  <2>1. IsList(conv)'
    BY <1>0, <1>1 DEF IsList
  <2>. QED
    BY <1>0, <1>1, <2>1 DEF KeepsConversations
<1>2. ASSUME NEW t \in Threads, StartConversation(t), conv' # conv
      PROVE  KeepsConversations
  <2> DEFINE new == [run |-> job[t].run, node |-> job[t].node, status |-> "running"]
  <2>1. /\ new.run \in DOMAIN run /\ DOMAIN new = {"run", "node", "status"}
        /\ conv' = Append(conv, new)
    BY <1>2 DEF StartConversation, Jobs, Sound, WithRun, Walking
  <2> HIDE DEF new
  <2>2. /\ IsList(conv)' /\ Len(conv') = Len(conv) + 1 /\ conv'[Len(conv) + 1] = new
        /\ \A c \in DOMAIN conv : conv'[c] = conv[c]
    BY <1>0, <2>1, Lists DEF IsList
  <2>3. DOMAIN conv' = DOMAIN conv \cup {Len(conv) + 1}
    BY <1>0, <2>2 DEF IsList
  <2>. QED
    BY <1>0, <2>1, <2>2, <2>3 DEF KeepsConversations
<1>3. ASSUME NEW c \in DOMAIN conv, EndConversation(c) \/ StopConversation(c)
      PROVE  KeepsConversations
  <2>1. PICK s : conv' = [conv EXCEPT ![c].status = s]
    BY <1>3 DEF EndConversation, StopConversation
  <2> DEFINE new == [conv[c] EXCEPT !.status = s]
  <2>2. /\ conv' = [conv EXCEPT ![c] = new]
        /\ DOMAIN new = {"run", "node", "status"}
        /\ new.run = conv[c].run /\ new.node = conv[c].node
    BY <1>0, <2>1
  <2> HIDE DEF new
  <2>3. /\ IsList(conv)' /\ Len(conv') = Len(conv)
        /\ \A d \in DOMAIN conv : conv'[d] = IF d = c THEN new ELSE conv[d]
    <3>1. LET s2 == [conv EXCEPT ![c] = new] IN
            IsList(s2) /\ Len(s2) = Len(conv)
            /\ \A d \in DOMAIN conv : s2[d] = IF d = c THEN new ELSE conv[d]
      BY <1>0, Lists
    <3>. QED
      BY <2>2, <3>1 DEF IsList
  <2>4. DOMAIN conv' = DOMAIN conv
    BY <1>0, <2>3 DEF IsList
  <2>. QED
    BY <1>0, <2>2, <2>3, <2>4 DEF KeepsConversations
<1>. QED
  BY <1>1, <1>2, <1>3, Frame DEF tables

LEMMA RowsStep ==
  ASSUME Rows, Jobs, [Next]_vars PROVE Rows' /\ Len(run) <= Len(run')
<1>1. setting' = setting /\ nodes' \subseteq nodes
  BY Frame DEF tables, RemoveNode
<1>2. RunRow' = RunRow /\ (DOMAIN Graph.kind)' = DOMAIN Graph.kind
  BY <1>1 DEF RunRow, Graph
<1>3. run \in Seq(RunRow) /\ \A t \in Threads : job[t].cause \in Nat
  BY DEF Rows, Jobs, Sound
<1>4. run' \in Seq(RunRow) /\ Len(run) <= Len(run')
  <2>1. CASE KeepsCauses
    BY <1>3, <2>1 DEF KeepsCauses
  <2>2. ASSUME NEW t \in Threads, Opens(t)
        PROVE  run' \in Seq(RunRow) /\ Len(run) <= Len(run')
    <3> DEFINE row == [status |-> "running", cause |-> job[t].cause,
                       steps |-> [n \in DOMAIN Graph.kind |-> 0], failed |-> {},
                       visits |-> [n \in DOMAIN Graph.kind |-> 0], lost |-> {}]
    <3>1. row \in RunRow
      BY <1>3 DEF RunRow
    <3>2. run' = Append(run, row)
      BY <2>2 DEF Opens
    <3> HIDE DEF row
    <3>. QED
      BY <1>3, <3>1, <3>2
  <2>. QED
    BY <2>1, <2>2, RunsStep
<1>5. DOMAIN run \subseteq DOMAIN run'
  BY <1>3, <1>4
<1>6. /\ \A c \in DOMAIN conv : conv[c].run \in DOMAIN run
      /\ nodes \subseteq DOMAIN Graph.kind
  BY DEF Rows
<1>7. \A c \in DOMAIN conv' : conv'[c].run \in DOMAIN run'
  BY <1>5, <1>6, ConvsStep DEF KeepsConversations
<1>. QED
  BY <1>1, <1>2, <1>4, <1>6, <1>7, ConvsStep DEF Rows, KeepsConversations

-----------------------------------------------------------------------------
(* The thread that moves.                                                  *)

\* One thread moves, to a place of its own, and holds on to the message it has read;
\* a scheduler begins to resume delays or to fire with the lease, and records and opens
\* in this order.
Moved(t) ==
  /\ pc' = [pc EXCEPT ![t] = pc'[t]] /\ pc'[t] \in Places(t)
  /\ job' = [job EXCEPT ![t] = job'[t]]
Listened(t) ==
  /\ pel' = [k \in Consumers |-> pel'[k]] /\ \A k \in Consumers \ {t} : pel'[k] = pel[k]
  /\ t \in Consumers => \/ pc'[t] = "idle"
                        \/ Take(t) /\ job'[t].msg \in pel'[t]
                        \/ pc[t] # "idle" /\ job'[t].msg = job[t].msg /\ pel'[t] = pel[t]
Scheduled(t) ==
  /\ t \in Waiters =>
       pc'[t] \in Resting \/ pc[t] \notin Resting \/ (pc[t] = "renewing" /\ lease.wait = t)
  /\ t \in Clocks => /\ pc'[t] = "idle" \/ pc[t] # "idle" \/ LeadClock(t)
                     /\ pc'[t] = "recording" => ListFires(t)
                     /\ pc'[t] = "opening" => RecordFire(t)

LEMMA ThreadMoves ==
  ASSUME Placed, Jobs, NEW t \in Threads, Step(t) \/ Crash(t) PROVE Moved(t)
<1>0. /\ pc = [u \in Threads |-> pc[u]] /\ pc[t] \in Places(t)
      /\ job = [u \in Threads |-> job[u]]
  BY DEF Placed, Jobs
<1> USE <1>0 DEF Places, Walking, Closing, Threads, Moved
<1>1. CASE t \in Consumers /\ Take(t)
  BY <1>1 DEF Take, Goto, Keep
<1>2. CASE Handle(t) \/ HandleExternal(t) \/ HandleSprint(t) \/ Ack(t)
  BY <1>2
  DEF Handle, Goto, HandleExternal, HandleSprint, Ack, Keep
<1>3. CASE Open(t) \/ Resume(t)
  BY <1>3
  DEF Open, Goto, Keep, Over, Erring, Spend, Resume
<1>4. CASE Look(t) \/ Apply(t) \/ Ask(t)
  BY <1>4
  DEF Look, Apply, Ask, Reach, Goto, Keep
<1>5. CASE FailNode(t) \/ Record(t)
  BY <1>5
  DEF FailNode, Record, Onwards, Goto, Keep
<1>6. CASE CreateDelay(t) \/ StartConversation(t)
  BY <1>6
  DEF CreateDelay, Goto, Erring, Spend, StartConversation, Keep
<1>7. CASE CreateWait(t) \/ EndWalk(t)
  BY <1>7
  DEF Goto, Keep, CreateWait, Erring, Spend, EndWalk
<1>8. CASE CountWaits(t) \/ CountDelays(t)
  BY <1>8
  DEF CountWaits, Goto, Over, CountDelays
<1>9. CASE Judge(t) \/ Close(t) \/ FailToClose(t)
  BY <1>9
  DEF Judge, Goto, Keep, Close, Over, FailToClose, Erring, Spend
<1>10. CASE Find(t) \/ Note(t) \/ Check(t)
  BY <1>10
  DEF Find, Goto, Keep, Note, Check
<1>11. CASE Resolve(t) \/ Abandon(t)
  BY <1>11
  DEF Resolve, Goto, AfterLast, Abandon, Keep, Erring, Spend
<1>12. CASE Lead(t) \/ ListDue(t) \/ Renew(t)
  BY <1>12
  DEF Lead, Goto, ListDue, Keep, Renew
<1>13. CASE Revive(t) \/ Clear(t) \/ Yield(t)
  BY <1>13
  DEF Revive, Goto, Clear, Erring, Spend, Yield, Keep
<1>14. CASE LeadClock(t) \/ ListFires(t)
  BY <1>14
  DEF LeadClock, Goto, ListFires, Keep
<1>15. CASE RecordFire(t) \/ YieldClock(t)
  BY <1>15
  DEF RecordFire, Goto, Erring, Spend, YieldClock, Keep
<1>16. CASE Crash(t)
  BY <1>16 DEF Crash, Keep
<1>. QED
  BY <1>1, <1>2, <1>3, <1>4, <1>5, <1>6, <1>7, <1>8, <1>9, <1>10, <1>11, <1>12, <1>13, <1>14,
     <1>15, <1>16
  DEF Step

Fields == {"msg", "run", "node", "todo", "visited", "graph", "convs", "want", "live", "verdict",
           "delay", "rest", "cause"}

LEMMA JobFields == DOMAIN NoJob = Fields
BY DEF NoJob, Fields

LEMMA ResumeKeeps ==
  ASSUME NEW t \in Threads, job = [u \in Threads |-> job[u]], DOMAIN job[t] = Fields, Resume(t)
  PROVE  /\ DOMAIN job'[t] = Fields /\ job'[t].msg = job[t].msg /\ job'[t].run = job[t].run
         /\ job'[t].rest = job[t].rest /\ job'[t].cause = job[t].cause
         /\ job'[t].convs = job[t].convs
<1>1. CASE job' = job
  BY <1>1
<1>2. CASE job' # job
  <2>1. PICK out : Keep(t, [job[t] EXCEPT !.graph = nodes, !.visited = StepsOf(job[t].run),
                                          !.todo = IF job[t].node \in nodes THEN out ELSE <<>>])
    BY <1>2 DEF Resume
  <2> DEFINE todo == IF job[t].node \in nodes THEN out ELSE <<>>
             visited == StepsOf(job[t].run)
  <2>2. job'[t] = [job[t] EXCEPT !.graph = nodes, !.visited = visited, !.todo = todo]
    BY <2>1 DEF Keep
  <2> HIDE DEF todo, visited
  <2>. QED
    BY <2>2 DEF Fields
<1>. QED
  BY <1>1, <1>2

\* To visit a node, and to go on behind it, changes nothing else of what a thread has in hand.
KeepsRest(t) ==
  /\ DOMAIN job'[t] = Fields /\ job'[t].msg = job[t].msg /\ job'[t].run = job[t].run
  /\ job'[t].rest = job[t].rest /\ job'[t].cause = job[t].cause /\ job'[t].live = job[t].live

LEMMA VisitKeeps ==
  ASSUME NEW t \in Threads, job = [u \in Threads |-> job[u]], DOMAIN job[t] = Fields, NEW size,
         Keep(t, Visit(t, size))
  PROVE  /\ KeepsRest(t) /\ job'[t].node = Head(Todo(t)) /\ job'[t].convs = <<>>
         /\ job'[t].want = size /\ job'[t].delay = job[t].delay /\ job'[t].graph = job[t].graph
         /\ job'[t].todo = Tail(Todo(t)) /\ job'[t].visited = job[t].visited \cup {Head(Todo(t))}
<1> DEFINE todo == Tail(Todo(t))
           n == Head(Todo(t))
           visited == job[t].visited \cup {n}
<1>1. job'[t] = [job[t] EXCEPT !.visited = visited, !.todo = todo, !.node = n, !.want = size,
                               !.convs = <<>>]
  BY DEF Visit, Keep
<1> HIDE DEF todo, n, visited
<1>2. /\ KeepsRest(t) /\ job'[t].node = n /\ job'[t].convs = <<>>
      /\ job'[t].want = size /\ job'[t].delay = job[t].delay /\ job'[t].graph = job[t].graph
      /\ job'[t].todo = todo /\ job'[t].visited = visited
  BY <1>1 DEF Fields, KeepsRest
<1>. QED
  BY <1>2 DEF todo, n, visited

LEMMA ReachKeeps ==
  ASSUME NEW t \in Threads, job = [u \in Threads |-> job[u]], DOMAIN job[t] = Fields,
         Look(t) \/ Apply(t) \/ Ask(t)
  PROVE  /\ KeepsRest(t) /\ job'[t].node = Head(Todo(t)) /\ job'[t].convs = <<>>
         /\ job'[t].delay = job[t].delay /\ job'[t].graph = job[t].graph
         /\ job'[t].todo = Tail(Todo(t)) /\ job'[t].visited = job[t].visited \cup {Head(Todo(t))}
         /\ Look(t) \/ Apply(t) => job'[t].want = 0
<1>1. \E size : Keep(t, Visit(t, size))
  BY DEF Look, Apply, Ask
<1>2. Look(t) \/ Apply(t) => Keep(t, Visit(t, 0))
  BY DEF Look, Apply
<1>. QED
  BY <1>1, <1>2, VisitKeeps

LEMMA RecordKeeps ==
  ASSUME NEW t \in Threads, job = [u \in Threads |-> job[u]], DOMAIN job[t] = Fields, Record(t)
  PROVE  /\ KeepsRest(t) /\ job'[t].node = job[t].node /\ job'[t].convs = job[t].convs
         /\ job'[t].want = job[t].want /\ job'[t].delay = job[t].delay
         /\ job'[t].graph = job[t].graph /\ job'[t].visited = job[t].visited
         /\ \/ job' = job
            \/ \E out \in Outs(job[t].node) : job'[t].todo = out \o job[t].todo
<1>1. CASE job' = job
  BY <1>1 DEF KeepsRest
<1>2. CASE job' # job
  <2>1. PICK out \in Outs(job[t].node) : Keep(t, [job[t] EXCEPT !.todo = out \o @])
    BY <1>2 DEF Record, Onwards
  <2> DEFINE todo == out \o job[t].todo
  <2>2. job'[t] = [job[t] EXCEPT !.todo = todo]
    BY <2>1 DEF Keep, Fields
  <2> HIDE DEF todo
  <2>3. /\ KeepsRest(t) /\ job'[t].node = job[t].node /\ job'[t].convs = job[t].convs
        /\ job'[t].want = job[t].want /\ job'[t].delay = job[t].delay
        /\ job'[t].graph = job[t].graph /\ job'[t].visited = job[t].visited
        /\ job'[t].todo = todo
    BY <2>2 DEF Fields, KeepsRest
  <2>. QED
    BY <2>3 DEF todo
<1>. QED
  BY <1>1, <1>2

LEMMA ThreadListens ==
  ASSUME Placed, Jobs, NEW t \in Threads, Step(t) \/ Crash(t) PROVE Listened(t)
<1>0. /\ pc = [u \in Threads |-> pc[u]] /\ pc[t] \in Places(t)
      /\ job = [u \in Threads |-> job[u]] /\ DOMAIN job[t] = Fields
      /\ pel = [k \in Consumers |-> pel[k]]
  BY JobFields DEF Placed, Jobs, Sound
<1>. USE <1>0 DEF Listened, Fields, streamVars
<1>1. CASE t \in Consumers /\ Take(t)
  <2>1. PICK m : job'[t] = [NoJob EXCEPT !.msg = m] /\ pel' = [pel EXCEPT ![t] = @ \cup {m}]
    BY <1>1 DEF Take, Keep
  <2>2. job'[t].msg = m
    BY <2>1 DEF NoJob
  <2>. QED
    BY <1>1, <2>1, <2>2
<1>2. CASE Handle(t) \/ HandleExternal(t) \/ HandleSprint(t) \/ Ack(t)
  BY <1>2
  DEF Handle, Goto, HandleExternal, HandleSprint, Ack, Keep
<1>3. CASE Open(t) \/ Resume(t)
  <2>1. ASSUME Open(t), job' # job PROVE job'[t].msg = job[t].msg
    <3> DEFINE todo == Graph.first[job[t].msg.about]
    <3>1. job'[t] = [job[t] EXCEPT !.run = Len(run) + 1, !.todo = todo, !.graph = nodes]
      BY <2>1 DEF Open, Keep
    <3> HIDE DEF todo
    <3>. QED
      BY <2>1, <3>1
  <2>2. job'[t].msg = job[t].msg
    BY <1>3, <2>1, ResumeKeeps
  <2>3. pc[t] # "idle" /\ pel' = pel
    BY <1>3 DEF Open, Resume
  <2>. QED
    BY <2>2, <2>3
<1>4. CASE Look(t) \/ Apply(t) \/ Ask(t)
  <2>1. pc[t] # "idle" /\ pel' = pel
    BY <1>4 DEF Look, Apply, Ask, Reach
  <2>. QED
    BY <1>4, <2>1, ReachKeeps DEF KeepsRest
<1>5. CASE FailNode(t) \/ Record(t)
  <2>1. pc[t] # "idle" /\ pel' = pel
    BY <1>5 DEF FailNode, Record, Goto
  <2>2. FailNode(t) => job' = job
    BY DEF FailNode
  <2>. QED
    BY <1>5, <2>1, <2>2, RecordKeeps DEF KeepsRest
<1>6. CASE CreateDelay(t) \/ StartConversation(t)
  BY <1>6
  DEF CreateDelay, Goto, Erring, Spend, StartConversation, Keep
<1>7. CASE CreateWait(t) \/ EndWalk(t)
  <2>1. job'[t].msg = job[t].msg
    <3>2. CASE CreateWait(t)
      BY <3>2 DEF CreateWait, Keep
    <3>3. CASE EndWalk(t)
      BY <3>3 DEF EndWalk, Keep
    <3>. QED
      BY <1>7, <3>2, <3>3
  <2>2. pc[t] # "idle" /\ pel' = pel
    BY <1>7 DEF CreateWait, EndWalk, Goto
  <2>. QED
    BY <2>1, <2>2
<1>8. CASE CountWaits(t) \/ CountDelays(t)
  BY <1>8
  DEF CountWaits, Goto, Over, CountDelays
<1>9. CASE Judge(t) \/ Close(t) \/ FailToClose(t)
  <2>1. pc[t] # "idle" /\ pel' = pel
    BY <1>9 DEF Judge, Close, FailToClose, Goto
  <2>2. job'[t].msg = job[t].msg
    <3>1. CASE Judge(t)
      BY <3>1 DEF Judge, Keep
    <3>. QED
      BY <1>9, <3>1 DEF Close, FailToClose
  <2>. QED
    BY <2>1, <2>2
<1>10. CASE Find(t) \/ Note(t) \/ Check(t)
  <2>1. pc[t] # "idle" /\ pel' = pel
    BY <1>10 DEF Find, Note, Check, Goto
  <2>2. job'[t].msg = job[t].msg
    <3>1. CASE Find(t)
      BY <3>1 DEF Find, Keep
    <3>2. CASE Note(t)
      BY <3>2 DEF Note, Keep
    <3>. QED
      BY <1>10, <3>1, <3>2 DEF Check
  <2>. QED
    BY <2>1, <2>2
<1>11. CASE Resolve(t) \/ Abandon(t)
  BY <1>11
  DEF Resolve, Goto, AfterLast, Abandon, Keep, Erring, Spend, Places, Walking, Closing, Threads
<1>12. CASE Lead(t) \/ ListDue(t) \/ Renew(t)
  BY <1>12
  DEF Lead, Goto, ListDue, Keep, Renew, Places, Walking, Closing, Threads
<1>13. CASE Revive(t) \/ Clear(t) \/ Yield(t)
  BY <1>13
  DEF Revive, Goto, Clear, Erring, Spend, Yield, Keep, Places, Walking, Closing, Threads
<1>14. CASE LeadClock(t) \/ ListFires(t)
  BY <1>14
  DEF LeadClock, Goto, ListFires, Keep, Places, Walking, Closing, Threads
<1>15. CASE RecordFire(t) \/ YieldClock(t)
  BY <1>15
  DEF RecordFire, Goto, Erring, Spend, YieldClock, Keep, Places, Walking, Closing, Threads
<1>16. CASE Crash(t)
  BY <1>16 DEF Crash, Keep
<1>. QED
  BY <1>1, <1>2, <1>3, <1>4, <1>5, <1>6, <1>7, <1>8, <1>9, <1>10, <1>11, <1>12, <1>13, <1>14,
     <1>15, <1>16
  DEF Step

LEMMA ThreadSchedules ==
  ASSUME Placed, Jobs, NEW t \in Threads, Step(t) \/ Crash(t) PROVE Scheduled(t)
<1>0. pc = [u \in Threads |-> pc[u]] /\ pc[t] \in Places(t)
  BY DEF Placed
<1> USE <1>0 DEF Places, Walking, Closing, Resting, Threads, Scheduled
<1>1. CASE t \in Consumers /\ Take(t)
  BY <1>1 DEF Take, Goto
<1>2. CASE Handle(t) \/ HandleExternal(t) \/ HandleSprint(t) \/ Ack(t)
  BY <1>2
  DEF Handle, Goto, HandleExternal, HandleSprint, Ack, Keep
<1>3. CASE Open(t) \/ Resume(t)
  BY <1>3
  DEF Open, Goto, Keep, Over, Erring, Spend, Resume
<1>4. CASE Look(t) \/ Apply(t) \/ Ask(t)
  BY <1>4
  DEF Look, Apply, Ask, Reach, Goto, Keep
<1>5. CASE FailNode(t) \/ Record(t)
  BY <1>5
  DEF FailNode, Record, Onwards, Goto, Keep
<1>6. CASE CreateDelay(t) \/ StartConversation(t)
  BY <1>6
  DEF CreateDelay, Goto, Erring, Spend, StartConversation, Keep
<1>7. CASE CreateWait(t) \/ EndWalk(t)
  BY <1>7
  DEF Goto, Keep, CreateWait, Erring, Spend, EndWalk
<1>8. CASE CountWaits(t) \/ CountDelays(t)
  BY <1>8
  DEF CountWaits, Goto, Over, CountDelays
<1>9. CASE Judge(t) \/ Close(t) \/ FailToClose(t)
  BY <1>9
  DEF Judge, Goto, Keep, Close, Over, FailToClose, Erring, Spend
<1>10. CASE Find(t) \/ Note(t) \/ Check(t)
  BY <1>10
  DEF Find, Goto, Keep, Note, Check
<1>11. CASE Resolve(t) \/ Abandon(t)
  BY <1>11
  DEF Resolve, Goto, AfterLast, Abandon, Keep, Erring, Spend
<1>12. CASE Lead(t) \/ ListDue(t) \/ Renew(t)
  BY <1>12
  DEF Lead, Goto, ListDue, Keep, Renew
<1>13. CASE Revive(t) \/ Clear(t) \/ Yield(t)
  BY <1>13
  DEF Revive, Goto, Clear, Erring, Spend, Yield, Keep
<1>14. CASE LeadClock(t) \/ ListFires(t)
  BY <1>14
  DEF LeadClock, Goto, ListFires, Keep
<1>15. CASE RecordFire(t) \/ YieldClock(t)
  BY <1>15
  DEF RecordFire, Goto, Erring, Spend, YieldClock, Keep
<1>16. CASE Crash(t)
  BY <1>16 DEF Crash, Keep
<1>. QED
  BY <1>1, <1>2, <1>3, <1>4, <1>5, <1>6, <1>7, <1>8, <1>9, <1>10, <1>11, <1>12, <1>13, <1>14,
     <1>15, <1>16
  DEF Step

LEMMA WorldStep ==
  ASSUME [Next]_vars, ~\E t \in Threads : Step(t) \/ Crash(t) PROVE UNCHANGED <<pc, job, pel>>
<1> USE DEF streamVars
<1>1. CASE \E c \in DOMAIN conv : EndConversation(c) \/ StopConversation(c)
  BY <1>1 DEF EndConversation, StopConversation
<1>2. CASE (\E d \in delays : FallDue(d)) \/ Occur \/ Toggle
  BY <1>2 DEF FallDue, Occur, Toggle
<1>3. CASE (\E i \in setting.watched : FinishTask(i)) \/ \E kind \in {"wait", "clock"} : Lapse(kind)
  BY <1>3 DEF FinishTask, Lapse
<1>4. CASE \E n \in nodes : RemoveNode(n)
  BY <1>4 DEF RemoveNode
<1>5. CASE UNCHANGED vars
  BY <1>5 DEF vars
<1>. QED
  BY <1>1, <1>2, <1>3, <1>4, <1>5 DEF Next

LEMMA PlacedStep ==
  ASSUME Placed, Jobs, [Next]_vars PROVE Placed'
<1>1. ASSUME NEW t \in Threads, Step(t) \/ Crash(t) PROVE Placed'
  <2>1. pc' = [pc EXCEPT ![t] = pc'[t]] /\ pc'[t] \in Places(t)
    BY <1>1, ThreadMoves DEF Moved
  <2>2. \A u \in Threads : Places(u)' = Places(u)
    BY DEF Places, Walking, Closing
  <2>. QED
    BY <2>1, <2>2 DEF Placed
<1>2. CASE UNCHANGED <<pc, job, pel>>
  BY <1>2 DEF Placed, Places, Walking, Closing
<1>. QED
  BY <1>1, <1>2, WorldStep

-----------------------------------------------------------------------------
(* What threads have in hand.                                              *)

\* The tables another thread's work rests on are kept by every step.
Kept ==
  /\ DOMAIN run \subseteq DOMAIN run' /\ DOMAIN conv \subseteq DOMAIN conv'
  /\ \A c \in DOMAIN conv : conv'[c].run = conv[c].run /\ conv'[c].node = conv[c].node
  /\ clock \in Nat /\ clock' \in Nat /\ clock <= clock' /\ setting' = setting

LEMMA TablesKept == ASSUME Rows, Jobs, [Next]_vars PROVE Kept
<1>1. DOMAIN run \subseteq DOMAIN run'
  BY RowsStep DEF Rows
<1>2. /\ DOMAIN conv \subseteq DOMAIN conv'
      /\ \A c \in DOMAIN conv : conv'[c].run = conv[c].run /\ conv'[c].node = conv[c].node
  BY ConvsStep DEF KeepsConversations
<1>3. clock \in Nat /\ clock' \in Nat /\ clock <= clock' /\ setting' = setting
  BY Frame DEF Jobs, tables, Occur
<1>. QED
  BY <1>1, <1>2, <1>3 DEF Kept

LEMMA OthersSound ==
  ASSUME Kept, NEW t \in Threads, Sound(t), pc'[t] = pc[t], job'[t] = job[t] PROVE Sound(t)'
<1>1. Started(t) => Started(t)'
  BY DEF Kept, Started
<1>. QED
  BY <1>1 DEF Kept, Sound, Graph

\* Most steps leave the thread with what it had, and with no claim it had not.
LEMMA PlainSound ==
  ASSUME Kept, NEW t \in Threads, Sound(t), job'[t] = job[t],
         pc'[t] \in WithRun => pc[t] \in WithRun,
         pc'[t] \notin {"acting", "registering", "closing"}
  PROVE  Sound(t)'
BY DEF Kept, Sound, Started

LEMMA SoundStep ==
  ASSUME TypeOK, Placed, Rows, Jobs, Kept, NEW t \in Threads, Step(t) \/ Crash(t)
  PROVE  Sound(t)'
<1>0. /\ pc = [u \in Threads |-> pc[u]] /\ job = [u \in Threads |-> job[u]]
      /\ DOMAIN job[t] = Fields /\ Sound(t) /\ DOMAIN NoJob = Fields
  BY JobFields DEF Placed, Jobs, Sound
<1>. USE <1>0 DEF Goto, Keep
<1>1. CASE Handle(t) \/ HandleExternal(t) \/ HandleSprint(t) \/ CreateDelay(t) \/ CountWaits(t)
           \/ CountDelays(t) \/ Close(t) \/ FailToClose(t)
  <2>1. /\ job'[t] = job[t] /\ pc'[t] \notin {"acting", "registering", "closing"}
        /\ pc'[t] \in WithRun => pc[t] \in WithRun
    BY <1>1
    DEF Handle, HandleExternal, HandleSprint, CreateDelay, CountWaits, CountDelays, Close,
        FailToClose, Over, WithRun, Walking, Closing
  <2>. QED
    BY <2>1, PlainSound
<1>2. CASE Resolve(t) \/ Check(t) \/ Lead(t) \/ Revive(t) \/ LeadClock(t) \/ RecordFire(t) \/
           Clear(t)
  <2>1. /\ job'[t] = job[t] /\ pc'[t] \notin {"acting", "registering", "closing"}
        /\ pc'[t] \in WithRun => pc[t] \in WithRun
    BY <1>2
    DEF Resolve, AfterLast, Check, Lead, Revive, LeadClock, RecordFire, Clear, WithRun, Walking,
        Closing
  <2>. QED
    BY <2>1, PlainSound
<1>3. CASE (t \in Consumers /\ Take(t)) \/ Ack(t) \/ Yield(t) \/ YieldClock(t) \/ Abandon(t)
           \/ Crash(t)
  <2>1. pc'[t] \in {"idle", "finding", "handling"}
    BY <1>3 DEF Take, Ack, Yield, YieldClock, Abandon, Crash
  <2>2. /\ DOMAIN job'[t] = Fields /\ job'[t].rest = {} /\ job'[t].convs = <<>>
        /\ job'[t].cause = 0
    BY <1>3 DEF Take, Ack, Yield, YieldClock, Abandon, Crash, NoJob, Fields
  <2>3. pc'[t] \notin WithRun
    BY <2>1 DEF WithRun, Walking, Closing
  <2>. QED
    BY <2>1, <2>2, <2>3 DEF Sound, Kept
<1>4. CASE ListDue(t) \/ ListFires(t)
  <2>1. pc'[t] \in {"renewing", "recording", "yielding"}
    BY <1>4 DEF ListDue, ListFires
  <2>2. /\ DOMAIN job'[t] = Fields /\ job'[t].rest \subseteq delays /\ job'[t].convs = <<>>
        /\ job'[t].cause \in {0, clock} /\ (job'[t].cause = 0 \/ t \in Clocks)
    BY <1>4 DEF ListDue, ListFires, NoJob, Fields, TypeOK
  <2>3. pc'[t] \notin WithRun
    BY <2>1 DEF WithRun, Walking, Closing
  <2>4. \A d \in job'[t].rest : d.run \in DOMAIN run'
    BY <2>2 DEF TypeOK, Kept
  <2>5. job'[t].cause \in Nat /\ job'[t].cause <= clock' /\ (t \notin Clocks => job'[t].cause = 0)
    BY <2>2 DEF Kept
  <2>6. job'[t].convs \in Seq(Nat)
    BY <2>2
  <2>. QED
    BY <2>1, <2>2, <2>3, <2>4, <2>5, <2>6 DEF Sound
<1>5. CASE Look(t) \/ Apply(t) \/ Ask(t)
  <2>1. /\ pc[t] \in WithRun /\ pc'[t] = "acting"
        /\ Head(Todo(t)) \in DOMAIN Graph.kind /\ setting' = setting
    BY <1>5 DEF Look, Apply, Ask, Reach, Is, WithRun, Walking, worldVars
  <2>2. KeepsRest(t) /\ job'[t].node = Head(Todo(t)) /\ job'[t].convs = <<>>
    BY <1>5, ReachKeeps
  <2>3. Started(t)'
    BY <2>2 DEF Started
  <2>. QED
    BY <2>1, <2>2, <2>3 DEF Sound, Kept, KeepsRest, Graph
<1>14. CASE FailNode(t)
  <2>1. job' = job /\ pc[t] \in WithRun /\ pc'[t] = "walking"
    BY <1>14 DEF FailNode, WithRun, Walking
  <2>. QED
    BY <2>1, PlainSound
<1>6. CASE StartConversation(t)
  <2>1. Started(t) /\ job[t].run \in DOMAIN run /\ job[t].convs \in Seq(Nat)
    BY <1>6 DEF StartConversation, Sound, WithRun, Walking
  <2>2. /\ pc' = pc /\ pc[t] = "acting"
        /\ conv' = Append(conv, [run |-> job[t].run, node |-> job[t].node,
                                 status |-> "running"])
    BY <1>6 DEF StartConversation
  <2>3. /\ DOMAIN job'[t] = Fields /\ job'[t].run = job[t].run /\ job'[t].rest = job[t].rest
        /\ job'[t].cause = job[t].cause /\ job'[t].node = job[t].node
        /\ job'[t].convs = Append(job[t].convs, Len(conv) + 1)
    <3>1. job'[t] = [job[t] EXCEPT !.want = @ - 1, !.convs = Append(@, Len(conv) + 1)]
      BY <1>6 DEF StartConversation
    <3>. QED
      BY <3>1 DEF Fields
  <2>4. /\ Len(conv) \in Nat /\ DOMAIN conv' = 1..(Len(conv) + 1)
        /\ conv'[Len(conv) + 1].run = job[t].run /\ conv'[Len(conv) + 1].node = job[t].node
    BY <2>2, Lists DEF Rows, IsList
  <2>5. job'[t].convs \in Seq(Nat)
    BY <2>1, <2>3, <2>4
  <2>6. Started(t)'
    <3>1. ASSUME NEW i \in DOMAIN job'[t].convs, i \in DOMAIN job[t].convs
          PROVE  job'[t].convs[i] = job[t].convs[i]
      BY <2>1, <2>3, <3>1
    <3>2. ASSUME NEW i \in DOMAIN job'[t].convs, i \notin DOMAIN job[t].convs
          PROVE  job'[t].convs[i] = Len(conv) + 1
      BY <2>1, <2>3, <3>2
    <3>3. ASSUME NEW i \in DOMAIN job[t].convs
          PROVE  LET c == job[t].convs[i] IN
                   c \in DOMAIN conv' /\ conv'[c].run = job[t].run /\ conv'[c].node = job[t].node
      BY <2>1 DEF Started, Kept
    <3>. QED
      BY <2>3, <2>4, <3>1, <3>2, <3>3 DEF Started
  <2>. QED
    BY <2>1, <2>2, <2>3, <2>5, <2>6 DEF Sound, Kept, Graph
<1>7. CASE Record(t)
  <2>1. /\ pc[t] = "acting" /\ pc[t] \in WithRun
        /\ pc'[t] \in {"walking", "pausing", "registering"}
        /\ pc'[t] = "registering" => job[t].convs # <<>>
    BY <1>7 DEF Record, WithRun, Walking
  <2>2. KeepsRest(t) /\ job'[t].node = job[t].node /\ job'[t].convs = job[t].convs
    BY <1>7, RecordKeeps
  <2>3. Started(t) => Started(t)'
    BY <2>2 DEF Started, Kept, KeepsRest
  <2>. QED
    BY <2>1, <2>2, <2>3 DEF Sound, Kept, KeepsRest
<1>8. CASE CreateWait(t)
  <2>1. /\ pc[t] = "registering" /\ pc[t] \in WithRun
        /\ pc'[t] = IF Len(job[t].convs) = 1 THEN "walking" ELSE "registering"
    BY <1>8 DEF CreateWait, WithRun, Walking
  <2>2. /\ DOMAIN job'[t] = Fields /\ job'[t].run = job[t].run /\ job'[t].rest = job[t].rest
        /\ job'[t].cause = job[t].cause /\ job'[t].node = job[t].node
        /\ job'[t].convs = Tail(job[t].convs)
    BY <1>8 DEF CreateWait, Fields
  <2>3. Started(t) /\ job[t].convs \in Seq(Nat) /\ job[t].convs # <<>>
    BY <2>1 DEF Sound
  <2>4. /\ Tail(job[t].convs) \in Seq(Nat)
        /\ Len(job[t].convs) # 1 => Tail(job[t].convs) # <<>>
        /\ \A i \in DOMAIN Tail(job[t].convs) :
             i + 1 \in DOMAIN job[t].convs /\ Tail(job[t].convs)[i] = job[t].convs[i + 1]
    <3>1. ASSUME NEW q \in Seq(Nat), q # <<>>
          PROVE  /\ Tail(q) \in Seq(Nat) /\ Len(Tail(q)) = Len(q) - 1 /\ Len(q) \in Nat \ {0}
                 /\ \A i \in 1..(Len(q) - 1) : Tail(q)[i] = q[i + 1]
      BY <3>1
    <3>2. ASSUME NEW q \in Seq(Nat), q # <<>>, Len(q) # 1 PROVE Tail(q) # <<>>
      <4>1. Len(Tail(q)) # 0 /\ Len(<<>>) = 0
        BY <3>1, <3>2
      <4>. QED
        BY <4>1
    <3>3. ASSUME NEW q \in Seq(Nat), q # <<>>, NEW i \in DOMAIN Tail(q)
          PROVE  i + 1 \in DOMAIN q /\ Tail(q)[i] = q[i + 1]
      <4>1. DOMAIN Tail(q) = 1..(Len(q) - 1) /\ DOMAIN q = 1..Len(q) /\ Len(q) \in Nat
        BY <3>1, <3>3
      <4>. QED
        BY <3>1, <3>3, <4>1
    <3>. QED
      BY <2>3, <3>1, <3>2, <3>3
  <2>5. Started(t)'
    <3>1. ASSUME NEW i \in DOMAIN Tail(job[t].convs)
          PROVE  LET c == Tail(job[t].convs)[i] IN
                   c \in DOMAIN conv' /\ conv'[c].run = job[t].run /\ conv'[c].node = job[t].node
      <4>1. i + 1 \in DOMAIN job[t].convs /\ Tail(job[t].convs)[i] = job[t].convs[i + 1]
        BY <2>4
      <4>2. LET c == job[t].convs[i + 1] IN
              c \in DOMAIN conv /\ conv[c].run = job[t].run /\ conv[c].node = job[t].node
        BY <2>3, <4>1 DEF Started
      <4>. QED
        BY <4>1, <4>2 DEF Kept
    <3>. QED
      BY <2>2, <3>1 DEF Started
  <2>. QED
    <3>1. job'[t].convs \in Seq(Nat) /\ (pc'[t] = "registering" => job'[t].convs # <<>>)
      BY <2>1, <2>2, <2>4
    <3>. QED
      BY <2>1, <2>2, <2>5, <3>1 DEF Sound, Kept
<1>9. CASE EndWalk(t) \/ Judge(t) \/ Note(t)
  <2>1. pc[t] \in WithRun /\ pc'[t] \notin {"acting", "registering"}
    BY <1>9 DEF EndWalk, Judge, Note, WithRun, Walking, Closing
  <2>2. /\ DOMAIN job'[t] = Fields /\ job'[t].run = job[t].run /\ job'[t].rest = job[t].rest
        /\ job'[t].cause = job[t].cause /\ job'[t].convs = job[t].convs
        /\ pc'[t] = "closing" => job'[t].verdict \in {"completed", "failed"}
    <3>1. CASE EndWalk(t)
      BY <3>1 DEF EndWalk, Fields
    <3>2. CASE Judge(t)
      BY <3>2 DEF Judge, Fields
    <3>3. CASE Note(t)
      BY <3>3 DEF Note, Fields
    <3>. QED
      BY <1>9, <3>1, <3>2, <3>3
  <2>. QED
    BY <2>1, <2>2 DEF Sound, Kept
<1>10. CASE Open(t)
  <2>1. CASE pc'[t] = "walking"
    <3>1. /\ DOMAIN job'[t] = Fields /\ job'[t].run = Len(run) + 1 /\ job'[t].rest = job[t].rest
          /\ job'[t].cause = job[t].cause /\ job'[t].convs = job[t].convs
      <4> DEFINE todo == Graph.first[job[t].msg.about]
      <4>1. job'[t] = [job[t] EXCEPT !.run = Len(run) + 1, !.todo = todo, !.graph = nodes]
        BY <1>10, <2>1 DEF Open, Over
      <4> HIDE DEF todo
      <4>. QED
        BY <4>1 DEF Fields
    <3>2. Opens(t)
      BY <1>10, <2>1 DEF Open, Opens, Over
    <3>3. Len(run) + 1 \in DOMAIN run'
      BY <3>2 DEF Opens, Rows
    <3>. QED
      BY <2>1, <3>1, <3>3 DEF Sound, Kept
  <2>2. CASE pc'[t] # "walking"
    <3>1. job'[t] = job[t] /\ pc'[t] \in {"acking", "renewing", "yielding", "idle"}
      BY <1>10, <2>2 DEF Open, Over
    <3>. QED
      BY <3>1, PlainSound DEF WithRun, Walking, Closing
  <2>. QED
    BY <2>1, <2>2
<1>11. CASE Resume(t)
  <2>1. /\ pc[t] \in WithRun /\ pc'[t] \notin {"acting", "registering", "closing"}
    BY <1>11 DEF Resume, WithRun
  <2>2. /\ DOMAIN job'[t] = Fields /\ job'[t].run = job[t].run /\ job'[t].rest = job[t].rest
        /\ job'[t].cause = job[t].cause /\ job'[t].convs = job[t].convs
    BY <1>11, ResumeKeeps
  <2>. QED
    BY <2>1, <2>2 DEF Sound, Kept
<1>12. CASE Find(t)
  <2>1. CASE pc'[t] = "noting"
    <3>1. PICK c \in waits :
            /\ DOMAIN job'[t] = Fields /\ job'[t].run = conv[c].run /\ job'[t].rest = job[t].rest
            /\ job'[t].cause = job[t].cause /\ job'[t].convs = job[t].convs
      <4>1. PICK c \in waits :
              job'[t] = [job[t] EXCEPT !.run = conv[c].run, !.node = conv[c].node]
        BY <1>12, <2>1 DEF Find
      <4>. QED
        BY <4>1 DEF Fields
    <3>2. conv[c].run \in DOMAIN run
      BY <3>1 DEF TypeOK, Rows
    <3>. QED
      BY <2>1, <3>1, <3>2 DEF Sound, Kept
  <2>2. CASE pc'[t] # "noting"
    <3>1. job'[t] = job[t] /\ pc'[t] = "acking"
      BY <1>12, <2>2 DEF Find
    <3>. QED
      BY <3>1, PlainSound DEF WithRun, Walking, Closing
  <2>. QED
    BY <2>1, <2>2
<1>13. CASE Renew(t)
  <2>1. CASE pc'[t] = "reviving"
    <3>1. PICK d \in job[t].rest :
            /\ DOMAIN job'[t] = Fields /\ job'[t].run = d.run /\ job'[t].rest = job[t].rest \ {d}
            /\ job'[t].cause = 0 /\ job'[t].convs = <<>>
      <4>1. PICK d \in job[t].rest :
              job'[t] = [NoJob EXCEPT !.run = d.run, !.node = d.node, !.delay = d,
                                       !.rest = job[t].rest \ {d}]
        BY <1>13, <2>1 DEF Renew
      <4>. QED
        BY <4>1 DEF NoJob, Fields
    <3>. QED
      BY <2>1, <3>1 DEF Sound, Kept
  <2>2. CASE pc'[t] # "reviving"
    <3>1. job'[t] = job[t] /\ pc'[t] = "yielding"
      BY <1>13, <2>2 DEF Renew
    <3>. QED
      BY <3>1, PlainSound DEF WithRun, Walking, Closing
  <2>. QED
    BY <2>1, <2>2
<1>. QED
  BY <1>1, <1>2, <1>3, <1>4, <1>5, <1>6, <1>7, <1>8, <1>9, <1>10, <1>11, <1>12, <1>13, <1>14 DEF Step

LEMMA JobsStep ==
  ASSUME TypeOK, Placed, Rows, Jobs, [Next]_vars PROVE Jobs'
<1>1. Kept
  BY TablesKept
<1>2. ASSUME NEW t \in Threads, Step(t) \/ Crash(t) PROVE Jobs'
  <2>1. Sound(t)' /\ Moved(t) /\ Listened(t)
    BY <1>1, <1>2, SoundStep, ThreadMoves, ThreadListens
  <2>2. job' = [u \in Threads |-> job'[u]] /\ pel' = [k \in Consumers |-> pel'[k]]
    BY <2>1 DEF Moved, Listened, Jobs
  <2>3. ASSUME NEW u \in Threads \ {t} PROVE Sound(u)'
    <3>1. pc'[u] = pc[u] /\ job'[u] = job[u] /\ Sound(u)
      BY <2>1 DEF Moved, Jobs, Placed
    <3>. QED
      BY <1>1, <3>1, OthersSound
  <2>. QED
    BY <1>1, <2>1, <2>2, <2>3 DEF Jobs, Kept
<1>3. CASE UNCHANGED <<pc, job, pel>>
  BY <1>1, <1>3, OthersSound DEF Jobs, Kept
<1>. QED
  BY <1>2, <1>3, WorldStep

-----------------------------------------------------------------------------
(* Pauses and messages.                                                    *)

Pauses ==
  /\ \A c \in waits : c \in DOMAIN conv /\ conv[c].node \in nodes
  /\ \A d \in delays : d.run \in DOMAIN run /\ d.node \in nodes
  /\ due \subseteq delays

pauseVars == <<waits, delays, due>>

LEMMA PauseFrame ==
  ASSUME [Next]_vars
  PROVE  \/ UNCHANGED pauseVars
         \/ \E t \in Threads : CreateDelay(t) \/ CreateWait(t) \/ Resolve(t) \/ Clear(t)
         \/ \E d \in delays : FallDue(d)
         \/ \E n \in nodes : RemoveNode(n)
<1> USE DEF dbVars, pauseVars
<1>1. ASSUME NEW t \in Threads,
             WritesRun(t) \/ StartConversation(t)
      PROVE  UNCHANGED pauseVars
  BY <1>1
  DEF WritesRun, Open, Look, Reach, Apply, Ask, FailNode, Record, Resume, Close, Note, Crash,
      StartConversation
<1>2. ASSUME NEW t \in Threads,
             Take(t) \/ Handle(t) \/ HandleExternal(t) \/ HandleSprint(t) \/ Ack(t) \/ EndWalk(t)
      PROVE  UNCHANGED pauseVars
  BY <1>2
  DEF Take, Goto, Keep, Handle, HandleExternal, HandleSprint, Ack, EndWalk
<1>3. ASSUME NEW t \in Threads,
             CountWaits(t) \/ CountDelays(t) \/ Judge(t) \/ FailToClose(t) \/ Find(t) \/
             Check(t) \/ Abandon(t)
      PROVE  UNCHANGED pauseVars
  BY <1>3
  DEF CountWaits, Goto, Over, CountDelays, Judge, Keep, FailToClose, Erring, Spend, Find, Check,
      Abandon
<1>4. ASSUME NEW t \in Threads,
             Lead(t) \/ ListDue(t) \/ Renew(t) \/ Revive(t) \/ Yield(t) \/ LeadClock(t) \/
             ListFires(t) \/ RecordFire(t) \/ YieldClock(t)
      PROVE  UNCHANGED pauseVars
  BY <1>4
  DEF Lead, Goto, ListDue, Keep, Renew, Revive, Yield, LeadClock, ListFires, RecordFire, Erring,
      Spend, YieldClock
<1>5. CASE \E c \in DOMAIN conv : EndConversation(c) \/ StopConversation(c)
  BY <1>5 DEF EndConversation, StopConversation
<1>6. CASE Occur \/ Toggle
  BY <1>6 DEF Occur, Toggle
<1>7. CASE (\E i \in setting.watched : FinishTask(i)) \/ \E kind \in {"wait", "clock"} : Lapse(kind)
  BY <1>7 DEF FinishTask, Lapse
<1>8. CASE UNCHANGED vars
  BY <1>8 DEF vars
<1>. QED
  BY <1>1, <1>2, <1>3, <1>4, <1>5, <1>6, <1>7, <1>8 DEF Next, Step, WritesRun

LEMMA PausesStep ==
  ASSUME Pauses, Rows, Jobs, [Next]_vars PROVE Pauses'
<1>1. Kept /\ nodes' \subseteq nodes
  BY TablesKept, Frame DEF tables, RemoveNode
<1>2. nodes' = nodes \/ \E n \in nodes : RemoveNode(n)
  BY Frame DEF tables
<1>3. CASE UNCHANGED pauseVars /\ nodes' = nodes
  BY <1>1, <1>3 DEF Pauses, pauseVars, Kept
<1>4. ASSUME NEW t \in Threads, CreateDelay(t) PROVE Pauses'
  <2>1. job[t].run \in DOMAIN run /\ UNCHANGED <<nodes, waits, due>>
    BY <1>4 DEF CreateDelay, Goto, Jobs, Sound, WithRun, Walking
  <2>2. \/ delays' = delays
        \/ /\ job[t].node \in nodes
           /\ delays' = delays \cup {[run |-> job[t].run, node |-> job[t].node]}
    BY <1>4 DEF CreateDelay
  <2>. QED
    BY <1>1, <2>1, <2>2 DEF Pauses, Kept
<1>5. ASSUME NEW t \in Threads, CreateWait(t) PROVE Pauses'
  <2>1. Started(t) /\ job[t].convs \in Seq(Nat) /\ job[t].convs # <<>>
    BY <1>5 DEF CreateWait, Jobs, Sound
  <2>2. LET c == Head(job[t].convs) IN c \in DOMAIN conv /\ conv[c].node = job[t].node
    BY <2>1 DEF Started
  <2>3. UNCHANGED <<nodes, delays, due>>
    BY <1>5 DEF CreateWait
  <2>4. waits' = waits \/ (job[t].node \in nodes /\ waits' = waits \cup {Head(job[t].convs)})
    BY <1>5 DEF CreateWait
  <2>. QED
    BY <1>1, <2>2, <2>3, <2>4 DEF Pauses, Kept
<1>6. ASSUME NEW t \in Threads, Resolve(t) \/ Clear(t) PROVE Pauses'
  BY <1>1, <1>6 DEF Resolve, Clear, Pauses, Kept
<1>7. ASSUME NEW d \in delays, FallDue(d) PROVE Pauses'
  BY <1>1, <1>7 DEF FallDue, Pauses, Kept
<1>8. ASSUME NEW n \in nodes, RemoveNode(n) PROVE Pauses'
  BY <1>1, <1>8 DEF RemoveNode, Pauses, Kept
<1>. QED
  BY <1>2, <1>3, <1>4, <1>5, <1>6, <1>7, <1>8, PauseFrame

\* A replica acknowledges what it has read.
Unacknowledged == \A k \in Consumers : Idle(k) \/ job[k].msg \in pel[k]

LEMMA MessagesStep ==
  ASSUME Unacknowledged, Placed, Jobs, [Next]_vars PROVE Unacknowledged'
<1>1. ASSUME NEW t \in Threads, Step(t) \/ Crash(t) PROVE Unacknowledged'
  <2>1. Moved(t) /\ Listened(t)
    BY <1>1, ThreadMoves, ThreadListens
  <2>2. ASSUME NEW k \in Consumers \ {t} PROVE (Idle(k) \/ job[k].msg \in pel[k])'
    <3>1. pc'[k] = pc[k] /\ job'[k] = job[k] /\ pel'[k] = pel[k]
      BY <2>1 DEF Moved, Listened, Jobs, Placed, Threads
    <3>. QED
      BY <3>1 DEF Unacknowledged, Idle
  <2>3. ASSUME t \in Consumers PROVE (Idle(t) \/ job[t].msg \in pel[t])'
    BY <2>1, <2>3 DEF Listened, Unacknowledged, Idle
  <2>. QED
    BY <2>2, <2>3 DEF Unacknowledged
<1>2. CASE UNCHANGED <<pc, job, pel>>
  BY <1>2 DEF Unacknowledged, Idle
<1>. QED
  BY <1>1, <1>2, WorldStep

-----------------------------------------------------------------------------
(* Leases and occurrences.                                                 *)

LEMMA Moves ==
  ASSUME Placed, Jobs, [Next]_vars, NEW s \in Threads
  PROVE  \/ pc'[s] = pc[s] /\ job'[s] = job[s]
         \/ (Step(s) \/ Crash(s)) /\ Moved(s) /\ Scheduled(s)
<1>1. ASSUME NEW t \in Threads \ {s}, Step(t) \/ Crash(t)
      PROVE  pc'[s] = pc[s] /\ job'[s] = job[s]
  BY <1>1, ThreadMoves DEF Moved, Placed, Jobs
<1>. QED
  BY <1>1, ThreadMoves, ThreadSchedules, WorldStep

\* The waiter whose tick is on, and the clock.
LEMMA WaiterLeads ==
  ASSUME TypeOK, Placed, Jobs, Leases, ~setting.slow, [Next]_vars,
         NEW s \in Waiters, pc'[s] \notin Resting
  PROVE  lease.wait = s /\ lease'.wait = s
<1>0. s \in Threads /\ None \notin Threads
  BY DEF Threads
<1>1. pc'[s] = pc[s] \/ ((Step(s) \/ Crash(s)) /\ Scheduled(s))
  BY <1>0, Moves
<1>2. lease.wait = s
  BY <1>0, <1>1 DEF Leases, Scheduled
<1>3. ASSUME NEW t \in Threads, MovesLease(t) PROVE lease'.wait = s
  <2>1. CASE Lead(t)
    BY <1>0, <1>2, <2>1 DEF Lead
  <2>2. CASE Yield(t)
    <3>1. pc'[t] = "idle"
      BY <2>2, <1>3 DEF Yield, Goto, Placed
    <3>2. t # s
      BY <3>1 DEF Resting
    <3>. QED
      BY <1>2, <2>2, <3>2 DEF Yield
  <2>3. CASE LeadClock(t) \/ YieldClock(t)
    BY <1>0, <1>2, <2>3 DEF LeadClock, YieldClock, TypeOK
  <2>. QED
    BY <1>3, <2>1, <2>2, <2>3 DEF MovesLease
<1>4. ASSUME NEW kind \in {"wait", "clock"}, Lapse(kind) PROVE lease'.wait = s
  BY <1>2, <1>4 DEF Lapse, Resting
<1>. QED
  BY <1>2, <1>3, <1>4, Frame DEF tables

LEMMA ClockLeads ==
  ASSUME TypeOK, Placed, Jobs, Leases, ~setting.slow, [Next]_vars,
         NEW s \in Clocks, pc'[s] # "idle"
  PROVE  /\ lease'.clock = s
         /\ \/ lease.clock = s
            \/ LeadClock(s) /\ \A u \in Clocks : pc[u] = "idle"
<1>0. s \in Threads /\ None \notin Threads /\ Clocks \subseteq Threads
  BY DEF Threads
<1>1. (pc'[s] = pc[s]) \/ ((Step(s) \/ Crash(s)) /\ Scheduled(s))
  BY <1>0, Moves
<1>2. lease.clock = s \/ LeadClock(s)
  BY <1>1 DEF Leases, Scheduled
<1>3. ASSUME LeadClock(s)
      PROVE  lease'.clock = s /\ \A u \in Clocks : pc[u] = "idle"
  BY <1>0, <1>3 DEF LeadClock, Leases
<1>4. ASSUME lease.clock = s, NEW t \in Threads, MovesLease(t) PROVE lease'.clock = s
  <2>1. CASE Lead(t) \/ Yield(t)
    BY <1>4, <2>1 DEF Lead, Yield, TypeOK
  <2>2. CASE LeadClock(t)
    BY <1>0, <1>4, <2>2 DEF LeadClock
  <2>3. CASE YieldClock(t)
    <3>1. pc'[t] = "idle" /\ t \in Clocks /\ pc[t] # "idle"
      BY <2>3, <1>4 DEF YieldClock, Goto, Placed
    <3>. QED
      BY <1>4, <3>1 DEF Leases
  <2>. QED
    BY <1>4, <2>1, <2>2, <2>3 DEF MovesLease
<1>5. ASSUME lease.clock = s, NEW kind \in {"wait", "clock"}, Lapse(kind) PROVE lease'.clock = s
  <2>1. pc' = pc /\ pc[s] \in Places(s)
    BY <1>0, <1>5 DEF Lapse, Placed
  <2>2. pc[s] \notin {"idle", "renewing"}
    BY <1>0, <2>1 DEF Places, Walking, Closing
  <2>. QED
    BY <1>5, <2>2 DEF Lapse
<1>. QED
  BY <1>2, <1>3, <1>4, <1>5, Frame DEF tables

LEMMA LeasesStep ==
  ASSUME TypeOK, Placed, Jobs, Leases, [Next]_vars PROVE Leases'
<1>1. setting' = setting
  BY Frame DEF tables
<1>2. (lease.wait \in Waiters \cup {None} /\ lease.clock \in Clocks \cup {None})'
  <2>1. ASSUME NEW t \in Threads, MovesLease(t)
        PROVE  (lease.wait \in Waiters \cup {None} /\ lease.clock \in Clocks \cup {None})'
    BY <2>1 DEF TypeOK, Leases, MovesLease, Lead, Yield, LeadClock, YieldClock
  <2>2. ASSUME NEW kind \in {"wait", "clock"}, Lapse(kind)
        PROVE  (lease.wait \in Waiters \cup {None} /\ lease.clock \in Clocks \cup {None})'
    BY <2>2 DEF TypeOK, Leases, Lapse
  <2>. QED
    BY <2>1, <2>2, Frame DEF Leases, tables
<1>. QED
  BY <1>1, <1>2, WaiterLeads, ClockLeads DEF Leases, Resting

LEMMA FiredStep ==
  ASSUME TypeOK, Jobs, [Next]_vars PROVE (fired \in Nat /\ fired <= clock)'
<1>1. ASSUME NEW t \in Threads, RecordFire(t)
      PROVE  fired' \in {fired, job[t].cause}
  BY <1>1 DEF RecordFire
<1>2. \A t \in Threads : job[t].cause \in Nat /\ job[t].cause <= clock
  BY DEF Jobs, Sound
<1>. QED
  BY <1>1, <1>2, Frame DEF TypeOK, Jobs, tables, Occur

LEMMA AnchoredStep ==
  ASSUME TypeOK, Placed, Rows, Jobs, Leases, Anchored, [Next]_vars PROVE Anchored'
<1> SUFFICES ASSUME ~setting.slow PROVE Anchored'
  BY Frame DEF Anchored, tables
<1>0. /\ Clocks \subseteq Threads /\ None \notin Threads /\ fired \in Nat
      /\ run \in Seq(RunRow) /\ \A r \in DOMAIN run : run[r].cause \in Nat
      /\ pc = [u \in Threads |-> pc[u]]
      /\ \A t \in Threads : job[t].cause \in Nat /\ (t \notin Clocks => job[t].cause = 0)
  <2>1. run \in Seq(RunRow) /\ \A row \in RunRow : row.cause \in Nat
    BY DEF Rows, RunRow
  <2>2. \A r \in DOMAIN run : run[r].cause \in Nat
    BY <2>1
  <2>. QED
    BY <2>1, <2>2 DEF TypeOK, Threads, Placed, Jobs, Sound
<1>1. CASE \E t \in Threads : RecordFire(t)
  <2>1. PICK t \in Threads : RecordFire(t)
    BY <1>1
  <2>2. /\ t \in Clocks /\ pc[t] = "recording" /\ run' = run /\ job' = job
        /\ pc' = [pc EXCEPT ![t] = pc'[t]]
        /\ \/ fired' = job[t].cause /\ pc'[t] = "opening"
           \/ fired' = fired /\ pc'[t] = "yielding"
    BY <1>0, <2>1 DEF RecordFire, Goto, Placed, Places, Walking, Closing, Threads
  <2>3. \A s \in Clocks \ {t} : pc[s] = "idle" /\ pc'[s] = "idle"
    BY <1>0, <2>2 DEF Leases
  <2>4. fired < job[t].cause /\ FiresOnce /\ \A r \in DOMAIN run : run[r].cause <= fired
    BY <2>2 DEF Anchored
  <2>5. FiresOnce'
    BY <2>2, <2>4 DEF FiresOnce
  <2>6. job[t].cause \in Nat /\ fired \in Nat
    BY <1>0
  <2>7. \A r \in DOMAIN run : run[r].cause <= fired' /\ (fired' # fired => run[r].cause < fired')
    BY <1>0, <2>2, <2>4, <2>6
  <2>8. \A s \in Clocks : pc'[s] # "recording"
    BY <1>0, <2>2, <2>3
  <2>9. \A s \in Clocks : pc'[s] = "opening" =>
          0 < fired' /\ job'[s].cause = fired' /\ \A r \in DOMAIN run : run[r].cause < fired'
    <3>1. ASSUME NEW s \in Clocks, pc'[s] = "opening" PROVE s = t
      BY <2>3, <3>1
    <3>2. ASSUME pc'[t] = "opening"
          PROVE  0 < fired' /\ job'[t].cause = fired' /\ \A r \in DOMAIN run : run[r].cause < fired'
      BY <2>2, <2>4, <2>6, <2>7, <3>2
    <3>. QED
      BY <3>1, <3>2
  <2>. QED
    BY <2>2, <2>5, <2>7, <2>8, <2>9 DEF Anchored
<1>2. ASSUME ~\E t \in Threads : RecordFire(t)
      PROVE  fired' = fired
  BY <1>2, Frame DEF tables
<1>3. ASSUME NEW s \in Clocks, ~\E t \in Threads : RecordFire(t)
      PROVE  /\ pc'[s] = "recording" => fired < job'[s].cause
             /\ pc'[s] = "opening" => pc[s] = "opening" /\ job'[s] = job[s]
  <2>1. s \in Threads
    BY <1>0
  <2>2. CASE pc'[s] = pc[s] /\ job'[s] = job[s]
    BY <2>2 DEF Anchored
  <2>3. CASE Scheduled(s)
    <3>1. pc'[s] # "opening"
      BY <1>3, <2>1, <2>3 DEF Scheduled
    <3>2. ASSUME ListFires(s), pc'[s] = "recording" PROVE fired < job'[s].cause
      BY <1>0, <2>1, <3>2 DEF ListFires, Goto, Keep, NoJob, Jobs
    <3>. QED
      BY <2>3, <3>1, <3>2 DEF Scheduled
  <2>. QED
    BY <2>1, <2>2, <2>3, Moves
<1>4. CASE KeepsCauses /\ ~\E t \in Threads : RecordFire(t)
  <2>1. DOMAIN run' = DOMAIN run /\ \A r \in DOMAIN run : run'[r].cause = run[r].cause
    BY <1>0, <1>4 DEF KeepsCauses
  <2>. QED
    BY <1>2, <1>3, <1>4, <2>1 DEF Anchored, FiresOnce
<1>5. ASSUME NEW t \in Threads, Opens(t), ~\E u \in Threads : RecordFire(u) PROVE Anchored'
  <2>1. /\ DOMAIN run' = DOMAIN run \cup {Len(run) + 1} /\ Len(run) + 1 \notin DOMAIN run
        /\ \A r \in DOMAIN run : run'[r] = run[r]
        /\ run'[Len(run) + 1].cause = job[t].cause
    BY <1>0, <1>5 DEF Opens
  <2>2. pc[t] = "opening" /\ pc'[t] = "walking"
    BY <1>0, <1>5 DEF Opens
  <2>3. CASE t \in Clocks
    <3>1. \A s \in Clocks \ {t} : pc'[s] # "opening"
      BY <1>0, <1>3, <1>5, <2>2, <2>3 DEF Leases
    <3>2. job[t].cause = fired /\ \A r \in DOMAIN run : run[r].cause < fired
      BY <2>2, <2>3 DEF Anchored
    <3>3. FiresOnce'
      <4>1. FiresOnce
        BY DEF Anchored
      <4>. QED
        BY <1>0, <2>1, <3>2, <4>1 DEF FiresOnce
    <3>4. fired' = fired /\ \A r \in DOMAIN run' : run'[r].cause <= fired
      BY <1>0, <1>2, <1>5, <2>1, <3>2
    <3>5. \A s \in Clocks : pc'[s] # "opening"
      BY <2>2, <3>1
    <3>6. \A s \in Clocks : pc'[s] = "recording" => fired < job'[s].cause
      BY <1>3, <1>5
    <3>. QED
      BY <3>3, <3>4, <3>5, <3>6 DEF Anchored
  <2>4. CASE t \notin Clocks
    <3>1. job[t].cause = 0
      BY <1>0, <2>4
    <3>2. \A r \in DOMAIN run : run[r].cause <= fired
      BY DEF Anchored
    <3>3. \A s \in Clocks : pc'[s] = "opening" =>
            /\ 0 < fired /\ job'[s].cause = fired
            /\ \A r \in DOMAIN run : run[r].cause < fired
      BY <1>3, <1>5 DEF Anchored
    <3>4. FiresOnce'
      BY <1>0, <2>1, <3>1 DEF Anchored, FiresOnce
    <3>. QED
      BY <1>0, <1>2, <1>3, <1>5, <2>1, <3>1, <3>2, <3>3, <3>4 DEF Anchored
  <2>. QED
    BY <2>3, <2>4
<1>. QED
  BY <1>1, <1>4, <1>5, RunsStep

-----------------------------------------------------------------------------
(* The invariant, and what follows.                                        *)

LEMMA TypeStep ==
  ASSUME TypeOK, Placed, Rows, Jobs, Leases, [Next]_vars PROVE TypeOK'
<1>1. Pauses'
  BY PausesStep DEF TypeOK, Pauses
<1>2. \A r \in DOMAIN run' : run'[r].status \in {"running", "completed", "failed"}
  <2>1. (run \in Seq(RunRow))' /\ (\A row \in RunRow : row.status \in {"running", "completed", "failed"})'
    BY RowsStep DEF Rows, RunRow
  <2>. QED
    BY <2>1
<1>3. lease' \in [{"wait", "clock"} -> Threads \cup {None}]
  <2>1. ASSUME NEW t \in Threads, MovesLease(t)
        PROVE  lease' \in [{"wait", "clock"} -> Threads \cup {None}]
    BY <2>1 DEF TypeOK, MovesLease, Lead, Yield, LeadClock, YieldClock
  <2>2. ASSUME NEW kind \in {"wait", "clock"}, Lapse(kind)
        PROVE  lease' \in [{"wait", "clock"} -> Threads \cup {None}]
    BY <2>2 DEF TypeOK, Lapse
  <2>. QED
    BY <2>1, <2>2, Frame DEF TypeOK, tables
<1>4. Unacknowledged'
  BY MessagesStep DEF TypeOK, Unacknowledged
<1>. QED
  BY <1>1, <1>2, <1>3, <1>4, FiredStep DEF TypeOK, Pauses, Unacknowledged

LEMMA InitHolds == Init => IInv
<1> SUFFICES ASSUME Init PROVE IInv
  OBVIOUS
<1>1. /\ run = <<>> /\ conv = <<>> /\ waits = {} /\ delays = {} /\ due = {} /\ fired = 0
      /\ clock = 0 /\ nodes = DOMAIN Graph.kind /\ lease = [wait |-> None, clock |-> None]
      /\ pc = [t \in Threads |-> "idle"] /\ job = [t \in Threads |-> NoJob]
      /\ pel = [k \in Consumers |-> {}]
  BY DEF Init
<1>2. TypeOK
  BY <1>1 DEF TypeOK, Idle, Threads
<1>3. Placed
  BY <1>1 DEF Placed, Places
<1>4. Rows
  BY <1>1 DEF Rows, IsList
<1>5. Jobs
  <2>1. ASSUME NEW t \in Threads PROVE Sound(t)
    <3>1. pc[t] = "idle" /\ job[t] = NoJob
      BY <1>1
    <3>2. NoJob.rest = {} /\ NoJob.convs = <<>> /\ NoJob.cause = 0
      BY DEF NoJob
    <3>. QED
      <4>1. pc[t] \notin WithRun
        BY <3>1 DEF WithRun, Walking, Closing
      <4>2. <<>> \in Seq(Nat)
        OBVIOUS
      <4>3. pc[t] \notin {"acting", "registering", "closing"}
        BY <3>1
      <4>4. job[t].cause \in Nat /\ job[t].cause <= clock
        BY <1>1, <3>1, <3>2
      <4>. QED
        BY <3>1, <3>2, <4>1, <4>2, <4>3, <4>4 DEF Sound
  <2>. QED
    BY <1>1, <2>1 DEF Jobs
<1>6. Leases
  BY <1>1 DEF Leases, Resting, Threads
<1>7. Anchored
  BY <1>1 DEF Anchored, FiresOnce, Threads
<1>. QED
  BY <1>2, <1>3, <1>4, <1>5, <1>6, <1>7 DEF IInv

\* The inductive invariant of the automation engine.
THEOREM AutomationInvariance == Spec => []IInv
<1>1. ASSUME IInv, [Next]_vars PROVE IInv'
  BY <1>1, TypeStep, PlacedStep, RowsStep, JobsStep, LeasesStep, AnchoredStep DEF IInv
<1>. QED
  BY <1>1, InitHolds, PTL DEF Spec

\* TypeOK of the automation engine: a pause is of a run, a conversation and a node that
\* exist, whatever crashes, errors and edits fall between the writes of a walk.
THEOREM AutomationTypeCorrect == Spec => []TypeOK
<1>1. IInv => TypeOK
  BY DEF IInv
<1>. QED
  BY <1>1, AutomationInvariance, PTL

\* OneResumer of WaitScheduler: as long as no resumption outlasts the lease, no two
\* schedulers have one delay in hand, whoever dies and whichever lease lapses.
THEOREM DelaysHaveOneResumer == Spec => []OneResumer
<1>1. IInv => OneResumer
  BY DEF IInv, Leases, Resting, OneResumer
<1>. QED
  BY <1>1, AutomationInvariance, PTL

\* FiresOnceInTime of DueDateScheduler and CronScheduler: as long as no tick outlasts its
\* lease, an occurrence starts at most one run, even if a scheduler dies half-way.
THEOREM OccurrencesFireOnce == Spec => []FiresOnceInTime
<1>1. IInv => FiresOnceInTime
  BY DEF IInv, Anchored, FiresOnceInTime
<1>. QED
  BY <1>1, AutomationInvariance, PTL

-----------------------------------------------------------------------------
(* Counting.                                                               *)

LEMMA Fewer ==
  ASSUME NEW A, IsFiniteSet(A), NEW B, B \subseteq A
  PROVE  /\ IsFiniteSet(B) /\ Cardinality(A) \in Nat /\ Cardinality(B) \in Nat
         /\ Cardinality(B) <= Cardinality(A)
BY FS_Subset, FS_CardinalityType

LEMMA OneMore ==
  ASSUME NEW A, IsFiniteSet(A), NEW x, NEW B, B \subseteq A \cup {x}
  PROVE  /\ IsFiniteSet(B) /\ Cardinality(A) \in Nat /\ Cardinality(B) \in Nat
         /\ Cardinality(B) <= Cardinality(A) + 1
<1>1. IsFiniteSet(A \cup {x}) /\ Cardinality(A) \in Nat /\ Cardinality(A \cup {x}) \in Nat
      /\ Cardinality(A \cup {x}) <= Cardinality(A) + 1
  <2>1. IsFiniteSet(A \cup {x}) /\ Cardinality(A) \in Nat
    BY FS_AddElement, FS_CardinalityType
  <2>2. Cardinality(A \cup {x}) = Cardinality(A) \/ Cardinality(A \cup {x}) = Cardinality(A) + 1
    BY FS_AddElement
  <2>. QED
    BY <2>1, <2>2
<1>2. IsFiniteSet(B) /\ Cardinality(B) \in Nat /\ Cardinality(B) <= Cardinality(A \cup {x})
  BY <1>1, Fewer
<1>. QED
  BY <1>1, <1>2

LEMMA OneLess ==
  ASSUME NEW A, IsFiniteSet(A), NEW x \in A, NEW B, B \subseteq A \ {x}
  PROVE  /\ IsFiniteSet(B) /\ Cardinality(A) \in Nat /\ Cardinality(B) \in Nat
         /\ Cardinality(B) + 1 <= Cardinality(A)
<1>1. IsFiniteSet(A \ {x}) /\ Cardinality(A \ {x}) = Cardinality(A) - 1 /\ Cardinality(A) \in Nat
      /\ Cardinality(A \ {x}) \in Nat
  <2>1. IsFiniteSet(A \ {x}) /\ Cardinality(A \ {x}) = Cardinality(A) - 1
    BY FS_RemoveElement
  <2>. QED
    BY <2>1, FS_CardinalityType
<1>2. IsFiniteSet(B) /\ Cardinality(B) \in Nat /\ Cardinality(B) <= Cardinality(A \ {x})
  BY <1>1, Fewer
<1>. QED
  BY <1>1, <1>2

-----------------------------------------------------------------------------
(* Messages and threads.                                                   *)

\* A thread goes on with the message it has in hand, drops it, or acknowledges it.
GoesOn(t) ==
  /\ ~Idle(t) /\ pc'[t] # "idle"
  /\ pc'[t] \in Fresh => pc[t] \in Fresh
  /\ pc'[t] = "opening" => Triggers(job[t].msg)
  /\ pc'[t] \in Hearing => pc[t] \in Hearing
Drops(t) == pel' = pel /\ pc'[t] = "idle" /\ pc[t] \in Fresh \cup Hearing
Acknowledges(t) ==
  pc[t] = "acking" /\ pc'[t] = "idle" /\ pel' = [pel EXCEPT ![t] = @ \ {job[t].msg}]

\* A replica may tell of what an action did; what it reads anew, the tasks that are done
\* and the crashes to come stay the same.
Aside(t) ==
  /\ boot' = boot /\ done' = done
  /\ DOMAIN left' = DOMAIN left /\ left'.crashes = left.crashes
  /\ mail' = mail \/ \E n : Is(n, "action") /\ mail' = mail \cup Graph.tells[n]

Works(t) == Step(t) /\ ~(t \in Consumers /\ Take(t))

LEMMA ThreadAside ==
  ASSUME Budget, NEW t \in Threads, Works(t)
  PROVE  Aside(t)
<1>1. DOMAIN left = {"crashes", "errors", "stops", "removes", "toggles", "lapses"}
  BY DEF Budget
<1> USE <1>1 DEF Aside, worldVars, streamVars
<1>2. CASE Handle(t) \/ HandleExternal(t) \/ HandleSprint(t) \/ Ack(t)
  BY <1>2
  DEF Handle, Goto, HandleExternal, HandleSprint, Ack, Keep
<1>3. CASE Open(t) \/ Resume(t)
  BY <1>3
  DEF Open, Goto, Keep, Over, Erring, Spend, Resume
<1>4. CASE Look(t) \/ Ask(t) \/ FailNode(t) \/ Record(t)
  BY <1>4
  DEF Look, Ask, Reach, FailNode, Record, Erring, Spend
<1>5. CASE Apply(t)
  BY <1>5
  DEF Apply, Reach
<1>6. CASE CreateDelay(t) \/ StartConversation(t)
  BY <1>6
  DEF CreateDelay, Goto, Erring, Spend, StartConversation, Keep
<1>7. CASE CreateWait(t) \/ EndWalk(t)
  BY <1>7
  DEF Goto, Keep, CreateWait, Erring, Spend, EndWalk
<1>9. CASE CountWaits(t) \/ CountDelays(t) \/ Judge(t) \/ Close(t) \/ FailToClose(t)
  BY <1>9
  DEF CountWaits, Goto, Over, CountDelays, Judge, Keep, Close, FailToClose, Erring, Spend
<1>10. CASE Find(t) \/ Note(t) \/ Check(t) \/ Resolve(t) \/ Abandon(t)
  BY <1>10
  DEF Find, Goto, Keep, Note, Check, Resolve, AfterLast, Abandon, Erring, Spend
<1>12. CASE Lead(t) \/ ListDue(t) \/ Renew(t) \/ Revive(t) \/ Clear(t) \/ Yield(t)
  BY <1>12
  DEF Lead, Goto, ListDue, Keep, Renew, Revive, Clear, Erring, Spend, Yield
<1>14. CASE LeadClock(t) \/ ListFires(t) \/ RecordFire(t) \/ YieldClock(t)
  BY <1>14
  DEF LeadClock, Goto, ListFires, Keep, RecordFire, Erring, Spend, YieldClock
<1>. QED
  BY <1>2, <1>3, <1>4, <1>5, <1>6, <1>7, <1>9, <1>10, <1>12, <1>14 DEF Works, Step

LEMMA ReplicaWorks ==
  ASSUME Placed, NEW t \in Consumers, Works(t)
  PROVE  GoesOn(t) \/ Drops(t) \/ Acknowledges(t)
<1>0. pc = [u \in Threads |-> pc[u]] /\ pc[t] \in Places(t) /\ t \in Threads
  BY DEF Placed, Threads
<1>. USE <1>0 DEF GoesOn, Idle, Fresh, Hearing
<1>1. CASE Handle(t) \/ HandleExternal(t) \/ HandleSprint(t)
  BY <1>1 DEF Handle, HandleExternal, HandleSprint, Goto, Triggers
<1>2. CASE Ack(t)
  BY <1>2 DEF Ack, Goto, Acknowledges
<1>3. CASE Open(t)
  <2>1. pc[t] = "opening" /\ pel' = pel /\ pc'[t] \in {"walking", "acking", "idle"}
    BY <1>3 DEF Open, Goto, Over, streamVars
  <2>. QED
    BY <2>1 DEF Drops
<1>4. CASE Look(t) \/ Apply(t) \/ Ask(t) \/ FailNode(t) \/ Record(t)
  <2>1. /\ pc[t] \in {"walking", "acting"}
        /\ pc'[t] \in {"walking", "acting", "pausing", "registering"}
    BY <1>4 DEF Look, Apply, Ask, Reach, FailNode, Record, Goto
  <2>. QED
    BY <2>1
<1>5. CASE Resume(t)
  <2>1. pc[t] = "resuming" /\ pc'[t] \in {"walking", "counting waits", "renewing"}
    BY <1>5 DEF Resume, Goto
  <2>. QED
    BY <2>1
<1>6. CASE CreateDelay(t) \/ StartConversation(t) \/ CreateWait(t) \/ EndWalk(t)
  <2>1. /\ pc[t] \in {"pausing", "acting", "registering", "walking"}
        /\ pc'[t] \in {"walking", "acting", "registering", "clearing", "counting waits"}
    BY <1>6 DEF CreateDelay, StartConversation, CreateWait, EndWalk, Goto
  <2>. QED
    BY <2>1
<1>7. CASE CountWaits(t) \/ CountDelays(t) \/ Judge(t) \/ Close(t) \/ FailToClose(t)
  <2>1. /\ pc[t] \in {"counting waits", "counting delays", "judging", "closing"}
        /\ pc'[t] \in {"counting delays", "judging", "closing", "acking"}
    BY <1>7 DEF CountWaits, CountDelays, Judge, Close, FailToClose, Goto, Over
  <2>. QED
    BY <2>1
<1>8. CASE Find(t) \/ Note(t) \/ Check(t) \/ Resolve(t)
  <2>1. /\ pc[t] \in {"finding", "noting", "checking", "resolving"}
        /\ pc'[t] \in {"noting", "acking", "resolving", "counting waits", "resuming", "checking"}
        /\ pc[t] = "checking" => pc'[t] \in {"counting waits", "resuming"}
    BY <1>8 DEF Find, Note, Check, Resolve, AfterLast, Goto
  <2>. QED
    BY <2>1
<1>9. CASE Abandon(t)
  <2>1. pc[t] \in Fresh \cup Hearing /\ pc'[t] = "idle" /\ pel' = pel
    BY <1>9 DEF Abandon, Goto, streamVars
  <2>. QED
    BY <2>1 DEF Drops
<1>10. CASE Lead(t) \/ ListDue(t) \/ Renew(t) \/ Revive(t) \/ Clear(t) \/ Yield(t)
  BY <1>10
  DEF Lead, ListDue, Renew, Revive, Clear, Yield, Goto, Places, Walking, Closing
<1>11. CASE LeadClock(t) \/ ListFires(t) \/ RecordFire(t) \/ YieldClock(t)
  BY <1>11
  DEF LeadClock, ListFires, RecordFire, YieldClock, Goto, Places, Walking, Closing
<1>. QED
  BY <1>1, <1>2, <1>3, <1>4, <1>5, <1>6, <1>7, <1>8, <1>9, <1>10, <1>11 DEF Works, Step

\* Who is no replica reads and acknowledges nothing.
LEMMA OthersRead ==
  ASSUME Placed, Jobs, NEW t \in Threads, Works(t)
  PROVE  \A k \in Consumers \ {t} : pel'[k] = pel[k]
BY ThreadListens DEF Listened, Works

-----------------------------------------------------------------------------
(* What a replica reads again.                                             *)

LEMMA OneReads ==
  ASSUME NEW k, Reads(k), UNCHANGED <<pc[k], job[k], pel[k], boot[k]>>
  PROVE  Reads(k)'
BY DEF Reads, Idle

LEMMA WorkReads ==
  ASSUME Placed, Jobs, Streams, Budget, NEW t \in Threads, Works(t)
  PROVE  Streams'
<1>1. boot' = boot /\ Moved(t) /\ Listened(t)
  BY ThreadAside, ThreadMoves, ThreadListens DEF Aside, Works
<1>2. \A k \in Consumers : k \in Threads
  BY DEF Threads
<1>3. ASSUME NEW k \in Consumers \ {t} PROVE Reads(k)'
  <2>1. pc'[k] = pc[k] /\ job'[k] = job[k] /\ pel'[k] = pel[k] /\ boot'[k] = boot[k]
    BY <1>1, <1>2 DEF Moved, Listened, Placed, Jobs
  <2>. QED
    BY <2>1, OneReads DEF Streams
<1>4. ASSUME t \in Consumers PROVE Reads(t)'
  <2>1. Reads(t)
    BY <1>4 DEF Streams
  <2>2. CASE GoesOn(t)
    <3>1. job'[t].msg = job[t].msg /\ pel'[t] = pel[t]
      BY <1>1, <1>4, <2>2 DEF GoesOn, Listened, Works
    <3>. QED
      BY <1>1, <2>1, <2>2, <3>1 DEF GoesOn, Reads, Idle
  <2>3. CASE Drops(t)
    BY <1>1, <2>1, <2>3 DEF Drops, Reads, Idle, Hearing
  <2>4. CASE Acknowledges(t)
    <3>1. pel'[t] = pel[t] \ {job[t].msg}
      BY <1>4, <2>4 DEF Acknowledges, Jobs
    <3>. QED
      BY <1>1, <2>1, <2>4, <3>1 DEF Acknowledges, Reads, Idle, Hearing
  <2>. QED
    BY <1>4, <2>2, <2>3, <2>4, ReplicaWorks
<1>. QED
  BY <1>1, <1>3, <1>4 DEF Streams

LEMMA TakeReads ==
  ASSUME Placed, Jobs, Streams, NEW t \in Consumers, Take(t)
  PROVE  /\ Streams'
         /\ \E m : /\ boot[t] = {} => m \in mail
                   /\ boot[t] # {} => m \in boot[t]
                   /\ job'[t].msg = m /\ pel'[t] = pel[t] \cup {m} /\ mail' = mail \ {m}
                   /\ pc[t] = "idle"
                   /\ pc'[t] = IF m.kind = "ended" THEN "finding" ELSE "handling"
<1>0. t \in Threads /\ pc = [u \in Threads |-> pc[u]] /\ job = [u \in Threads |-> job[u]]
      /\ pel = [k \in Consumers |-> pel[k]] /\ boot = [k \in Consumers |-> boot[k]]
      /\ Consumers \subseteq Threads
  BY DEF Threads, Placed, Jobs, Streams
<1>1. PICK m \in (IF boot[t] # {} THEN boot[t] ELSE mail) :
        /\ pc[t] = "idle"
        /\ pc' = [pc EXCEPT ![t] = IF m.kind = "ended" THEN "finding" ELSE "handling"]
        /\ job' = [job EXCEPT ![t] = [NoJob EXCEPT !.msg = m]]
        /\ mail' = mail \ {m}
        /\ pel' = [pel EXCEPT ![t] = @ \cup {m}]
        /\ boot' = [boot EXCEPT ![t] = @ \ {m}]
  BY DEF Take, Goto, Keep
<1>2. /\ job'[t].msg = m /\ pel'[t] = pel[t] \cup {m} /\ boot'[t] = boot[t] \ {m}
      /\ pc'[t] = IF m.kind = "ended" THEN "finding" ELSE "handling"
  BY <1>0, <1>1 DEF NoJob
<1>3. ASSUME NEW k \in Consumers \ {t} PROVE Reads(k)'
  <2>1. pc'[k] = pc[k] /\ job'[k] = job[k] /\ pel'[k] = pel[k] /\ boot'[k] = boot[k]
    BY <1>0, <1>1
  <2>. QED
    BY <2>1, OneReads DEF Streams
<1>4. Reads(t)'
  <2>1. boot[t] \subseteq pel[t]
    BY DEF Streams, Reads
  <2>. QED
    BY <1>2, <2>1 DEF Reads, Idle, Hearing
<1>5. boot' = [k \in Consumers |-> boot'[k]]
  BY <1>0, <1>1
<1>. QED
  BY <1>1, <1>2, <1>3, <1>4, <1>5 DEF Streams

LEMMA CrashReads ==
  ASSUME Placed, Jobs, Streams, NEW t \in Threads, Crash(t) PROVE Streams'
<1>0. pc = [u \in Threads |-> pc[u]] /\ job = [u \in Threads |-> job[u]]
      /\ Consumers \subseteq Threads
  BY DEF Threads, Placed, Jobs
<1>1. /\ pc' = [pc EXCEPT ![t] = "idle"] /\ job' = [job EXCEPT ![t] = NoJob] /\ pel' = pel
      /\ boot' = [k \in Consumers |-> IF k = t THEN pel[k] ELSE boot[k]]
  BY DEF Crash, Keep
<1>2. ASSUME NEW k \in Consumers, k # t PROVE Reads(k)'
  <2>1. pc'[k] = pc[k] /\ job'[k] = job[k] /\ pel'[k] = pel[k] /\ boot'[k] = boot[k]
    BY <1>0, <1>1, <1>2
  <2>. QED
    BY <2>1, OneReads DEF Streams
<1>3. ASSUME t \in Consumers PROVE Reads(t)'
  BY <1>0, <1>1, <1>3 DEF Reads, Idle, Hearing
<1>. QED
  BY <1>1, <1>2, <1>3 DEF Streams

\* What goes on around the engine takes nothing from a replica; the users' tasks and the
\* ends of conversations reach the stream.
Around ==
  /\ UNCHANGED <<pc, job, pel, boot>>
  /\ DOMAIN left' = DOMAIN left /\ left'.crashes = left.crashes
  /\ \/ done' = done /\ (mail' = mail \/ \E c, s, who : mail' = mail \cup {Ended(c, s, who)})
     \/ \E i \in setting.watched \ done : done' = done \cup {i} /\ mail' = mail \cup {Finished(i)}

LEMMA WorldAround ==
  ASSUME Budget, [Next]_vars, ~\E t \in Threads : Step(t) \/ Crash(t)
  PROVE  Around
<1>0. DOMAIN left = {"crashes", "errors", "stops", "removes", "toggles", "lapses"}
  BY DEF Budget
<1> USE <1>0 DEF Around, streamVars, worldVars, Spend
<1>1. CASE \E c \in DOMAIN conv : EndConversation(c) \/ StopConversation(c)
  <2>1. PICK c : EndConversation(c) \/ StopConversation(c)
    BY <1>1
  <2>2. \E s, who : mail' = mail \cup {Ended(c, s, who)}
    BY <2>1 DEF EndConversation, StopConversation
  <2>3. UNCHANGED <<pc, job, pel, boot, done>> /\ DOMAIN left' = DOMAIN left /\ left'.crashes = left.crashes
    BY <2>1 DEF EndConversation, StopConversation
  <2>. QED
    BY <2>2, <2>3
<1>2. CASE (\E d \in delays : FallDue(d)) \/ Occur \/ Toggle
  BY <1>2 DEF FallDue, Occur, Toggle
<1>3. CASE \E i \in setting.watched : FinishTask(i)
  BY <1>3 DEF FinishTask
<1>4. CASE \E kind \in {"wait", "clock"} : Lapse(kind)
  BY <1>4 DEF Lapse
<1>5. CASE \E n \in nodes : RemoveNode(n)
  BY <1>5 DEF RemoveNode
<1>6. CASE UNCHANGED vars
  BY <1>6 DEF vars
<1>. QED
  BY <1>1, <1>2, <1>3, <1>4, <1>5, <1>6 DEF Next

LEMMA StreamsStep ==
  ASSUME Placed, Jobs, Streams, Budget, [Next]_vars PROVE Streams'
<1>1. ASSUME NEW t \in Threads, Step(t) \/ Crash(t) PROVE Streams'
  BY <1>1, WorkReads, TakeReads, CrashReads DEF Works, Budget
<1>2. CASE ~\E t \in Threads : Step(t) \/ Crash(t)
  BY <1>2, WorldAround, OneReads DEF Budget, Around, Streams
<1>. QED
  BY <1>1, <1>2

LEMMA BudgetStep ==
  ASSUME Jobs, Budget, [Next]_vars PROVE Budget'
<1>1. setting' = setting /\ clock \in Nat /\ (clock' = clock \/ Occur)
  BY Frame DEF tables, Jobs, RemoveNode
<1>2. setting.occurrences \in Nat /\ clock' <= setting.occurrences
  BY <1>1, SettingsAssumption DEF Budget, Occur
<1>3. DOMAIN left' = DOMAIN left /\ left'.crashes \in Nat /\ done' \subseteq setting.watched
  <2>1. ASSUME NEW t \in Threads, Works(t)
        PROVE  DOMAIN left' = DOMAIN left /\ left'.crashes \in Nat /\ done' \subseteq setting.watched
    BY <2>1, ThreadAside DEF Aside, Budget
  <2>2. ASSUME NEW t \in Consumers, Take(t)
        PROVE  DOMAIN left' = DOMAIN left /\ left'.crashes \in Nat /\ done' \subseteq setting.watched
    BY <2>2 DEF Take, Budget, worldVars
  <2>3. ASSUME NEW t \in Threads, Crash(t)
        PROVE  DOMAIN left' = DOMAIN left /\ left'.crashes \in Nat /\ done' \subseteq setting.watched
    BY <2>3 DEF Crash, Spend, Budget, worldVars
  <2>4. CASE ~\E t \in Threads : Step(t) \/ Crash(t)
    BY <2>4, WorldAround DEF Budget, Around
  <2>. QED
    BY <2>1, <2>2, <2>3, <2>4 DEF Works
<1>. QED
  BY <1>1, <1>2, <1>3 DEF Budget

-----------------------------------------------------------------------------
(* What may still open a run.                                              *)

LEMMA PendingPairs ==
  /\ \A p \in Pending : p = <<p[1], p[2]>> /\ p[1] \in Consumers /\ p[2] \in Unused(p[1])
  /\ \A k \in Consumers : \A m \in Unused(k) : <<k, m>> \in Pending
BY DEF Pending

LEMMA PendingShrinks ==
  ASSUME \A k \in Consumers : Unused(k)' \subseteq Unused(k) PROVE Pending' \subseteq Pending
BY DEF Pending

LEMMA PendingGrows ==
  ASSUME NEW t, NEW m, \A k \in Consumers : Unused(k)' \subseteq Unused(k) \cup (IF k = t THEN {m} ELSE {})
  PROVE  Pending' \subseteq Pending \cup {<<t, m>>}
BY DEF Pending

LEMMA PendingUsed ==
  ASSUME NEW t \in Consumers, NEW m \in Unused(t), m \notin Unused(t)',
         \A k \in Consumers : Unused(k)' \subseteq Unused(k)
  PROVE  <<t, m>> \in Pending /\ Pending' \subseteq Pending \ {<<t, m>>}
<1>1. <<t, m>> \in Pending /\ Pending' \subseteq Pending
  BY PendingPairs, PendingShrinks
<1>2. <<t, m>> \notin Pending'
  BY DEF Pending
<1>. QED
  BY <1>1, <1>2

LEMMA WorkUnused ==
  ASSUME Placed, Jobs, Streams, NEW t \in Threads, Works(t)
  PROVE  \A k \in Consumers : Unused(k)' \subseteq Unused(k)
<1>1. Moved(t) /\ Listened(t) /\ Consumers \subseteq Threads
  BY ThreadMoves, ThreadListens DEF Works, Threads
<1>2. ASSUME NEW k \in Consumers \ {t} PROVE Unused(k)' = Unused(k)
  BY <1>1 DEF Moved, Listened, Placed, Jobs, Unused
<1>3. ASSUME t \in Consumers PROVE Unused(t)' \subseteq Unused(t)
  <2>1. CASE GoesOn(t)
    <3>1. job'[t].msg = job[t].msg /\ pel'[t] = pel[t]
      BY <1>1, <1>3, <2>1 DEF GoesOn, Listened, Works
    <3>. QED
      BY <2>1, <3>1 DEF GoesOn, Unused
  <2>2. CASE Drops(t)
    <3>1. pc[t] \in Hearing => ~Triggers(job[t].msg)
      BY <1>3 DEF Streams, Reads, Triggers
    <3>. QED
      BY <2>2, <3>1 DEF Drops, Unused
  <2>3. CASE Acknowledges(t)
    <3>1. pel'[t] = pel[t] \ {job[t].msg}
      BY <1>3, <2>3 DEF Acknowledges, Jobs
    <3>. QED
      BY <3>1 DEF Unused
  <2>. QED
    BY <1>3, <2>1, <2>2, <2>3, ReplicaWorks
<1>. QED
  BY <1>2, <1>3

LEMMA TakeUnused ==
  ASSUME Placed, Jobs, Streams, NEW t \in Consumers, Take(t),
         IsFiniteSet(Unread), IsFiniteSet(Pending)
  PROVE  /\ IsFiniteSet(Unread)' /\ IsFiniteSet(Pending)'
         /\ (Cardinality(Unread) + Cardinality(Pending))' <= Cardinality(Unread) + Cardinality(Pending)
<1>1. PICK m : /\ boot[t] = {} => m \in mail
               /\ boot[t] # {} => m \in boot[t]
               /\ job'[t].msg = m /\ pel'[t] = pel[t] \cup {m} /\ mail' = mail \ {m}
               /\ pc[t] = "idle"
               /\ pc'[t] = IF m.kind = "ended" THEN "finding" ELSE "handling"
  BY TakeReads
<1>2. /\ Moved(t) /\ Listened(t) /\ Consumers \subseteq Threads /\ boot[t] \subseteq pel[t]
      /\ t \in Threads
  BY ThreadMoves, ThreadListens DEF Step, Threads, Streams, Reads
<1>3. \A k \in Consumers \ {t} : Unused(k)' = Unused(k)
  BY <1>2 DEF Moved, Listened, Placed, Jobs, Unused
<1>4. /\ Unused(t)' \subseteq Unused(t) \cup {m}
      /\ ~Triggers(m) \/ boot[t] # {} => Unused(t)' \subseteq Unused(t)
  BY <1>1, <1>2 DEF Unused, Fresh, Triggers
<1>5. CASE ~Triggers(m) \/ boot[t] # {}
  <2>1. Unread' \subseteq Unread /\ Pending' \subseteq Pending
    BY <1>1, <1>3, <1>4, <1>5, PendingShrinks DEF Unread
  <2>. QED
    BY <2>1, Fewer
<1>6. CASE Triggers(m) /\ boot[t] = {}
  <2>1. m \in Unread /\ Unread' \subseteq Unread \ {m}
    BY <1>1, <1>6 DEF Unread
  <2>2. Pending' \subseteq Pending \cup {<<t, m>>}
    BY <1>3, <1>4, PendingGrows
  <2>3. /\ IsFiniteSet(Unread') /\ Cardinality(Unread) \in Nat /\ Cardinality(Unread') \in Nat
        /\ Cardinality(Unread') + 1 <= Cardinality(Unread)
    BY <2>1, OneLess
  <2>4. /\ IsFiniteSet(Pending') /\ Cardinality(Pending) \in Nat /\ Cardinality(Pending') \in Nat
        /\ Cardinality(Pending') <= Cardinality(Pending) + 1
    BY <2>2, OneMore
  <2>. QED
    BY <2>3, <2>4
<1>. QED
  BY <1>5, <1>6

LEMMA CrashUnused ==
  ASSUME Placed, Jobs, NEW t \in Threads, Crash(t), IsFiniteSet(Pending)
  PROVE  IsFiniteSet(Pending)' /\ Cardinality(Pending') <= Cardinality(Pending) + 1
<1>1. pel' = pel /\ Moved(t) /\ Consumers \subseteq Threads
  BY ThreadMoves DEF Crash, Threads
<1>2. \A k \in Consumers \ {t} : Unused(k)' = Unused(k)
  BY <1>1 DEF Moved, Placed, Jobs, Unused
<1>3. Unused(t)' \subseteq Unused(t) \cup {job[t].msg}
  BY <1>1 DEF Unused
<1>4. Pending' \subseteq Pending \cup {<<t, job[t].msg>>}
  BY <1>2, <1>3, PendingGrows
<1>. QED
  BY <1>4, OneMore

\* An occurrence that is recorded opens one run or none: there is one clock at a time.
LEMMA RecordedStep ==
  ASSUME TypeOK, Placed, Jobs, Leases, Anchored, ~setting.slow, [Next]_vars
  PROVE  /\ Recorded \in {0, 1} /\ Recorded' \in {0, 1} /\ fired \in Nat /\ fired' \in Nat
         /\ Recorded' + fired <= Recorded + fired'
         /\ \A t \in Clocks : Opens(t) => fired' = fired /\ Recorded = 1 /\ Recorded' = 0
<1>0. /\ Clocks \subseteq Threads /\ None \notin Threads /\ pc = [u \in Threads |-> pc[u]]
      /\ fired \in Nat /\ \A t \in Threads : job[t].cause \in Nat
  BY DEF Threads, Placed, TypeOK, Jobs, Sound
<1>1. Recorded \in {0, 1} /\ Recorded' \in {0, 1}
  BY DEF Recorded
<1>2. \A s, u \in Clocks : pc[s] # "idle" /\ pc[u] # "idle" => s = u
  BY DEF Leases
<1>3. ASSUME NEW t \in Threads, RecordFire(t), fired' # fired
      PROVE  fired' \in Nat /\ fired' > fired /\ Recorded = 0
  <2>1. t \in Clocks /\ pc[t] = "recording" /\ fired' = job[t].cause
    BY <1>0, <1>3 DEF RecordFire, Goto, Placed, Places, Walking, Closing, Threads
  <2>2. \A s \in Clocks : pc[s] # "opening"
    BY <1>2, <2>1
  <2>. QED
    BY <1>0, <2>1, <2>2 DEF Anchored, Recorded
<1>4. ASSUME ~\E t \in Threads : RecordFire(t) /\ fired' # fired PROVE fired' = fired
  BY <1>4, Frame DEF tables
<1>5. ASSUME NEW s \in Clocks, fired' = fired, pc'[s] = "opening" PROVE pc[s] = "opening"
  <2>1. CASE pc'[s] = pc[s]
    BY <1>5, <2>1
  <2>2. CASE RecordFire(s)
    <3>1. pc[s] = "recording" /\ fired' = job[s].cause
      BY <1>0, <1>5, <2>2 DEF RecordFire, Goto
    <3>2. FALSE
      BY <1>0, <1>5, <3>1 DEF Anchored
    <3>. QED
      BY <3>2
  <2>. QED
    BY <1>0, <1>5, <2>1, <2>2, Moves DEF Scheduled
<1>6. CASE fired' = fired
  <2>1. Recorded' <= Recorded
    BY <1>5, <1>6 DEF Recorded
  <2>2. ASSUME NEW t \in Clocks, Opens(t) PROVE Recorded = 1 /\ Recorded' = 0
    <3>1. pc[t] = "opening" /\ pc'[t] = "walking"
      BY <1>0, <2>2 DEF Opens
    <3>2. \A s \in Clocks : pc'[s] # "opening"
      BY <1>2, <1>5, <1>6, <3>1
    <3>. QED
      BY <3>1, <3>2 DEF Recorded
  <2>. QED
    BY <1>0, <1>1, <1>6, <2>1, <2>2
<1>7. CASE fired' # fired
  <2>1. PICK t \in Threads : RecordFire(t)
    BY <1>4, <1>7
  <2>2. run' = run
    BY <2>1 DEF RecordFire
  <2>3. \A u \in Clocks : ~Opens(u)
    BY <2>1 DEF RecordFire, Goto, Opens, Placed
  <2>. QED
    BY <1>0, <1>1, <1>3, <1>7, <2>1, <2>3
<1>. QED
  BY <1>6, <1>7

-----------------------------------------------------------------------------
(* The invariant, and what follows.                                        *)

\* The messages and the tasks that may still open a run.
Trace == Cardinality(Unread) + Cardinality(Pending) + Cardinality(setting.watched \ done)
         + left.crashes

LEMMA Numbers ==
  ASSUME TypeOK, Jobs, Rows, Budget, IsFiniteSet(Unread), IsFiniteSet(Pending)
  PROVE  /\ Len(run) \in Nat /\ Cardinality(Unread) \in Nat /\ Cardinality(Pending) \in Nat
         /\ IsFiniteSet(setting.watched \ done) /\ Cardinality(setting.watched \ done) \in Nat
         /\ left.crashes \in Nat /\ setting.occurrences \in Nat /\ fired \in Nat
         /\ fired <= setting.occurrences /\ Causes \in Nat
<1>1. /\ setting.crashes \in Nat /\ setting.occurrences \in Nat /\ IsFiniteSet(setting.events)
      /\ IsFiniteSet(setting.watched)
  BY SettingsAssumption DEF Budget
<1>2. IsFiniteSet(setting.watched \ done)
  BY <1>1, Fewer
<1>3. Causes \in Nat
  BY <1>1, FS_CardinalityType DEF Causes
<1>4. fired \in Nat /\ fired <= setting.occurrences
  BY <1>1 DEF TypeOK, Jobs, Budget
<1>. QED
  BY <1>1, <1>2, <1>3, <1>4, FS_CardinalityType DEF Rows, Budget

\* A replica that opens a run has used up the message for which it does.
LEMMA OpenUses ==
  ASSUME TypeOK, Placed, Jobs, Streams, NEW t \in Consumers, Works(t), Opens(t), IsFiniteSet(Pending)
  PROVE  Cardinality(Pending') + 1 <= Cardinality(Pending) /\ IsFiniteSet(Pending')
         /\ Cardinality(Pending') \in Nat /\ Cardinality(Pending) \in Nat
<1>0. t \in Threads
  BY DEF Threads
<1>1. pc[t] = "opening" /\ pc'[t] = "walking"
  BY <1>0 DEF Opens, Placed
<1>2. job[t].msg \in Unused(t)
  BY <1>1 DEF TypeOK, Idle, Streams, Reads, Unused, Fresh
<1>3. job'[t].msg = job[t].msg
  BY <1>0, <1>1, ThreadListens DEF Works, Listened
<1>4. job[t].msg \notin Unused(t)'
  BY <1>1, <1>3 DEF Unused, Fresh
<1>5. <<t, job[t].msg>> \in Pending /\ Pending' \subseteq Pending \ {<<t, job[t].msg>>}
  BY <1>0, <1>2, <1>4, WorkUnused, PendingUsed
<1>. QED
  BY <1>5, OneLess

\* The message a run was opened for is gone; nothing else brings back a message but a
\* crash, and nothing brings a new one but a task that is done.
LEMMA TraceStep ==
  ASSUME IInv, Streams, Budget, OwnWritesIgnored, IsFiniteSet(Unread), IsFiniteSet(Pending), [Next]_vars
  PROVE  /\ IsFiniteSet(Unread') /\ IsFiniteSet(Pending') /\ Trace \in Nat /\ Trace' \in Nat
         /\ Trace' <= Trace
         /\ \A t \in Consumers : Opens(t) => Trace' + 1 <= Trace
<1>0. /\ setting' = setting /\ TypeOK /\ Jobs /\ Rows /\ Placed /\ Consumers \subseteq Threads
      /\ Cardinality(Unread) \in Nat /\ Cardinality(Pending) \in Nat /\ left.crashes \in Nat
      /\ IsFiniteSet(setting.watched \ done) /\ Cardinality(setting.watched \ done) \in Nat
  BY Numbers, Frame DEF IInv, tables, RemoveNode, Threads
<1>1. ASSUME NEW t \in Threads, Works(t)
      PROVE  /\ IsFiniteSet(Unread') /\ IsFiniteSet(Pending') /\ Trace \in Nat /\ Trace' \in Nat
             /\ Trace' <= Trace
             /\ \A u \in Consumers : Opens(u) => Trace' + 1 <= Trace
  <2>1. Aside(t) /\ Moved(t)
    BY <1>0, <1>1, ThreadAside, ThreadMoves DEF Works
  <2>2. Unread' \subseteq Unread
    BY <2>1 DEF Aside, OwnWritesIgnored, Unread, Is
  <2>3. /\ IsFiniteSet(Unread') /\ Cardinality(Unread') \in Nat
        /\ Cardinality(Unread') <= Cardinality(Unread)
    BY <2>2, Fewer
  <2>4. /\ IsFiniteSet(Pending') /\ Cardinality(Pending') \in Nat
        /\ Cardinality(Pending') <= Cardinality(Pending)
    BY <1>0, <1>1, WorkUnused, PendingShrinks, Fewer
  <2>5. setting'.watched \ done' = setting.watched \ done /\ left'.crashes = left.crashes
    BY <1>0, <2>1 DEF Aside
  <2>6. ASSUME NEW u \in Consumers, Opens(u)
        PROVE  Cardinality(Pending') + 1 <= Cardinality(Pending)
    <3>1. u = t
      BY <1>0, <2>1, <2>6 DEF Opens, Moved, Placed
    <3>. QED
      BY <1>0, <1>1, <2>6, <3>1, OpenUses
  <2>7. Trace = Cardinality(Unread) + Cardinality(Pending)
                + Cardinality(setting.watched \ done) + left.crashes
    BY DEF Trace
  <2>8. Trace' = Cardinality(Unread') + Cardinality(Pending')
                 + Cardinality(setting.watched \ done) + left.crashes
    BY <2>5 DEF Trace
  <2>9. Trace \in Nat /\ Trace' \in Nat /\ Trace' <= Trace
    BY <1>0, <2>3, <2>4, <2>7, <2>8
  <2>10. ASSUME NEW u \in Consumers, Opens(u) PROVE Trace' + 1 <= Trace
    <3>1. Cardinality(Pending') + 1 <= Cardinality(Pending)
      BY <2>6, <2>10
    <3>. QED
      BY <1>0, <2>3, <2>4, <2>7, <2>8, <3>1
  <2>. QED
    BY <2>3, <2>4, <2>9, <2>10
<1>2. ASSUME NEW t \in Threads, Moved(t), pc[t] # "opening" \/ pc'[t] # "walking"
      PROVE  \A u \in Consumers : ~Opens(u)
  BY <1>0, <1>2 DEF Opens, Moved, Placed
<1>3. ASSUME NEW t \in Consumers, Take(t)
      PROVE  /\ IsFiniteSet(Unread') /\ IsFiniteSet(Pending') /\ Trace \in Nat /\ Trace' \in Nat
             /\ Trace' <= Trace
             /\ \A u \in Consumers : Opens(u) => Trace' + 1 <= Trace
  <2>1. /\ IsFiniteSet(Unread') /\ IsFiniteSet(Pending')
        /\ Cardinality(Unread') + Cardinality(Pending') <= Cardinality(Unread) + Cardinality(Pending)
    BY <1>0, <1>3, TakeUnused
  <2>2. UNCHANGED <<done, left>> /\ pc[t] = "idle"
    BY <1>3 DEF Take, Goto, worldVars
  <2>3. \A u \in Consumers : ~Opens(u)
    BY <1>0, <1>2, <1>3, <2>2, ThreadMoves DEF Step
  <2>4. Cardinality(Unread') \in Nat /\ Cardinality(Pending') \in Nat
    BY <2>1, FS_CardinalityType
  <2>5. Trace = Cardinality(Unread) + Cardinality(Pending)
                + Cardinality(setting.watched \ done) + left.crashes
    BY DEF Trace
  <2>6. Trace' = Cardinality(Unread') + Cardinality(Pending')
                 + Cardinality(setting.watched \ done) + left.crashes
    BY <1>0, <2>2 DEF Trace
  <2>. QED
    BY <1>0, <2>1, <2>3, <2>4, <2>5, <2>6
<1>4. ASSUME NEW t \in Threads, Crash(t)
      PROVE  /\ IsFiniteSet(Unread') /\ IsFiniteSet(Pending') /\ Trace \in Nat /\ Trace' \in Nat
             /\ Trace' <= Trace
             /\ \A u \in Consumers : Opens(u) => Trace' + 1 <= Trace
  <2>1. IsFiniteSet(Pending') /\ Cardinality(Pending') <= Cardinality(Pending) + 1
        /\ Cardinality(Pending') \in Nat
    BY <1>0, <1>4, CrashUnused, FS_CardinalityType
  <2>2. UNCHANGED <<done, mail>>
    BY <1>4 DEF Crash, worldVars
  <2>3. left'.crashes = left.crashes - 1 /\ left.crashes > 0
    BY <1>4 DEF Crash, Spend, Budget
  <2>4. \A u \in Consumers : ~Opens(u)
    <3>1. Moved(t) /\ pc'[t] = "idle"
      BY <1>0, <1>4, ThreadMoves DEF Crash, Placed
    <3>. QED
      BY <1>2, <3>1
  <2>5. Unread' = Unread
    BY <2>2 DEF Unread
  <2>. QED
    BY <1>0, <2>1, <2>2, <2>3, <2>4, <2>5 DEF Trace
<1>5. ASSUME ~\E t \in Threads : Step(t) \/ Crash(t)
      PROVE  /\ IsFiniteSet(Unread') /\ IsFiniteSet(Pending') /\ Trace \in Nat /\ Trace' \in Nat
             /\ Trace' <= Trace
             /\ \A u \in Consumers : Opens(u) => Trace' + 1 <= Trace
  <2>1. Around
    BY <1>5, WorldAround
  <2>2. \A u \in Consumers : ~Opens(u)
    BY <1>0, <2>1 DEF Around, Opens, Placed
  <2>3. Pending' = Pending /\ left'.crashes = left.crashes
    BY <2>1 DEF Around, Pending, Unused
  <2>4. CASE done' = done
    <3>1. Unread' \subseteq Unread
      BY <2>1, <2>4 DEF Around, Unread, Ended, Triggers
    <3>2. /\ IsFiniteSet(Unread') /\ Cardinality(Unread') \in Nat
          /\ Cardinality(Unread') <= Cardinality(Unread)
      BY <3>1, Fewer
    <3>. QED
      BY <1>0, <2>2, <2>3, <2>4, <3>2 DEF Trace
  <2>5. CASE done' # done
    <3>1. PICK i \in setting.watched \ done :
            done' = done \cup {i} /\ mail' = mail \cup {Finished(i)}
      BY <2>1, <2>5 DEF Around
    <3>2. Unread' \subseteq Unread \cup {Finished(i)}
      BY <3>1 DEF Unread
    <3>3. setting.watched \ done' \subseteq (setting.watched \ done) \ {i}
      BY <3>1
    <3>4. /\ IsFiniteSet(Unread') /\ Cardinality(Unread') \in Nat
          /\ Cardinality(Unread') <= Cardinality(Unread) + 1
      BY <3>2, OneMore
    <3>5. /\ Cardinality(setting.watched \ done') \in Nat
          /\ Cardinality(setting.watched \ done') + 1 <= Cardinality(setting.watched \ done)
      BY <1>0, <3>1, <3>3, OneLess
    <3>. QED
      BY <1>0, <2>2, <2>3, <3>4, <3>5 DEF Trace
  <2>. QED
    BY <2>4, <2>5
<1>. QED
  BY <1>1, <1>3, <1>4, <1>5 DEF Works

\* What the runs, the chances of a message or a task, of a recorded occurrence and of one
\* to come add up to, when so many runs are opened.
LEMMA Sums ==
  ASSUME NEW a \in Nat, NEW b \in Nat, NEW r \in {0, 1}, NEW q \in {0, 1}, NEW f \in Nat,
         NEW g \in Nat, NEW o \in Nat, NEW l \in Nat, NEW n \in {0, 1}, NEW c \in Nat,
         g <= o, l + (a + r + (o - f)) <= c,
         b <= a, q + f <= r + g, n = 1 => (b + 1 <= a) \/ (g = f /\ r = 1 /\ q = 0)
  PROVE  (l + n) + (b + q + (o - g)) <= c
<1>1. b + q + f + n <= a + r + g
  OBVIOUS
<1>. QED
  BY <1>1

LEMMA AccountedStep ==
  ASSUME IInv, Streams, Budget, OwnWritesIgnored, Accounted, [Next]_vars, IInv', Budget'
  PROVE  Accounted'
<1>0. /\ IsFiniteSet(Unread) /\ IsFiniteSet(Pending) /\ Len(run) + Chances <= Causes
      /\ setting' = setting /\ TypeOK /\ Placed /\ Jobs /\ Rows /\ Leases /\ Anchored /\ ~setting.slow
  BY Frame DEF Accounted, IInv, OwnWritesIgnored, tables, RemoveNode
<1>1. /\ IsFiniteSet(Unread') /\ IsFiniteSet(Pending') /\ Trace \in Nat /\ Trace' \in Nat
      /\ Trace' <= Trace
      /\ \A t \in Consumers : Opens(t) => Trace' + 1 <= Trace
  BY <1>0, TraceStep
<1>2. /\ Recorded \in {0, 1} /\ Recorded' \in {0, 1} /\ fired \in Nat /\ fired' \in Nat
      /\ Recorded' + fired <= Recorded + fired'
      /\ \A t \in Clocks : Opens(t) => fired' = fired /\ Recorded = 1 /\ Recorded' = 0
  BY <1>0, RecordedStep
<1>3. Len(run) \in Nat /\ Causes \in Nat /\ setting.occurrences \in Nat
  BY <1>0, Numbers
<1>4. PICK o \in Nat : o = setting.occurrences
  BY <1>3
<1>5. Causes' = Causes
  BY <1>0 DEF Causes
<1>6. /\ Trace \in Nat /\ Trace' \in Nat /\ Trace' <= Trace
      /\ Recorded \in {0, 1} /\ Recorded' \in {0, 1} /\ fired \in Nat /\ fired' \in Nat
      /\ Recorded' + fired <= Recorded + fired'
  BY <1>1, <1>2, Zenon
<1>7. Len(run) + (Trace + Recorded + (o - fired)) <= Causes
  BY <1>0, <1>4 DEF Chances, Trace
<1>8. Chances' = Trace' + Recorded' + (o - fired')
  BY <1>0, <1>4 DEF Chances, Trace
<1>9. fired' <= o
  <2>1. fired' <= clock' /\ fired' \in Nat /\ clock' \in Nat /\ clock' <= setting.occurrences
    BY <1>0 DEF IInv, TypeOK, Jobs, Budget
  <2>2. setting.occurrences \in Nat
    BY <1>3
  <2>. QED
    BY <1>4, <2>1, <2>2
<1>10. ASSUME NEW n \in {0, 1}, Len(run') = Len(run) + n,
             n = 1 => \/ Trace' + 1 <= Trace
                      \/ fired' = fired /\ Recorded = 1 /\ Recorded' = 0
      PROVE  Accounted'
  <2>0. n = 1 => (Trace' + 1 <= Trace) \/ (fired' = fired /\ Recorded = 1 /\ Recorded' = 0)
    BY <1>10
  <2>1. (Len(run) + n) + (Trace' + Recorded' + (o - fired')) <= Causes
    BY <1>3, <1>7, <1>9, <1>6, <2>0, Sums, ZenonT(60)
  <2>2. Len(run') + Chances' <= Causes'
    BY <1>8, <1>10, <1>5, <2>1, Zenon
  <2>. QED
    BY <1>1, <2>2 DEF Accounted
<1>11. CASE Len(run') = Len(run)
  <2>1. Len(run') = Len(run) + 0
    BY <1>3, <1>11
  <2>. QED
    BY <1>10, <2>1
<1>12. CASE \E t \in Threads : Opens(t)
  <2>1. PICK t \in Threads : Opens(t)
    BY <1>12
  <2>2. Len(run') = Len(run) + 1
    BY <1>0, <2>1 DEF Opens, Rows
  <2>3. t \in Consumers \/ t \in Clocks
    BY <1>0, <2>1 DEF Opens, Placed, Places, Walking, Closing, Threads
  <2>4. \/ Trace' + 1 <= Trace
        \/ fired' = fired /\ Recorded = 1 /\ Recorded' = 0
    BY <1>1, <1>2, <2>1, <2>3, Zenon
  <2>. QED
    BY <1>10, <2>2, <2>4
<1>. QED
  BY <1>0, <1>11, <1>12, RunsStep DEF KeepsCauses

LEMMA CausesInit == Init => CausesInv
<1> SUFFICES ASSUME Init PROVE CausesInv
  OBVIOUS
<1>1. /\ setting \in Settings /\ run = <<>> /\ clock = 0 /\ fired = 0 /\ done = {}
      /\ mail = setting.events /\ pc = [t \in Threads |-> "idle"]
      /\ pel = [k \in Consumers |-> {}] /\ boot = [k \in Consumers |-> {}]
      /\ Consumers \subseteq Threads /\ Clocks \subseteq Threads
      /\ left = [crashes |-> setting.crashes, errors |-> setting.errors, stops |-> setting.stops,
                 removes |-> setting.removes, toggles |-> setting.toggles,
                 lapses |-> setting.lapses]
  BY DEF Init, Threads
<1>2. /\ setting.crashes \in Nat /\ setting.occurrences \in Nat /\ IsFiniteSet(setting.events)
      /\ IsFiniteSet(setting.watched)
  BY <1>1, SettingsAssumption
<1>3. Streams
  BY <1>1 DEF Streams, Reads, Idle, Hearing
<1>4. Budget
  BY <1>1, <1>2 DEF Budget
<1>5. Pending = {} /\ Unread \subseteq setting.events /\ Recorded = 0
  BY <1>1 DEF Pending, Unused, Unread, Recorded
<1>6. /\ IsFiniteSet(Pending) /\ Cardinality(Pending) = 0
      /\ IsFiniteSet(Unread) /\ Cardinality(Unread) \in Nat /\ Cardinality(setting.events) \in Nat
      /\ Cardinality(Unread) <= Cardinality(setting.events)
      /\ setting.watched \ done = setting.watched /\ Cardinality(setting.watched) \in Nat
      /\ left.crashes = setting.crashes /\ Len(run) = 0
  BY <1>1, <1>2, <1>5, Fewer, FS_EmptySet, FS_CardinalityType
<1>7. Accounted
  BY <1>1, <1>2, <1>5, <1>6 DEF Accounted, Chances, Causes
<1>. QED
  BY <1>3, <1>4, <1>7, InitHolds DEF CausesInv

\* Every run of the automation engine has its cause outside of it, or a message read again
\* after a crash: what may still open a run is accounted for in every reachable state.
THEOREM CausesInvariance == Spec => []CausesInv
<1>1. ASSUME CausesInv, [Next]_vars PROVE CausesInv'
  <2>1. IInv'
    BY <1>1, TypeStep, PlacedStep, RowsStep, JobsStep, LeasesStep, AnchoredStep DEF CausesInv, IInv
  <2>2. Streams' /\ Budget'
    BY <1>1, StreamsStep, BudgetStep DEF CausesInv, IInv
  <2>3. OwnWritesIgnored' => OwnWritesIgnored
    BY Frame, <1>1 DEF OwnWritesIgnored, tables, Is, Graph, RemoveNode
  <2>4. (OwnWritesIgnored => Accounted)'
    BY <1>1, <2>1, <2>2, <2>3, AccountedStep DEF CausesInv
  <2>. QED
    BY <2>1, <2>2, <2>4 DEF CausesInv
<1>. QED
  BY <1>1, CausesInit, PTL DEF Spec

\* NoSelfTrigger: an automation whose actions change no sprint and call no webhook of its
\* own never sets itself off, however its replicas, crashes and schedules interleave.
THEOREM NeverSelfTriggered == Spec => [](OwnWritesIgnored => NoSelfTrigger)
<1>1. CausesInv => (OwnWritesIgnored => NoSelfTrigger)
  <2> SUFFICES ASSUME CausesInv, OwnWritesIgnored PROVE NoSelfTrigger
    OBVIOUS
  <2>1. /\ Accounted /\ TypeOK /\ Jobs /\ Rows /\ Budget
    BY DEF CausesInv, IInv
  <2>2. Len(run) \in Nat /\ Causes \in Nat /\ Len(run) + Chances <= Causes
    BY <2>1, Numbers DEF Accounted
  <2>3. Recorded \in Nat /\ setting.occurrences - fired \in Nat
    BY <2>1, Numbers DEF Accounted, Recorded
  <2>4. /\ Cardinality(Unread) \in Nat /\ Cardinality(Pending) \in Nat
        /\ Cardinality(setting.watched \ done) \in Nat /\ left.crashes \in Nat
    BY <2>1, Numbers DEF Accounted
  <2>5. Chances \in Nat
    BY <2>3, <2>4 DEF Chances
  <2>. QED
    BY <2>2, <2>5 DEF NoSelfTrigger
<1>. QED
  BY <1>1, CausesInvariance, PTL
===============================================================================
