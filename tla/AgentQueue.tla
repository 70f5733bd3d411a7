------------------------------ MODULE AgentQueue ------------------------------
(***************************************************************************)
(* How services/api keeps an agent within its ParallelismLimit.            *)
(*                                                                         *)
(* A request that wants a conversation of the agent to work counts the     *)
(* running ones.  With room, it claims the conversation (queued, paused or *)
(* ended -> running) and publishes a trigger to the runner; without, it    *)
(* leaves a row in agent_pending_triggers.  When a conversation ends, the  *)
(* runner appends to the status stream, and a replica of                   *)
(* AgentQueueConsumer reacts with AdvanceQueue: dequeue the oldest row,    *)
(* claim its conversation, publish its trigger.  Raising the limit does    *)
(* the same from the request.  No lock spans these steps: each is one      *)
(* statement or transaction of Postgres, or one command of Valkey.         *)
(*                                                                         *)
(* One agent, no environment folder.  The runner is reduced to what the    *)
(* queue sees of it (ConversationTurns models it in full).                 *)
(***************************************************************************)
EXTENDS Naturals, FiniteSets

CONSTANTS
  Conversations,  \* all of one agent
  Chats,          \* those of a chat session: they end a turn paused
  Calls,          \* requests of users, plugins and the automation engine
  Replicas,       \* instances of AgentQueueConsumer
  Kinds,          \* what calls may ask for
  OnBusy,         \* the on_busy values chats are sent with
  InitialLimit,
  Limits,         \* the values an update may give the limit
  FailingSteps,   \* steps whose call of Postgres or Valkey may fail
  MaxErrors,      \* bound: how many do
  MaxCrashes,     \* bound: how many requests or replicas die half-way
  None

ASSUME KindsAssumption ==
  /\ Chats \subseteq Conversations
  /\ Kinds \subseteq {"assign", "start", "resume", "stop", "update"}
  /\ OnBusy \subseteq {"queue", "force"}
ASSUME LimitAssumption == InitialLimit \in Nat \ {0} /\ Limits \subseteq Nat \ {0}
ASSUME FiniteAssumption == IsFiniteSet(Conversations)
ASSUME BoundsAssumption == MaxErrors \in Nat /\ MaxCrashes \in Nat
ASSUME DistinctAssumption == Calls \cap Replicas = {} /\ None \notin Conversations

Threads == Calls \cup Replicas

VARIABLES
  \* Postgres
  status,     \* agent_conversations.status; "finished" stands for "failed" too
  pending,    \* agent_pending_triggers
  clock,      \* source of created_at
  limit,      \* the agent's effective ParallelismLimit
  \* Valkey
  triggers,   \* triggers of a conversation the runner has not read
  events,     \* terminal statuses no replica has read
  pel,        \* those a replica has read and not acknowledged
  replay,     \* those of them a restarted replica has still to handle again
  \* the runner
  turns,      \* conversations with a turn
  telling,    \* ended conversations whose status event is not yet appended
  \* a request or a replica
  pc,
  job,        \* the conversation in its hands
  age,        \* created_at of the row it dequeued, 0 without one
  go,         \* dispatchNow
  was,        \* the status a resume read
  room,       \* how many conversations AdvanceQueue may still dispatch
  errors, crashes

rowVars    == <<status, pending, clock, limit>>
streamVars == <<triggers, events, pel, replay>>
runnerVars == <<turns, telling>>
localVars  == <<job, age, go, was, room>>
faultVars  == <<errors, crashes>>
vars == <<rowVars, streamVars, runnerVars, pc, localVars, faultVars>>

Terminal == {"finished", "stopped"}
Running  == {c \in Conversations : status[c] = "running"}
HasRoom  == Cardinality(Running) < limit
Row(c, a) == [conv |-> c, at |-> a]

Init ==
  /\ status = [c \in Conversations |-> "none"]
  /\ pending = {} /\ clock = 0 /\ limit = InitialLimit
  /\ triggers = [c \in Conversations |-> 0]
  /\ events = 0
  /\ pel = [r \in Replicas |-> 0]
  /\ replay = [r \in Replicas |-> 0]
  /\ turns = {} /\ telling = {}
  /\ pc = [t \in Threads |-> "idle"]
  /\ job = [t \in Threads |-> None]
  /\ age = [t \in Threads |-> 0]
  /\ go = [t \in Threads |-> FALSE]
  /\ was = [t \in Threads |-> "none"]
  /\ room = [t \in Threads |-> 0]
  /\ errors = 0 /\ crashes = 0

Goto(t, from, to) == pc[t] = from /\ pc' = [pc EXCEPT ![t] = to]

\* Where a thread goes when its work succeeded, and when it returns an error: a
\* replica acknowledges its event only in the first case.
Return(t) == IF t \in Calls THEN "done" ELSE "acking"
Abort(t)  == IF t \in Calls THEN "done" ELSE "idle"

-----------------------------------------------------------------------------
(* Requests.                                                               *)

\* TriggerTaskAssigned and its like create the conversation and then look at
\* the limit (dispatchOrEnqueue) ...
Assign(t, c) ==
  /\ "assign" \in Kinds
  /\ t \in Calls /\ Goto(t, "idle", "checking")
  /\ status[c] = "none" /\ \A u \in Threads : job[u] # c
  /\ status' = [status EXCEPT ![c] = "queued"]
  /\ job' = [job EXCEPT ![t] = c]
  /\ UNCHANGED <<pending, clock, limit, streamVars, runnerVars, age, go, was, room, faultVars>>

Check(t) ==
  /\ Goto(t, "checking", IF HasRoom THEN "claiming" ELSE "enqueueing")
  /\ UNCHANGED <<rowVars, streamVars, runnerVars, localVars, faultVars>>

\* dispatchNow as checkParallelismCapacity answers it.  The third value of
\* on_busy, "ask", is "queue" without the FALSE: the request ends with nothing
\* changed.
Verdict(b) == b = "force" \/ HasRoom

\* ... StartChatSession looks at the limit first ...
Start(t, c, b) ==
  /\ "start" \in Kinds
  /\ t \in Calls /\ Goto(t, "idle", "creating")
  /\ status[c] = "none" /\ \A u \in Threads : job[u] # c
  /\ job' = [job EXCEPT ![t] = c]
  /\ go' = [go EXCEPT ![t] = Verdict(b)]
  /\ was' = [was EXCEPT ![t] = b]
  /\ UNCHANGED <<rowVars, streamVars, runnerVars, age, room, faultVars>>

Create(t) ==
  /\ Goto(t, "creating", IF go[t] THEN "claiming" ELSE "enqueueing")
  /\ status' = [status EXCEPT ![job[t]] = "queued"]
  /\ UNCHANGED <<pending, clock, limit, streamVars, runnerVars, localVars, faultVars>>

\* ... and so does a message to a conversation that is paused or ended ...
Resume(t, c, b) ==
  /\ "resume" \in Kinds
  /\ t \in Calls /\ Goto(t, "idle", "resuming")
  /\ status[c] \in Terminal \cup {"paused"}
  /\ job' = [job EXCEPT ![t] = c]
  /\ go' = [go EXCEPT ![t] = Verdict(b)]
  /\ was' = [was EXCEPT ![t] = status[c]]
  /\ UNCHANGED <<rowVars, streamVars, runnerVars, age, room, faultVars>>

\* MUTANT of ClaimResume: the status is not compared with the one that was read.
ClaimResumeBlindly(t) ==
  /\ pc[t] = "resuming"
  /\ status' = [status EXCEPT ![job[t]] = IF go[t] THEN "running" ELSE "queued"]
  /\ pc' = [pc EXCEPT ![t] = IF go[t] THEN "publishing" ELSE "enqueueing"]
  /\ UNCHANGED <<pending, clock, limit, streamVars, runnerVars, localVars, faultVars>>

\* ... which claims it from the status it has read, with no second look at the
\* limit.  Another request may have been faster: busy.
ClaimResume(t) ==
  /\ pc[t] = "resuming"
  /\ IF status[job[t]] = was[t]
     THEN /\ status' = [status EXCEPT ![job[t]] = IF go[t] THEN "running" ELSE "queued"]
          /\ pc' = [pc EXCEPT ![t] = IF go[t] THEN "publishing" ELSE "enqueueing"]
     ELSE status' = status /\ pc' = [pc EXCEPT ![t] = "done"]
  /\ UNCHANGED <<pending, clock, limit, streamVars, runnerVars, localVars, faultVars>>

\* stopConversation: read the status, overwrite it, delete the conversation's
\* row, append the status event.  The stop message it sends a runner that may
\* have a turn only makes the turn end, which it may do at any time here.
Stop(t, c) ==
  /\ "stop" \in Kinds
  /\ t \in Calls /\ Goto(t, "idle", "stopping")
  /\ status[c] \notin Terminal \cup {"none"}
  /\ job' = [job EXCEPT ![t] = c]
  /\ UNCHANGED <<rowVars, streamVars, runnerVars, age, go, was, room, faultVars>>

WriteStopped(t) ==
  /\ Goto(t, "stopping", "unqueueing")
  /\ status' = [status EXCEPT ![job[t]] = "stopped"]
  /\ UNCHANGED <<pending, clock, limit, streamVars, runnerVars, localVars, faultVars>>

Unqueue(t) ==
  /\ Goto(t, "unqueueing", "announcing")
  /\ pending' = {p \in pending : p.conv # job[t]}
  /\ UNCHANGED <<status, clock, limit, streamVars, runnerVars, localVars, faultVars>>

Announce(t) ==
  /\ Goto(t, "announcing", "done")
  /\ events' = events + 1
  /\ UNCHANGED <<rowVars, triggers, pel, replay, runnerVars, localVars, faultVars>>

\* UpdateAgent: a raised limit frees slots for which no event will come.
Update(t, l) ==
  /\ "update" \in Kinds
  /\ t \in Calls /\ Goto(t, "idle", IF l > limit THEN "counting" ELSE "done")
  /\ l # limit
  /\ limit' = l
  /\ room' = [room EXCEPT ![t] = IF l > limit THEN l - limit ELSE 0]
  /\ UNCHANGED <<status, pending, clock, streamVars, runnerVars, job, age, go, was, faultVars>>

-----------------------------------------------------------------------------
(* deliverTrigger and dispatchPendingTrigger.                              *)

\* MUTANT of Claim: the limit is not verified again inside the transaction.
ClaimUnverified(t) ==
  /\ pc[t] = "claiming"
  /\ \/ /\ status[job[t]] = "queued"
        /\ pc' = [pc EXCEPT ![t] = "publishing"]
        /\ status' = [status EXCEPT ![job[t]] = "running"]
     \/ /\ status[job[t]] # "queued"
        /\ pc' = [pc EXCEPT ![t] = IF room[t] = 0 THEN "done" ELSE "dequeueing"]
        /\ status' = status
  /\ UNCHANGED <<pending, clock, limit, streamVars, runnerVars, localVars, faultVars>>

\* MUTANT of Claim: a conversation found at capacity is treated as gone.
ClaimDropping(t) ==
  /\ pc[t] = "claiming"
  /\ \/ /\ HasRoom /\ status[job[t]] = "queued"
        /\ pc' = [pc EXCEPT ![t] = "publishing"]
        /\ status' = [status EXCEPT ![job[t]] = "running"]
     \/ /\ ~(HasRoom /\ status[job[t]] = "queued")
        /\ pc' = [pc EXCEPT ![t] = IF room[t] = 0 THEN "done" ELSE "dequeueing"]
        /\ status' = status
  /\ UNCHANGED <<pending, clock, limit, streamVars, runnerVars, localVars, faultVars>>

\* ClaimQueuedForDispatch, under the lock on the agent's row: at capacity (the
\* conversation must wait, with a new row or the one that was dequeued), claimed,
\* or gone, because somebody stopped it.
Claim(t) ==
  /\ pc[t] = "claiming"
  /\ \/ /\ ~HasRoom
        /\ pc' = [pc EXCEPT ![t] = IF age[t] = 0 THEN "enqueueing" ELSE "restoring"]
        /\ status' = status
     \/ /\ HasRoom /\ status[job[t]] = "queued"
        /\ pc' = [pc EXCEPT ![t] = "publishing"]
        /\ status' = [status EXCEPT ![job[t]] = "running"]
     \/ /\ HasRoom /\ status[job[t]] # "queued"
        /\ pc' = [pc EXCEPT ![t] = IF room[t] = 0 THEN "done" ELSE "dequeueing"]
        /\ status' = status
  /\ UNCHANGED <<pending, clock, limit, streamVars, runnerVars, localVars, faultVars>>

\* The trigger is appended; AdvanceQueue goes on while it has room.
Publish(t) ==
  /\ Goto(t, "publishing", IF room[t] = 0 THEN "done"
                           ELSE IF room[t] = 1 THEN Return(t) ELSE "dequeueing")
  /\ triggers' = [triggers EXCEPT ![job[t]] = @ + 1]
  /\ room' = [room EXCEPT ![t] = IF @ = 0 THEN 0 ELSE @ - 1]
  /\ UNCHANGED <<rowVars, events, pel, replay, runnerVars, job, age, go, was, faultVars>>

\* MUTANT of PublishFails: the error is returned and nothing undone.
PublishFailsUnreverted(t) ==
  /\ "publishing" \in FailingSteps /\ errors < MaxErrors
  /\ Goto(t, "publishing", Abort(t))
  /\ errors' = errors + 1
  /\ UNCHANGED <<rowVars, streamVars, runnerVars, localVars, crashes>>

PublishFails(t) ==
  /\ "publishing" \in FailingSteps /\ errors < MaxErrors
  /\ Goto(t, "publishing", "reverting")
  /\ errors' = errors + 1
  /\ UNCHANGED <<rowVars, streamVars, runnerVars, localVars, crashes>>

\* revertFailedDispatch: the claim is undone unless the status has moved on.
Revert(t) ==
  /\ pc[t] = "reverting"
  /\ IF status[job[t]] = "running"
     THEN /\ status' = [status EXCEPT ![job[t]] = "queued"]
          /\ pc' = [pc EXCEPT ![t] = "requeueing"]
     ELSE status' = status /\ pc' = [pc EXCEPT ![t] = Abort(t)]
  /\ UNCHANGED <<pending, clock, limit, streamVars, runnerVars, localVars, faultVars>>

\* enqueuePendingTrigger: a new row, the youngest.
Enqueue(t) ==
  /\ \/ Goto(t, "enqueueing", "done") \/ Goto(t, "requeueing", Abort(t))
  /\ clock' = clock + 1
  /\ pending' = pending \cup {Row(job[t], clock + 1)}
  /\ UNCHANGED <<status, limit, streamVars, runnerVars, localVars, faultVars>>

\* The dequeued row is put back at its place.
Restore(t) ==
  /\ Goto(t, "restoring", Return(t))
  /\ pending' = pending \cup {Row(job[t], age[t])}
  /\ UNCHANGED <<status, clock, limit, streamVars, runnerVars, localVars, faultVars>>

-----------------------------------------------------------------------------
(* AgentQueueConsumer and AdvanceQueue.                                    *)

\* MUTANT of Receive: the event is acknowledged as it is read (XREADGROUP NOACK).
ReceiveUnrecorded(r) ==
  /\ r \in Replicas /\ Goto(r, "idle", "counting")
  /\ replay[r] = 0 /\ events > 0
  /\ events' = events - 1
  /\ room' = [room EXCEPT ![r] = 1]
  /\ UNCHANGED <<rowVars, triggers, pel, replay, runnerVars, job, age, go, was, faultVars>>

\* A replica reads an event: one slot was freed.
Receive(r) ==
  /\ r \in Replicas /\ Goto(r, "idle", "counting")
  /\ replay[r] = 0 /\ events > 0
  /\ events' = events - 1
  /\ pel' = [pel EXCEPT ![r] = @ + 1]
  /\ room' = [room EXCEPT ![r] = 1]
  /\ UNCHANGED <<rowVars, triggers, replay, runnerVars, job, age, go, was, faultVars>>

\* processPending: only at start, the events of the last run come first.
Replay(r) ==
  /\ r \in Replicas /\ Goto(r, "idle", "counting")
  /\ replay[r] > 0
  /\ replay' = [replay EXCEPT ![r] = @ - 1]
  /\ room' = [room EXCEPT ![r] = 1]
  /\ UNCHANGED <<rowVars, triggers, events, pel, runnerVars, job, age, go, was, faultVars>>

\* AdvanceQueue counts once; the loop's condition is that room is left.
Count(t) ==
  LET free == IF HasRoom THEN limit - Cardinality(Running) ELSE 0
      left == IF room[t] < free THEN room[t] ELSE free
  IN /\ Goto(t, "counting", IF left = 0 THEN Return(t) ELSE "dequeueing")
     /\ room' = [room EXCEPT ![t] = left]
     /\ UNCHANGED <<rowVars, streamVars, runnerVars, job, age, go, was, faultVars>>

\* MUTANT of Dequeue: the row is read and not deleted.
DequeuePeeking(t) ==
  \/ /\ pending = {}
     /\ Goto(t, "dequeueing", Return(t))
     /\ UNCHANGED <<rowVars, streamVars, runnerVars, localVars, faultVars>>
  \/ \E p \in pending :
       /\ \A q \in pending : p.at <= q.at
       /\ Goto(t, "dequeueing", "claiming")
       /\ job' = [job EXCEPT ![t] = p.conv]
       /\ age' = [age EXCEPT ![t] = p.at]
       /\ UNCHANGED <<rowVars, streamVars, runnerVars, go, was, room, faultVars>>

\* DequeueOldestPendingTrigger: the oldest row is read and deleted.
Dequeue(t) ==
  \/ /\ pending = {}
     /\ Goto(t, "dequeueing", Return(t))
     /\ UNCHANGED <<rowVars, streamVars, runnerVars, localVars, faultVars>>
  \/ \E p \in pending :
       /\ \A q \in pending : p.at <= q.at
       /\ Goto(t, "dequeueing", "claiming")
       /\ pending' = pending \ {p}
       /\ job' = [job EXCEPT ![t] = p.conv]
       /\ age' = [age EXCEPT ![t] = p.at]
       /\ UNCHANGED <<status, clock, limit, streamVars, runnerVars, go, was, room, faultVars>>

Ack(r) ==
  /\ Goto(r, "acking", "idle")
  /\ pel' = [pel EXCEPT ![r] = @ - 1]
  /\ UNCHANGED <<rowVars, triggers, events, replay, runnerVars, localVars, faultVars>>

-----------------------------------------------------------------------------
(* The runner.                                                             *)

\* A turn begins, whatever the row says by now.
RunnerStart(c) ==
  /\ triggers[c] > 0 /\ c \notin turns
  /\ triggers' = [triggers EXCEPT ![c] = @ - 1]
  /\ turns' = turns \cup {c}
  /\ status' = [status EXCEPT ![c] = "running"]
  /\ UNCHANGED <<pending, clock, limit, events, pel, replay, telling, pc, localVars, faultVars>>

\* A turn ends.  Only terminal statuses are told to services/api.
RunnerEnd(c) ==
  /\ c \in turns
  /\ turns' = turns \ {c}
  /\ \E s \in IF c \in Chats THEN {"finished", "paused"} ELSE {"finished"} :
       /\ status' = [status EXCEPT ![c] = s]
       /\ telling' = IF s \in Terminal THEN telling \cup {c} ELSE telling
  /\ UNCHANGED <<pending, clock, limit, streamVars, pc, localVars, faultVars>>

\* MUTANT of RunnerTells: the status is not appended.
RunnerForgetsToTell(c) ==
  /\ c \in telling
  /\ telling' = telling \ {c}
  /\ UNCHANGED <<rowVars, streamVars, turns, pc, localVars, faultVars>>

RunnerTells(c) ==
  /\ c \in telling
  /\ telling' = telling \ {c}
  /\ events' = events + 1
  /\ UNCHANGED <<rowVars, triggers, pel, replay, turns, pc, localVars, faultVars>>

\* Appending the status is best-effort.
RunnerTellFails(c) ==
  /\ "telling" \in FailingSteps /\ errors < MaxErrors
  /\ c \in telling
  /\ telling' = telling \ {c}
  /\ errors' = errors + 1
  /\ UNCHANGED <<rowVars, streamVars, turns, pc, localVars, crashes>>

\* The sandbox of a paused chat is torn down.
RunnerTeardown(c) ==
  /\ status[c] = "paused" /\ c \notin turns
  /\ status' = [status EXCEPT ![c] = "stopped"]
  /\ telling' = telling \cup {c}
  /\ UNCHANGED <<pending, clock, limit, streamVars, turns, pc, localVars, faultVars>>

-----------------------------------------------------------------------------
(* Failures.                                                               *)

\* Every other error is returned at once: the request fails, or is swallowed by
\* its caller; the replica leaves its event unacknowledged.
CallFails(t) ==
  /\ pc[t] \in FailingSteps \cap {"checking", "creating", "resuming", "stopping", "claiming",
                                  "reverting", "requeueing", "enqueueing", "restoring",
                                  "counting", "dequeueing"}
  /\ errors < MaxErrors
  /\ errors' = errors + 1
  /\ pc' = [pc EXCEPT ![t] = Abort(t)]
  /\ UNCHANGED <<rowVars, streamVars, runnerVars, localVars, crashes>>

\* The process of a request or of a replica dies; a replica starts again under
\* its name and finds what it had not acknowledged.
Crash(t) ==
  /\ crashes < MaxCrashes
  /\ pc[t] \notin {"idle", "done"} \/ (t \in Replicas /\ pel[t] > 0)
  /\ crashes' = crashes + 1
  /\ pc' = [pc EXCEPT ![t] = Abort(t)]
  /\ replay' = IF t \in Replicas THEN [replay EXCEPT ![t] = pel[t]] ELSE replay
  /\ UNCHANGED <<rowVars, triggers, events, pel, runnerVars, localVars, errors>>

-----------------------------------------------------------------------------
Request(t) ==
  \/ \E c \in Conversations : Assign(t, c) \/ Stop(t, c)
  \/ \E c \in Conversations, b \in OnBusy : (c \in Chats /\ Start(t, c, b)) \/ Resume(t, c, b)
  \/ \E l \in Limits : Update(t, l)

Proceed(t) ==
  \/ Check(t) \/ Create(t) \/ ClaimResume(t) \/ WriteStopped(t) \/ Unqueue(t) \/ Announce(t)
  \/ Claim(t) \/ Publish(t) \/ Revert(t) \/ Enqueue(t) \/ Restore(t)
  \/ Count(t) \/ Dequeue(t) \/ Ack(t)

Read(r) == Receive(r) \/ Replay(r)

RunnerStep(c) == RunnerStart(c) \/ RunnerEnd(c) \/ RunnerTells(c)

Fail == \E t \in Threads : PublishFails(t) \/ CallFails(t) \/ Crash(t)

Next ==
  \/ \E t \in Threads : Request(t) \/ Proceed(t)
  \/ \E r \in Replicas : Read(r)
  \/ \E c \in Conversations : RunnerStep(c) \/ RunnerTellFails(c) \/ RunnerTeardown(c)
  \/ Fail

Spec == Init /\ [][Next]_vars

(***************************************************************************)
(* Fairness: requests and replicas go on to their end, the runner reads    *)
(* its stream and a turn has a timeout.  Nothing is assumed of users, nor  *)
(* of the teardown of paused sandboxes, which a heartbeat can put off.     *)
(***************************************************************************)
Fairness ==
  /\ \A t \in Threads : WF_vars(Proceed(t))
  /\ \A r \in Replicas : WF_vars(Read(r))
  /\ \A c \in Conversations : WF_vars(RunnerStep(c))

FairSpec == Spec /\ Fairness

-----------------------------------------------------------------------------
(* Properties.                                                             *)

PC == {"idle", "checking", "creating", "resuming", "stopping", "unqueueing", "announcing",
       "claiming", "publishing", "reverting", "requeueing", "enqueueing", "restoring",
       "counting", "dequeueing", "acking", "done"}
Status == {"none", "queued", "running", "paused"} \cup Terminal

\* Every variable keeps its type, and a replica acknowledges only what it was
\* given (AgentQueueConsumer.handle).
TypeOK ==
  /\ status \in [Conversations -> Status]
  /\ pending \subseteq [conv : Conversations, at : Nat]
  /\ clock \in Nat /\ limit \in Limits \cup {InitialLimit}
  /\ triggers \in [Conversations -> Nat]
  /\ events \in Nat /\ pel \in [Replicas -> Nat] /\ replay \in [Replicas -> Nat]
  /\ turns \subseteq Conversations /\ telling \subseteq Conversations
  /\ pc \in [Threads -> PC]
  /\ job \in [Threads -> Conversations \cup {None}]
  /\ age \in [Threads -> Nat]
  /\ go \in [Threads -> BOOLEAN]
  /\ was \in [Threads -> Status \cup {"force", "queue"}]
  /\ room \in [Threads -> Nat]
  /\ errors \in 0..MaxErrors /\ crashes \in 0..MaxCrashes
  /\ \A r \in Replicas : pc[r] # "idle" => pel[r] > 0

\* ClaimQueuedForDispatch: two requests, two replicas, or a replica and the
\* redelivery of its own event never take one free slot twice.
LimitRespected == Cardinality(Running) <= limit

InHand(c, pcs) == \E t \in Threads : job[t] = c /\ pc[t] \in pcs
Waits(c) == \E p \in pending : p.conv = c

\* A conversation's trigger is in one place: with a request or a replica, in a
\* row, in the stream, or being worked on, never in two of them, and it does not
\* come back after its turn.  So no redelivered event, no restored row and no
\* second resume starts an agent twice on one task.
Carrying == {"checking", "creating", "claiming", "publishing", "reverting", "requeueing",
             "enqueueing", "restoring"}
Places(c) ==
  {<<"row", p.at>> : p \in {q \in pending : q.conv = c}}
    \cup {<<"hand", t>> : t \in {u \in Threads : job[u] = c /\ pc[u] \in Carrying}}
    \cup {<<"stream", n>> : n \in 1..triggers[c]}
    \cup {<<"turn", d>> : d \in {e \in turns : e = c}}
DispatchedOnce ==
  \A c \in Conversations :
    /\ Cardinality(Places(c)) <= 1
    /\ status[c] \in Terminal \cup {"paused"} => Places(c) = {}

\* A conversation that says "running" has somebody who will change that: its
\* trigger is about to be published or taken back, is in the stream, or has a
\* turn.  Otherwise its slot is lost for ever (revertFailedDispatch).
RunningIsWork ==
  crashes = 0 => \A c \in Running :
    c \in turns \/ triggers[c] > 0 \/ InHand(c, {"publishing", "reverting"})

\* A conversation that says "queued" has a row AdvanceQueue will find, or is in the
\* hands of somebody who will claim it or leave a row: deliverTrigger and
\* dispatchPendingTrigger strand no conversation while no process dies.
QueuedIsRecorded ==
  crashes = 0 => \A c \in Conversations : status[c] = "queued" =>
    Waits(c) \/ InHand(c, {"checking", "claiming", "requeueing", "enqueueing", "restoring"})

\* While a conversation of the agent works, those that wait in a row are not
\* forgotten: its end is what will dispatch the next (AgentQueueConsumer).
QueueAdvances ==
  \A c \in Conversations : (Waits(c) /\ turns # {}) ~> ~Waits(c)

-----------------------------------------------------------------------------
(* The inductive invariant behind LimitRespected, DispatchedOnce,           *)
(* RunningIsWork and QueuedIsRecorded.  Each holds for some agents only: a  *)
(* stop frees a slot whose trigger the runner still reads, a resume claims  *)
(* without a second look at the limit, and where the very step fails that   *)
(* puts something right it stays wrong.                                     *)

\* Where a thread has a conversation in its hands.
Holding == Carrying \cup {"resuming", "stopping", "unqueueing", "announcing"}
HandsFull == \A t \in Threads : pc[t] \in Holding => job[t] \in Conversations

\* A restarted replica has not acknowledged what it has still to replay.
ReplayUnacked ==
  \A r \in Replicas : replay[r] <= pel[r] /\ (pc[r] # "idle" => replay[r] < pel[r])

\* A slot is claimed by one thread, its trigger or its turn, and by no two of
\* them; a conversation is created once.
Claimed == {"publishing", "reverting"}
Unstarted(c) == triggers[c] = 0 /\ c \notin turns
OneHolder ==
  /\ \A c \in Conversations :
       triggers[c] > 0 => triggers[c] = 1 /\ c \notin turns /\ status[c] = "running"
  /\ \A c \in turns : status[c] = "running"
  /\ \A t \in Threads : pc[t] \in Claimed => status[job[t]] = "running" /\ Unstarted(job[t])
  /\ \A t, u \in Threads :
       t # u /\ pc[t] \in Claimed /\ pc[u] \in Claimed => job[t] # job[u]
  /\ \A t \in Threads : pc[t] = "creating" => status[job[t]] = "none"
  /\ \A t, u \in Threads :
       t # u /\ pc[t] = "creating" /\ pc[u] = "creating" => job[t] # job[u]
  /\ \A t \in Threads : pc[t] = "resuming" => was[t] \in Terminal \cup {"paused"}

\* Whose trigger waits in a row or is in somebody's hands has no trigger in the stream,
\* no turn, no second row and no second holder, and a status of its own.
Undecided == {"checking", "claiming", "requeueing", "enqueueing", "restoring"}
OnePlace ==
  /\ \A t \in Threads : pc[t] \in Undecided => status[job[t]] = "queued"
  /\ \A p \in pending : status[p.conv] = "queued"
  /\ \A p, q \in pending : p.conv = q.conv => p = q
  /\ \A p \in pending, t \in Threads : pc[t] \in Carrying => job[t] # p.conv
  /\ \A t, u \in Threads :
       t # u /\ pc[t] \in Carrying /\ pc[u] \in Carrying => job[t] # job[u]

Mending == {"checking", "claiming", "reverting", "requeueing", "enqueueing", "restoring"}
Mends   == Mending \cap FailingSteps = {}
NoStops   == "stop" \notin Kinds
NoResumes == "resume" \notin Kinds
\* An update can only raise the limit: there is one value to give, a larger one.
OnlyRaised == \A l \in Limits : l > InitialLimit /\ \A m \in Limits : m = l

NobodyStops   == \A t \in Threads : pc[t] \notin {"stopping", "unqueueing", "announcing"}
NobodyResumes == \A t \in Threads : pc[t] # "resuming"

IInv ==
  /\ TypeOK /\ HandsFull /\ ReplayUnacked
  /\ NoStops => NobodyStops
  /\ NoResumes => NobodyResumes
  /\ NoStops => OneHolder /\ OnePlace
  /\ NoStops /\ NoResumes /\ OnlyRaised => LimitRespected
  /\ Mends => RunningIsWork
  /\ Mends /\ NoStops => QueuedIsRecorded

-----------------------------------------------------------------------------
(* What comments in the code say, and the code does not do.                *)

\* AgentQueueConsumer: "every way capacity can increase is covered without a
\* poller", so that no conversation stays queued while the agent has room.
QueuedIsDispatched == \A c \in Conversations : status[c] = "queued" ~> status[c] # "queued"
=============================================================================
