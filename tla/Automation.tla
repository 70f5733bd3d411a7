------------------------------ MODULE Automation ------------------------------
(***************************************************************************)
(* The automation engine of services/api, for one automation: a graph of   *)
(* triggers, conditions and actions.                                       *)
(*                                                                         *)
(* An event or an occurrence of a schedule opens a run and walks the graph *)
(* depth first.  The walk pauses at a wait node, which leaves a row for    *)
(* WaitScheduler, and at a trigger_ai_agent node, which leaves one row for *)
(* each conversation it has started.  The end of a conversation reaches    *)
(* any replica of AutomationConsumer over a stream; the last of a node's   *)
(* conversations to end resumes the walk behind the node.  Whoever leaves  *)
(* no pause behind closes the run.                                         *)
(*                                                                         *)
(* Each replica has one thread for the streams and one for each scheduler; *)
(* they share Postgres and, for the schedulers, leases in Valkey.          *)
(***************************************************************************)
EXTENDS Naturals, Sequences, FiniteSets, SequencesExt

CONSTANTS
  Consumers,     \* AutomationConsumer, one to a replica
  Waiters,       \* WaitScheduler
  Clocks,        \* DueDateScheduler, or CronScheduler
  Graphs,        \* the automations there may be
  Settings,      \* which of them, which threads there are and what may happen
  MaxRuns,       \* bound: runs
  None

Threads == Consumers \cup Waiters \cup Clocks

ASSUME DistinctAssumption ==
  /\ None \notin Threads
  /\ Consumers \cap Waiters = {} /\ Consumers \cap Clocks = {} /\ Waiters \cap Clocks = {}
ASSUME BoundsAssumption == MaxRuns \in Nat
ASSUME SettingsAssumption ==
  \A s \in Settings : /\ {s.crashes, s.occurrences, s.removes, s.toggles} \subseteq Nat
                      /\ IsFiniteSet(s.events) /\ IsFiniteSet(s.watched)
                      /\ s.outcomes \subseteq {"finished", "failed"}

\* Edges lead to nodes, only a condition chooses between branches, and for whatever
\* happens in a setting, the end of a conversation apart, its graph has a trigger.
Entries(g, m) == m.kind # "ended" /\ m.about \in DOMAIN g.first
ASSUME GraphsAssumption ==
  \A s \in Settings : s.graph \in DOMAIN Graphs /\ LET g == Graphs[s.graph] IN
    /\ \A a \in DOMAIN g.first : g.first[a] \in Seq(DOMAIN g.kind)
    /\ \A n \in DOMAIN g.kind :
         /\ \A out \in g.outs[n] : out \in Seq(DOMAIN g.kind)
         /\ g.kind[n] # "condition" => \E out \in g.outs[n] : g.outs[n] = {out}
         /\ g.kind[n] = "action" => \A m \in g.tells[n] : Entries(g, m)
    /\ \A m \in s.events : Entries(g, m)
    /\ s.watched # {} => "watched" \in DOMAIN g.first
    /\ s.occurrences > 0 => "it" \in DOMAIN g.first

VARIABLES
  setting,    \* chosen at the start
  left,       \* how many crashes, errors, ... of the setting's are left
  \* Postgres
  active,     \* automations.status
  nodes,      \* automation_nodes, but for the trigger
  run,        \* automation_runs, each with its automation_run_steps; and, which no row
              \* holds, the visits of walks to each node, and those forgotten (lost)
  waits,      \* automation_pending_agent_waits, by conversation
  delays,     \* automation_pending_delays
  due,        \* those whose resume_at has passed
  fired,      \* automation_due_date_fires, or automation_cron_fires.last_fired_at
  conv,       \* the conversations the engine has started
  \* the world
  done,       \* the tasks a predecessor_done trigger watches that are done
  clock,      \* the last occurrence of the schedule so far
  \* Valkey
  mail,       \* messages no replica has read
  pel,        \* messages each replica has read and not acknowledged
  lease,      \* who holds the lock of each kind of scheduler
  \* each thread
  boot,       \* messages a replica that has restarted will read again
  pc,
  job

dbVars     == <<active, nodes, run, waits, delays, due, fired, conv>>
streamVars == <<mail, pel, boot>>
worldVars  == <<setting, done, clock>>
vars == <<worldVars, left, dbVars, streamVars, lease, pc, job>>

Graph == Graphs[setting.graph]
Is(n, kind) == n \in DOMAIN Graph.kind /\ Graph.kind[n] = kind
Outs(n) == Graph.outs[n]    \* the branches of a condition; one for any other node

\* The streams: activities of tasks, other triggers, ends of conversations.
Event(kind, about, who) ==
  [kind |-> kind, about |-> about, conv |-> 0, status |-> "none", by |-> who]
Finished(i) == [Event("task", "watched", "user") EXCEPT !.conv = i]
Ended(c, s, who) == [kind |-> "ended", about |-> "it", conv |-> c, status |-> s, by |-> who]

NoJob == [msg |-> Event("none", "it", "none"), run |-> 0, node |-> None,
          todo |-> <<>>, visited |-> {}, graph |-> {},
          convs |-> <<>>, want |-> 0, live |-> FALSE, verdict |-> "none",
          delay |-> [run |-> 0, node |-> None], rest |-> {}, cause |-> 0]

Init ==
  /\ setting \in Settings
  /\ left = [crashes |-> setting.crashes, errors |-> setting.errors, stops |-> setting.stops,
             removes |-> setting.removes, toggles |-> setting.toggles,
             lapses |-> setting.lapses]
  /\ active = TRUE /\ nodes = DOMAIN Graph.kind
  /\ run = <<>> /\ conv = <<>> /\ waits = {} /\ delays = {} /\ due = {}
  /\ fired = 0 /\ clock = 0 /\ done = {}
  /\ mail = setting.events
  /\ pel = [k \in Consumers |-> {}] /\ boot = [k \in Consumers |-> {}]
  /\ lease = [wait |-> None, clock |-> None]
  /\ pc = [t \in Threads |-> "idle"] /\ job = [t \in Threads |-> NoJob]

Goto(t, from, to) == pc[t] = from /\ pc' = [pc EXCEPT ![t] = to]
Keep(t, j) == job' = [job EXCEPT ![t] = j]
Spend(what) == left[what] > 0 /\ left' = [left EXCEPT ![what] = @ - 1]
Erring(step) == step \in setting.failing /\ Spend("errors")

\* Where a thread goes when it is done with what it has in hand.
Over(t) == CASE t \in Consumers -> "acking" [] t \in Waiters -> "renewing" [] OTHER -> "yielding"

WithVisit(r, n) == [run EXCEPT ![r].visits[n] = @ + 1]
\* recordStep: the row of a removed node is refused.
WithStep(r, n) ==
  IF n \in nodes THEN [run EXCEPT ![r].steps[n] = @ + 1] ELSE run
WithFailed(r, n) ==
  IF n \in nodes THEN [run EXCEPT ![r].failed = @ \cup {n}] ELSE run
\* It is best effort.  A scheduler that goes on without its row, or dies before it, has
\* forgotten that it has been at n: the repetition of its walk comes by n again.
Forgets(t, r, n) ==
  IF t \in Waiters THEN [run EXCEPT ![r].lost = @ \cup {n}] ELSE run
StepsOf(r) == {n \in DOMAIN run[r].steps : run[r].steps[n] > 0} \cup run[r].failed

-----------------------------------------------------------------------------
(* The streams.                                                            *)

\* processPending when the replica has just started, then new messages.
Take(k) ==
  k \in setting.up /\ \E m \in IF boot[k] # {} THEN boot[k] ELSE mail :
    /\ Goto(k, "idle", IF m.kind = "ended" THEN "finding" ELSE "handling")
    /\ Keep(k, [NoJob EXCEPT !.msg = m])
    /\ mail' = mail \ {m}
    /\ pel' = [pel EXCEPT ![k] = @ \cup {m}]
    /\ boot' = [boot EXCEPT ![k] = @ \ {m}]
    /\ UNCHANGED <<worldVars, left, dbVars, lease>>

\* allWatchedTasksDone
AllWatchedDone == done = setting.watched

\* processEvent: a predecessor_done trigger fires if all the tasks it watches are done
\* by now; others match by the kind of the change.
Fires(m) == m.about = "watched" => AllWatchedDone

\* MUTANT of Handle: the engine reacts to its own writes.
HandleAnyOrigin(k) ==
  /\ pc[k] = "handling" /\ job[k].msg.kind = "task"
  /\ Goto(k, "handling", "opening")
  /\ UNCHANGED <<worldVars, left, dbVars, streamVars, lease, job>>

\* handle, for a change of a task: not if the engine made it.
Handle(k) ==
  /\ pc[k] = "handling" /\ job[k].msg.kind = "task"
  /\ Goto(k, "handling",
          IF job[k].msg.by # "automation" /\ Fires(job[k].msg) THEN "opening" ELSE "acking")
  /\ UNCHANGED <<worldVars, left, dbVars, streamVars, lease, job>>

\* handleExternalTrigger
HandleExternal(k) ==
  /\ pc[k] = "handling" /\ job[k].msg.kind = "webhook"
  /\ Goto(k, "handling", "opening")
  /\ UNCHANGED <<worldVars, left, dbVars, streamVars, lease, job>>

\* handleSprintActivity: whoever caused it.
HandleSprint(k) ==
  /\ pc[k] = "handling" /\ job[k].msg.kind = "sprint"
  /\ Goto(k, "handling", "opening")
  /\ UNCHANGED <<worldVars, left, dbVars, streamVars, lease, job>>

Ack(k) ==
  /\ k \in Consumers
  /\ Goto(k, "acking", "idle")
  /\ pel' = [pel EXCEPT ![k] = @ \ {job[k].msg}]
  /\ Keep(k, NoJob)
  /\ UNCHANGED <<worldVars, left, dbVars, mail, boot, lease>>

-----------------------------------------------------------------------------
(* A walk.                                                                 *)

\* executeRun: the automation is read again and its graph is loaded.
Open(t) ==
  /\ pc[t] = "opening"
  /\ \/ /\ ~active
        /\ Goto(t, "opening", Over(t))
        /\ UNCHANGED <<left, run, job>>
     \/ /\ active /\ Len(run) < MaxRuns
        /\ Goto(t, "opening", "walking")
        /\ run' = Append(run, [status |-> "running", cause |-> job[t].cause,
                               steps |-> [n \in DOMAIN Graph.kind |-> 0], failed |-> {},
                               visits |-> [n \in DOMAIN Graph.kind |-> 0], lost |-> {}])
        /\ Keep(t, [job[t] EXCEPT !.run = Len(run) + 1, !.todo = Graph.first[job[t].msg.about],
                               !.graph = nodes])
        /\ UNCHANGED left
     \/ /\ Erring("open")   \* logged; only a webhook's message is not acknowledged
        /\ Goto(t, "opening", IF job[t].msg.kind = "webhook" THEN "idle" ELSE Over(t))
        /\ UNCHANGED <<run, job>>
  /\ UNCHANGED <<worldVars, active, nodes, waits, delays, due, fired, conv, streamVars, lease>>

\* walk skips what it has visited and what the graph it loaded has not.
Todo(t) ==
  LET s == job[t].todo
      fresh == {i \in DOMAIN s : s[i] \in job[t].graph \ job[t].visited}
  IN  IF fresh = {} THEN <<>> ELSE SubSeq(s, Min(fresh), Len(s))

\* walk visits the next node, which is of a kind; for now with targets to serve.
Visit(t, targets) ==
  LET n == Head(Todo(t)) IN
  [job[t] EXCEPT !.visited = @ \cup {n}, !.todo = Tail(Todo(t)), !.node = n,
                 !.want = targets, !.convs = <<>>]
Reach(t, kind) ==
  /\ pc[t] = "walking" /\ Todo(t) # <<>> /\ Is(Head(Todo(t)), kind)
  /\ Goto(t, "walking", "acting")
  /\ run' = WithVisit(job[t].run, Head(Todo(t)))
  /\ UNCHANGED <<worldVars, left, active, nodes, waits, delays, due, fired, conv, pel, boot, lease>>

\* walkCondition, walkJevCondition, walkPluginCondition and walkWait: nothing but the step.
Look(t) ==
  /\ Reach(t, "condition") \/ Reach(t, "wait")
  /\ Keep(t, Visit(t, 0))
  /\ UNCHANGED mail

\* runAction, for anything but an agent: somebody may be told of what it has changed.
Apply(t) ==
  /\ Reach(t, "action")
  /\ Keep(t, Visit(t, 0))
  /\ mail' \in {mail, mail \cup Graph.tells[Head(Todo(t))]}

\* runAction of a trigger_ai_agent node: its targets are known.
Ask(t) ==
  /\ Reach(t, "agent")
  /\ \E size \in Graph.size : Keep(t, Visit(t, size))
  /\ UNCHANGED mail

\* applyTriggerAIAgentOnTask, once for each target.
StartConversation(t) ==
  /\ pc[t] = "acting" /\ job[t].want > 0
  /\ conv' = Append(conv, [run |-> job[t].run, node |-> job[t].node, status |-> "running"])
  /\ Keep(t, [job[t] EXCEPT !.want = @ - 1, !.convs = Append(@, Len(conv) + 1)])
  /\ UNCHANGED <<worldVars, left, active, nodes, run, waits, delays, due, fired, streamVars, lease,
                 pc>>

\* The node fails, and so, it may be, does the call that would record it; nobody waits
\* for the conversations already started.
FailNode(t) ==
  /\ Erring("node") /\ (job[t].want > 0 \/ job[t].convs = <<>>)
  /\ Goto(t, "acting", "walking")
  /\ \/ run' = WithFailed(job[t].run, job[t].node)
     \/ "step" \in setting.failing /\ run' = Forgets(t, job[t].run, job[t].node)
  /\ UNCHANGED <<worldVars, active, nodes, waits, delays, due, fired, conv, streamVars, lease, job>>

\* What is behind the node that t has in hand: one branch of a condition is taken.
Onwards(t) ==
  \E out \in Outs(job[t].node) : Keep(t, [job[t] EXCEPT !.todo = out \o @])

\* The node is done: the step, if it can be recorded; then a pause, or the edges.
Record(t) ==
  /\ pc[t] = "acting" /\ job[t].want = 0
  /\ \/ run' = WithStep(job[t].run, job[t].node) /\ UNCHANGED left
     \/ run' = Forgets(t, job[t].run, job[t].node) /\ Erring("step")
  /\ \/ /\ Is(job[t].node, "wait")
        /\ Goto(t, "acting", "pausing")
        /\ UNCHANGED job
     \/ /\ job[t].convs # <<>>
        /\ Goto(t, "acting", "registering")
        /\ UNCHANGED job
     \/ /\ ~Is(job[t].node, "wait") /\ job[t].convs = <<>>
        /\ Goto(t, "acting", "walking")
        /\ Onwards(t)
  /\ UNCHANGED <<worldVars, active, nodes, waits, delays, due, fired, conv, streamVars, lease>>

\* CreatePendingDelay; an error is logged and the branch ends.
CreateDelay(t) ==
  /\ Goto(t, "pausing", "walking")
  /\ \/ /\ delays' = IF job[t].node \in nodes
                     THEN delays \cup {[run |-> job[t].run, node |-> job[t].node]}
                     ELSE delays
        /\ UNCHANGED left
     \/ Erring("delay") /\ UNCHANGED delays
  /\ UNCHANGED <<worldVars, active, nodes, run, waits, due, fired, conv, streamVars, lease, job>>

\* CreatePendingAgentWait, one conversation after the other; an error is logged.
CreateWait(t) ==
  /\ pc[t] = "registering"
  /\ LET c == Head(job[t].convs) IN
       \/ /\ waits' = IF job[t].node \in nodes THEN waits \cup {c} ELSE waits
          /\ UNCHANGED left
       \/ Erring("wait") /\ UNCHANGED waits
  /\ Keep(t, [job[t] EXCEPT !.convs = Tail(@)])
  /\ pc' = [pc EXCEPT ![t] = IF Len(job[t].convs) = 1 THEN "walking" ELSE @]
  /\ UNCHANGED <<worldVars, active, nodes, run, delays, due, fired, conv, streamVars, lease>>

EndWalk(t) ==
  /\ Todo(t) = <<>>
  /\ Goto(t, "walking", IF t \in Waiters THEN "clearing" ELSE "counting waits")
  /\ Keep(t, [job[t] EXCEPT !.visited = {}, !.graph = {}, !.todo = <<>>])
  /\ UNCHANGED <<worldVars, left, dbVars, streamVars, lease>>

\* resumeWalkFrom: the graph and the steps are read anew.
Resume(t) ==
  /\ pc[t] = "resuming"
  /\ LET r == job[t].run
         n == job[t].node IN
     \/ /\ Goto(t, "resuming", "walking")
        /\ \E out \in Outs(n) :
             Keep(t, [job[t] EXCEPT !.graph = nodes, !.visited = StepsOf(r),
                                    !.todo = IF n \in nodes THEN out ELSE <<>>])
        /\ UNCHANGED <<left, run>>
     \/ /\ Erring("load")   \* a scheduler leaves the row for its next tick
        /\ IF t \in Consumers
           THEN /\ Goto(t, "resuming", "counting waits")
                /\ run' = WithFailed(r, n) \/ ("step" \in setting.failing /\ UNCHANGED run)
           ELSE Goto(t, "resuming", "renewing") /\ UNCHANGED run
        /\ UNCHANGED job
  /\ UNCHANGED <<worldVars, active, nodes, waits, delays, due, fired, conv, streamVars, lease>>

-----------------------------------------------------------------------------
(* finalizeRunIfDone.                                                      *)

CountWaits(t) ==
  /\ Goto(t, "counting waits",
          IF \E c \in waits : conv[c].run = job[t].run THEN Over(t) ELSE "counting delays")
  /\ UNCHANGED <<worldVars, left, dbVars, streamVars, lease, job>>

CountDelays(t) ==
  /\ Goto(t, "counting delays",
          IF \E d \in delays : d.run = job[t].run THEN Over(t) ELSE "judging")
  /\ UNCHANGED <<worldVars, left, dbVars, streamVars, lease, job>>

Judge(t) ==
  /\ Goto(t, "judging", "closing")
  /\ Keep(t, [job[t] EXCEPT !.verdict =
                IF run[job[t].run].failed = {} THEN "completed" ELSE "failed"])
  /\ UNCHANGED <<worldVars, left, dbVars, streamVars, lease>>

\* UpdateRun is unconditional.
Close(t) ==
  /\ Goto(t, "closing", Over(t))
  /\ run' = [run EXCEPT ![job[t].run].status = job[t].verdict]
  /\ UNCHANGED <<worldVars, left, active, nodes, waits, delays, due, fired, conv, streamVars, lease,
                 job>>

\* Any of the four calls fails: logged.
FailToClose(t) ==
  /\ pc[t] \in {"counting waits", "counting delays", "judging", "closing"}
  /\ Erring("close")
  /\ Goto(t, pc[t], Over(t))
  /\ UNCHANGED <<worldVars, dbVars, streamVars, lease, job>>

-----------------------------------------------------------------------------
(* The end of a conversation.                                              *)

\* FindPendingAgentWait: most conversations are nobody's.
Find(k) ==
  /\ pc[k] = "finding"
  /\ LET c == job[k].msg.conv IN
       IF c \in waits
       THEN /\ Goto(k, "finding", "noting")
            /\ Keep(k, [job[k] EXCEPT !.run = conv[c].run, !.node = conv[c].node])
       ELSE Goto(k, "finding", "acking") /\ UNCHANGED job
  /\ UNCHANGED <<worldVars, left, dbVars, streamVars, lease>>

\* resumeWalk reads the automation; a conversation that failed fails its node.
Note(k) ==
  /\ Goto(k, "noting", "resolving")
  /\ Keep(k, [job[k] EXCEPT !.live = active])
  /\ run' = IF job[k].msg.status = "finished" THEN run ELSE WithFailed(job[k].run, job[k].node)
  /\ UNCHANGED <<worldVars, left, active, nodes, waits, delays, due, fired, conv, streamVars,
                 lease>>

Siblings(k) == {c \in waits : conv[c].run = job[k].run /\ conv[c].node = job[k].node}
AfterLast(k) ==
  IF job[k].msg.status = "finished" /\ job[k].live THEN "checking" ELSE "counting waits"

\* MUTANT of Resolve: the count is a statement of its own.
ResolveInTwoSteps(k) ==
  /\ \/ /\ Goto(k, "resolving", "tallying")
        /\ waits' = waits \ {job[k].msg.conv}
     \/ /\ Goto(k, "tallying", IF Siblings(k) # {} THEN "counting waits" ELSE AfterLast(k))
        /\ UNCHANGED waits
  /\ UNCHANGED <<worldVars, left, active, nodes, run, delays, due, fired, conv, streamVars, lease,
                 job>>

\* MUTANT of Resolve: the row itself is counted.
ResolveAfterCount(k) ==
  /\ Goto(k, "resolving", IF Siblings(k) # {} THEN "counting waits" ELSE AfterLast(k))
  /\ waits' = waits \ {job[k].msg.conv}
  /\ UNCHANGED <<worldVars, left, active, nodes, run, delays, due, fired, conv, streamVars, lease,
                 job>>

\* DeletePendingAgentWaitAndCountRemaining, in one transaction under a lock.
Resolve(k) ==
  /\ Goto(k, "resolving",
          IF Siblings(k) \ {job[k].msg.conv} # {} THEN "counting waits" ELSE AfterLast(k))
  /\ waits' = waits \ {job[k].msg.conv}
  /\ UNCHANGED <<worldVars, left, active, nodes, run, delays, due, fired, conv, streamVars, lease,
                 job>>

\* MUTANT of Check: one sibling's success is enough.
CheckNothing(k) ==
  /\ Goto(k, "checking", "resuming")
  /\ UNCHANGED <<worldVars, left, dbVars, streamVars, lease, job>>

\* The last one: has a sibling failed the node?  If that cannot be read the run goes on
\* without what is behind the node.
Check(k) ==
  /\ \/ /\ Goto(k, "checking",
                IF job[k].node \in run[job[k].run].failed THEN "counting waits" ELSE "resuming")
        /\ UNCHANGED left
     \/ /\ Erring("list")
        /\ Goto(k, "checking", "counting waits")
  /\ UNCHANGED <<worldVars, dbVars, streamVars, lease, job>>

\* A call fails before a run is opened or the wait is resolved: the message is not
\* acknowledged.
Abandon(k) ==
  /\ pc[k] \in {"handling", "finding", "noting", "resolving"}
  /\ Erring("find")
  /\ Goto(k, pc[k], "idle")
  /\ Keep(k, NoJob)
  /\ UNCHANGED <<worldVars, dbVars, streamVars, lease>>

-----------------------------------------------------------------------------
(* WaitScheduler.                                                          *)

\* acquireLock.  A tick that finds nothing due changes nothing.
Lead(s) ==
  /\ s \in Waiters \cap setting.up /\ due # {}
  /\ lease.wait = None
  /\ Goto(s, "idle", "listing")
  /\ lease' = [lease EXCEPT !.wait = s]
  /\ UNCHANGED <<worldVars, left, dbVars, streamVars, job>>

ListDue(s) ==
  /\ s \in Waiters
  /\ Goto(s, "listing", "renewing")
  /\ Keep(s, [NoJob EXCEPT !.rest = due])
  /\ UNCHANGED <<worldVars, left, dbVars, streamVars, lease>>

\* MUTANT of Renew: whoever holds the lock, the lease is extended.
RenewAnyway(s) ==
  /\ \/ \E d \in job[s].rest :
          /\ Goto(s, "renewing", "reviving")
          /\ Keep(s, [NoJob EXCEPT !.run = d.run, !.node = d.node, !.delay = d,
                                !.rest = job[s].rest \ {d}])
     \/ /\ job[s].rest = {}
        /\ Goto(s, "renewing", "yielding")
        /\ UNCHANGED job
  /\ UNCHANGED <<worldVars, left, dbVars, streamVars, lease>>

\* renewLock, before each delay: without the lock the tick is over.
Renew(s) ==
  /\ \/ \E d \in job[s].rest :
          /\ lease.wait = s
          /\ Goto(s, "renewing", "reviving")
          /\ Keep(s, [NoJob EXCEPT !.run = d.run, !.node = d.node, !.delay = d,
                                !.rest = job[s].rest \ {d}])
     \/ /\ job[s].rest = {} \/ lease.wait # s
        /\ Goto(s, "renewing", "yielding")
        /\ UNCHANGED job
  /\ UNCHANGED <<worldVars, left, dbVars, streamVars, lease>>

\* resumeAfterDelay: in an automation that is not active nothing is resumed.
Revive(s) ==
  /\ Goto(s, "reviving", IF active THEN "resuming" ELSE "clearing")
  /\ UNCHANGED <<worldVars, left, dbVars, streamVars, lease, job>>

InHand(s) == job[s].delay

\* MUTANT of Clear: the pauses are counted before the row is deleted.
ClearAfterCount(s) ==
  /\ Goto(s, "clearing", "renewing")
  /\ delays' = delays \ {InHand(s)} /\ due' = due \ {InHand(s)}
  /\ UNCHANGED <<worldVars, left, active, nodes, run, waits, fired, conv, streamVars, lease, job>>

\* DeletePendingDelay, once the walk has ended or paused elsewhere.
Clear(s) ==
  /\ \/ /\ Goto(s, "clearing", "counting waits")
        /\ delays' = delays \ {InHand(s)} /\ due' = due \ {InHand(s)}
        /\ UNCHANGED left
     \/ /\ Erring("clear")
        /\ Goto(s, "clearing", "renewing")
        /\ UNCHANGED <<delays, due>>
  /\ UNCHANGED <<worldVars, active, nodes, run, waits, fired, conv, streamVars, lease, job>>

\* releaseLock, which compares the token.
Yield(s) ==
  /\ s \in Waiters
  /\ Goto(s, "yielding", "idle")
  /\ Keep(s, NoJob)
  /\ lease' = IF lease.wait = s THEN [lease EXCEPT !.wait = None] ELSE lease
  /\ UNCHANGED <<worldVars, left, dbVars, streamVars>>

-----------------------------------------------------------------------------
(* DueDateScheduler and CronScheduler.  A due date is a schedule with one  *)
(* occurrence; missed occurrences of a cron collapse into the last one.    *)

LeadClock(s) ==
  /\ s \in Clocks \cap setting.up /\ fired < clock
  /\ lease.clock = None
  /\ Goto(s, "idle", "listing")
  /\ lease' = [lease EXCEPT !.clock = s]
  /\ UNCHANGED <<worldVars, left, dbVars, streamVars, job>>

\* ListDueDateCandidates, ListCronCandidates: of active automations, not fired yet.
ListFires(s) ==
  /\ s \in Clocks
  /\ Goto(s, "listing", IF active /\ fired < clock THEN "recording" ELSE "yielding")
  /\ Keep(s, [NoJob EXCEPT !.cause = clock])
  /\ UNCHANGED <<worldVars, left, dbVars, streamVars, lease>>

\* MUTANT of RecordFire: the anchor is recorded and not the occurrence.
RecordAnchor(s) ==
  /\ Goto(s, "recording", "opening")
  /\ fired' = job[s].cause - 1
  /\ UNCHANGED <<worldVars, left, active, nodes, run, waits, delays, due, conv, streamVars, lease,
                 job>>

\* RecordDueDateFire, RecordCronFire: unconditional, and before the run.
RecordFire(s) ==
  /\ \/ /\ Goto(s, "recording", "opening")
        /\ fired' = job[s].cause
        /\ UNCHANGED left
     \/ /\ Erring("record")
        /\ Goto(s, "recording", "yielding")
        /\ UNCHANGED fired
  /\ UNCHANGED <<worldVars, active, nodes, run, waits, delays, due, conv, streamVars, lease, job>>

\* The lock is deleted, whosever it is.
YieldClock(s) ==
  /\ s \in Clocks
  /\ Goto(s, "yielding", "idle")
  /\ Keep(s, NoJob)
  /\ lease' = [lease EXCEPT !.clock = None]
  /\ UNCHANGED <<worldVars, left, dbVars, streamVars>>

Step(t) ==
  \/ (t \in Consumers /\ Take(t)) \/ Handle(t) \/ HandleExternal(t)
  \/ HandleSprint(t) \/ Ack(t) \/ Open(t) \/ Look(t) \/ Apply(t) \/ Ask(t)
  \/ StartConversation(t) \/ FailNode(t) \/ Record(t) \/ CreateDelay(t) \/ CreateWait(t)
  \/ EndWalk(t) \/ Resume(t)
  \/ CountWaits(t) \/ CountDelays(t) \/ Judge(t) \/ Close(t) \/ FailToClose(t)
  \/ Find(t) \/ Note(t) \/ Resolve(t) \/ Check(t) \/ Abandon(t)
  \/ Lead(t) \/ ListDue(t) \/ Renew(t) \/ Revive(t) \/ Clear(t) \/ Yield(t)
  \/ LeadClock(t) \/ ListFires(t) \/ RecordFire(t) \/ YieldClock(t)

-----------------------------------------------------------------------------
(* What happens around the engine.                                         *)

\* Somebody is about to record that the node of c waits for it.
Unregistered(c) ==
  \E t \in Threads : /\ pc[t] \in {"acting", "registering"}
                     /\ job[t].run = conv[c].run /\ job[t].node = conv[c].node

\* The runner reports the end of a conversation.  One that was told to stop may
\* have finished just before.
EndConversation(c) ==
  /\ c \in DOMAIN conv
  /\ setting.early \/ ~Unregistered(c)
  /\ \E s \in CASE conv[c].status = "running"  -> setting.outcomes
                [] conv[c].status = "stopping" -> {"stopped", "finished"}
                [] OTHER -> {} :
       /\ conv' = [conv EXCEPT ![c].status = s]
       /\ mail' = mail \cup {Ended(c, s, "runner")}
  /\ UNCHANGED <<worldVars, left, active, nodes, run, waits, delays, due, fired, pel, boot, lease,
                 pc, job>>

\* StopConversation of the api tells the engine before it tells the runner.
StopConversation(c) ==
  /\ c \in DOMAIN conv
  /\ conv[c].status = "running" /\ (setting.early \/ ~Unregistered(c))
  /\ Spend("stops")
  /\ conv' = [conv EXCEPT ![c].status = "stopping"]
  /\ mail' = mail \cup {Ended(c, "stopped", "api")}
  /\ UNCHANGED <<worldVars, active, nodes, run, waits, delays, due, fired, pel, boot, lease, pc,
                 job>>

FallDue(d) ==
  /\ d \in delays \ due
  /\ due' = due \cup {d}
  /\ UNCHANGED <<worldVars, left, active, nodes, run, waits, delays, fired, conv, streamVars, lease,
                 pc, job>>

Occur ==
  /\ clock < setting.occurrences
  /\ clock' = clock + 1
  /\ UNCHANGED <<setting, done, left, dbVars, streamVars, lease, pc, job>>

\* A watched task is done, and everybody is told.
FinishTask(i) ==
  /\ i \in setting.watched \ done
  /\ done' = done \cup {i}
  /\ mail' = mail \cup {Finished(i)}
  /\ UNCHANGED <<setting, clock, left, dbVars, pel, boot, lease, pc, job>>

\* Activate and Deactivate.
Toggle ==
  /\ Spend("toggles")
  /\ active' = ~active
  /\ UNCHANGED <<worldVars, nodes, run, waits, delays, due, fired, conv, streamVars, lease, pc,
                 job>>

\* MUTANT of RemoveNode: the pauses of the node stay.
RemoveNodeAlone(n) ==
  /\ n \in nodes
  /\ Spend("removes")
  /\ nodes' = nodes \ {n}
  /\ run' = [r \in DOMAIN run |-> [run[r] EXCEPT !.steps[n] = 0, !.failed = @ \ {n}]]
  /\ UNCHANGED <<worldVars, active, waits, delays, due, fired, conv, streamVars, lease, pc, job>>

\* RemoveNode: every row that names the node goes with it.
RemoveNode(n) ==
  /\ n \in nodes
  /\ Spend("removes")
  /\ nodes' = nodes \ {n}
  /\ run' = [r \in DOMAIN run |-> [run[r] EXCEPT !.steps[n] = 0, !.failed = @ \ {n}]]
  /\ waits' = {c \in waits : conv[c].node # n}
  /\ delays' = {d \in delays : d.node # n} /\ due' = {d \in due : d.node # n}
  /\ UNCHANGED <<worldVars, active, fired, conv, streamVars, lease, pc, job>>

\* A thread dies half-way; a replica reads its unacknowledged messages again.
Crash(t) ==
  /\ t \in setting.mortal /\ pc[t] # "idle"
  /\ Spend("crashes")
  /\ pc' = [pc EXCEPT ![t] = "idle"]
  /\ Keep(t, NoJob)
  /\ boot' = [k \in Consumers |-> IF k = t THEN pel[k] ELSE boot[k]]
  /\ run' = IF pc[t] = "acting" THEN Forgets(t, job[t].run, job[t].node) ELSE run
  /\ UNCHANGED <<worldVars, active, nodes, waits, delays, due, fired, conv, mail, pel, lease>>

\* The TTL of a lock runs out: its holder has died, or is late.  WaitScheduler renews
\* it before every delay: unless the setting is slow, that is soon enough for the
\* delay, and a tick of the other schedulers is over in time.
Lapse(kind) ==
  /\ lease[kind] # None
  /\ \/ pc[lease[kind]] = "idle" /\ UNCHANGED left
     \/ (setting.slow \/ pc[lease[kind]] = "renewing") /\ Spend("lapses")
  /\ lease' = [lease EXCEPT ![kind] = None]
  /\ UNCHANGED <<worldVars, dbVars, streamVars, pc, job>>

Next ==
  \/ \E t \in Threads : Step(t) \/ Crash(t)
  \/ \E c \in DOMAIN conv : EndConversation(c) \/ StopConversation(c)
  \/ \E d \in delays : FallDue(d)
  \/ Occur \/ Toggle
  \/ \E i \in setting.watched : FinishTask(i)
  \/ \E n \in nodes : RemoveNode(n)
  \/ \E kind \in {"wait", "clock"} : Lapse(kind)

Spec == Init /\ [][Next]_vars

\* Threads that live go on, conversations end, time passes.
Fairness ==
  /\ \A t \in Threads : WF_vars(Step(t))
  /\ WF_vars(\E c \in DOMAIN conv : EndConversation(c))
  /\ WF_vars(\E d \in delays : FallDue(d))
  /\ \A kind \in {"wait", "clock"} : WF_vars(Lapse(kind))

FairSpec == Spec /\ Fairness
-----------------------------------------------------------------------------
(* Properties.                                                             *)

Idle(t) == pc[t] = "idle"
WorksOn(t, r) == ~Idle(t) /\ job[t].run = r
Paused(r) == (\E c \in waits : conv[c].run = r) \/ (\E d \in delays : d.run = r)

\* In graph g: the nodes whose step may be followed by one of n, and where no trigger leads.
Before(g, n) == {m \in DOMAIN g.kind : \E out \in g.outs[m] : n \in ToSet(out)}
Later(g) == DOMAIN g.kind \ UNION {ToSet(g.first[a]) : a \in DOMAIN g.first}
Of(g, kinds) == {m \in DOMAIN g.kind : g.kind[m] \in kinds}

\* Whatever leads into S is a node of `from`, or a node of S at which a walk goes on.
Entered(g, S, from) ==
  \A n \in S : Before(g, n) \subseteq from \cup (S \cap Of(g, {"condition", "action"}))

\* The nodes that only the first walk of a run comes by, those that only the resumptions
\* of delays come by, and those that only a walk behind the agents of node m comes by.
Origins ==
  [x \in DOMAIN Graphs |-> LET g == Graphs[x] IN
     [trigger |-> UNION {S \in SUBSET DOMAIN g.kind : Entered(g, S, {})},
      delay   |-> UNION {S \in SUBSET Later(g) : Entered(g, S, Of(g, {"wait"}))},
      agent   |-> [m \in DOMAIN g.kind |->
                     UNION {S \in SUBSET (Later(g) \ {m}) : Entered(g, S, {m})}]]]
ByTrigger  == Origins[setting.graph].trigger
ByDelay    == Origins[setting.graph].delay
ByAgent(m) == Origins[setting.graph].agent[m]
Agents     == {m \in ByTrigger \cup ByDelay : Is(m, "agent")}
OneWalk    == ByTrigger \cup ByDelay \cup UNION {ByAgent(m) : m \in Agents}

\* Rows name rows: a pause is of a run and a node that exist, a delay that is due
\* is a delay, and only a replica that has read a message may acknowledge it.
TypeOK ==
  /\ \A c \in waits : c \in DOMAIN conv /\ conv[c].node \in nodes
  /\ \A d \in delays : d.run \in DOMAIN run /\ d.node \in nodes
  /\ due \subseteq delays
  /\ \A r \in DOMAIN run : run[r].status \in {"running", "completed", "failed"}
  /\ fired \in Nat /\ fired <= clock
  /\ lease \in [{"wait", "clock"} -> Threads \cup {None}]
  /\ \A k \in Consumers : Idle(k) \/ job[k].msg \in pel[k]

\* While conversations do not outrun the rows that wait for them, and a resumption
\* does not outlast its lease, a node to which walks of one origin lead, along however
\* many paths, is visited at most once in a run, however the ends of conversations and
\* delays fall together on the replicas and whoever crashes: unless the walk behind a
\* delay, which may be repeated, has forgotten the node, or the agent before it.
Forgotten(r, n) ==
  n \in run[r].lost \/ \E m \in Agents : n \in ByAgent(m) /\ m \in run[r].lost
ExecutedOnce ==
  ~setting.early /\ ~setting.slow =>
    \A n \in OneWalk : \A r \in DOMAIN run : run[r].visits[n] <= 1 \/ Forgotten(r, n)

\* What follows an agent's node, and nothing else leads to, happens only when each
\* conversation the node has started is over, and none has failed: while no row that says
\* who is waited for, or that a node was visited, is missing.
AllSiblingsFirst ==
  /\ ~setting.early /\ ~setting.slow /\ setting.crashes = 0
  /\ setting.failing \cap {"wait", "step"} = {}
  => \A m \in Agents : \A n \in ByAgent(m) : \A c \in DOMAIN conv :
       conv[c].node = m /\ run[conv[c].run].visits[n] > 0 => conv[c].status = "finished"

\* Nothing that loses work by design of the code: a crash, an edit, an error that is
\* only logged, a conversation that ends before its row is there.
NothingLoses ==
  /\ ~setting.early /\ setting.crashes = 0 /\ setting.removes = 0
  /\ setting.failing \cap {"delay", "wait", "find", "list", "close", "step"} = {}
  /\ "open" \in setting.failing => \A e \in setting.events : e.kind # "webhook"

\* A run that nobody works on and that is not paused is closed, and behind each node
\* that completed, a condition apart, every node has been walked, unless the
\* automation was deactivated or the node's conversations or resumption failed.
NothingStranded ==
  NothingLoses =>
    \A r \in DOMAIN run :
      (\A t \in Threads : ~WorksOn(t, r)) /\ ~Paused(r) =>
        /\ run[r].status # "running"
        /\ setting.toggles = 0 =>
             \A n \in StepsOf(r) \ run[r].failed :
               Is(n, "condition") \/ \A out \in Outs(n) : ToSet(out) \subseteq StepsOf(r)

\* A delay is in the hands of one scheduler at a time, as long as resuming one takes
\* less than the lease: leases that lapse between two delays, and crashes, do no harm.
OneResumer ==
  ~setting.slow =>
    \A s1, s2 \in Waiters :
      s1 # s2 /\ {pc[s1], pc[s2]} \cap {"idle", "listing", "renewing", "yielding"} = {}
        => InHand(s1) # InHand(s2)

\* An occurrence of a schedule starts at most one run.
FiresOnce ==
  \A r1, r2 \in DOMAIN run : run[r1].cause = run[r2].cause /\ run[r1].cause # 0 => r1 = r2

\* So it is as long as every tick is over before its lease runs out, even when a
\* scheduler dies half-way.
FiresOnceInTime == ~setting.slow => FiresOnce

\* The engine never starts a run because of what it did itself: there is one for each
\* event from outside and, since messages are read again, one for each crash.
Causes ==
  setting.crashes + setting.occurrences + Cardinality(setting.watched) + Cardinality(setting.events)
NoSelfTrigger == Len(run) <= Causes

\* Where nothing loses work, in the end every message is heard, a predecessor_done
\* trigger all of whose tasks are done has fired, in whichever order they were done
\* and their messages read, and every run is closed for good.
Settled ==
  /\ setting.watched # {} /\ done = setting.watched => run # <<>>
  /\ mail = {} /\ \A k \in Consumers : pel[k] = {}
  /\ \A r \in DOMAIN run : run[r].status # "running" /\ ~Paused(r)
RunsSettle == <>[](NothingLoses => Settled)

-----------------------------------------------------------------------------
(* The inductive invariant behind TypeOK, OneResumer and FiresOnceInTime.  *)

\* Where a thread walks a graph, and where it looks whether the run is over.
Walking == {"walking", "acting", "pausing", "registering"}
Closing == {"counting waits", "counting delays", "judging", "closing"}

\* Each thread stays in the functions that are its own.
Places(t) == Walking \cup Closing \cup
  CASE t \in Consumers -> {"idle", "handling", "acking", "opening", "finding", "noting",
                           "resolving", "checking", "resuming"}
    [] t \in Waiters   -> {"idle", "listing", "renewing", "reviving", "resuming", "clearing",
                           "yielding"}
    [] OTHER           -> {"idle", "listing", "recording", "opening", "yielding"}
Placed == pc = [t \in Threads |-> pc[t]] /\ \A t \in Threads : pc[t] \in Places(t)

\* The rows of runs and conversations are never deleted, and a conversation is of a run.
RunRow == [status : {"running", "completed", "failed"}, cause : Nat,
           steps : [DOMAIN Graph.kind -> Nat], failed : SUBSET DOMAIN Graph.kind,
           visits : [DOMAIN Graph.kind -> Nat], lost : SUBSET DOMAIN Graph.kind]
IsList(s) == Len(s) \in Nat /\ s = [i \in 1..Len(s) |-> s[i]]
Rows ==
  /\ nodes \subseteq DOMAIN Graph.kind
  /\ run \in Seq(RunRow)
  /\ IsList(conv)
  /\ \A c \in DOMAIN conv :
       DOMAIN conv[c] = {"run", "node", "status"} /\ conv[c].run \in DOMAIN run

\* Whoever has a run in hand has one that exists; the conversations a walk has just
\* started are of its run and node, and the delays of a tick were of runs.
WithRun == Walking \cup Closing \cup
  {"noting", "resolving", "checking", "resuming", "reviving", "clearing"}
Started(t) ==
  \A i \in DOMAIN job[t].convs : LET c == job[t].convs[i] IN
    c \in DOMAIN conv /\ conv[c].run = job[t].run /\ conv[c].node = job[t].node
Sound(t) ==
  /\ DOMAIN job[t] = DOMAIN NoJob
  /\ pc[t] \in WithRun => job[t].run \in DOMAIN run
  /\ pc[t] = "closing" => job[t].verdict \in {"completed", "failed"}
  /\ \A d \in job[t].rest : d.run \in DOMAIN run
  /\ job[t].convs \in Seq(Nat)
  /\ pc[t] = "acting" => job[t].node \in DOMAIN Graph.kind
  /\ pc[t] \in {"acting", "registering"} => Started(t)
  /\ pc[t] = "registering" => job[t].convs # <<>>
  /\ job[t].cause \in Nat /\ job[t].cause <= clock
  /\ t \notin Clocks => job[t].cause = 0
Jobs ==
  /\ job = [t \in Threads |-> job[t]] /\ \A t \in Threads : Sound(t)
  /\ clock \in Nat /\ pel = [k \in Consumers |-> pel[k]]

\* While no scheduler is slow, one that resumes delays or fires occurrences has the lease.
Resting == {"idle", "listing", "renewing", "yielding"}
Leases ==
  /\ lease.wait \in Waiters \cup {None} /\ lease.clock \in Clocks \cup {None}
  /\ ~setting.slow =>
       /\ \A s \in Waiters : pc[s] \notin Resting => lease.wait = s
       /\ \A s \in Clocks : pc[s] # "idle" => lease.clock = s

\* An occurrence is recorded before its run is opened, and after every run before it.
Anchored ==
  ~setting.slow =>
    /\ \A r \in DOMAIN run : run[r].cause <= fired
    /\ \A s \in Clocks : pc[s] = "recording" => fired < job[s].cause
    /\ \A s \in Clocks : pc[s] = "opening" =>
         0 < fired /\ job[s].cause = fired /\ \A r \in DOMAIN run : run[r].cause < fired
    /\ FiresOnce

IInv == TypeOK /\ Placed /\ Rows /\ Jobs /\ Leases /\ Anchored

-----------------------------------------------------------------------------
(* ... and the one behind NoSelfTrigger: what may still open a run is counted. *)

\* A message that may open a run.
Triggers(m) ==
  m.kind \in {"task", "webhook", "sprint"} /\ (m.kind = "task" => m.by # "automation")

\* The actions tell of nothing that triggers; and no occurrence is recorded twice.
OwnWritesIgnored ==
  /\ ~setting.slow
  /\ \A n \in {n \in DOMAIN Graph.kind : Is(n, "action")} : \A m \in Graph.tells[n] : ~Triggers(m)

\* Where a replica has opened no run for the message it has read, and where it hears
\* of the end of a conversation.
Fresh   == {"idle", "handling", "opening"}
Hearing == {"finding", "noting", "resolving"}

\* A replica reads again only what it has not acknowledged and has not got in hand; it
\* opens a run for a message that may trigger one and resumes one for an end.
Reads(k) ==
  /\ boot[k] \subseteq pel[k] /\ (~Idle(k) => job[k].msg \notin boot[k])
  /\ pc[k] = "opening" => Triggers(job[k].msg)
  /\ pc[k] \in Hearing => job[k].msg.kind = "ended"
Streams == boot = [k \in Consumers |-> boot[k]] /\ \A k \in Consumers : Reads(k)
Budget ==
  /\ DOMAIN left = {"crashes", "errors", "stops", "removes", "toggles", "lapses"}
  /\ left.crashes \in Nat /\ done \subseteq setting.watched
  /\ setting \in Settings /\ clock <= setting.occurrences

\* What may still open a run: a message nobody has read, one that was read and for which
\* no run has been opened since, an occurrence that is recorded, or is to come.
Unread == {m \in mail : Triggers(m)}
Unused(k) == {m \in pel[k] : Triggers(m) /\ (pc[k] \notin Fresh => job[k].msg # m)}
Pending == UNION {{k} \X Unused(k) : k \in Consumers}
Recorded == IF \E s \in Clocks : pc[s] = "opening" THEN 1 ELSE 0

Chances ==
  Cardinality(Unread) + Cardinality(Pending) + Cardinality(setting.watched \ done) + left.crashes
  + Recorded + (setting.occurrences - fired)

Accounted ==
  IsFiniteSet(Unread) /\ IsFiniteSet(Pending) /\ Len(run) + Chances <= Causes

CausesInv == IInv /\ Streams /\ Budget /\ (OwnWritesIgnored => Accounted)
-----------------------------------------------------------------------------
(* ... and the one behind ExecutedOnce, AllSiblingsFirst and NothingStranded: *)
(* where what is still to be walked can be.                                *)

\* A thread at a node of a kind has that kind of node in hand; whoever hears of the end
\* of a conversation works on its run and, until the walk goes on, on its node.
Hears(t) == t \in Consumers /\ job[t].msg.kind = "ended"
AtNode == {"noting", "resolving", "checking", "resuming"}
Errand(t) ==
  /\ job[t].todo \in Seq(DOMAIN Graph.kind)
  /\ \A d \in job[t].rest : Is(d.node, "wait")
  /\ pc[t] \in {"handling", "recording", "opening"} =>
       job[t].visited = {} /\ (t \in Clocks => job[t].msg = NoJob.msg /\ clock > 0)
  /\ pc[t] = "pausing" => Is(job[t].node, "wait")
  /\ pc[t] = "acting" =>
       /\ job[t].node \in job[t].visited
       /\ Is(job[t].node, "agent") \/ (job[t].want = 0 /\ job[t].convs = <<>>)
  /\ pc[t] = "registering" => Is(job[t].node, "agent") /\ job[t].node \in job[t].visited
  /\ t \in Waiters /\ pc[t] \in {"reviving", "resuming"} => Is(job[t].node, "wait")
  /\ t \in Consumers /\ pc[t] \in AtNode =>
       Hears(t) /\ job[t].node = conv[job[t].msg.conv].node
  /\ Hears(t) /\ pc[t] \in WithRun => job[t].run = conv[job[t].msg.conv].run
Errands ==
  /\ \A t \in Threads : Errand(t)
  /\ \A c \in DOMAIN conv : Is(conv[c].node, "agent")
  /\ \A d \in delays : Is(d.node, "wait")

\* A conversation of which it is told that it has ended is not running, and that it
\* has finished is told once.
Known(m) ==
  IF m.kind = "ended"
  THEN /\ m.conv \in DOMAIN conv /\ conv[m.conv].status # "running"
       /\ m.status = "finished" =>
            conv[m.conv].status = "finished" /\ m = Ended(m.conv, "finished", "runner")
  ELSE m.about \in DOMAIN Graph.first
ToldOnce(k, m) ==
  m.kind = "ended" /\ m.status = "finished" =>
    m \notin mail /\ \A k2 \in Consumers : m \in pel[k2] => k2 = k
Told ==
  /\ \A m \in mail : Known(m)
  /\ \A k \in Consumers : \A m \in pel[k] : Known(m) /\ ToldOnce(k, m)

\* What may not happen in the setting is not left to happen.
Spared ==
  /\ \A what \in {"crashes", "removes", "toggles"} : left[what] \in Nat
  /\ setting.crashes = 0 => left.crashes = 0
  /\ setting.removes = 0 => left.removes = 0 /\ nodes = DOMAIN Graph.kind
  /\ setting.toggles = 0 => left.toggles = 0 /\ active
  /\ setting.crashes = 0 /\ "step" \notin setting.failing => \A r \in DOMAIN run : run[r].lost = {}

\* Nobody goes on behind a node that has failed or is removed.
Doomed(r, m) == m \in run[r].failed \/ m \notin nodes
Noted(k) ==
  pc[k] = "resolving" /\ k \in Consumers =>
    /\ job[k].msg.status # "finished" => Doomed(job[k].run, job[k].node)
    /\ setting.toggles = 0 => job[k].live

WalkBase == Errands /\ Told /\ Spared /\ \A k \in Threads : Noted(k)

\* What thread t is still to visit, or is visiting; and the walk it is on.
Ahead(t) == (ToSet(job[t].todo) \cap job[t].graph) \ job[t].visited
Acting(t, n) == pc[t] = "acting" /\ job[t].node = n
Walks(t, r) == pc[t] \in Walking /\ job[t].run = r
Has(t, r, n) ==
  /\ Walks(t, r)
  /\ n \in Ahead(t) \/ (pc[t] \in {"acting", "registering"} /\ job[t].node = n)
FirstWalk(t, r) == Walks(t, r) /\ t \notin Waiters /\ ~Hears(t)
DelayWalk(t, r) == Walks(t, r) /\ t \in Waiters

\* A node that has not been visited in the walk of t has not been visited by others; and
\* one that a walk behind a delay has come by is known to the next one.
Unmet(t, r, n) ==
  n \in job[t].graph \ job[t].visited => run[r].visits[n] = 0 \/ n \in run[r].lost
Traced(r, n) ==
  run[r].visits[n] > 0 =>
    \/ n \in StepsOf(r) \/ n \notin nodes \/ n \in run[r].lost
    \/ \E t \in Threads : DelayWalk(t, r) /\ Acting(t, n)
OwnWalks(r) ==
  /\ \A t1, t2 \in Threads : FirstWalk(t1, r) /\ FirstWalk(t2, r) => t1 = t2
  /\ \A t \in Threads :
       /\ \A n \in ByTrigger : /\ Has(t, r, n) => FirstWalk(t, r)
                               /\ FirstWalk(t, r) => Unmet(t, r, n)
       /\ \A n \in ByDelay : /\ Has(t, r, n) => DelayWalk(t, r)
                             /\ DelayWalk(t, r) => Unmet(t, r, n)
  /\ \A n \in ByDelay : Traced(r, n)

\* The walk that may come by an agent's node, and has not.
Asker(t, r, m) == IF m \in ByTrigger THEN FirstWalk(t, r) ELSE DelayWalk(t, r)
Nears(t, r, m) == Asker(t, r, m) /\ (m \in job[t].graph \ job[t].visited \/ Acting(t, m))

\* What happens at an agent's node, in turn: its conversations are registered, the ends of
\* them are heard, the last of which wins, and what is behind the node is walked.
WaitsOf(r, m) == {c \in waits : conv[c].run = r /\ conv[c].node = m}
Registers(t, r, m) == Walks(t, r) /\ pc[t] = "registering" /\ job[t].node = m
At(k, r, m) == k \in Consumers /\ job[k].run = r /\ job[k].node = m
Contends(k, r, m) ==
  At(k, r, m) /\ pc[k] \in {"noting", "resolving"} /\ job[k].msg.status = "finished"
Wins(k, r, m) ==
  At(k, r, m) /\ ((pc[k] = "resuming" /\ m \in nodes) \/ (pc[k] = "checking" /\ ~Doomed(r, m)))
Follows(t, r, m) == Wins(t, r, m) \/ \E n \in ByAgent(m) : Has(t, r, n)
Followed(r, m) ==
  (\E t \in Threads : Follows(t, r, m)) \/ \E n \in ByAgent(m) : run[r].visits[n] > 0
Touched(r, m) ==
  \/ WaitsOf(r, m) # {} \/ Followed(r, m)
  \/ \E t \in Threads : Contends(t, r, m) \/ Registers(t, r, m)

AtAgent(r, m) ==
  /\ \A t \in Threads : Nears(t, r, m) => ~Touched(r, m)
  /\ Touched(r, m) => m \in StepsOf(r) \/ m \notin nodes \/ m \in ByTrigger
  /\ \A t \in Threads : Registers(t, r, m) =>
       /\ ~Followed(r, m) /\ \A k \in Threads : ~Contends(k, r, m)
       /\ \A c \in WaitsOf(r, m) : conv[c].status = "running"
  /\ Followed(r, m) /\ ~Doomed(r, m) =>
       WaitsOf(r, m) = {} /\ \A k \in Threads : ~Contends(k, r, m)
  /\ \A t1, t2 \in Threads : Follows(t1, r, m) /\ Follows(t2, r, m) => t1 = t2
  /\ \A t \in Threads : Follows(t, r, m) =>
       \A n \in ByAgent(m) : /\ pc[t] \in Walking => Unmet(t, r, n)
                             /\ pc[t] \notin Walking => run[r].visits[n] = 0
  /\ \A k \in Threads : Contends(k, r, m) /\ job[k].msg.conv \notin waits => Doomed(r, m)

\* The conversations that a walk has just started, and is to wait for, are running.
Attended(t) ==
  pc[t] \in {"acting", "registering"} =>
    \A c \in ToSet(job[t].convs) : conv[c].status = "running"

OnceInv ==
  ~setting.early /\ ~setting.slow =>
    /\ \A t \in Threads : Attended(t)
    /\ \A r \in DOMAIN run : OwnWalks(r) /\ \A m \in Agents \ run[r].lost : AtAgent(r, m)
    /\ ExecutedOnce

\* Whoever may leave a run without having looked for its pauses leaves a delay behind.
Engaged(t, r) ==
  /\ job[t].run = r
  /\ pc[t] \in Closing \/ (t \notin Waiters /\ pc[t] \in Walking \cup {"checking", "resuming"})

\* Who will see to it that x, which follows n, is visited.
Brings(t, r, x) == Walks(t, r) /\ (x \in Ahead(t) \/ Acting(t, x))
Awaits(r, n, x) ==
  \/ [run |-> r, node |-> n] \in delays \/ WaitsOf(r, n) # {}
  \/ \E t \in Threads : \/ Brings(t, r, x)
                        \/ Walks(t, r) /\ pc[t] \in {"pausing", "registering"} /\ job[t].node = n
                        \/ At(t, r, n) /\ pc[t] \in {"checking", "resuming"}

\* What a thread has visited has been executed, in the whole graph.
Faithful(t) ==
  pc[t] \in Walking =>
    /\ job[t].graph = DOMAIN Graph.kind
    /\ \A n \in job[t].visited : n \in StepsOf(job[t].run) \/ Acting(t, n)

\* A scheduler that resumes a delay has all in hand that follows its node, until it is
\* visited; only then is the row deleted.
Reviving == Walking \cup {"reviving", "resuming", "clearing"}
Redeems(s) ==
  s \in Waiters /\ pc[s] \in Reviving =>
    /\ job[s].delay.run = job[s].run
    /\ pc[s] \in {"reviving", "resuming"} => job[s].delay.node = job[s].node
    /\ setting.toggles = 0 /\ pc[s] \in Walking \cup {"clearing"} =>
         \A out \in Outs(job[s].delay.node) : \A x \in ToSet(out) :
           x \in StepsOf(job[s].run) \/ Brings(s, job[s].run, x)

\* A run that is open is paused or somebody's; what follows a node that completed is
\* visited, or will be.
Held(r) == run[r].status = "running" => Paused(r) \/ \E t \in Threads : Engaged(t, r)
Followable(r) == {n \in StepsOf(r) \ run[r].failed : ~Is(n, "condition")}
Pursued(r) ==
  \A n \in Followable(r) : \A out \in Outs(n) : \A x \in ToSet(out) :
    x \in StepsOf(r) \/ Awaits(r, n, x)

CarryInv ==
  NothingLoses =>
    /\ \A t \in Threads : Faithful(t) /\ Redeems(t)
    /\ \A r \in DOMAIN run : Held(r) /\ (setting.toggles = 0 => Pursued(r))

\* No conversation of an agent's node is lost sight of before it has finished, unless the
\* node has failed: a walk that may still come by the node is just starting it.
Heeded(c, r, m) ==
  /\ ~Doomed(r, m) =>
       \/ c \in waits \/ conv[c].status = "finished"
       \/ \E t \in Threads : pc[t] \in {"acting", "registering"} /\ c \in ToSet(job[t].convs)
  /\ Followed(r, m) => conv[c].status = "finished"
  /\ m \in StepsOf(r) \/ m \notin nodes \/ \E t \in Threads : Walks(t, r) /\ Acting(t, m)
  /\ \A t \in Threads : Nears(t, r, m) => Acting(t, m) /\ c \in ToSet(job[t].convs)

HeardInv ==
  /\ ~setting.early /\ ~setting.slow /\ setting.crashes = 0
  /\ setting.failing \cap {"wait", "step"} = {}
  => \A c \in DOMAIN conv : conv[c].node \in Agents => Heeded(c, conv[c].run, conv[c].node)

WalkInv == WalkBase /\ OnceInv /\ CarryInv /\ HeardInv
===============================================================================
