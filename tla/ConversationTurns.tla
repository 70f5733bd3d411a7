-------------------------- MODULE ConversationTurns --------------------------
(***************************************************************************)
(* How services/agent-runner executes the turns of conversations.          *)
(*                                                                         *)
(* A user message becomes a trigger in a Valkey stream.  The consumer      *)
(* reads it and gives it a goroutine, which takes the conversation's lock, *)
(* then one of MaxConcurrent slots, and runs Handler.Handle: mark the row  *)
(* running, register the turn as interruptible, reattach to the sandbox    *)
(* kept from the last turn or start a new one, prompt the agent, and then  *)
(* either keep the sandbox for the next message or tear it down.           *)
(* Meanwhile stop and pause messages are handled by goroutines that wait   *)
(* for no lock, and a reaper tears down sandboxes kept too long.  All of   *)
(* them meet in four places: the conversation's row, the registry of       *)
(* in-flight turns, the registry of kept sandboxes and the containers.     *)
(*                                                                         *)
(* One replica; keyed locks as KeyedMutex promises them (see ConvLock).    *)
(***************************************************************************)
EXTENDS Naturals, FiniteSets

CONSTANTS
  Conversations,
  Chats,          \* conversations of chat triggers, sandbox kept between turns
  EnvBacked,      \* conversations attached to a shared environment
  Turns,          \* trigger messages; a sandbox is named after the turn that started it
  Controls,       \* stop and pause messages
  Reaper,         \* the goroutine of reapIdleChatSandboxes
  MaxConcurrent,  \* capacity of the consumer's semaphore
  MaxCrashes,     \* bound: how often the process may die
  MaxErrors,      \* bound: how many calls of the database, the network or Docker may fail
  None

ASSUME KindAssumption ==
  /\ Chats \subseteq Conversations
  /\ EnvBacked \subseteq Conversations
  /\ Chats \cap EnvBacked = {}
ASSUME BoundAssumption == MaxConcurrent \in Nat \ {0} /\ MaxCrashes \in Nat /\ MaxErrors \in Nat
ASSUME FiniteAssumption == IsFiniteSet(Turns)
ASSUME DistinctAssumption ==
  /\ Turns \cap Controls = {}
  /\ Reaper \notin Turns \cup Controls
  /\ None \notin Turns \cup Controls \cup Conversations \cup {Reaper}

Workers == Controls \cup {Reaper}     \* goroutines that may tear a kept sandbox down

VARIABLES
  \* Postgres
  status,       \* agent_conversations.status
  events,       \* 1 + the largest event_index among the conversation's rows
  \* a trigger, and the locals of the goroutine that handles it
  tpc,          \* where it is
  tconv,        \* its conversation
  tbox,         \* Result.Handle: the sandbox the turn works in
  tclient,      \* whether Result.Client is an initialized ACP client
  tresume,      \* whether resume was non-nil
  tidx,         \* eventIndex
  tend,         \* how Run returned, then what Handle makes of it
  \* the agent-runner process
  convOwner,    \* Consumer.convLocks
  slots,        \* Consumer.sem: the turns holding one of its slots
  resumeOwner,  \* Handler.resumeLocks
  registered,   \* registry.Conversations: the in-flight turn (its token), or None
  reason,       \* the reason its entry was interrupted with
  cancelled,    \* turns whose runCtx is cancelled
  kept,         \* chatsandbox.Registry: the State kept for a conversation
  idle,         \* kept conversations whose LastActiveAt is past the idle timeout
  \* a stop or pause request, and the goroutine that handles it; and the reaper
  wpc, wconv, wkind, wbox,
  sweep,        \* what FindIdle returned and the reaper has not come to yet
  \* the sandbox backend
  live,         \* containers that are running
  \* failures
  crashes, errors,
  recon,        \* startup reconciliation: "due" or "done" after the process died, else "never"
  todo,         \* rows reconciliation has decided to fail
  spared        \* history: conversations it did not come to, or could not help

rowVars    == <<status, events>>
turnVars   == <<tpc, tconv, tbox, tclient, tresume, tidx, tend>>
lockVars   == <<convOwner, slots, resumeOwner>>
inFlight   == <<registered, reason, cancelled>>
keptVars   == <<kept, idle>>
workerVars == <<wpc, wconv, wkind, wbox, sweep>>
faultVars  == <<crashes, errors, recon, todo, spared>>
vars == <<rowVars, turnVars, lockVars, inFlight, keptVars, workerVars, live, faultVars>>

Terminal == {"stopped", "finished", "failed"}
Nothing  == [box |-> None, client |-> FALSE, present |-> FALSE]
State(b, cl) == [box |-> b, client |-> cl, present |-> TRUE]

Init ==
  /\ status = [c \in Conversations |-> "none"]
  /\ events = [c \in Conversations |-> 0]
  /\ tpc = [t \in Turns |-> "unused"]
  /\ tconv = [t \in Turns |-> None]
  /\ tbox = [t \in Turns |-> None]
  /\ tclient = [t \in Turns |-> FALSE]
  /\ tresume = [t \in Turns |-> FALSE]
  /\ tidx = [t \in Turns |-> 0]
  /\ tend = [t \in Turns |-> "none"]
  /\ convOwner = [c \in Conversations |-> None]
  /\ slots = {}
  /\ resumeOwner = [c \in Conversations |-> None]
  /\ registered = [c \in Conversations |-> None]
  /\ reason = [c \in Conversations |-> "none"]
  /\ cancelled = {}
  /\ kept = [c \in Conversations |-> Nothing]
  /\ idle = {}
  /\ wpc = [w \in Workers |-> "unused"]
  /\ wconv = [w \in Workers |-> None]
  /\ wkind = [w \in Workers |-> "none"]
  /\ wbox = [w \in Workers |-> None]
  /\ sweep = {}
  /\ live = {}
  /\ crashes = 0 /\ errors = 0 /\ recon = "never" /\ todo = {} /\ spared = {}

\* How a turn ends that leaves the row as it found it: the gate does not let it
\* run, Handle returns an error, a last write fails and is only logged.
NoVerdict == {"dropped", "error", "unwritten"}

Goto(t, from, to) == tpc[t] = from /\ tpc' = [tpc EXCEPT ![t] = to]
Step(w, from, to) == wpc[w] = from /\ wpc' = [wpc EXCEPT ![w] = to]

-----------------------------------------------------------------------------
(* services/api: what users do to a conversation.                          *)

\* A message is accepted and the row claimed: a new conversation, the next
\* message of a paused chat, or any message of an ended environment-backed one.
Claim(t, c) ==
  /\ Goto(t, "unused", "claimed")
  /\ \/ status[c] = "none"
     \/ c \in Chats /\ status[c] = "paused"
     \/ c \in EnvBacked /\ status[c] \in Terminal
  /\ status' = [status EXCEPT ![c] = "running"]
  /\ tconv' = [tconv EXCEPT ![t] = c]
  /\ UNCHANGED <<events, tbox, tclient, tresume, tidx, tend, lockVars, inFlight, keptVars,
                 workerVars, live, faultVars>>

\* The trigger is appended to the stream.
Publish(t) ==
  /\ Goto(t, "claimed", "sent")
  /\ UNCHANGED <<rowVars, tconv, tbox, tclient, tresume, tidx, tend, lockVars, inFlight,
                 keptVars, workerVars, live, faultVars>>

\* stopConversation has read a row that is not terminal ...
CheckStop(w, c) ==
  /\ Step(w, "unused", "checked")
  /\ status[c] \notin Terminal \cup {"none"}
  /\ wconv' = [wconv EXCEPT ![w] = c]
  /\ wkind' = [wkind EXCEPT ![w] = "stop"]
  /\ UNCHANGED <<rowVars, turnVars, lockVars, inFlight, keptVars, wbox, sweep, live, faultVars>>

\* ... overwrites its status ...
WriteStop(w) ==
  /\ Step(w, "checked", "written")
  /\ status' = [status EXCEPT ![wconv[w]] = "stopped"]
  /\ UNCHANGED <<events, turnVars, lockVars, inFlight, keptVars, wconv, wkind, wbox, sweep,
                 live, faultVars>>

\* ... and tells the runner.
PublishStop(w) ==
  /\ Step(w, "written", "sent")
  /\ UNCHANGED <<rowVars, turnVars, lockVars, inFlight, keptVars, wconv, wkind, wbox, sweep,
                 live, faultVars>>

\* PauseConversation: only a running row, and no write.
RequestPause(w, c) ==
  /\ Step(w, "unused", "sent")
  /\ status[c] = "running"
  /\ wconv' = [wconv EXCEPT ![w] = c]
  /\ wkind' = [wkind EXCEPT ![w] = "pause"]
  /\ UNCHANGED <<rowVars, turnVars, lockVars, inFlight, keptVars, wbox, sweep, live, faultVars>>

-----------------------------------------------------------------------------
(* The consumer: one goroutine for each trigger.                           *)

\* XREADGROUP returns the trigger; from now on nothing will deliver it again.
Deliver(t) ==
  /\ Goto(t, "sent", "waiting")
  /\ UNCHANGED <<rowVars, tconv, tbox, tclient, tresume, tidx, tend, lockVars, inFlight,
                 keptVars, workerVars, live, faultVars>>

\* MUTANT of LockConversation: triggers of one conversation are not serialized.
LockConversationFree(t) ==
  /\ Goto(t, "waiting", "locked")
  /\ convOwner' = [convOwner EXCEPT ![tconv[t]] = t]
  /\ UNCHANGED <<rowVars, tconv, tbox, tclient, tresume, tidx, tend, slots, resumeOwner,
                 inFlight, keptVars, workerVars, live, faultVars>>

LockConversation(t) ==
  /\ Goto(t, "waiting", "locked")
  /\ convOwner[tconv[t]] = None
  /\ convOwner' = [convOwner EXCEPT ![tconv[t]] = t]
  /\ UNCHANGED <<rowVars, tconv, tbox, tclient, tresume, tidx, tend, slots, resumeOwner,
                 inFlight, keptVars, workerVars, live, faultVars>>

\* MUTANT of Admit: the semaphore is one slot too large.
AdmitOneMore(t) ==
  /\ Goto(t, "locked", "admitted")
  /\ Cardinality(slots) <= MaxConcurrent
  /\ slots' = slots \cup {t}
  /\ UNCHANGED <<rowVars, tconv, tbox, tclient, tresume, tidx, tend, convOwner, resumeOwner,
                 inFlight, keptVars, workerVars, live, faultVars>>

\* The semaphore, taken after the conversation's lock.
Admit(t) ==
  /\ Goto(t, "locked", "admitted")
  /\ Cardinality(slots) < MaxConcurrent
  /\ slots' = slots \cup {t}
  /\ UNCHANGED <<rowVars, tconv, tbox, tclient, tresume, tidx, tend, convOwner, resumeOwner,
                 inFlight, keptVars, workerVars, live, faultVars>>

\* What is left of a turn whose goroutine is over: nothing but the way it ended,
\* if that was without a verdict.
Forget(t) ==
  /\ tbox' = [tbox EXCEPT ![t] = None]
  /\ tclient' = [tclient EXCEPT ![t] = FALSE]
  /\ tresume' = [tresume EXCEPT ![t] = FALSE]
  /\ tidx' = [tidx EXCEPT ![t] = 0]
  /\ tend' = [tend EXCEPT ![t] = IF @ \in NoVerdict THEN @ ELSE "none"]

\* MUTANT of Release: the slot is not given back.
ReleaseLeakingSlot(t) ==
  /\ Goto(t, "releasing", IF tend[t] = "error" THEN "lost" ELSE "done")
  /\ convOwner' = [convOwner EXCEPT ![tconv[t]] = None]
  /\ Forget(t)
  /\ UNCHANGED <<rowVars, tconv, slots, resumeOwner, inFlight, keptVars, workerVars, live,
                 faultVars>>

\* Handle returned: acknowledge unless it returned an error, free slot and lock.
Release(t) ==
  /\ Goto(t, "releasing", IF tend[t] = "error" THEN "lost" ELSE "done")
  /\ slots' = slots \ {t}
  /\ convOwner' = [convOwner EXCEPT ![tconv[t]] = None]
  /\ Forget(t)
  /\ UNCHANGED <<rowVars, tconv, resumeOwner, inFlight, keptVars, workerVars, live, faultVars>>

-----------------------------------------------------------------------------
(* Handler.Handle, up to the call of Executor.Run.                         *)

\* The gate does not let this agent run here, or dispatchACP finds no agent of
\* that id: Handle returns nil and has touched nothing, so the trigger is
\* acknowledged and the row stays as services/api claimed it.
Drop(t) ==
  /\ Goto(t, "admitted", "releasing")
  /\ tend' = [tend EXCEPT ![t] = "dropped"]
  /\ UNCHANGED <<rowVars, tconv, tbox, tclient, tresume, tidx, lockVars, inFlight, keptVars,
                 workerVars, live, faultVars>>

\* Resolving the owner or the agent, or marking the row, fails: Handle returns
\* the error and the trigger stays unacknowledged.
HandleFails(t) ==
  /\ Goto(t, "admitted", "releasing")
  /\ errors < MaxErrors
  /\ errors' = errors + 1
  /\ tend' = [tend EXCEPT ![t] = "error"]
  /\ UNCHANGED <<rowVars, tconv, tbox, tclient, tresume, tidx, lockVars, inFlight, keptVars,
                 workerVars, live, crashes, recon, todo, spared>>

\* UpdateStatus "running", whatever the row says by now.
MarkRunning(t) ==
  /\ Goto(t, "admitted", "marked")
  /\ status' = [status EXCEPT ![tconv[t]] = "running"]
  /\ UNCHANGED <<events, tconv, tbox, tclient, tresume, tidx, tend, lockVars, inFlight,
                 keptVars, workerVars, live, faultVars>>

\* services/api does not answer with the bundled skills ...
SkillsFail(t) ==
  /\ Goto(t, "marked", "failing")
  /\ tend' = [tend EXCEPT ![t] = "failed"]
  /\ UNCHANGED <<rowVars, tconv, tbox, tclient, tresume, tidx, lockVars, inFlight, keptVars,
                 workerVars, live, faultVars>>

\* ... the row is failed for it, and Handle returns nil ...
RecordFailure(t) ==
  /\ Goto(t, "failing", "releasing")
  /\ status' = [status EXCEPT ![tconv[t]] = "failed"]
  /\ UNCHANGED <<events, tconv, tbox, tclient, tresume, tidx, tend, lockVars, inFlight,
                 keptVars, workerVars, live, faultVars>>

\* ... which it does too when that write fails.
RecordFailureFails(t) ==
  /\ Goto(t, "failing", "releasing")
  /\ errors < MaxErrors
  /\ errors' = errors + 1
  /\ tend' = [tend EXCEPT ![t] = "unwritten"]
  /\ UNCHANGED <<rowVars, tconv, tbox, tclient, tresume, tidx, lockVars, inFlight, keptVars,
                 workerVars, live, crashes, recon, todo, spared>>

\* Under resumeLock: first the turn becomes visible as in flight ...
Register(t) ==
  /\ Goto(t, "marked", "registering")
  /\ resumeOwner[tconv[t]] = None
  /\ resumeOwner' = [resumeOwner EXCEPT ![tconv[t]] = t]
  /\ registered' = [registered EXCEPT ![tconv[t]] = t]
  /\ reason' = [reason EXCEPT ![tconv[t]] = "none"]
  /\ UNCHANGED <<rowVars, tconv, tbox, tclient, tresume, tidx, tend, convOwner, slots,
                 cancelled, keptVars, workerVars, live, faultVars>>

\* ... then it reads the kept sandbox, which stays in the registry.
GetKept(t) ==
  LET c == tconv[t] IN
  /\ Goto(t, "registering", "registered")
  /\ IF c \in Chats /\ kept[c].present
       THEN /\ tbox' = [tbox EXCEPT ![t] = kept[c].box]
            /\ tclient' = [tclient EXCEPT ![t] = kept[c].client]
            /\ tresume' = [tresume EXCEPT ![t] = TRUE]
       ELSE UNCHANGED <<tbox, tclient, tresume>>
  /\ resumeOwner' = [resumeOwner EXCEPT ![c] = None]
  /\ UNCHANGED <<rowVars, tconv, tidx, tend, convOwner, slots, inFlight, keptVars, workerVars,
                 live, faultVars>>

\* NextEventIndex, once for the whole turn.
ReadIndex(t) ==
  /\ Goto(t, "registered", "indexed")
  /\ tidx' = [tidx EXCEPT ![t] = events[tconv[t]]]
  /\ UNCHANGED <<rowVars, tconv, tbox, tclient, tresume, tend, lockVars, inFlight, keptVars,
                 workerVars, live, faultVars>>

ReadIndexFails(t) ==
  /\ Goto(t, "registered", "leaving")
  /\ errors < MaxErrors
  /\ errors' = errors + 1
  /\ tend' = [tend EXCEPT ![t] = "error"]
  /\ UNCHANGED <<rowVars, tconv, tbox, tclient, tresume, tidx, lockVars, inFlight, keptVars,
                 workerVars, live, crashes, recon, todo, spared>>

\* InsertEvent ... ON CONFLICT DO NOTHING at the turn's cached index, which
\* advances whether or not there is a new row.
InsertEvent(t) ==
  /\ events' = [events EXCEPT ![tconv[t]] = IF tidx[t] >= @ THEN tidx[t] + 1 ELSE @]
  /\ tidx' = [tidx EXCEPT ![t] = @ + 1]

SaveUserMessage(t) ==
  /\ Goto(t, "indexed", "starting")
  /\ InsertEvent(t)
  /\ UNCHANGED <<status, tconv, tbox, tclient, tresume, tend, lockVars, inFlight, keptVars,
                 workerVars, live, faultVars>>

\* A failed insert is logged, and leaves a gap.
SaveUserMessageFails(t) ==
  /\ Goto(t, "indexed", "starting")
  /\ errors < MaxErrors
  /\ errors' = errors + 1
  /\ tidx' = [tidx EXCEPT ![t] = @ + 1]
  /\ UNCHANGED <<rowVars, tconv, tbox, tclient, tresume, tend, lockVars, inFlight, keptVars,
                 workerVars, live, crashes, recon, todo, spared>>

-----------------------------------------------------------------------------
(* Executor.Run.                                                           *)

\* sandboxMgr.Start: a container is running; the client is not connected yet.
StartSandbox(t) ==
  /\ Goto(t, "starting", "connecting")
  /\ ~tresume[t] /\ tconv[t] \notin EnvBacked
  /\ live' = live \cup {t}
  /\ tbox' = [tbox EXCEPT ![t] = t]
  /\ UNCHANGED <<rowVars, tconv, tclient, tresume, tidx, tend, lockVars, inFlight, keptVars,
                 workerVars, faultVars>>

\* The skills are copied, the client initialized and the session opened.
Connect(t) ==
  /\ Goto(t, "connecting", "prompting")
  /\ tclient' = [tclient EXCEPT ![t] = TRUE]
  /\ UNCHANGED <<rowVars, tconv, tbox, tresume, tidx, tend, lockVars, inFlight, keptVars,
                 workerVars, live, faultVars>>

\* coldStartEnvironment: a session in a container this turn does not own.
Attach(t) ==
  /\ Goto(t, "starting", "prompting")
  /\ ~tresume[t] /\ tconv[t] \in EnvBacked
  /\ tclient' = [tclient EXCEPT ![t] = TRUE]
  /\ UNCHANGED <<rowVars, tconv, tbox, tresume, tidx, tend, lockVars, inFlight, keptVars,
                 workerVars, live, faultVars>>

\* The kept client is prompted again.
Reattach(t) ==
  /\ Goto(t, "starting", "prompting")
  /\ tresume[t] /\ tclient[t]
  /\ UNCHANGED <<rowVars, tconv, tbox, tclient, tresume, tidx, tend, lockVars, inFlight,
                 keptVars, workerVars, live, faultVars>>

\* A turn in Executor.Run; a turn that reattached is there only to prompt.
InRun(t) == tpc[t] \in {"connecting", "prompting"} \/ (tpc[t] = "starting" /\ ~tresume[t])

\* Run returns: the agent is done, or the context is cancelled, or a provider
\* error a retry may cure, or any other error.
RunReturns(t, how) ==
  /\ InRun(t)
  /\ how = "ok" => tpc[t] = "prompting"
  /\ how = "canceled" => t \in cancelled
  /\ tpc' = [tpc EXCEPT ![t] = "returned"]
  /\ tend' = [tend EXCEPT ![t] = how]
  /\ UNCHANGED <<rowVars, tconv, tbox, tclient, tresume, tidx, lockVars, inFlight, keptVars,
                 workerVars, live, faultVars>>

-----------------------------------------------------------------------------
(* Handler.Handle, after Run.                                              *)

\* turn_end is the last event of a turn that ended well.
EndTurn(t) ==
  /\ tend[t] = "ok"
  /\ InsertEvent(t)
  /\ Goto(t, "returned", IF tconv[t] \in Chats THEN "keeping" ELSE "tearing")
  /\ UNCHANGED <<status, tconv, tbox, tclient, tresume, tend, lockVars, inFlight, keptVars,
                 workerVars, live, faultVars>>

\* That insert fails like any other: a gap, and a line in the log.
EndTurnFails(t) ==
  /\ tend[t] = "ok"
  /\ Goto(t, "returned", IF tconv[t] \in Chats THEN "keeping" ELSE "tearing")
  /\ errors < MaxErrors
  /\ errors' = errors + 1
  /\ tidx' = [tidx EXCEPT ![t] = @ + 1]
  /\ UNCHANGED <<rowVars, tconv, tbox, tclient, tresume, tend, lockVars, inFlight, keptVars,
                 workerVars, live, crashes, recon, todo, spared>>

\* Cancelled, with the reason the registry has; a stop if it has none.
EndCancelled(t) ==
  /\ tend[t] = "canceled"
  /\ IF tconv[t] \in Chats /\ reason[tconv[t]] = "pause"
       THEN Goto(t, "returned", "keeping") /\ tend' = [tend EXCEPT ![t] = "paused"]
       ELSE Goto(t, "returned", "tearing") /\ tend' = [tend EXCEPT ![t] = "stopped"]
  /\ UNCHANGED <<rowVars, tconv, tbox, tclient, tresume, tidx, lockVars, inFlight, keptVars,
                 workerVars, live, faultVars>>

\* An error: the sandbox goes, and a chat may retry if the provider is to blame.
EndFailed(t) ==
  /\ tend[t] \in {"recoverable", "failed"}
  /\ Goto(t, "returned", "tearing")
  /\ tend' = [tend EXCEPT ![t] =
       IF @ = "recoverable" /\ tconv[t] \in Chats THEN "paused" ELSE "failed"]
  /\ UNCHANGED <<rowVars, tconv, tbox, tclient, tresume, tidx, lockVars, inFlight, keptVars,
                 workerVars, live, faultVars>>

\* keepSandboxAlive.
Keep(t) ==
  LET c == tconv[t] IN
  /\ Goto(t, "keeping", "writing")
  /\ kept' = [kept EXCEPT ![c] = State(tbox[t], tclient[t])]
  /\ idle' = idle \ {c}
  /\ UNCHANGED <<rowVars, tconv, tbox, tclient, tresume, tidx, tend, lockVars, inFlight,
                 workerVars, live, faultVars>>

\* MUTANT of PopKept: tearDownSandbox stops only a sandbox the turn started.
PopKeptStopsOwnOnly(t) ==
  LET c == tconv[t] IN
  /\ Goto(t, "tearing", IF tbox[t] # t THEN "writing" ELSE "stopping")
  /\ kept' = [kept EXCEPT ![c] = Nothing]
  /\ idle' = idle \ {c}
  /\ UNCHANGED <<rowVars, tconv, tbox, tclient, tresume, tidx, tend, lockVars, inFlight,
                 workerVars, live, faultVars>>

\* tearDownSandbox: out of the registry first ...
PopKept(t) ==
  LET c == tconv[t] IN
  /\ Goto(t, "tearing", IF tbox[t] = None THEN "writing" ELSE "stopping")
  /\ kept' = [kept EXCEPT ![c] = Nothing]
  /\ idle' = idle \ {c}
  /\ UNCHANGED <<rowVars, tconv, tbox, tclient, tresume, tidx, tend, lockVars, inFlight,
                 workerVars, live, faultVars>>

\* MUTANT of StopOwnSandbox: the turn ends without a status.
StopOwnSandboxAndLeave(t) ==
  /\ Goto(t, "stopping", "leaving")
  /\ live' = live \ {tbox[t]}
  /\ UNCHANGED <<rowVars, tconv, tbox, tclient, tresume, tidx, tend, lockVars, inFlight,
                 keptVars, workerVars, faultVars>>

\* ... then the container is stopped.
StopOwnSandbox(t) ==
  /\ Goto(t, "stopping", "writing")
  /\ live' = live \ {tbox[t]}
  /\ UNCHANGED <<rowVars, tconv, tbox, tclient, tresume, tidx, tend, lockVars, inFlight,
                 keptVars, workerVars, faultVars>>

\* A sandbox that cannot be stopped is logged and forgotten.
StopOwnSandboxFails(t) ==
  /\ Goto(t, "stopping", "writing")
  /\ errors < MaxErrors
  /\ errors' = errors + 1
  /\ UNCHANGED <<rowVars, tconv, tbox, tclient, tresume, tidx, tend, lockVars, inFlight,
                 keptVars, workerVars, live, crashes, recon, todo, spared>>

\* MUTANT of Verdict: what Run returned is written as it is.
VerdictOfRun(t) == tend[t]

\* The status a turn ends with.
Verdict(t) ==
  IF tend[t] # "ok" THEN tend[t] ELSE IF tconv[t] \in Chats THEN "paused" ELSE "finished"

\* UpdateStatus, whatever the row says by now.
WriteStatus(t) ==
  /\ Goto(t, "writing", "leaving")
  /\ status' = [status EXCEPT ![tconv[t]] = Verdict(t)]
  /\ UNCHANGED <<events, tconv, tbox, tclient, tresume, tidx, tend, lockVars, inFlight,
                 keptVars, workerVars, live, faultVars>>

\* It fails: an error of Handle after a turn that ended well, else only a line in
\* the log; either way the row stays as it is.
WriteStatusFails(t) ==
  /\ Goto(t, "writing", "leaving")
  /\ errors < MaxErrors
  /\ errors' = errors + 1
  /\ tend' = [tend EXCEPT ![t] = IF @ = "ok" THEN "error" ELSE "unwritten"]
  /\ UNCHANGED <<rowVars, tconv, tbox, tclient, tresume, tidx, lockVars, inFlight, keptVars,
                 workerVars, live, crashes, recon, todo, spared>>

\* The deferred Unregister, which honours the token, and cancelRun.
Unregister(t) ==
  LET c == tconv[t] IN
  /\ Goto(t, "leaving", "releasing")
  /\ IF registered[c] = t
       THEN /\ registered' = [registered EXCEPT ![c] = None]
            /\ reason' = [reason EXCEPT ![c] = "none"]
       ELSE UNCHANGED <<registered, reason>>
  /\ UNCHANGED <<rowVars, tconv, tbox, tclient, tresume, tidx, tend, lockVars, cancelled,
                 keptVars, workerVars, live, faultVars>>

-----------------------------------------------------------------------------
(* Stop and pause messages: Handler.HandleControl.                         *)

DeliverControl(w) ==
  /\ Step(w, "sent", "handling")
  /\ UNCHANGED <<rowVars, turnVars, lockVars, inFlight, keptVars, wconv, wkind, wbox, sweep,
                 live, faultVars>>

\* InterruptWithReason finds an entry: the last reason wins, the turn is cancelled.
Interrupt(w) ==
  LET c == wconv[w] IN
  /\ Step(w, "handling", "done")
  /\ registered[c] # None
  /\ reason' = [reason EXCEPT ![c] = wkind[w]]
  /\ cancelled' = cancelled \cup {registered[c]}
  /\ UNCHANGED <<rowVars, turnVars, lockVars, registered, keptVars, wconv, wkind, wbox, sweep,
                 live, faultVars>>

\* It finds none: a stop goes on to a kept sandbox, a pause has nothing to do.
InterruptMisses(w) ==
  /\ Step(w, "handling", IF wkind[w] = "stop" THEN "teardown" ELSE "done")
  /\ registered[wconv[w]] = None
  /\ UNCHANGED <<rowVars, turnVars, lockVars, inFlight, keptVars, wconv, wkind, wbox, sweep,
                 live, faultVars>>

\* A heartbeat refreshes LastActiveAt, also while a turn is using the sandbox.
Heartbeat(c) ==
  /\ c \in idle
  /\ idle' = idle \ {c}
  /\ UNCHANGED <<rowVars, turnVars, lockVars, inFlight, kept, workerVars, live, faultVars>>

-----------------------------------------------------------------------------
(* The idle reaper, and TeardownPausedChatSandbox, which it and stop share. *)

\* Time passes without a heartbeat for a kept sandbox.
GrowIdle(c) ==
  /\ kept[c].present /\ c \notin idle
  /\ idle' = idle \cup {c}
  /\ UNCHANGED <<rowVars, turnVars, lockVars, inFlight, kept, workerVars, live, faultVars>>

\* MUTANT of FindIdle: the in-flight test is the wrong way round.
FindIdleInFlight ==
  /\ wpc[Reaper] = "unused" /\ sweep = {}
  /\ sweep' = {c \in idle : registered[c] # None}
  /\ sweep' # {}
  /\ UNCHANGED <<rowVars, turnVars, lockVars, inFlight, keptVars, wpc, wconv, wkind, wbox,
                 live, faultVars>>

\* A tick: the conversations idle for too long that have no turn in flight.
FindIdle ==
  /\ wpc[Reaper] = "unused" /\ sweep = {}
  /\ sweep' = {c \in idle : registered[c] = None}
  /\ sweep' # {}
  /\ UNCHANGED <<rowVars, turnVars, lockVars, inFlight, keptVars, wpc, wconv, wkind, wbox,
                 live, faultVars>>

\* The reaper comes to one of them.
ReapNext(c) ==
  /\ Step(Reaper, "unused", "teardown")
  /\ c \in sweep
  /\ sweep' = sweep \ {c}
  /\ wconv' = [wconv EXCEPT ![Reaper] = c]
  /\ UNCHANGED <<rowVars, turnVars, lockVars, inFlight, keptVars, wkind, wbox, live, faultVars>>

\* Where a goroutine goes after TeardownPausedChatSandbox returns.
AfterTeardown(w) == IF w = Reaper THEN "unused" ELSE "done"

\* MUTANT of CheckRegistered: the check is not made under the lock.
CheckRegisteredUnlocked(w) ==
  LET c == wconv[w] IN
  /\ wpc[w] = "teardown"
  /\ IF registered[c] # None
       THEN Step(w, "teardown", AfterTeardown(w))
       ELSE Step(w, "teardown", "popping")
  /\ UNCHANGED <<rowVars, turnVars, lockVars, inFlight, keptVars, wconv, wkind, wbox, sweep,
                 live, faultVars>>

\* Under resumeLock: nothing is done while a turn is registered ...
CheckRegistered(w) ==
  LET c == wconv[w] IN
  /\ wpc[w] = "teardown"
  /\ resumeOwner[c] = None
  /\ IF registered[c] # None
       THEN Step(w, "teardown", AfterTeardown(w)) /\ UNCHANGED resumeOwner
       ELSE Step(w, "teardown", "popping") /\ resumeOwner' = [resumeOwner EXCEPT ![c] = w]
  /\ UNCHANGED <<rowVars, turnVars, convOwner, slots, inFlight, keptVars, wconv, wkind, wbox,
                 sweep, live, faultVars>>

\* ... otherwise the kept sandbox is taken, if there still is one.
Pop(w) ==
  LET c == wconv[w] IN
  /\ Step(w, "popping", IF kept[c].present THEN "closing" ELSE AfterTeardown(w))
  /\ wbox' = [wbox EXCEPT ![w] = kept[c].box]
  /\ kept' = [kept EXCEPT ![c] = Nothing]
  /\ idle' = idle \ {c}
  /\ resumeOwner' = [resumeOwner EXCEPT ![c] = None]
  /\ UNCHANGED <<rowVars, turnVars, convOwner, slots, inFlight, wconv, wkind, sweep, live,
                 faultVars>>

\* StopSandbox; wbox is None when the State was kept with a nil handle.
StopPopped(w) ==
  /\ wbox[w] # None
  /\ Step(w, "closing", "announcing")
  /\ live' = live \ {wbox[w]}
  /\ wbox' = [wbox EXCEPT ![w] = None]
  /\ UNCHANGED <<rowVars, turnVars, lockVars, inFlight, keptVars, wconv, wkind, sweep,
                 faultVars>>

\* A sandbox that cannot be stopped is logged and forgotten here too.
StopPoppedFails(w) ==
  /\ wbox[w] # None
  /\ Step(w, "closing", "announcing")
  /\ errors < MaxErrors
  /\ errors' = errors + 1
  /\ wbox' = [wbox EXCEPT ![w] = None]
  /\ UNCHANGED <<rowVars, turnVars, lockVars, inFlight, keptVars, wconv, wkind, sweep, live,
                 crashes, recon, todo, spared>>

\* UpdateStatus "stopped", whatever the row says by now.
WriteTornDown(w) ==
  /\ Step(w, "announcing", AfterTeardown(w))
  /\ status' = [status EXCEPT ![wconv[w]] = "stopped"]
  /\ UNCHANGED <<events, turnVars, lockVars, inFlight, keptVars, wconv, wkind, wbox, sweep,
                 live, faultVars>>

WriteTornDownFails(w) ==
  /\ Step(w, "announcing", AfterTeardown(w))
  /\ errors < MaxErrors
  /\ errors' = errors + 1
  /\ UNCHANGED <<rowVars, turnVars, lockVars, inFlight, keptVars, wconv, wkind, wbox, sweep,
                 live, crashes, recon, todo, spared>>

-----------------------------------------------------------------------------
(* The process dies and is restarted; its containers survive it.           *)

InMemory == {"waiting", "locked", "admitted", "marked", "failing", "registering", "registered",
             "indexed", "starting", "connecting", "prompting", "returned", "keeping", "tearing",
             "stopping", "writing", "leaving", "releasing"}

\* Everything the process held in memory is gone; what it had read from the
\* stream without acknowledging is never read again.
ProcessDies ==
  /\ tpc' = [t \in Turns |-> IF tpc[t] \in InMemory THEN "lost" ELSE tpc[t]]
  /\ tbox' = [t \in Turns |-> None]
  /\ tclient' = [t \in Turns |-> FALSE]
  /\ tresume' = [t \in Turns |-> FALSE]
  /\ tidx' = [t \in Turns |-> 0]
  /\ convOwner' = [c \in Conversations |-> None]
  /\ resumeOwner' = [c \in Conversations |-> None]
  /\ slots' = {}
  /\ registered' = [c \in Conversations |-> None]
  /\ reason' = [c \in Conversations |-> "none"]
  /\ cancelled' = {}
  /\ kept' = [c \in Conversations |-> Nothing]
  /\ idle' = {}
  /\ wpc' = [w \in Workers |->
       IF w = Reaper THEN "unused"
       ELSE IF wpc[w] \in {"unused", "checked", "written", "sent"} THEN wpc[w] ELSE "done"]
  /\ wbox' = [w \in Workers |-> None]
  /\ sweep' = {}
  /\ recon' = "due"
  /\ todo' = {} /\ spared' = {}
  /\ UNCHANGED <<rowVars, tconv, tend, wconv, wkind, live, errors>>

Crash ==
  /\ crashes < MaxCrashes
  /\ crashes' = crashes + 1
  /\ ProcessDies

\* Client.Prompt and Manager.Stop dereference what a State kept before the
\* client was connected does not have; nothing recovers the panic.
PromptPanics(t) ==
  /\ tpc[t] = "starting" /\ tresume[t] /\ ~tclient[t]
  /\ ProcessDies
  /\ UNCHANGED crashes

StopPanics(w) ==
  /\ wpc[w] = "closing" /\ wbox[w] = None
  /\ ProcessDies
  /\ UNCHANGED crashes

\* Turns whose row was touched a moment ago: the new process has marked it
\* running itself, or services/api is between its claim and the stream.
JustTouched ==
  {t \in Turns :
     /\ tpc[t] \in (InMemory \ {"waiting", "locked", "admitted"}) \cup {"claimed"}
     /\ tpc[t] = "releasing" => tend[t] \notin NoVerdict}

\* MUTANT of ListOrphans: chats are left out, as conversations that pause.
ListOrphansButChats ==
  /\ recon = "due"
  /\ recon' = "done"
  /\ \E recent \in SUBSET Conversations :
       LET alone == EnvBacked \cup recent
                      \cup {c \in Conversations : \E b \in live : tconv[b] = c} IN
       /\ \A t \in JustTouched : tconv[t] \in recent
       /\ todo' = {c \in Conversations \ (alone \cup Chats) : status[c] = "running"}
       /\ spared' = {c \in alone : status[c] = "running"}
  /\ UNCHANGED <<rowVars, turnVars, lockVars, inFlight, keptVars, workerVars, live, crashes,
                 errors>>

\* reconcileRunningConversationsOnStartup lists the rows that say running with
\* no live container; those touched within the grace period are left alone.
ListOrphans ==
  /\ recon = "due"
  /\ recon' = "done"
  /\ \E recent \in SUBSET Conversations :
       LET alone == EnvBacked \cup recent
                      \cup {c \in Conversations : \E b \in live : tconv[b] = c} IN
       /\ \A t \in JustTouched : tconv[t] \in recent
       /\ todo' = {c \in Conversations \ alone : status[c] = "running"}
       /\ spared' = {c \in alone : status[c] = "running"}
  /\ UNCHANGED <<rowVars, turnVars, lockVars, inFlight, keptVars, workerVars, live, crashes,
                 errors>>

\* The rows or the containers cannot be listed: none is looked at until the next
\* start of the process.
ListOrphansFails ==
  /\ recon = "due"
  /\ errors < MaxErrors
  /\ errors' = errors + 1
  /\ recon' = "done"
  /\ spared' = {c \in Conversations : status[c] = "running"}
  /\ UNCHANGED <<rowVars, turnVars, lockVars, inFlight, keptVars, workerVars, live, crashes,
                 todo>>

\* FailIfNotTerminal, one row at a time ...
FailOrphan(c) ==
  /\ c \in todo
  /\ todo' = todo \ {c}
  /\ status' = [status EXCEPT ![c] = IF @ \in Terminal \cup {"paused"} THEN @ ELSE "failed"]
  /\ UNCHANGED <<events, turnVars, lockVars, inFlight, keptVars, workerVars, live, crashes,
                 errors, recon, spared>>

\* ... of which one that cannot be written is logged and passed over.
FailOrphanFails(c) ==
  /\ c \in todo
  /\ todo' = todo \ {c}
  /\ errors < MaxErrors
  /\ errors' = errors + 1
  /\ spared' = spared \cup {c}
  /\ UNCHANGED <<rowVars, turnVars, lockVars, inFlight, keptVars, workerVars, live, crashes,
                 recon>>

-----------------------------------------------------------------------------
Returns == {"ok", "canceled", "recoverable", "failed"}

\* The steps of the goroutine of one trigger that it takes by itself.
TurnStep(t) ==
  \/ LockConversation(t) \/ Admit(t) \/ Drop(t) \/ MarkRunning(t) \/ SkillsFail(t)
  \/ RecordFailure(t) \/ Register(t) \/ GetKept(t)
  \/ ReadIndex(t) \/ SaveUserMessage(t) \/ StartSandbox(t) \/ Connect(t) \/ Attach(t)
  \/ Reattach(t) \/ PromptPanics(t) \/ (\E how \in Returns : RunReturns(t, how))
  \/ EndTurn(t) \/ EndCancelled(t) \/ EndFailed(t) \/ Keep(t) \/ PopKept(t)
  \/ StopOwnSandbox(t) \/ WriteStatus(t) \/ Unregister(t) \/ Release(t)

TurnFails(t) ==
  \/ HandleFails(t) \/ RecordFailureFails(t) \/ ReadIndexFails(t) \/ SaveUserMessageFails(t)
  \/ EndTurnFails(t) \/ StopOwnSandboxFails(t) \/ WriteStatusFails(t)

\* The steps of TeardownPausedChatSandbox.
TeardownStep(w) ==
  CheckRegistered(w) \/ Pop(w) \/ StopPopped(w) \/ StopPanics(w) \/ WriteTornDown(w)

TeardownFails(w) == StopPoppedFails(w) \/ WriteTornDownFails(w)

ControlStep(w) == DeliverControl(w) \/ Interrupt(w) \/ InterruptMisses(w)

ReaperStep == FindIdle \/ (\E c \in Conversations : ReapNext(c)) \/ TeardownStep(Reaper)

UserStep ==
  \/ \E t \in Turns, c \in Conversations : Claim(t, c)
  \/ \E w \in Controls, c \in Conversations : CheckStop(w, c) \/ RequestPause(w, c)
  \/ \E c \in Conversations : Heartbeat(c) \/ GrowIdle(c)

ApiStep ==
  \/ \E t \in Turns : Publish(t)
  \/ \E w \in Controls : WriteStop(w) \/ PublishStop(w)

ReconcileStep == ListOrphans \/ \E c \in Conversations : FailOrphan(c)

ReconcileFails == ListOrphansFails \/ \E c \in Conversations : FailOrphanFails(c)

Next ==
  \/ UserStep
  \/ ApiStep
  \/ \E t \in Turns : Deliver(t) \/ TurnStep(t) \/ TurnFails(t)
  \/ \E w \in Controls : ControlStep(w) \/ TeardownStep(w)
  \/ ReaperStep
  \/ \E w \in Workers : TeardownFails(w)
  \/ Crash
  \/ ReconcileStep
  \/ ReconcileFails

(***************************************************************************)
(* Fairness: the read loop and the goroutines keep running; sync.Mutex and *)
(* the semaphore channel serve a waiter that could go again and again; Run *)
(* has a timeout.  Nothing is assumed of users or of failures.             *)
(***************************************************************************)
Fairness ==
  /\ WF_vars(ApiStep) /\ WF_vars(ReconcileStep)
  /\ \A t \in Turns : SF_vars(Deliver(t) \/ TurnStep(t))
  /\ \A w \in Controls : SF_vars(ControlStep(w) \/ TeardownStep(w))
  /\ SF_vars(ReaperStep)

Spec == Init /\ [][Next]_vars
FairSpec == Spec /\ Fairness

-----------------------------------------------------------------------------
(* Properties.                                                             *)

TypeOK ==
  /\ status \in [Conversations -> {"none", "running", "paused"} \cup Terminal]
  /\ events \in [Conversations -> Nat]
  /\ tpc \in [Turns -> InMemory \cup {"unused", "claimed", "sent", "done", "lost"}]
  /\ tconv \in [Turns -> Conversations \cup {None}]
  /\ tbox \in [Turns -> Turns \cup {None}]
  /\ tclient \in [Turns -> BOOLEAN]
  /\ tresume \in [Turns -> BOOLEAN]
  /\ tidx \in [Turns -> Nat]
  /\ tend \in [Turns -> Returns \cup {"none", "error", "paused", "dropped", "unwritten"} \cup Terminal]
  /\ convOwner \in [Conversations -> Turns \cup {None}]
  /\ slots \subseteq Turns
  /\ resumeOwner \in [Conversations -> Turns \cup Workers \cup {None}]
  /\ registered \in [Conversations -> Turns \cup {None}]
  /\ reason \in [Conversations -> {"none", "stop", "pause"}]
  /\ cancelled \subseteq Turns
  /\ kept \in [Conversations -> [box : Turns \cup {None}, client : BOOLEAN, present : BOOLEAN]]
  /\ idle \subseteq Conversations
  /\ wpc \in [Workers -> {"unused", "checked", "written", "sent", "handling", "teardown",
                          "popping", "closing", "announcing", "done"}]
  /\ wconv \in [Workers -> Conversations \cup {None}]
  /\ wkind \in [Workers -> {"none", "stop", "pause"}]
  /\ wbox \in [Workers -> Turns \cup {None}]
  /\ sweep \subseteq Conversations
  /\ live \subseteq Turns
  /\ crashes \in 0..MaxCrashes /\ errors \in 0..MaxErrors
  /\ recon \in {"never", "due", "done"} /\ todo \subseteq Conversations /\ spared \subseteq Conversations

\* At most MaxConcurrent turns are past the semaphore, whichever way they leave it.
Admitted == {t \in Turns : tpc[t] \in InMemory \ {"waiting", "locked"}}
WithinLimit == Cardinality(Admitted) <= MaxConcurrent

\* A turn is using the sandbox it has a handle to.
Holding == {"registered", "indexed", "starting", "connecting", "prompting", "returned", "keeping",
            "tearing", "stopping"}
Using(t) == tbox[t] # None /\ tpc[t] \in Holding

\* No stop message and no idle reaper takes a sandbox away under a turn that
\* reads, prompts in or is about to keep it: the race the comments on
\* TeardownPausedChatSandbox and on Register-then-Get are about.
SandboxInUseStaysUp == \A t \in Turns : Using(t) => tbox[t] \in live

\* Two turns of a conversation never run concurrently, so the event index a
\* turn read once is never stale when it inserts: no event of a turn is lost to
\* ON CONFLICT DO NOTHING.
CachedIndexFresh ==
  \A t \in Turns :
    tpc[t] \in {"indexed", "starting", "connecting", "prompting"} => tidx[t] >= events[tconv[t]]

\* Everyone who is responsible for stopping sandbox b some day.
Owners(b) ==
  {t \in Turns : Using(t) /\ tbox[t] = b}
    \cup {c \in Conversations : /\ kept[c].box = b
                                /\ \A t \in Turns : Using(t) => tbox[t] # b}
    \cup {w \in Workers : wbox[w] = b}

\* While no process died and no stop failed, a running container always has
\* exactly one owner: it is neither leaked nor stopped twice.
OneOwner == recon = "never" /\ errors = 0 => \A b \in live : \E o \in Owners(b) : Owners(b) = {o}

\* The turn has not come to its exit of Handle yet; it left by one that writes
\* no verdict.
AtWork(t) == tpc[t] \notin {"leaving", "releasing", "done", "lost"}
Unanswered(t) == tend[t] \in NoVerdict

\* services/api counts the rows that say running against an agent's parallelism
\* limit, and would wait for an orphan forever.  Through failing calls and deaths
\* of the process a row says so only while a turn of the conversation is still to
\* write its verdict, or one of them left by an exit that writes none, or
\* reconciliation is still to come to the row, or has passed it over.
RunningRowHasTurn ==
  \A c \in Conversations : status[c] = "running" =>
    \/ \E t \in Turns : tconv[t] = c /\ (AtWork(t) \/ Unanswered(t))
    \/ recon = "due" \/ c \in todo \cup spared

\* A trigger read from the stream is eventually over with, even though turns
\* wait for each other in two queues.
TriggersHandled == \A t \in Turns : tpc[t] = "sent" ~> tpc[t] \in {"done", "lost"}

\* A chat's sandbox nobody has used or sent a heartbeat for is eventually taken
\* down or used again; no other conversation's is kept.
IdleSandboxReclaimed == \A c \in Chats : c \in idle ~> c \notin idle

-----------------------------------------------------------------------------
(* The inductive invariant behind WithinLimit, SandboxInUseStaysUp,          *)
(* CachedIndexFresh, OneOwner and RunningRowHasTurn.                         *)

\* Where a turn holds the conversation's lock, is registered as in flight, has
\* not looked for a sandbox yet, has a sandbox's container behind it.
Owned      == InMemory \ {"waiting"}
InFlightPC == Owned \ {"locked", "admitted", "marked", "failing", "releasing"}
Fetching   == {"unused", "claimed", "sent", "waiting", "locked", "admitted", "marked",
               "failing", "registering"}
Started    == {"connecting", "prompting", "returned", "keeping", "tearing", "stopping",
               "writing", "leaving", "releasing", "done", "lost"}

\* What TypeOK rests on: everyone at work has a conversation, and a turn that is
\* about to write its verdict has one.
WellPlaced ==
  /\ \A t \in Turns : IF tpc[t] = "unused" THEN tconv[t] = None ELSE tconv[t] \in Conversations
  /\ \A w \in Workers : wpc[w] # "unused" => wconv[w] \in Conversations
  /\ \A t \in Turns : tpc[t] \in {"keeping", "tearing", "stopping", "writing"} =>
       tend[t] \in {"ok", "paused", "stopped", "failed"}

\* A turn past the lock is the lock's owner, and so alone in its conversation.
TurnsSerialized ==
  \A t \in Turns : tpc[t] \in Owned => convOwner[tconv[t]] = t

\* The slots taken are those of the turns past the semaphore.
SlotsHeld == slots = Admitted /\ WithinLimit

\* The entry in the registry of in-flight turns belongs to the turn at work.
RegisteredAtWork ==
  \A t \in Turns : tpc[t] \in InFlightPC => registered[tconv[t]] = t

\* resumeLock separates Register-then-Get from IsRegistered-then-Pop.
ResumeLocked ==
  /\ \A t \in Turns : tpc[t] = "registering" => resumeOwner[tconv[t]] = t
  /\ \A w \in Workers :
       wpc[w] = "popping" => resumeOwner[wconv[w]] = w /\ registered[wconv[w]] = None

\* A handle names a container its own conversation started.
HandlesOfOwnConversation ==
  /\ \A t \in Turns : tpc[t] \in Fetching => tbox[t] = None
  /\ \A t \in Turns :
       tbox[t] # None => tconv[tbox[t]] = tconv[t] /\ tpc[tbox[t]] \in Started

\* A kept sandbox is running, belongs to its conversation, and is no longer kept
\* when its turn stops it.
KeptRuns ==
  /\ \A c \in Conversations : kept[c].box # None =>
       /\ kept[c].box \in live
       /\ tconv[kept[c].box] = c /\ tpc[kept[c].box] \in Started
  /\ \A t \in Turns : tpc[t] = "stopping" => kept[tconv[t]].box = None

\* A sandbox somebody took out of the registry to stop it has no other user.
PoppedIsUnused ==
  \A w \in Workers : wbox[w] # None =>
    /\ tpc[wbox[w]] \in Started
    /\ \A c \in Conversations : kept[c].box # wbox[w]
    /\ \A t \in Turns : Using(t) => tbox[t] # wbox[w]

\* What is kept for a conversation is a chat's, and is the sandbox its turn at work
\* reattached to, if that has looked: no turn starts a second one beside it.
KeptIsCurrent ==
  /\ \A c \in Conversations : IF kept[c].present THEN c \in Chats ELSE kept[c].box = None
  /\ \A t \in Turns : tpc[t] = "keeping" => tconv[t] \in Chats
  /\ \A t \in Turns :
       tpc[t] \in {"registered", "indexed", "starting"} /\ ~tresume[t] => tbox[t] = None
  /\ \A t \in Turns :
       tpc[t] \in Holding /\ kept[tconv[t]].box # None => kept[tconv[t]].box = tbox[t]

\* A sandbox is popped by one goroutine, which has it until it is stopped.
PoppedOnce ==
  /\ \A w \in Workers : wbox[w] # None => wpc[w] = "closing"
  /\ \A v, w \in Workers : wbox[v] = wbox[w] /\ wbox[w] # None => v = w

\* While nothing failed somebody is responsible for each container.
NoneLeaked ==
  recon = "never" /\ errors = 0 =>
    \A b \in live :
      \/ \E t \in Turns : Using(t) /\ tbox[t] = b
      \/ \E c \in Conversations : kept[c].box = b
      \/ \E w \in Workers : wbox[w] = b

IInv ==
  /\ TypeOK /\ WellPlaced /\ TurnsSerialized /\ SlotsHeld /\ RegisteredAtWork /\ ResumeLocked
  /\ HandlesOfOwnConversation /\ KeptRuns /\ PoppedIsUnused
  /\ SandboxInUseStaysUp /\ CachedIndexFresh
  /\ KeptIsCurrent /\ PoppedOnce /\ NoneLeaked /\ RunningRowHasTurn
=============================================================================
