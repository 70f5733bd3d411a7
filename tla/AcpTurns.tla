------------------------------- MODULE AcpTurns -------------------------------
(***************************************************************************)
(* The turns of an ACP agent (agent-runner, acpbridge; apps/acp-bridge).   *)
(*                                                                         *)
(* agent-runner hands a trigger over to the daemon on the user's machine   *)
(* through the registry of BridgeRegistry, on a channel that drops what    *)
(* nobody listens to, and arms a watchdog.  The daemon runs the turn in a  *)
(* session, a subprocess that conversations of one task share, and reports *)
(* how it ended.  Users stop turns, connections break, providers hang.     *)
(*                                                                         *)
(* The daemon is one, and dials again when its connection is lost (others  *)
(* only come to take its place); Home is the replica whose consumer has    *)
(* the triggers.  Texts, events and usage are left out.                    *)
(***************************************************************************)
EXTENDS BridgeRegistry, Sequences

CONSTANTS
  Convs,      \* conversations of the agent
  Keys,       \* session keys
  Home

ASSUME KeysAssumption == \A s \in Settings : s.key \in [Convs -> Keys]

VARIABLES
  row,        \* agent_conversations.status
  triggers,   \* triggers of a conversation in the stream
  controls,   \* control messages in the stream
  job,        \* where DispatchTrigger is, one at a time per conversation (convLocks)
  counter,    \* genCounter
  latest,     \* dispatchGen
  watchdogs,  \* goroutines, each with its generation; seen, a history, is what the
              \* counter was when it passed its check
  link,       \* the daemon's connection
  hello,      \* how far its handshake is
  wire, back, \* frames on their way down and up
  outbox,     \* messages to send, of all the sessions
  known,      \* conversations, the keys of the map
  indexed,    \* convIndex, the conversations in the map
  session     \* conversationState

apiVars == <<row, triggers, controls>>
dispatchVars == <<job, counter, latest, watchdogs>>
linkVars == <<link, hello, wire, back>>
daemonVars == <<outbox, known, indexed, session>>
turnVars == <<apiVars, dispatchVars, linkVars, daemonVars>>
vars == <<setting, left, registryVars, turnVars>>

key(v) == setting.key[v]
Idle == [conv |-> None, pc |-> "idle", client |-> "none", finish |-> FALSE, cancelled |-> FALSE,
         asked |-> FALSE, timer |-> "off", late |-> FALSE]

TurnsInit ==
  /\ Init
  /\ row = [v \in Convs |-> "finished"]
  /\ triggers = [v \in Convs |-> 0] /\ controls = {}
  /\ job = [v \in Convs |-> "none"]
  /\ counter = 0 /\ latest = [v \in Convs |-> 0] /\ watchdogs = {}
  /\ link = setting.online /\ hello = IF setting.online = None THEN "unsent" ELSE "acked"
  /\ wire = [c \in Conns |-> <<>>] /\ back = [c \in Conns |-> <<>>]
  /\ outbox = <<>> /\ known = {} /\ indexed = {}
  /\ session = [k \in Keys |-> Idle]

Allow(what) == Spend(what) /\ UNCHANGED <<setting, registryVars>>
Still == UNCHANGED <<setting, left, registryVars>>

-----------------------------------------------------------------------------
(* What users do; agent_service.go has checked the status.                 *)

\* A message claims the conversation and appends a trigger.
Send(v) ==
  /\ v \in setting.convs /\ row[v] # "running"
  /\ Allow("messages")
  /\ row' = [row EXCEPT ![v] = "running"]
  /\ triggers' = [triggers EXCEPT ![v] = @ + 1]
  /\ UNCHANGED <<controls, dispatchVars, linkVars, daemonVars>>

Frame(kind, v) == [kind |-> kind, conv |-> v]

\* Only a stop writes the row.
Control(v, kind) ==
  /\ row[v] = "running"
  /\ Allow("controls")
  /\ row' = IF kind = "stop" THEN [row EXCEPT ![v] = "stopped"] ELSE row
  /\ controls' = controls \cup {Frame(kind, v)}
  /\ UNCHANGED <<triggers, dispatchVars, linkVars, daemonVars>>

-----------------------------------------------------------------------------
(* DispatchTrigger.                                                        *)

At(v, from, to) == job[v] = from /\ job' = [job EXCEPT ![v] = to]

\* IsOnline, for the first time.
Look(v) ==
  /\ triggers[v] > 0
  /\ At(v, "none", IF presence THEN "marking" ELSE "failing")
  /\ triggers' = [triggers EXCEPT ![v] = @ - 1]
  /\ UNCHANGED <<row, controls, counter, latest, watchdogs, linkVars, daemonVars>> /\ Still

\* It returns an error, and so does DispatchTrigger; the trigger is acknowledged.
LookFails(v) ==
  /\ triggers[v] > 0 /\ job[v] = "none"
  /\ Allow("errors")
  /\ triggers' = [triggers EXCEPT ![v] = @ - 1]
  /\ UNCHANGED <<row, controls, dispatchVars, linkVars, daemonVars>>

Mark(v) ==
  /\ At(v, "marking", "recording")
  /\ row' = [row EXCEPT ![v] = "running"]
  /\ UNCHANGED <<triggers, controls, counter, latest, watchdogs, linkVars, daemonVars>> /\ Still

\* A watchdog that has passed its check by now may be yet to write.
Record(v) ==
  /\ At(v, "recording", "asking")
  /\ counter' = counter + 1
  /\ latest' = [latest EXCEPT ![v] = counter + 1]
  /\ UNCHANGED <<apiVars, watchdogs, linkVars, daemonVars>> /\ Still

\* MUTANT of Ask: the conversation of an agent that has gone offline is left as it is.
AskAndForget(v) ==
  /\ At(v, "asking", IF presence THEN "publishing" ELSE "none")
  /\ latest' = IF presence THEN latest ELSE [latest EXCEPT ![v] = 0]
  /\ UNCHANGED <<apiVars, counter, watchdogs, linkVars, daemonVars>> /\ Still

\* IsOnline again, in Dispatch.
Ask(v) ==
  /\ At(v, "asking", IF presence THEN "publishing" ELSE "failing")
  /\ latest' = IF presence THEN latest ELSE [latest EXCEPT ![v] = 0]
  /\ UNCHANGED <<apiVars, counter, watchdogs, linkVars, daemonVars>> /\ Still

FailOffline(v) ==
  /\ At(v, "failing", "none")
  /\ row' = [row EXCEPT ![v] = "failed"]
  /\ UNCHANGED <<triggers, controls, counter, latest, watchdogs, linkVars, daemonVars>> /\ Still

\* What is published goes out on the connections whose forwarders are subscribed.
Forwarded(frame) ==
  [c \in Conns |-> IF c \in Subscribed("forward") /\ open[c] THEN Append(wire[c], frame)
                   ELSE wire[c]]

\* The watchdog is armed right after.
Publish(v) ==
  /\ At(v, "publishing", "none")
  /\ wire' = Forwarded(Frame("start", v))
  /\ watchdogs' = watchdogs \cup {[conv |-> v, gen |-> latest[v], pc |-> "sleeping", seen |-> 0]}
  /\ UNCHANGED <<apiVars, counter, latest, link, hello, back, daemonVars>> /\ Still

\* Another call of DispatchTrigger or of failOffline returns an error.
DispatchFails(v) ==
  /\ job[v] \in {"marking", "asking", "publishing", "failing"}
  /\ job' = [job EXCEPT ![v] = "none"]
  /\ Allow("errors")
  /\ latest' = IF job[v] \in {"asking", "publishing"} THEN [latest EXCEPT ![v] = 0] ELSE latest
  /\ UNCHANGED <<apiVars, counter, watchdogs, linkVars, daemonVars>>

\* dispatchACPControl.
PassOn(m) ==
  /\ m \in controls
  /\ controls' = controls \ {m}
  /\ wire' = IF presence THEN Forwarded(m) ELSE wire
  /\ UNCHANGED <<row, triggers, dispatchVars, link, hello, back, daemonVars>> /\ Still

PassOnFails(m) ==
  /\ m \in controls
  /\ Allow("errors")
  /\ controls' = controls \ {m}
  /\ UNCHANGED <<row, triggers, dispatchVars, linkVars, daemonVars>>

-----------------------------------------------------------------------------
(* watchdog.                                                               *)

Checked(d) == (watchdogs \ {d}) \cup {[d EXCEPT !.pc = "failing", !.seen = counter]}

\* MUTANT of Wake: the generation is deleted, whichever it is.
WakeAnyway(d) ==
  /\ d \in watchdogs /\ d.pc = "sleeping"
  /\ watchdogs' = Checked(d)
  /\ latest' = [latest EXCEPT ![d.conv] = 0]
  /\ UNCHANGED <<apiVars, job, counter, linkVars, daemonVars>> /\ Still

\* CompareAndDelete.
Wake(d) ==
  /\ d \in watchdogs /\ d.pc = "sleeping"
  /\ IF latest[d.conv] = d.gen
     THEN /\ watchdogs' = Checked(d)
          /\ latest' = [latest EXCEPT ![d.conv] = 0]
     ELSE watchdogs' = watchdogs \ {d} /\ UNCHANGED latest
  /\ UNCHANGED <<apiVars, job, counter, linkVars, daemonVars>> /\ Still

FailIfNotTerminal(d) ==
  /\ d \in watchdogs /\ d.pc = "failing"
  /\ watchdogs' = watchdogs \ {d}
  /\ row' = IF row[d.conv] = "running" THEN [row EXCEPT ![d.conv] = "failed"] ELSE row
  /\ UNCHANGED <<triggers, controls, job, counter, latest, linkVars, daemonVars>> /\ Still

\* The update returns an error, which is logged.
WatchdogFails(d) ==
  /\ d \in watchdogs /\ d.pc = "failing"
  /\ Allow("errors")
  /\ watchdogs' = watchdogs \ {d}
  /\ UNCHANGED <<apiVars, job, counter, latest, linkVars, daemonVars>>

-----------------------------------------------------------------------------
(* The daemon's connection: connectOnce, handleMessage, senderLoop.        *)

\* The socket is there for senderLoop before the hello is sent.
Connect(c) ==
  /\ link = None
  /\ c \in setting.conns \ setting.others /\ pc[c] = "none"
  /\ link' = c
  /\ UNCHANGED <<hello, wire, back, apiVars, dispatchVars, daemonVars>> /\ Still

SayHello(r) ==
  /\ link # None /\ hello = "unsent"
  /\ Dial(link, r)
  /\ hello' = "sent"
  /\ UNCHANGED <<link, wire, back, apiVars, dispatchVars, daemonVars>>

\* Somebody runs another daemon with the token of the agent.
DialOther(c, r) ==
  /\ c \in setting.others
  /\ Dial(c, r)
  /\ UNCHANGED turnVars

Unlink == /\ link' = None /\ hello' = "unsent"
          /\ wire' = [wire EXCEPT ![link] = <<>>]

\* The server has closed the connection; what was on its way is lost, both ways.
LoseLink ==
  /\ link # None /\ hello # "unsent"
  /\ ~open[link]
  /\ Unlink
  /\ back' = [back EXCEPT ![link] = <<>>]
  /\ UNCHANGED <<apiVars, dispatchVars, daemonVars>> /\ Still

\* The network has, and the daemon is the first to notice ...
Cut ==
  /\ link # None /\ hello # "unsent"
  /\ open[link]
  /\ Allow("drops")
  /\ Unlink
  /\ UNCHANGED <<back, apiVars, dispatchVars, daemonVars>>

\* ... before the server does.
Notice(c) ==
  /\ c # link /\ c \notin setting.others
  /\ Break(c)
  /\ back' = [back EXCEPT ![c] = <<>>]
  /\ UNCHANGED <<left, link, hello, wire, apiVars, dispatchVars, daemonVars>>

\* The connections on which nobody sends a ping.
Silent == {c \in Conns : ~open[c] \/ (c # link /\ c \notin setting.others)}

Acknowledge(c) ==
  /\ Greet(c)
  /\ wire' = IF open[c] THEN [wire EXCEPT ![c] = Append(@, Frame("ack", None))] ELSE wire
  /\ UNCHANGED <<link, hello, back, apiVars, dispatchVars, daemonVars>>

\* The first frame has to be hello_ack.
ReceiveAck ==
  /\ link # None /\ hello = "sent"
  /\ wire[link] # <<>>
  /\ IF Head(wire[link]).kind = "ack"
     THEN /\ hello' = "acked" /\ UNCHANGED link
          /\ wire' = [wire EXCEPT ![link] = Tail(@)]
     ELSE Unlink
  /\ UNCHANGED <<back, apiVars, dispatchVars, daemonVars>> /\ Still

Receive(kind, v) ==
  /\ hello = "acked"
  /\ wire[link] # <<>>
  /\ Head(wire[link]) = Frame(kind, v)
  /\ wire' = [wire EXCEPT ![link] = Tail(@)]
  /\ UNCHANGED <<link, hello, back, apiVars, dispatchVars>> /\ Still

\* A message is written to the socket there is ...
SendUp ==
  /\ outbox # <<>>
  /\ link # None /\ hello # "unsent"
  /\ outbox' = Tail(outbox)
  /\ back' = [back EXCEPT ![link] = Append(@, Head(outbox))]
  /\ UNCHANGED <<link, hello, wire, known, indexed, session, apiVars, dispatchVars>> /\ Still

\* ... and the server refuses a connection whose first frame is not the hello.
SendEarly ==
  /\ outbox # <<>>
  /\ link # None /\ hello = "unsent"
  /\ outbox' = Tail(outbox)
  /\ pc' = [pc EXCEPT ![link] = "gone"]
  /\ link' = None
  /\ UNCHANGED <<setting, left, presence, entries, locks, at, open, seen, prev, cancelled, listener,
                 evicted, hello, wire, back, known, indexed, session, apiVars, dispatchVars>>

\* handleTurnStatusMessage.
Relay(c) ==
  /\ pc[c] = "relaying" /\ open[c]
  /\ back[c] # <<>>
  /\ back' = [back EXCEPT ![c] = Tail(@)]
  /\ row' = [row EXCEPT ![Head(back[c]).conv] = Head(back[c]).status]
  /\ UNCHANGED <<triggers, controls, link, hello, wire, dispatchVars, daemonVars>> /\ Still

\* A call of it returns an error: the report is dropped.
RelayFails(c) ==
  /\ pc[c] = "relaying" /\ open[c]
  /\ back[c] # <<>>
  /\ Allow("errors")
  /\ back' = [back EXCEPT ![c] = Tail(@)]
  /\ UNCHANGED <<apiVars, link, hello, wire, dispatchVars, daemonVars>>

-----------------------------------------------------------------------------
(* Runner.                                                                 *)

Message(v, status) == Append(outbox, [conv |-> v, status |-> status])

\* StartTurn: the session is busy with a turn, of this conversation or another one.
Busy(v) ==
  /\ Receive("start", v)
  /\ session[key(v)].pc # "idle"
  /\ outbox' = Message(v, "failed")
  /\ indexed' = indexed \cup {v}
  /\ UNCHANGED <<known, session>>

\* There is no command for the agent's provider.
Unresolved(v) ==
  /\ hello = "acked" /\ wire[link] # <<>> /\ Head(wire[link]) = Frame("start", v)
  /\ key(v) \notin known
  /\ Spend("faults")
  /\ wire' = [wire EXCEPT ![link] = Tail(@)]
  /\ outbox' = Message(v, "failed")
  /\ indexed' = indexed \ {v}
  /\ UNCHANGED <<setting, registryVars, link, hello, back, known, session, apiVars, dispatchVars>>

Begin(v) ==
  /\ Receive("start", v)
  /\ session[key(v)].pc = "idle"
  /\ known' = known \cup {key(v)} /\ indexed' = indexed \cup {v}
  /\ session' = [session EXCEPT ![key(v)].conv = v, ![key(v)].pc = "ensuring"]
  /\ UNCHANGED outbox

\* MUTANT of Interrupt: what is requested of a session is noted, whether a turn runs or not.
InterruptIdle(v, kind) ==
  /\ Receive(kind, v)
  /\ session' = IF v \notin indexed \/ key(v) \notin known THEN session
                ELSE [session EXCEPT ![key(v)].finish = (kind = "pause")]
  /\ UNCHANGED <<outbox, known, indexed>>

\* Interrupt: the turn that runs in the conversation's session, whosever it is, is asked
\* to stop, or cancelled while there is no client to ask.
Interrupt(v, kind) ==
  /\ Receive(kind, v)
  /\ LET k == key(v) IN
       session' =
         IF v \notin indexed \/ k \notin known \/ session[k].pc = "idle" THEN session
         ELSE IF session[k].client = "none"
              THEN [session EXCEPT ![k].finish = (kind = "pause"), ![k].cancelled = TRUE]
              ELSE [session EXCEPT ![k].finish = (kind = "pause"), ![k].asked = TRUE,
                                   ![k].timer = IF @ = "off" THEN "waiting" ELSE @]
  /\ UNCHANGED <<outbox, known, indexed>>

InTurn == UNCHANGED <<apiVars, dispatchVars, linkVars, known, indexed>>
InSession(k, from) == session[k].pc = from

\* ensureSession: the client is there, or is spawned and initialised.
Ensure(k) ==
  /\ InSession(k, "ensuring")
  /\ session' = [session EXCEPT ![k].pc = "prompting",
                                ![k].client = IF @ = "none" THEN "live" ELSE @]
  /\ UNCHANGED outbox /\ InTurn /\ Still

\* The turn is over, and has this to report.
End(k, status) ==
  /\ session' = [session EXCEPT ![k].pc = "ending"]
  /\ outbox' = IF status = None THEN outbox ELSE Message(session[k].conv, status)
  /\ InTurn

\* reportFinishedIfRequested.
IfRequested(k) == IF session[k].finish THEN "finished" ELSE None

\* The provider cannot be spawned, or answers a call with an error.
Err(k) ==
  /\ session[k].pc \in {"ensuring", "prompting"}
  /\ InSession(k, "ensuring") => session[k].client = "none"
  /\ InSession(k, "prompting") => session[k].client = "live"
  /\ Allow("faults")
  /\ End(k, IF InSession(k, "prompting") /\ session[k].finish THEN "finished" ELSE "failed")

\* It answers the prompt, in its own time, asked to stop or not.
Answer(k) ==
  /\ InSession(k, "prompting") /\ session[k].client = "live"
  /\ Still
  /\ \/ End(k, "finished")
     \/ session[k].asked /\ End(k, IfRequested(k))

\* The turn's context is cancelled, or the connection to its provider closed under it;
\* with both, either is what the call returns.
Unwind(k) ==
  /\ \/ /\ session[k].pc \in {"ensuring", "prompting"} /\ session[k].cancelled
        /\ End(k, IfRequested(k))
     \/ /\ InSession(k, "prompting") /\ session[k].client # "live"
        /\ End(k, IF session[k].finish THEN "finished" ELSE "failed")
  /\ Still

\* finishTurn; a timer that still waits for turnDone has it.
Finish(k) ==
  /\ InSession(k, "ending")
  /\ session' = [session EXCEPT ![k] =
       [Idle EXCEPT !.client = session[k].client,
                    !.late = session[k].late \/ session[k].timer = "killing"]]
  /\ UNCHANGED outbox /\ InTurn /\ Still

\* interruptGracePeriod is over ...
GraceOver(k) ==
  /\ session[k].timer = "waiting"
  /\ session' = [session EXCEPT ![k].timer = "killing"]
  /\ UNCHANGED outbox /\ InTurn /\ Still

\* ... and the turn is cancelled, and the client closed.
Kill(k) ==
  /\ session[k].timer = "killing"
  /\ session' = [session EXCEPT ![k].timer = "off", ![k].client = "none", ![k].cancelled = TRUE]
  /\ UNCHANGED outbox /\ InTurn /\ Still

\* The turn has ended meanwhile, and it is the client of the next one.
KillLate(k) ==
  /\ session[k].late
  /\ session' = [session EXCEPT ![k].late = FALSE, ![k].client = "none"]
  /\ UNCHANGED outbox /\ InTurn /\ Still

ProviderDies(k) ==
  /\ session[k].client = "live"
  /\ Allow("faults")
  /\ session' = [session EXCEPT ![k].client = "dead"]
  /\ UNCHANGED outbox /\ InTurn

Forget(k) == /\ known' = known \ {k}
             /\ indexed' = {v \in indexed : key(v) # k}
             /\ session' = [session EXCEPT ![k] = Idle]
             /\ UNCHANGED <<outbox, apiVars, dispatchVars, linkVars>> /\ Still

\* MUTANT of Sweep: a session is idle when nothing has happened in it for long.
SweepBusy(k) ==
  /\ k \in known
  /\ known' = known \ {k}
  /\ indexed' = {v \in indexed : key(v) # k}
  /\ UNCHANGED <<session, outbox, apiVars, dispatchVars, linkVars>> /\ Still

\* evictIdle.
Sweep(k) ==
  /\ k \in known /\ InSession(k, "idle")
  /\ Forget(k)

DaemonDies ==
  /\ Allow("deaths")
  /\ wire' = [c \in Conns |-> IF c = link THEN <<>> ELSE wire[c]]
  /\ link' = None /\ hello' = "unsent"
  /\ outbox' = <<>> /\ known' = {} /\ indexed' = {}
  /\ session' = [k \in Keys |-> Idle]
  /\ UNCHANGED <<back, apiVars, dispatchVars>>

\* A replica of agent-runner dies: its jobs and watchdogs are gone with it.
ReplicaDies(r) ==
  /\ Crash(r)
  /\ IF r = Home
     THEN /\ job' = [v \in Convs |-> "none"] /\ watchdogs' = {}
          /\ counter' = 0 /\ latest' = [v \in Convs |-> 0]
     ELSE UNCHANGED dispatchVars
  /\ UNCHANGED <<apiVars, linkVars, daemonVars>>

-----------------------------------------------------------------------------
TurnsNextOf(v) ==
  \/ Send(v) \/ \E kind \in {"stop", "pause"} : Control(v, kind) \/ Interrupt(v, kind)
  \/ Busy(v) \/ Unresolved(v) \/ Begin(v)
Dispatch(v) == Look(v) \/ Mark(v) \/ Record(v) \/ Ask(v) \/ FailOffline(v) \/ Publish(v)
               \/ LookFails(v) \/ DispatchFails(v)
Turn(k) == Ensure(k) \/ Err(k) \/ Answer(k) \/ Unwind(k) \/ Finish(k)
Serve(c) == \/ (Register(c) \/ Unregister(c)) /\ UNCHANGED turnVars
            \/ Acknowledge(c) \/ Relay(c) \/ RelayFails(c)
Hear(c) == Listen(c) /\ UNCHANGED turnVars
Watchdog == \E d \in watchdogs : Wake(d) \/ FailIfNotTerminal(d) \/ WatchdogFails(d)

TurnsNext ==
  \/ \E c \in Conns : Connect(c) \/ Serve(c) \/ Hear(c) \/ Notice(c)
  \/ \E r \in Replicas : SayHello(r) \/ ReplicaDies(r) \/ \E c \in Conns : DialOther(c, r)
  \/ (EvictAll \/ Lapse(Silent)) /\ UNCHANGED turnVars
  \/ LoseLink \/ Cut \/ ReceiveAck \/ SendUp \/ SendEarly \/ DaemonDies
  \/ \E v \in Convs : TurnsNextOf(v) \/ Dispatch(v)
  \/ \E m \in controls : PassOn(m) \/ PassOnFails(m)
  \/ Watchdog
  \/ \E k \in Keys : Turn(k) \/ GraceOver(k) \/ Kill(k) \/ KillLate(k)
                   \/ ProviderDies(k) \/ Sweep(k)

TurnsSpec == TurnsInit /\ [][TurnsNext]_vars

\* Goroutines go on, sockets that are dead are found dead, keys lapse, timers fire.  A
\* daemon need not dial again, a provider need not answer.
Fairness ==
  /\ \A c \in Conns : WF_vars(Serve(c)) /\ WF_vars(Hear(c)) /\ WF_vars(Notice(c))
  /\ WF_vars(Lapse(Silent) /\ UNCHANGED turnVars)
  /\ \A v \in Convs : WF_vars(Dispatch(v))
  /\ WF_vars(Watchdog)
  /\ \A k \in Keys : /\ WF_vars(Unwind(k) \/ Finish(k))
                     /\ WF_vars(GraceOver(k) \/ Kill(k) \/ KillLate(k))
FairSpec == TurnsSpec /\ Fairness

-----------------------------------------------------------------------------
(* Properties.                                                             *)

Status == {"running", "finished", "failed", "stopped"}
Report == [conv : Convs, status : {"finished", "failed"}]
Session == [conv : Convs \cup {None}, pc : {"idle", "ensuring", "prompting", "ending"},
            client : {"none", "live", "dead"}, finish : BOOLEAN, cancelled : BOOLEAN,
            asked : BOOLEAN, timer : {"off", "waiting", "killing"}, late : BOOLEAN]

\* The ranges of the variables: rows have the statuses of the model, the last dispatch of
\* a conversation is one that has been counted, a turn that has been asked to stop or
\* cancelled is one that runs, and what the daemon has in hand is its own.
TypeOK ==
  /\ RegistryTypeOK
  /\ row \in [Convs -> Status] /\ triggers \in [Convs -> Nat]
  /\ controls \subseteq [kind : {"stop", "pause"}, conv : Convs]
  /\ job \in [Convs -> {"none", "marking", "recording", "asking", "publishing", "failing"}]
  /\ counter \in Nat /\ latest \in [Convs -> 0..counter]
  /\ watchdogs \subseteq
       [conv : Convs, gen : 1..counter, pc : {"sleeping", "failing"}, seen : 0..counter]
  /\ link \in Conns \cup {None} /\ hello \in {"unsent", "sent", "acked"}
  /\ link = None => hello = "unsent"
  /\ known \subseteq Keys /\ indexed \subseteq Convs
  /\ back \in [Conns -> Seq(Report)] /\ outbox \in Seq(Report)
  /\ session \in [Keys -> Session]
  /\ \A k \in Keys :
       LET s == session[k] IN
         /\ s.pc = "idle" => ~(s.finish \/ s.asked) /\ s.conv = None
         /\ s.pc # "idle" => s.conv \in Convs /\ key(s.conv) = k

\* A turn that runs can be found by an Interrupt: its session is in the map and its
\* conversation in the index, whatever the idle sweep and the failures of other starts
\* have removed from them.
RunsLinked ==
  \A k \in Keys : session[k].pc # "idle" => k \in known /\ session[k].conv \in indexed

\* "A watchdog from an earlier dispatch is already stale by the time the new turn can
\* start", if it still sleeps when that dispatch takes its generation: a watchdog fails
\* a conversation that has been dispatched again only if it had made its check before.
\* Between its check and its update nothing stops it.
WatchdogSpares ==
  [][\A d \in watchdogs :
       d \notin watchdogs' /\ row'[d.conv] # row[d.conv] =>
         /\ job[d.conv] \in {"asking", "publishing"} => d.seen < latest[d.conv]
         /\ \A e \in watchdogs : e.conv = d.conv /\ e.gen > d.gen => d.seen < e.gen]_vars

-----------------------------------------------------------------------------
(***************************************************************************)
(* The inductive invariant: with that of the registry, that a connection   *)
(* the daemon has opened and not used yet is nobody's on the other side,   *)
(* and that a dispatch has a generation of its own until its watchdog is   *)
(* armed, behind which the older watchdogs of the conversation made their  *)
(* checks, if they have made them.                                         *)
(***************************************************************************)
LinkIsFresh ==
  link # None /\ hello = "unsent" => pc[link] = "none" /\ link \notin setting.others

DispatchIsNewest ==
  \A v \in Convs : job[v] \in {"asking", "publishing"} =>
    /\ latest[v] # 0
    /\ \A d \in watchdogs : d.conv = v => d.gen < latest[v] /\ d.seen < latest[v]

LatestIsNewest ==
  \A d \in watchdogs : latest[d.conv] # 0 => d.gen <= latest[d.conv]

CheckedWasNewest ==
  \A d, e \in watchdogs : d.pc = "failing" /\ e.conv = d.conv => e.gen <= d.gen \/ d.seen < e.gen

IInv ==
  /\ setting \in Settings
  /\ TypeOK
  /\ RegistryInv
  /\ LinkIsFresh
  /\ DispatchIsNewest /\ LatestIsNewest /\ CheckedWasNewest
  /\ RunsLinked

-----------------------------------------------------------------------------
\* Neither a publish that fails nor the death of a replica, both of which leave a row
\* without a watchdog.
Watched == left.errors = setting.budget.errors /\ left.crashes = setting.budget.crashes

\* A conversation that runs stops running, whatever is lost on the way to the daemon and
\* back; and a turn that the user interrupts ends, whatever its provider does.
TurnsEnd ==
  /\ \A v \in Convs : row[v] = "running" /\ Watched ~> row[v] # "running" \/ ~Watched
  /\ \A k \in Keys : session[k].asked \/ session[k].cancelled ~> session[k].pc = "idle"
===============================================================================
