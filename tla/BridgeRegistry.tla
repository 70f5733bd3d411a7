---------------------------- MODULE BridgeRegistry ----------------------------
(***************************************************************************)
(* The bridge connections of one ACP agent (agent-runner, acpbridge).      *)
(*                                                                         *)
(* A daemon on a user's machine holds a WebSocket to some replica of       *)
(* agent-runner.  The replica keeps the session in a map, and in Valkey a  *)
(* key with a TTL that says the agent is online.  Two goroutines belong to *)
(* a session: one forwards what is dispatched to the agent, the other      *)
(* watches for the eviction of the session by a newer one.  Both live on   *)
(* Pub/Sub subscriptions, which lose what is published while they are down.*)
(*                                                                         *)
(* A connection is the goroutine of handleWS; its name stands for the      *)
(* session_id that Register gives it.  The handshake before Register and   *)
(* the realtime events after it are left out.                              *)
(***************************************************************************)
EXTENDS Naturals, FiniteSets

CONSTANTS
  Conns,      \* connections
  Replicas,   \* instances of agent-runner
  Settings,   \* what may come and what may go wrong
  None

ASSUME NoneAssumption == None \notin Conns \cup Replicas
ASSUME SettingsAssumption ==
  \A s \in Settings : /\ s.online \in Conns \cup {None}
                      /\ s.conns \subseteq Conns /\ s.replicas \subseteq Replicas

VARIABLES
  setting,    \* chosen at the start
  left,       \* how many crashes, drops, ... of the setting's budget are left
  presence,   \* the key of the agent exists
  entries,    \* connections, of each replica
  locks,      \* registerLocks
  at,         \* the replica a connection is on
  open,       \* the server's end of the socket
  pc,         \* of handleWS
  seen,       \* alreadyOnline, of Register
  prev,       \* the entry Register has replaced
  cancelled,  \* connEntry.cancel has been called
  listener,   \* the goroutines of each session
  evicted     \* an eviction waits in the subscription

registryVars == <<presence, entries, locks, at, open, pc, seen, prev, cancelled, listener, evicted>>

Tasks == {"forward", "watch"}

\* No connection, or one that has been registered for long.
Init ==
  /\ setting \in Settings
  /\ left = setting.budget
  /\ \E r \in setting.replicas :
       LET up == {setting.online} \cap Conns IN
         /\ presence = (up # {})
         /\ entries = [q \in Replicas |-> IF q = r THEN setting.online ELSE None]
         /\ at = [c \in Conns |-> IF c \in up THEN r ELSE None]
         /\ open = [c \in Conns |-> c \in up]
         /\ pc = [c \in Conns |-> IF c \in up THEN "relaying" ELSE "none"]
         /\ listener = [c \in Conns |-> [g \in Tasks |-> IF c \in up THEN "subscribed" ELSE "none"]]
  /\ locks = [r \in Replicas |-> None]
  /\ seen = [c \in Conns |-> FALSE] /\ prev = [c \in Conns |-> None]
  /\ cancelled = [c \in Conns |-> FALSE]
  /\ evicted = [c \in Conns |-> FALSE]

Goto(c, from, to) == pc[c] = from /\ pc' = [pc EXCEPT ![c] = to]
Spend(what) == left[what] > 0 /\ left' = [left EXCEPT ![what] = @ - 1]

\* connEntry.done is closed.
Done(c) == \A g \in Tasks : listener[c][g] \in {"none", "exited"}
Subscribed(g) == {c \in Conns : listener[c][g] = "subscribed"}

-----------------------------------------------------------------------------
(* Register.                                                               *)

\* The daemon has said hello, with the agent's token.
Dial(c, r) ==
  /\ c \in setting.conns /\ r \in setting.replicas
  /\ Goto(c, "none", "locking")
  /\ at' = [at EXCEPT ![c] = r]
  /\ open' = [open EXCEPT ![c] = TRUE]
  /\ UNCHANGED <<setting, left, presence, entries, locks, seen, prev, cancelled, listener, evicted>>

Lock(c) ==
  /\ Goto(c, "locking", "checking")
  /\ locks[at[c]] = None
  /\ locks' = [locks EXCEPT ![at[c]] = c]
  /\ UNCHANGED <<setting, left, presence, entries, at, open, seen, prev, cancelled, listener,
                 evicted>>

CheckPresence(c) ==
  /\ Goto(c, "checking", "setting")
  /\ seen' = [seen EXCEPT ![c] = presence]
  /\ UNCHANGED <<setting, left, presence, entries, locks, at, open, prev, cancelled, listener,
                 evicted>>

SetPresence(c) ==
  /\ Goto(c, "setting", "swapping")
  /\ presence' = TRUE
  /\ UNCHANGED <<setting, left, entries, locks, at, open, seen, prev, cancelled, listener, evicted>>

\* Either call of Valkey fails, and the connection is refused.
Refuse(c) ==
  /\ pc[c] \in {"checking", "setting"}
  /\ Spend("errors")
  /\ Goto(c, pc[c], "gone")
  /\ open' = [open EXCEPT ![c] = FALSE]
  /\ locks' = [locks EXCEPT ![at[c]] = None]
  /\ UNCHANGED <<setting, presence, entries, at, seen, prev, cancelled, listener, evicted>>

Swap(c) ==
  /\ Goto(c, "swapping", IF entries[at[c]] = None THEN "starting" ELSE "superseding")
  /\ prev' = [prev EXCEPT ![c] = entries[at[c]]]
  /\ entries' = [entries EXCEPT ![at[c]] = c]
  /\ UNCHANGED <<setting, left, presence, locks, at, open, seen, cancelled, listener, evicted>>

\* MUTANT of Supersede: the replaced connection is closed and its context lives on.
SupersedeUncancelled(c) ==
  /\ Goto(c, "superseding", "starting")
  /\ open' = [open EXCEPT ![prev[c]] = FALSE]
  /\ UNCHANGED <<setting, left, presence, entries, locks, at, seen, prev, cancelled, listener,
                 evicted>>

\* The connection replaced on this replica is cancelled and closed ...
Supersede(c) ==
  /\ Goto(c, "superseding", "awaiting")
  /\ cancelled' = [cancelled EXCEPT ![prev[c]] = TRUE]
  /\ open' = [open EXCEPT ![prev[c]] = FALSE]
  /\ UNCHANGED <<setting, left, presence, entries, locks, at, seen, prev, listener, evicted>>

\* ... and its goroutines are waited for.
Await(c) ==
  /\ Goto(c, "awaiting", "starting")
  /\ Done(prev[c])
  /\ UNCHANGED <<setting, left, presence, entries, locks, at, open, seen, prev, cancelled, listener,
                 evicted>>

Start(c) ==
  /\ Goto(c, "starting", "readying")
  /\ listener' = [listener EXCEPT ![c] = [g \in Tasks |-> "dialing"]]
  /\ UNCHANGED <<setting, left, presence, entries, locks, at, open, seen, prev, cancelled, evicted>>

\* Both have subscribed, or subscribeReadyTimeout is over.
Ready(c) ==
  /\ Goto(c, "readying", "announcing")
  /\ \/ "dialing" \notin {listener[c][g] : g \in Tasks} /\ UNCHANGED left
     \/ "dialing" \in {listener[c][g] : g \in Tasks} /\ Spend("losses")
  /\ UNCHANGED <<setting, presence, entries, locks, at, open, seen, prev, cancelled, listener,
                 evicted>>

\* What broadcastEviction publishes reaches the watchers that are subscribed; a session
\* ignores its own name.
Told(winner) == [c \in Conns |-> evicted[c] \/ (c \in Subscribed("watch") /\ c # winner)]

Announce(c) ==
  /\ Goto(c, "announcing", "greeting")
  /\ evicted' = IF seen[c] THEN Told(c) ELSE evicted
  /\ locks' = [locks EXCEPT ![at[c]] = None]
  /\ UNCHANGED <<setting, left, presence, entries, at, open, seen, prev, cancelled, listener>>

-----------------------------------------------------------------------------
(* handleWS, once registered.                                              *)

\* hello_ack, unless the connection is gone by now.
Greet(c) ==
  /\ Goto(c, "greeting", IF open[c] THEN "relaying" ELSE "removing")
  /\ UNCHANGED <<setting, left, presence, entries, locks, at, open, seen, prev, cancelled, listener,
                 evicted>>

\* relayMessages ends with the connection.
Hangup(c) ==
  /\ ~open[c]
  /\ Goto(c, "relaying", "removing")
  /\ UNCHANGED <<setting, left, presence, entries, locks, at, open, seen, prev, cancelled, listener,
                 evicted>>

\* Unregister: not if the entry is another session's by now ...
Remove(c) ==
  /\ Goto(c, "removing", IF entries[at[c]] = c THEN "draining" ELSE "gone")
  /\ IF entries[at[c]] = c
     THEN /\ entries' = [entries EXCEPT ![at[c]] = None]
          /\ cancelled' = [cancelled EXCEPT ![c] = TRUE]
     ELSE UNCHANGED <<entries, cancelled>>
  /\ UNCHANGED <<setting, left, presence, locks, at, open, seen, prev, listener, evicted>>

Drain(c) ==
  /\ Goto(c, "draining", "clearing")
  /\ Done(c)
  /\ UNCHANGED <<setting, left, presence, entries, locks, at, open, seen, prev, cancelled, listener,
                 evicted>>

\* ... but the key is deleted whosever it is.
ClearPresence(c) ==
  /\ Goto(c, "clearing", "gone")
  /\ presence' = FALSE
  /\ UNCHANGED <<setting, left, entries, locks, at, open, seen, prev, cancelled, listener, evicted>>

-----------------------------------------------------------------------------
(* subscribeLoop, of both goroutines.                                      *)

Subscribe(c, g) ==
  /\ listener[c][g] = "dialing" /\ ~cancelled[c]
  /\ listener' = [listener EXCEPT ![c][g] = "subscribed"]
  /\ UNCHANGED <<setting, left, presence, entries, locks, at, open, pc, seen, prev, cancelled,
                 evicted>>

\* MUTANT of Exit: ReceiveMessage does not notice that its context is cancelled.
ExitWhileDialing(c, g) ==
  /\ cancelled[c] /\ listener[c][g] = "dialing"
  /\ listener' = [listener EXCEPT ![c][g] = "exited"]
  /\ UNCHANGED <<setting, left, presence, entries, locks, at, open, pc, seen, prev, cancelled,
                 evicted>>

\* drainMessages closes the subscription when the context is cancelled.
Exit(c, g) ==
  /\ cancelled[c] /\ listener[c][g] \in {"dialing", "subscribed"}
  /\ listener' = [listener EXCEPT ![c][g] = "exited"]
  /\ UNCHANGED <<setting, left, presence, entries, locks, at, open, pc, seen, prev, cancelled,
                 evicted>>

\* A connection to Valkey breaks, and what was published to it is lost.
LoseSubscription(c, g) ==
  /\ listener[c][g] = "subscribed"
  /\ Spend("losses")
  /\ listener' = [listener EXCEPT ![c][g] = "dialing"]
  /\ evicted' = IF g = "watch" THEN [evicted EXCEPT ![c] = FALSE] ELSE evicted
  /\ UNCHANGED <<setting, presence, entries, locks, at, open, pc, seen, prev, cancelled>>

\* watchForEviction closes the connection and is done.
BeEvicted(c) ==
  /\ evicted[c] /\ listener[c]["watch"] = "subscribed"
  /\ open' = [open EXCEPT ![c] = FALSE]
  /\ listener' = [listener EXCEPT ![c]["watch"] = "exited"]
  /\ UNCHANGED <<setting, left, presence, entries, locks, at, pc, seen, prev, cancelled, evicted>>

-----------------------------------------------------------------------------
(* What happens around them.                                               *)

\* Evict: the token has been regenerated.
EvictAll ==
  /\ Spend("evictions")
  /\ evicted' = Told(None)
  /\ UNCHANGED <<setting, presence, entries, locks, at, open, pc, seen, prev, cancelled, listener>>

\* The socket breaks, and the server notices.
Break(c) ==
  /\ open[c]
  /\ open' = [open EXCEPT ![c] = FALSE]
  /\ UNCHANGED <<setting, presence, entries, locks, at, pc, seen, prev, cancelled, listener,
                 evicted>>

\* The daemon goes away, or the network.
Drop(c) == Break(c) /\ Spend("drops")

\* Nobody has refreshed the key for a TTL, in which a daemon that lives sends Heartbeat
\* three pings, and a session that is being registered is so long before.
Lapse(silent) ==
  /\ presence
  /\ \A c \in Conns : \/ pc[c] \in {"none", "locking", "checking", "setting", "gone"}
                      \/ pc[c] \in {"relaying", "removing", "draining", "clearing"} /\ c \in silent
  /\ presence' = FALSE
  /\ UNCHANGED <<setting, left, entries, locks, at, open, pc, seen, prev, cancelled, listener,
                 evicted>>

Closed == {c \in Conns : ~open[c]}

Crash(r) ==
  /\ Spend("crashes")
  /\ LET here == {c \in Conns : at[c] = r} IN
       /\ pc' = [c \in Conns |-> IF c \in here THEN "gone" ELSE pc[c]]
       /\ open' = [c \in Conns |-> open[c] /\ c \notin here]
       /\ listener' = [c \in Conns |-> IF c \in here THEN [g \in Tasks |-> "exited"]
                                      ELSE listener[c]]
  /\ entries' = [entries EXCEPT ![r] = None] /\ locks' = [locks EXCEPT ![r] = None]
  /\ UNCHANGED <<setting, presence, at, seen, prev, cancelled, evicted>>

-----------------------------------------------------------------------------
Register(c) ==
  \/ Lock(c) \/ CheckPresence(c) \/ SetPresence(c) \/ Refuse(c) \/ Swap(c) \/ Supersede(c)
  \/ Await(c) \/ Start(c) \/ Ready(c) \/ Announce(c)
Unregister(c) == Hangup(c) \/ Remove(c) \/ Drain(c) \/ ClearPresence(c)
Listen(c) == \/ \E g \in Tasks : Subscribe(c, g) \/ Exit(c, g) \/ LoseSubscription(c, g)
             \/ BeEvicted(c)

Next ==
  \/ \E c \in Conns :
       \/ \E r \in Replicas : Dial(c, r)
       \/ Register(c) \/ Greet(c) \/ Unregister(c) \/ Listen(c) \/ Drop(c)
  \/ EvictAll \/ Lapse(Closed) \/ \E r \in Replicas : Crash(r)

Spec == Init /\ [][Next]_<<setting, left, registryVars>>

-----------------------------------------------------------------------------
(* Properties.                                                             *)

\* Where a connection is before it is in the map of its replica, and where it is there to
\* stay: Register holds the lock of the agent from "checking" to "announcing".
Outside == {"none", "locking", "checking", "setting", "swapping"}
Inserted == {"superseding", "awaiting", "starting", "readying", "announcing"}
Locking == {"checking", "setting", "swapping"} \cup Inserted
Leaving == {"removing", "draining", "clearing", "gone"}

RegistryTypeOK ==
  /\ presence \in BOOLEAN
  /\ entries \in [Replicas -> Conns \cup {None}] /\ locks \in [Replicas -> Conns \cup {None}]
  /\ at \in [Conns -> Replicas \cup {None}] /\ prev \in [Conns -> Conns \cup {None}]
  /\ \A f \in {open, seen, cancelled, evicted} : f \in [Conns -> BOOLEAN]
  /\ listener \in [Conns -> [Tasks -> {"none", "dialing", "subscribed", "exited"}]]
  /\ pc \in [Conns -> Outside \cup Inserted \cup {"greeting", "relaying"} \cup Leaving]
  /\ \A c \in Conns : pc[c] \in Locking => locks[at[c]] = c

Alive(c, g) == listener[c][g] \in {"dialing", "subscribed"}

\* A goroutine that listens on behalf of an agent belongs to the session in the map of
\* its replica, or has been told to stop, or is about to be: none is left behind by a
\* reconnection that replaces a session, or by the old connection's late Unregister, which
\* must not stop the new session's either.
NoOrphan ==
  \A c \in Conns : at[c] # None =>
    /\ \A g \in Tasks : Alive(c, g) => \/ entries[at[c]] = c \/ cancelled[c]
                                       \/ \E d \in Conns : pc[d] = "superseding" /\ prev[d] = c
    /\ entries[at[c]] = c => ~cancelled[c]

-----------------------------------------------------------------------------
(***************************************************************************)
(* The inductive invariant.  The map of a replica has a connection that    *)
(* Register has put there and Unregister has not removed, and has it for   *)
(* as long as its Register runs, for the lock keeps other registrations    *)
(* out; what Register replaces is another connection of the same replica.  *)
(***************************************************************************)
EntriesStand ==
  \A r \in Replicas : entries[r] # None =>
    at[entries[r]] = r /\ pc[entries[r]] \in Inserted \cup {"greeting", "relaying", "removing"}

\* A connection that has been dialed is on a replica, and one that has not is on none.
Placed == \A c \in Conns : pc[c] \notin {"none", "gone"} => at[c] # None
Undialed == \A c \in Conns : pc[c] = "none" => at[c] = None

\* Before it is in the map a connection has no goroutines, and nobody to cancel it.
FreshUntouched ==
  \A c \in Conns : pc[c] \in Outside =>
    ~cancelled[c] /\ \A g \in Tasks : listener[c][g] = "none"

InsertedStays == \A c \in Conns : pc[c] \in Inserted => entries[at[c]] = c

ReplacedIsOther ==
  \A c \in Conns : pc[c] \in {"superseding", "awaiting"} =>
    prev[c] \notin {c, None} /\ at[prev[c]] = at[c] /\ pc[prev[c]] \notin Outside

RegistryInv ==
  /\ RegistryTypeOK
  /\ EntriesStand
  /\ Placed /\ Undialed
  /\ FreshUntouched
  /\ InsertedStays
  /\ ReplacedIsOther
  /\ NoOrphan

-----------------------------------------------------------------------------
\* When connections have stopped coming, every Register and Unregister has returned, at
\* most one session of the agent is left on each replica, and the agent is not shown
\* online without one.
Settled ==
  /\ \A c \in Conns : pc[c] \in {"none", "relaying", "gone"}
  /\ \A r \in Replicas : Cardinality({c \in Conns : pc[c] = "relaying" /\ at[c] = r}) <= 1
  /\ presence => \E c \in Conns : pc[c] = "relaying"
Converges == <>[]Settled

\* "A stale connection's disconnect must not clear the newer session's presence" (the
\* comment of Unregister): with nobody between its first and its last step, an agent that
\* is connected is shown online.
ConnectedIsOnline ==
  (\A c \in Conns : pc[c] \in {"none", "relaying", "gone"}) =>
    \A c \in Conns : pc[c] = "relaying" /\ open[c] => presence
===============================================================================
