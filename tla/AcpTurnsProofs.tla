---------------------------- MODULE AcpTurnsProofs ----------------------------
(***************************************************************************)
(* Proofs about AcpTurns, for any number of conversations, connections,    *)
(* session keys and replicas: types, NoOrphan of the registry in the       *)
(* presence of the daemon, RunsLinked and WatchdogSpares, by the inductive *)
(* invariant IInv of that module.  Registry, dispatch, link, reports and   *)
(* sessions change in few actions each: the lemmas of the first part say   *)
(* in which, those of the second part what these keep.                     *)
(***************************************************************************)
EXTENDS AcpTurns, BridgeRegistryProofs

-----------------------------------------------------------------------------
(* Which actions touch what.                                               *)

LEMMA SettingStands == ASSUME [TurnsNext]_vars PROVE setting' = setting
<1> USE DEF Still, Allow, Spend
<1>1. ASSUME NEW c \in Conns, Connect(c) \/ Serve(c) \/ Hear(c) \/ Notice(c)
      PROVE  setting' = setting
  <2>1. CASE Register(c) \/ Unregister(c) \/ Listen(c)
    BY <2>1
    DEF Register, Lock, CheckPresence, SetPresence, Refuse, Swap, Supersede, Await, Start, Ready,
        Announce, Unregister, Hangup, Remove, Drain, ClearPresence, Listen, Subscribe, Exit,
        LoseSubscription, BeEvicted
  <2>. QED
    BY <1>1, <2>1 DEF Connect, Serve, Hear, Notice, Acknowledge, Greet, Relay, RelayFails, Break
<1>2. ASSUME NEW r \in Replicas,
             SayHello(r) \/ ReplicaDies(r) \/ \E c \in Conns : DialOther(c, r)
      PROVE  setting' = setting
  BY <1>2 DEF SayHello, ReplicaDies, DialOther, Dial, Crash
<1>3. CASE (EvictAll \/ Lapse(Silent)) /\ UNCHANGED turnVars
  BY <1>3 DEF EvictAll, Lapse
<1>4. CASE LoseLink \/ Cut \/ ReceiveAck \/ SendUp \/ SendEarly \/ DaemonDies
  BY <1>4 DEF LoseLink, Cut, ReceiveAck, SendUp, SendEarly, DaemonDies
<1>5. ASSUME NEW v \in Convs, TurnsNextOf(v) \/ Dispatch(v) PROVE setting' = setting
  BY <1>5
  DEF TurnsNextOf, Send, Control, Interrupt, Busy, Unresolved, Begin, Receive, Dispatch, Look, Mark,
      Record, Ask, FailOffline, Publish, LookFails, DispatchFails
<1>6. CASE (\E m \in controls : PassOn(m) \/ PassOnFails(m)) \/ Watchdog
  BY <1>6 DEF PassOn, PassOnFails, Watchdog, Wake, FailIfNotTerminal, WatchdogFails
<1>7. ASSUME NEW k \in Keys,
             Turn(k) \/ GraceOver(k) \/ Kill(k) \/ KillLate(k) \/ ProviderDies(k) \/ Sweep(k)
      PROVE  setting' = setting
  BY <1>7
  DEF Turn, Ensure, Err, Answer, Unwind, Finish, GraceOver, Kill, KillLate, ProviderDies, Sweep,
      Forget
<1>8. CASE UNCHANGED vars
  BY <1>8 DEF vars
<1>. QED
  BY <1>1, <1>2, <1>3, <1>4, <1>5, <1>6, <1>7, <1>8 DEF TurnsNext

LEMMA RegistryFrame ==
  ASSUME [TurnsNext]_vars
  PROVE  \/ UNCHANGED registryVars
         \/ \E c \in Conns : Register(c) \/ Greet(c) \/ Unregister(c) \/ Listen(c) \/ Break(c)
         \/ \E c \in Conns, r \in Replicas : DialOther(c, r)
         \/ \E r \in Replicas : SayHello(r) \/ Crash(r)
         \/ EvictAll \/ Lapse(Silent)
         \/ SendEarly
<1> USE DEF Still, Allow
<1>1. CASE \E c \in Conns : Connect(c) \/ Serve(c) \/ Hear(c) \/ Notice(c)
  BY <1>1 DEF Connect, Serve, Hear, Notice, Acknowledge, Relay, RelayFails
<1>2. CASE \E r \in Replicas : SayHello(r) \/ ReplicaDies(r) \/ \E c \in Conns : DialOther(c, r)
  BY <1>2 DEF ReplicaDies
<1>3. CASE LoseLink \/ Cut \/ ReceiveAck \/ SendUp \/ DaemonDies
  BY <1>3 DEF LoseLink, Cut, ReceiveAck, SendUp, DaemonDies
<1>4. ASSUME NEW v \in Convs, TurnsNextOf(v) \/ Dispatch(v) PROVE UNCHANGED registryVars
  BY <1>4
  DEF TurnsNextOf, Send, Control, Interrupt, Busy, Unresolved, Begin, Receive, Dispatch, Look, Mark,
      Record, Ask, FailOffline, Publish, LookFails, DispatchFails
<1>5. CASE (\E m \in controls : PassOn(m) \/ PassOnFails(m)) \/ Watchdog
  BY <1>5 DEF PassOn, PassOnFails, Watchdog, Wake, FailIfNotTerminal, WatchdogFails
<1>6. ASSUME NEW k \in Keys,
             Turn(k) \/ GraceOver(k) \/ Kill(k) \/ KillLate(k) \/ ProviderDies(k) \/ Sweep(k)
      PROVE  UNCHANGED registryVars
  BY <1>6
  DEF Turn, Ensure, Err, Answer, Unwind, Finish, GraceOver, Kill, KillLate, ProviderDies, Sweep,
      Forget
<1>7. CASE UNCHANGED vars
  BY <1>7 DEF vars
<1>. QED
  BY <1>1, <1>2, <1>3, <1>4, <1>5, <1>6, <1>7 DEF TurnsNext

LEMMA DispatchFrame ==
  ASSUME [TurnsNext]_vars
  PROVE  \/ UNCHANGED dispatchVars
         \/ \E r \in Replicas : ReplicaDies(r)
         \/ \E v \in Convs : Dispatch(v)
         \/ Watchdog
<1>1. CASE \E c \in Conns : Connect(c) \/ Serve(c) \/ Hear(c) \/ Notice(c)
  BY <1>1 DEF Connect, Serve, Hear, Notice, Acknowledge, Relay, RelayFails, turnVars
<1>2. CASE \E r \in Replicas : SayHello(r) \/ \E c \in Conns : DialOther(c, r)
  BY <1>2 DEF SayHello, DialOther, turnVars
<1>3. CASE (EvictAll \/ Lapse(Silent)) /\ UNCHANGED turnVars
  BY <1>3 DEF turnVars
<1>4. CASE LoseLink \/ Cut \/ ReceiveAck \/ SendUp \/ SendEarly \/ DaemonDies
  BY <1>4 DEF LoseLink, Cut, ReceiveAck, SendUp, SendEarly, DaemonDies
<1>5. ASSUME NEW v \in Convs, TurnsNextOf(v) PROVE UNCHANGED dispatchVars
  BY <1>5 DEF TurnsNextOf, Send, Control, Interrupt, Busy, Unresolved, Begin, Receive
<1>6. CASE \E m \in controls : PassOn(m) \/ PassOnFails(m)
  BY <1>6 DEF PassOn, PassOnFails
<1>7. ASSUME NEW k \in Keys,
             Turn(k) \/ GraceOver(k) \/ Kill(k) \/ KillLate(k) \/ ProviderDies(k) \/ Sweep(k)
      PROVE  UNCHANGED dispatchVars
  BY <1>7
  DEF Turn, Ensure, Err, Answer, Unwind, Finish, GraceOver, Kill, KillLate, ProviderDies, Sweep,
      Forget, End, InTurn
<1>8. CASE UNCHANGED vars
  BY <1>8 DEF vars, turnVars
<1>. QED
  BY <1>1, <1>2, <1>3, <1>4, <1>5, <1>6, <1>7, <1>8 DEF TurnsNext

LEMMA SessionFrame ==
  ASSUME [TurnsNext]_vars
  PROVE  \/ UNCHANGED <<known, indexed, session>>
         \/ DaemonDies
         \/ \E v \in Convs : Interrupt(v, "stop") \/ Interrupt(v, "pause") \/ Busy(v)
                             \/ Unresolved(v) \/ Begin(v)
         \/ \E k \in Keys : Turn(k) \/ GraceOver(k) \/ Kill(k) \/ KillLate(k) \/ ProviderDies(k)
                            \/ Sweep(k)
<1> USE DEF daemonVars
<1>1. CASE \E c \in Conns : Connect(c) \/ Serve(c) \/ Hear(c) \/ Notice(c)
  BY <1>1 DEF Connect, Serve, Hear, Notice, Acknowledge, Relay, RelayFails, turnVars
<1>2. CASE \E r \in Replicas : SayHello(r) \/ ReplicaDies(r) \/ \E c \in Conns : DialOther(c, r)
  BY <1>2 DEF SayHello, ReplicaDies, DialOther, turnVars
<1>3. CASE (EvictAll \/ Lapse(Silent)) /\ UNCHANGED turnVars
  BY <1>3 DEF turnVars
<1>4. CASE LoseLink \/ Cut \/ ReceiveAck \/ SendUp \/ SendEarly
  BY <1>4 DEF LoseLink, Cut, ReceiveAck, SendUp, SendEarly
<1>5. ASSUME NEW v \in Convs, Send(v) \/ Control(v, "stop") \/ Control(v, "pause") \/ Dispatch(v)
      PROVE  UNCHANGED <<known, indexed, session>>
  BY <1>5
  DEF Send, Control, Dispatch, Look, Mark, Record, Ask, FailOffline, Publish, LookFails, DispatchFails
<1>6. CASE (\E m \in controls : PassOn(m) \/ PassOnFails(m)) \/ Watchdog
  BY <1>6 DEF PassOn, PassOnFails, Watchdog, Wake, FailIfNotTerminal, WatchdogFails
<1>7. CASE UNCHANGED vars
  BY <1>7 DEF vars, turnVars
<1>. QED
  BY <1>1, <1>2, <1>3, <1>4, <1>5, <1>6, <1>7 DEF TurnsNext, TurnsNextOf

-----------------------------------------------------------------------------
(* The registry and the daemon's link.                                     *)

LEMMA RegistryKept == ASSUME IInv, [TurnsNext]_vars PROVE RegistryInv'
<1>1. RegistryInv /\ link \in Conns \cup {None}
  BY DEF IInv, TypeOK
<1>2. ASSUME NEW c \in Conns, NEW r \in Replicas, DialOther(c, r) PROVE RegistryInv'
  BY <1>1, <1>2, DialInv DEF DialOther
<1>3. ASSUME NEW r \in Replicas, SayHello(r) PROVE RegistryInv'
  BY <1>1, <1>3, DialInv DEF SayHello
<1>4. CASE SendEarly
  <2>1. link \in Conns /\ pc[link] = "none" /\ pc' = [pc EXCEPT ![link] = "gone"]
    BY <1>1, <1>4 DEF SendEarly, IInv, LinkIsFresh
  <2>. QED
    BY <1>1, <1>4, <2>1, AbandonInv DEF SendEarly
<1>. QED
  BY <1>1, <1>2, <1>3, <1>4, RegistryFrame, ServeInv, BreakInv, OutsideInv, CrashInv, StutterInv

\* A connection that has not been dialed stays so until the daemon says hello on it.
LEMMA PristineStays ==
  ASSUME IInv, [TurnsNext]_vars, NEW c \in Conns, pc[c] = "none", c \notin setting.others,
         ~\E r \in Replicas : SayHello(r), ~SendEarly
  PROVE  pc'[c] = "none"
<1>1. at[c] = None /\ pc \in [Conns -> Outside \cup Inserted \cup {"greeting", "relaying"} \cup Leaving]
  BY DEF IInv, RegistryInv, Undialed, RegistryTypeOK
<1>2. ASSUME NEW d \in Conns, Register(d) \/ Greet(d) PROVE pc'[c] = "none"
  BY <1>1, <1>2
  DEF Register, Lock, CheckPresence, SetPresence, Refuse, Swap, Supersede, Await, Start, Ready,
      Announce, Greet, Goto
<1>3. ASSUME NEW d \in Conns, Unregister(d) \/ Listen(d) \/ Break(d) PROVE pc'[c] = "none"
  BY <1>1, <1>3
  DEF Unregister, Hangup, Remove, Drain, ClearPresence, Listen, Subscribe, Exit,
      LoseSubscription, BeEvicted, Break, Goto
<1>4. ASSUME NEW d \in Conns, NEW r \in Replicas, DialOther(d, r) PROVE pc'[c] = "none"
  BY <1>1, <1>4 DEF DialOther, Dial, Goto
<1>5. ASSUME NEW r \in Replicas, Crash(r) PROVE pc'[c] = "none"
  BY <1>1, <1>5, NoneAssumption DEF Crash
<1>6. CASE EvictAll \/ Lapse(Silent)
  BY <1>6 DEF EvictAll, Lapse
<1>7. CASE UNCHANGED registryVars
  BY <1>7 DEF registryVars
<1>. QED
  BY <1>2, <1>3, <1>4, <1>5, <1>6, <1>7, RegistryFrame

LEMMA LinkFrame ==
  ASSUME [TurnsNext]_vars
  PROVE  \/ UNCHANGED <<link, hello>>
         \/ \E c \in Conns : Connect(c)
         \/ \E r \in Replicas : SayHello(r)
         \/ LoseLink \/ Cut \/ ReceiveAck \/ SendEarly \/ DaemonDies
<1> USE DEF linkVars
<1>1. CASE \E c \in Conns : Serve(c) \/ Hear(c) \/ Notice(c)
  BY <1>1 DEF Serve, Hear, Notice, Acknowledge, Relay, RelayFails, turnVars
<1>2. CASE \E r \in Replicas : ReplicaDies(r) \/ \E c \in Conns : DialOther(c, r)
  BY <1>2 DEF ReplicaDies, DialOther, turnVars
<1>3. CASE (EvictAll \/ Lapse(Silent)) /\ UNCHANGED turnVars
  BY <1>3 DEF turnVars
<1>4. CASE SendUp
  BY <1>4 DEF SendUp
<1>5. ASSUME NEW v \in Convs, TurnsNextOf(v) \/ Dispatch(v) PROVE UNCHANGED <<link, hello>>
  BY <1>5
  DEF TurnsNextOf, Send, Control, Interrupt, Busy, Unresolved, Begin, Receive, Dispatch, Look, Mark,
      Record, Ask, FailOffline, Publish, LookFails, DispatchFails
<1>6. CASE (\E m \in controls : PassOn(m) \/ PassOnFails(m)) \/ Watchdog
  BY <1>6 DEF PassOn, PassOnFails, Watchdog, Wake, FailIfNotTerminal, WatchdogFails
<1>7. ASSUME NEW k \in Keys,
             Turn(k) \/ GraceOver(k) \/ Kill(k) \/ KillLate(k) \/ ProviderDies(k) \/ Sweep(k)
      PROVE  UNCHANGED <<link, hello>>
  BY <1>7
  DEF Turn, Ensure, Err, Answer, Unwind, Finish, GraceOver, Kill, KillLate, ProviderDies, Sweep,
      Forget, End, InTurn
<1>8. CASE UNCHANGED vars
  BY <1>8 DEF vars, turnVars
<1>. QED
  BY <1>1, <1>2, <1>3, <1>4, <1>5, <1>6, <1>7, <1>8 DEF TurnsNext

LinkTypeOK ==
  /\ link \in Conns \cup {None} /\ hello \in {"unsent", "sent", "acked"}
  /\ link = None => hello = "unsent"

LEMMA LinkKept == ASSUME IInv, [TurnsNext]_vars PROVE LinkTypeOK' /\ LinkIsFresh'
<1> USE DEF LinkTypeOK, LinkIsFresh
<1>1. LinkTypeOK /\ LinkIsFresh
  BY DEF IInv, TypeOK
<1>2. ASSUME NEW c \in Conns, Connect(c) PROVE LinkTypeOK' /\ LinkIsFresh'
  BY <1>1, <1>2 DEF Connect, Still, registryVars
<1>3. ASSUME NEW r \in Replicas, SayHello(r) PROVE LinkTypeOK' /\ LinkIsFresh'
  BY <1>1, <1>3 DEF SayHello
<1>4. CASE LoseLink \/ Cut \/ DaemonDies
  BY <1>4 DEF LoseLink, Cut, DaemonDies, Unlink
<1>5. CASE ReceiveAck
  BY <1>1, <1>5 DEF ReceiveAck, Unlink
<1>6. CASE SendEarly
  BY <1>1, <1>6 DEF SendEarly
<1>7. CASE UNCHANGED <<link, hello>> /\ ~(\E r \in Replicas : SayHello(r)) /\ ~SendEarly
  BY <1>1, <1>7, PristineStays, SettingStands
<1>. QED
  BY <1>2, <1>3, <1>4, <1>5, <1>6, <1>7, LinkFrame

-----------------------------------------------------------------------------
(* Dispatches and watchdogs.                                               *)

DispatchTypeOK ==
  /\ job \in [Convs -> {"none", "marking", "recording", "asking", "publishing", "failing"}]
  /\ counter \in Nat /\ latest \in [Convs -> 0..counter]
  /\ watchdogs \subseteq
       [conv : Convs, gen : 1..counter, pc : {"sleeping", "failing"}, seen : 0..counter]

DispatchInv ==
  DispatchTypeOK /\ DispatchIsNewest /\ LatestIsNewest /\ CheckedWasNewest

\* A generation is given to the dispatch that asks for it, and is above all others.
LEMMA RecordKept == ASSUME DispatchInv, NEW v \in Convs, Record(v) PROVE DispatchInv'
<1> USE DEF DispatchInv, DispatchTypeOK, Record, At
<1>1. counter' \in Nat /\ counter' = counter + 1 /\ 0..counter \subseteq 0..counter'
      /\ 1..counter \subseteq 1..counter'
  OBVIOUS
<1>2. DispatchTypeOK'
  BY <1>1
<1>3. DispatchIsNewest'
  BY <1>1 DEF DispatchIsNewest
<1>4. LatestIsNewest' /\ CheckedWasNewest'
  BY <1>1 DEF LatestIsNewest, CheckedWasNewest
<1>. QED
  BY <1>2, <1>3, <1>4

\* The steps of a dispatch before it asks for a generation, and the ones that give up.
LEMMA OtherDispatchKept ==
  ASSUME DispatchInv, NEW v \in Convs,
         Look(v) \/ Mark(v) \/ Ask(v) \/ FailOffline(v) \/ LookFails(v) \/ DispatchFails(v)
  PROVE  DispatchInv'
<1> USE DEF DispatchInv, DispatchTypeOK, Look, Mark, Ask, FailOffline, LookFails, DispatchFails, At, Allow,
            Spend, dispatchVars
<1>1. UNCHANGED <<counter, watchdogs>>
  OBVIOUS
<1>2. DispatchTypeOK'
  BY <1>1
<1>3. DispatchIsNewest'
  BY <1>1 DEF DispatchIsNewest
<1>4. LatestIsNewest' /\ CheckedWasNewest'
  BY <1>1 DEF LatestIsNewest, CheckedWasNewest
<1>. QED
  BY <1>2, <1>3, <1>4

\* The watchdog that is armed is the newest of its conversation.
LEMMA PublishKept == ASSUME DispatchInv, NEW v \in Convs, Publish(v) PROVE DispatchInv'
<1> USE DEF DispatchInv, DispatchTypeOK, Publish, At
<1>1. latest[v] \in 1..counter
  BY DEF DispatchIsNewest
<1>2. DispatchTypeOK'
  BY <1>1
<1>3. DispatchIsNewest'
  BY <1>1 DEF DispatchIsNewest
<1>4. LatestIsNewest'
  BY <1>1 DEF LatestIsNewest
<1>5. CheckedWasNewest'
  BY <1>1 DEF CheckedWasNewest, DispatchIsNewest
<1>. QED
  BY <1>2, <1>3, <1>4, <1>5

LEMMA WatchdogKept == ASSUME DispatchInv, Watchdog PROVE DispatchInv'
<1> USE DEF DispatchInv, DispatchTypeOK
<1>1. ASSUME NEW d \in watchdogs, Wake(d), latest[d.conv] = d.gen PROVE DispatchInv'
  <2>1. /\ d.conv \in Convs /\ d.gen \in 1..counter
        /\ watchdogs' = (watchdogs \ {d}) \cup {[d EXCEPT !.pc = "failing", !.seen = counter]}
        /\ latest' = [latest EXCEPT ![d.conv] = 0]
        /\ job' = job /\ counter' = counter
    BY <1>1 DEF Wake, Checked
  <2>2. [d EXCEPT !.pc = "failing", !.seen = counter] \in
          [conv : Convs, gen : 1..counter, pc : {"sleeping", "failing"}, seen : 0..counter]
    <3>1. d \in [conv : Convs, gen : 1..counter, pc : {"sleeping", "failing"}, seen : 0..counter]
      BY <1>1
    <3>2. counter \in 0..counter
      OBVIOUS
    <3>. QED
      BY <3>1, <3>2
  <2>3. job[d.conv] \notin {"asking", "publishing"}
    BY <1>1, <2>1 DEF DispatchIsNewest
  <2>4. \A e \in watchdogs : e.conv = d.conv => e.gen <= d.gen
    BY <1>1, <2>1 DEF LatestIsNewest
  <2>5. DispatchTypeOK'
    <3>1. watchdogs' \subseteq
            [conv : Convs, gen : 1..counter, pc : {"sleeping", "failing"}, seen : 0..counter]
      BY <2>1, <2>2
    <3>2. latest' \in [Convs -> 0..counter]
      BY <2>1
    <3>. QED
      BY <2>1, <3>1, <3>2
  <2>6. DispatchIsNewest'
    BY <2>1, <2>2, <2>3 DEF DispatchIsNewest
  <2>7. LatestIsNewest'
    BY <2>1, <2>2 DEF LatestIsNewest
  <2>8. CheckedWasNewest'
    <3> DEFINE f == [d EXCEPT !.pc = "failing", !.seen = counter]
    <3>1. f.conv = d.conv /\ f.gen = d.gen /\ watchdogs' = (watchdogs \ {d}) \cup {f}
      BY <1>1, <2>1
    <3>2. \A e \in watchdogs' : e.conv = d.conv => e.gen <= d.gen
      BY <2>1, <2>4, <3>1
    <3>3. \A c, e \in watchdogs : c.pc = "failing" /\ e.conv = c.conv => e.gen <= c.gen \/ c.seen < e.gen
      BY DEF CheckedWasNewest
    <3>4. ASSUME NEW c \in watchdogs', NEW e \in watchdogs', c.pc = "failing", e.conv = c.conv
          PROVE  e.gen <= c.gen \/ c.seen < e.gen
      <4>1. CASE c = f
        BY <3>1, <3>2, <3>4, <4>1
      <4>2. CASE c \in watchdogs /\ e = f
        BY <1>1, <3>1, <3>3, <3>4, <4>2
      <4>3. CASE c \in watchdogs /\ e \in watchdogs
        BY <3>3, <3>4, <4>3
      <4>. QED
        BY <3>1, <3>4, <4>1, <4>2, <4>3
    <3>. QED
      BY <3>4 DEF CheckedWasNewest
  <2>. QED
    BY <2>5, <2>6, <2>7, <2>8
<1>2. ASSUME NEW d \in watchdogs, \/ Wake(d) /\ latest[d.conv] # d.gen
                                 \/ FailIfNotTerminal(d) \/ WatchdogFails(d)
      PROVE  DispatchInv'
  BY <1>2
  DEF Wake, FailIfNotTerminal, WatchdogFails, DispatchIsNewest, LatestIsNewest, CheckedWasNewest
<1>. QED
  BY <1>1, <1>2 DEF Watchdog

LEMMA DispatchKept == ASSUME IInv, [TurnsNext]_vars PROVE DispatchInv'
<1>1. DispatchInv
  BY DEF IInv, TypeOK, DispatchInv, DispatchTypeOK
<1>2. ASSUME NEW v \in Convs, Dispatch(v) PROVE DispatchInv'
  BY <1>1, <1>2, RecordKept, OtherDispatchKept, PublishKept DEF Dispatch
<1>3. CASE UNCHANGED dispatchVars
  BY <1>1, <1>3
  DEF dispatchVars, DispatchInv, DispatchTypeOK, DispatchIsNewest, LatestIsNewest, CheckedWasNewest
<1>4. ASSUME NEW r \in Replicas, ReplicaDies(r), ~UNCHANGED dispatchVars PROVE DispatchInv'
  BY <1>1, <1>4
  DEF ReplicaDies, DispatchInv, DispatchTypeOK, DispatchIsNewest, LatestIsNewest, CheckedWasNewest
<1>. QED
  BY <1>1, <1>2, <1>3, <1>4, DispatchFrame, WatchdogKept

-----------------------------------------------------------------------------
(* Sessions.                                                               *)

SessionInv ==
  /\ known \subseteq Keys /\ indexed \subseteq Convs
  /\ session \in [Keys -> Session]
  /\ \A k \in Keys :
       LET s == session[k] IN
         /\ s.pc = "idle" => ~(s.finish \/ s.asked) /\ s.conv = None
         /\ s.pc # "idle" => s.conv \in Convs /\ key(s.conv) = k
  /\ RunsLinked

LEMMA KeyType == ASSUME IInv PROVE \A v \in Convs : key(v) \in Keys
BY KeysAssumption DEF IInv, key

LEMMA StartKept ==
  ASSUME IInv, SessionInv, setting' = setting, NEW v \in Convs,
         Busy(v) \/ Unresolved(v) \/ Begin(v)
  PROVE  SessionInv'
<1> USE KeyType DEF SessionInv, Receive
<1>1. CASE Busy(v)
  BY <1>1 DEF Busy, RunsLinked, key
<1>2. CASE Unresolved(v)
  BY <1>2 DEF Unresolved, RunsLinked, key
<1>3. CASE Begin(v)
  <2>1. session' \in [Keys -> Session]
    BY <1>3 DEF Begin, Session
  <2>2. /\ session'[key(v)].conv = v /\ session'[key(v)].pc = "ensuring"
        /\ \A k \in Keys : k # key(v) => session'[k] = session[k]
    BY <1>3 DEF Begin, Session
  <2>3. session[key(v)].pc = "idle" /\ known' = known \cup {key(v)} /\ indexed' = indexed \cup {v}
    BY <1>3 DEF Begin
  <2>4. ASSUME NEW k \in Keys
        PROVE  LET s == session'[k] IN
                 /\ s.pc = "idle" => ~(s.finish \/ s.asked) /\ s.conv = None
                 /\ s.pc # "idle" => /\ s.conv \in Convs /\ key(s.conv) = k
                                     /\ k \in known' /\ s.conv \in indexed'
    <3>1. CASE k = key(v)
      BY <2>2, <2>3, <3>1
    <3>2. CASE k # key(v)
      BY <2>2, <2>3, <3>2 DEF RunsLinked
    <3>. QED
      BY <3>1, <3>2
  <2>. QED
    BY <2>1, <2>3, <2>4 DEF RunsLinked, key
<1>. QED
  BY <1>1, <1>2, <1>3

LEMMA InterruptKept ==
  ASSUME IInv, SessionInv, setting' = setting, NEW v \in Convs, NEW kind \in {"stop", "pause"},
         Interrupt(v, kind)
  PROVE  SessionInv'
<1> USE KeyType DEF SessionInv
<1>1. CASE session' = session
  BY <1>1 DEF Interrupt, RunsLinked, key
<1>2. CASE session' # session
  <2>1. /\ session[key(v)].pc # "idle"
        /\ session' \in [Keys -> Session]
        /\ \A k \in Keys : session'[k].pc = session[k].pc /\ session'[k].conv = session[k].conv
        /\ \A k \in Keys : k # key(v) => session'[k] = session[k]
        /\ UNCHANGED <<known, indexed>>
    <3>1. /\ session[key(v)].pc # "idle" /\ UNCHANGED <<known, indexed>>
          /\ session[key(v)] \in Session
      BY <1>2 DEF Interrupt
    <3>2. CASE session' = [session EXCEPT ![key(v)].finish = (kind = "pause"), ![key(v)].cancelled = TRUE]
      <4>1. [session[key(v)] EXCEPT !.finish = (kind = "pause"), !.cancelled = TRUE] \in Session
        BY <3>1 DEF Session
      <4>2. session' = [session EXCEPT ![key(v)] =
                          [session[key(v)] EXCEPT !.finish = (kind = "pause"), !.cancelled = TRUE]]
        BY <3>1, <3>2
      <4>. QED
        BY <3>1, <4>1, <4>2 DEF Session
    <3>3. CASE session' = [session EXCEPT ![key(v)].finish = (kind = "pause"), ![key(v)].asked = TRUE,
                                   ![key(v)].timer = IF @ = "off" THEN "waiting" ELSE @]
      <4>1. [session[key(v)] EXCEPT !.finish = (kind = "pause"), !.asked = TRUE,
                                    !.timer = IF @ = "off" THEN "waiting" ELSE @] \in Session
        BY <3>1 DEF Session
      <4>2. session' = [session EXCEPT ![key(v)] =
                          [session[key(v)] EXCEPT !.finish = (kind = "pause"), !.asked = TRUE,
                                    !.timer = IF @ = "off" THEN "waiting" ELSE @]]
        BY <3>1, <3>3
      <4>. QED
        BY <3>1, <4>1, <4>2 DEF Session
    <3>. QED
      BY <1>2, <3>2, <3>3 DEF Interrupt
  <2>. QED
    BY <2>1 DEF RunsLinked, key
<1>. QED
  BY <1>1, <1>2

LEMMA KilledSession ==
  ASSUME NEW s \in Session
  PROVE  /\ [s EXCEPT !.timer = "off", !.client = "none", !.cancelled = TRUE] \in Session
         /\ [s EXCEPT !.late = FALSE, !.client = "none"] \in Session
BY DEF Session

\* What a session does keeps its conversation, or ends the turn.
LEMMA TurnKept ==
  ASSUME IInv, SessionInv, setting' = setting, NEW k \in Keys,
         Turn(k) \/ GraceOver(k) \/ Kill(k) \/ KillLate(k) \/ ProviderDies(k)
  PROVE  SessionInv'
<1> USE DEF SessionInv
<1>1. UNCHANGED <<known, indexed>>
  BY DEF Turn, Ensure, Err, Answer, Unwind, Finish, GraceOver, Kill, KillLate, ProviderDies, End,
         InTurn
<1>2. CASE Finish(k)
  <2>1. /\ session' \in [Keys -> Session]
        /\ session'[k].pc = "idle" /\ session'[k].conv = None
        /\ ~session'[k].finish /\ ~session'[k].asked
        /\ \A j \in Keys : j # k => session'[j] = session[j]
    BY <1>2 DEF Finish, Session, Idle
  <2>. QED
    BY <1>1, <2>1 DEF RunsLinked, key
<1>3. CASE Ensure(k) \/ Err(k) \/ Answer(k) \/ Unwind(k)
  <2>1. /\ session' \in [Keys -> Session]
        /\ session[k].pc # "idle" /\ session'[k].pc # "idle" /\ session'[k].conv = session[k].conv
        /\ \A j \in Keys : j # k => session'[j] = session[j]
    BY <1>3 DEF Ensure, Err, Answer, Unwind, End, InSession, Session
  <2>. QED
    BY <1>1, <2>1 DEF RunsLinked, key
<1>4. CASE GraceOver(k) \/ Kill(k) \/ KillLate(k) \/ ProviderDies(k)
  <2>1. /\ session' \in [Keys -> Session]
        /\ session'[k].pc = session[k].pc /\ session'[k].conv = session[k].conv
        /\ session'[k].finish = session[k].finish /\ session'[k].asked = session[k].asked
        /\ \A j \in Keys : j # k => session'[j] = session[j]
    <3>1. CASE GraceOver(k)
      BY <3>1 DEF GraceOver, Session
    <3>2. CASE Kill(k)
      <4>1. session' = [session EXCEPT ![k] =
                          [session[k] EXCEPT !.timer = "off", !.client = "none", !.cancelled = TRUE]]
        BY <3>2 DEF Kill
      <4>2. [session[k] EXCEPT !.timer = "off", !.client = "none", !.cancelled = TRUE] \in Session
        BY KilledSession
      <4>. QED
        BY <4>1, <4>2 DEF Session
    <3>3. CASE KillLate(k)
      <4>1. session' = [session EXCEPT ![k] = [session[k] EXCEPT !.late = FALSE, !.client = "none"]]
        BY <3>3 DEF KillLate
      <4>2. [session[k] EXCEPT !.late = FALSE, !.client = "none"] \in Session
        BY KilledSession
      <4>. QED
        BY <4>1, <4>2 DEF Session
    <3>4. CASE ProviderDies(k)
      BY <3>4 DEF ProviderDies, Session
    <3>. QED
      BY <1>4, <3>1, <3>2, <3>3, <3>4
  <2>. QED
    BY <1>1, <2>1 DEF RunsLinked, key
<1>. QED
  BY <1>2, <1>3, <1>4 DEF Turn

\* The idle sweep forgets the conversations of an idle session only.
LEMMA SweepKept ==
  ASSUME IInv, SessionInv, setting' = setting, NEW k \in Keys, Sweep(k) PROVE SessionInv'
<1> USE DEF SessionInv
<1>1. /\ session' \in [Keys -> Session] /\ session'[k] = Idle
      /\ \A j \in Keys : j # k => session'[j] = session[j]
      /\ known' = known \ {k} /\ indexed' = {v \in indexed : key(v) # k}
  BY DEF Sweep, Forget, Session, Idle
<1>. QED
  BY <1>1 DEF RunsLinked, key, Idle

LEMMA SessionKept == ASSUME IInv, [TurnsNext]_vars PROVE SessionInv'
<1>1. SessionInv /\ setting' = setting
  BY SettingStands DEF IInv, TypeOK, SessionInv
<1>2. CASE UNCHANGED <<known, indexed, session>>
  BY <1>1, <1>2 DEF SessionInv, RunsLinked, key
<1>3. CASE DaemonDies
  BY <1>1, <1>3 DEF DaemonDies, SessionInv, RunsLinked, Session, Idle, key
<1>. QED
  BY <1>1, <1>2, <1>3, SessionFrame, StartKept, InterruptKept, TurnKept, SweepKept

-----------------------------------------------------------------------------
(* Rows, the stream and the reports on their way.                          *)

RowTypeOK ==
  /\ row \in [Convs -> Status] /\ triggers \in [Convs -> Nat]
  /\ controls \subseteq [kind : {"stop", "pause"}, conv : Convs]
ReportTypeOK ==
  back \in [Conns -> Seq(Report)] /\ outbox \in Seq(Report)

\* What is left of a queue of reports, and its first one.
LEMMA QueueType ==
  ASSUME NEW q \in Seq(Report), q # <<>>
  PROVE  Head(q) \in Report /\ Tail(q) \in Seq(Report)
OBVIOUS

LEMMA MessageType ==
  ASSUME ReportTypeOK, NEW v \in Convs, NEW status \in {"finished", "failed"}
  PROVE  Message(v, status) \in Seq(Report)
BY DEF ReportTypeOK, Message, Report

\* What a session reports is about the conversation of its turn.
LEMMA EndReports ==
  ASSUME ReportTypeOK, NEW k \in Keys, NEW status \in {"finished", "failed", None},
         session[k].conv \in Convs, End(k, status)
  PROVE  outbox' \in Seq(Report)
<1>1. CASE status = None
  BY <1>1 DEF End, ReportTypeOK
<1>2. CASE status # None
  BY <1>2, MessageType DEF End
<1>. QED
  BY <1>1, <1>2

LEMMA OutboxKept == ASSUME IInv, [TurnsNext]_vars PROVE outbox' \in Seq(Report)
<1> USE DEF daemonVars
<1>1. ReportTypeOK /\ \A k \in Keys : session[k].pc # "idle" => session[k].conv \in Convs
  BY DEF IInv, TypeOK, ReportTypeOK
<1>2. ASSUME outbox' = outbox PROVE outbox' \in Seq(Report)
  BY <1>1, <1>2 DEF ReportTypeOK
<1>3. ASSUME NEW c \in Conns, Connect(c) \/ Serve(c) \/ Hear(c) \/ Notice(c) PROVE outbox' = outbox
  BY <1>3 DEF Connect, Serve, Hear, Notice, Acknowledge, Relay, RelayFails, turnVars
<1>4. ASSUME NEW r \in Replicas,
             SayHello(r) \/ ReplicaDies(r) \/ \E c \in Conns : DialOther(c, r)
      PROVE  outbox' = outbox
  BY <1>4 DEF SayHello, ReplicaDies, DialOther, turnVars
<1>5. CASE (EvictAll \/ Lapse(Silent)) /\ UNCHANGED turnVars
  BY <1>2, <1>5 DEF turnVars
<1>6. CASE LoseLink \/ Cut \/ ReceiveAck
  BY <1>2, <1>6 DEF LoseLink, Cut, ReceiveAck
<1>7. CASE SendUp \/ SendEarly \/ DaemonDies
  <2>1. CASE SendUp \/ SendEarly
    BY <1>1, <2>1, QueueType DEF SendUp, SendEarly, ReportTypeOK
  <2>2. CASE DaemonDies
    BY <2>2 DEF DaemonDies
  <2>. QED
    BY <1>7, <2>1, <2>2
<1>8. ASSUME NEW v \in Convs, TurnsNextOf(v) \/ Dispatch(v) PROVE outbox' \in Seq(Report)
  <2>1. CASE Busy(v) \/ Unresolved(v)
    BY <1>1, <2>1, MessageType DEF Busy, Unresolved
  <2>2. CASE Send(v) \/ Dispatch(v) \/ Begin(v)
             \/ \E kind \in {"stop", "pause"} : Control(v, kind) \/ Interrupt(v, kind)
    BY <1>2, <2>2
    DEF Send, Control, Interrupt, Begin, Dispatch, Look, Mark, Record, Ask, FailOffline, Publish,
        LookFails, DispatchFails
  <2>. QED
    BY <1>8, <2>1, <2>2 DEF TurnsNextOf
<1>9. CASE (\E m \in controls : PassOn(m) \/ PassOnFails(m)) \/ Watchdog
  BY <1>2, <1>9 DEF PassOn, PassOnFails, Watchdog, Wake, FailIfNotTerminal, WatchdogFails
<1>10. ASSUME NEW k \in Keys, Err(k) \/ Answer(k) \/ Unwind(k) PROVE outbox' \in Seq(Report)
  <2>1. session[k].conv \in Convs
    BY <1>1, <1>10 DEF Err, Answer, Unwind, InSession
  <2>2. PICK status \in {"finished", "failed", None} : End(k, status)
    BY <1>10 DEF Err, Answer, Unwind, IfRequested
  <2>. QED
    BY <1>1, <2>1, <2>2, EndReports
<1>11. ASSUME NEW k \in Keys, Ensure(k) \/ Finish(k) \/ GraceOver(k) \/ Kill(k) \/ KillLate(k)
                              \/ ProviderDies(k) \/ Sweep(k)
       PROVE  outbox' = outbox
  BY <1>11 DEF Ensure, Finish, GraceOver, Kill, KillLate, ProviderDies, Sweep, Forget
<1>12. CASE UNCHANGED vars
  BY <1>2, <1>12 DEF vars, turnVars
<1>. QED
  BY <1>2, <1>3, <1>4, <1>5, <1>6, <1>7, <1>8, <1>9, <1>10, <1>11, <1>12 DEF TurnsNext, Turn

LEMMA BackKept == ASSUME IInv, [TurnsNext]_vars PROVE back' \in [Conns -> Seq(Report)]
<1> USE DEF linkVars
<1>1. ReportTypeOK /\ link \in Conns \cup {None}
  BY DEF IInv, TypeOK, ReportTypeOK
<1>2. ASSUME back' = back PROVE back' \in [Conns -> Seq(Report)]
  BY <1>1, <1>2 DEF ReportTypeOK
<1>3. ASSUME NEW c \in Conns, Notice(c) \/ Relay(c) \/ RelayFails(c)
      PROVE  back' \in [Conns -> Seq(Report)]
  <2>1. PICK q \in Seq(Report) : back' = [back EXCEPT ![c] = q]
    <3>1. back[c] \in Seq(Report) /\ <<>> \in Seq(Report)
      BY <1>1 DEF ReportTypeOK
    <3>2. CASE Notice(c)
      BY <3>1, <3>2 DEF Notice
    <3>3. CASE Relay(c) \/ RelayFails(c)
      BY <3>1, <3>3, QueueType DEF Relay, RelayFails
    <3>. QED
      BY <1>3, <3>2, <3>3
  <2>. QED
    BY <1>1, <2>1 DEF ReportTypeOK
<1>4. CASE LoseLink \/ SendUp
  <2>1. link \in Conns
    BY <1>1, <1>4 DEF LoseLink, SendUp
  <2>2. PICK q \in Seq(Report) : back' = [back EXCEPT ![link] = q]
    <3>1. back[link] \in Seq(Report) /\ <<>> \in Seq(Report)
      BY <1>1, <2>1 DEF ReportTypeOK
    <3>2. CASE LoseLink
      BY <3>1, <3>2 DEF LoseLink
    <3>3. CASE SendUp
      <4>1. Head(outbox) \in Report
        BY <1>1, <3>3, QueueType DEF SendUp, ReportTypeOK
      <4>2. Append(back[link], Head(outbox)) \in Seq(Report)
        BY <3>1, <4>1
      <4>. QED
        BY <3>3, <4>2 DEF SendUp
    <3>. QED
      BY <1>4, <3>2, <3>3
  <2>. QED
    BY <1>1, <2>1, <2>2 DEF ReportTypeOK
<1>5. ASSUME NEW c \in Conns, Connect(c) \/ (Serve(c) /\ ~Relay(c) /\ ~RelayFails(c)) \/ Hear(c)
      PROVE  back' = back
  BY <1>5 DEF Connect, Serve, Hear, Acknowledge, turnVars
<1>6. ASSUME NEW r \in Replicas,
             SayHello(r) \/ ReplicaDies(r) \/ \E c \in Conns : DialOther(c, r)
      PROVE  back' = back
  BY <1>6 DEF SayHello, ReplicaDies, DialOther, turnVars
<1>7. CASE (EvictAll \/ Lapse(Silent)) /\ UNCHANGED turnVars
  BY <1>2, <1>7 DEF turnVars
<1>8. CASE Cut \/ ReceiveAck \/ SendEarly \/ DaemonDies
  BY <1>2, <1>8 DEF Cut, ReceiveAck, SendEarly, DaemonDies
<1>9. ASSUME NEW v \in Convs, TurnsNextOf(v) \/ Dispatch(v) PROVE back' = back
  BY <1>9
  DEF TurnsNextOf, Send, Control, Interrupt, Busy, Unresolved, Begin, Receive, Dispatch, Look, Mark,
      Record, Ask, FailOffline, Publish, LookFails, DispatchFails
<1>10. CASE (\E m \in controls : PassOn(m) \/ PassOnFails(m)) \/ Watchdog
  BY <1>2, <1>10 DEF PassOn, PassOnFails, Watchdog, Wake, FailIfNotTerminal, WatchdogFails
<1>11. ASSUME NEW k \in Keys,
             Turn(k) \/ GraceOver(k) \/ Kill(k) \/ KillLate(k) \/ ProviderDies(k) \/ Sweep(k)
       PROVE  back' = back
  BY <1>11
  DEF Turn, Ensure, Err, Answer, Unwind, Finish, GraceOver, Kill, KillLate, ProviderDies, Sweep,
      Forget, End, InTurn
<1>12. CASE UNCHANGED vars
  BY <1>2, <1>12 DEF vars, turnVars
<1>. QED
  BY <1>2, <1>3, <1>4, <1>5, <1>6, <1>7, <1>8, <1>9, <1>10, <1>11, <1>12 DEF TurnsNext, Serve

LEMMA RowKept == ASSUME IInv, [TurnsNext]_vars PROVE RowTypeOK'
<1> USE DEF apiVars
<1>1. RowTypeOK /\ ReportTypeOK
  BY DEF IInv, TypeOK, RowTypeOK, ReportTypeOK
<1>2. ASSUME UNCHANGED apiVars PROVE RowTypeOK'
  BY <1>1, <1>2 DEF RowTypeOK
<1>3. ASSUME NEW c \in Conns, Relay(c) PROVE RowTypeOK'
  <2>1. Head(back[c]) \in Report
    BY <1>1, <1>3 DEF Relay, ReportTypeOK
  <2>. QED
    BY <1>1, <1>3, <2>1 DEF Relay, RowTypeOK, Report, Status
<1>4. ASSUME NEW c \in Conns, Connect(c) \/ (Serve(c) /\ ~Relay(c)) \/ Hear(c) \/ Notice(c)
      PROVE  UNCHANGED apiVars
  BY <1>4 DEF Connect, Serve, Hear, Notice, Acknowledge, RelayFails, turnVars
<1>5. ASSUME NEW r \in Replicas,
             SayHello(r) \/ ReplicaDies(r) \/ \E c \in Conns : DialOther(c, r)
      PROVE  UNCHANGED apiVars
  BY <1>5 DEF SayHello, ReplicaDies, DialOther, turnVars
<1>6. CASE (EvictAll \/ Lapse(Silent)) /\ UNCHANGED turnVars
  BY <1>2, <1>6 DEF turnVars
<1>7. CASE LoseLink \/ Cut \/ ReceiveAck \/ SendUp \/ SendEarly \/ DaemonDies
  BY <1>2, <1>7 DEF LoseLink, Cut, ReceiveAck, SendUp, SendEarly, DaemonDies
<1>8. ASSUME NEW v \in Convs,
             Send(v) \/ (\E kind \in {"stop", "pause"} : Control(v, kind)) \/ Look(v) \/ Mark(v)
             \/ FailOffline(v) \/ LookFails(v)
      PROVE  RowTypeOK'
  BY <1>1, <1>8
  DEF Send, Control, Frame, Look, LookFails, Mark, FailOffline, RowTypeOK, Status
<1>9. ASSUME NEW v \in Convs,
             Busy(v) \/ Unresolved(v) \/ Begin(v) \/ (\E kind \in {"stop", "pause"} : Interrupt(v, kind))
             \/ Record(v) \/ Ask(v) \/ Publish(v) \/ DispatchFails(v)
      PROVE  UNCHANGED apiVars
  BY <1>9 DEF Busy, Unresolved, Begin, Interrupt, Receive, Record, Ask, Publish, DispatchFails
<1>10. CASE (\E m \in controls : PassOn(m) \/ PassOnFails(m)) \/ Watchdog
  BY <1>1, <1>10 DEF PassOn, PassOnFails, Watchdog, Wake, FailIfNotTerminal, WatchdogFails, RowTypeOK, Status
<1>11. ASSUME NEW k \in Keys,
             Turn(k) \/ GraceOver(k) \/ Kill(k) \/ KillLate(k) \/ ProviderDies(k) \/ Sweep(k)
       PROVE  UNCHANGED apiVars
  BY <1>11
  DEF Turn, Ensure, Err, Answer, Unwind, Finish, GraceOver, Kill, KillLate, ProviderDies, Sweep,
      Forget, End, InTurn
<1>12. CASE UNCHANGED vars
  BY <1>2, <1>12 DEF vars, turnVars
<1>. QED
  BY <1>2, <1>3, <1>4, <1>5, <1>6, <1>7, <1>8, <1>9, <1>10, <1>11, <1>12
  DEF TurnsNext, TurnsNextOf, Dispatch, Serve

-----------------------------------------------------------------------------
LEMMA TypeParts ==
  TypeOK <=> /\ RegistryTypeOK /\ RowTypeOK /\ ReportTypeOK /\ DispatchTypeOK /\ LinkTypeOK
             /\ known \subseteq Keys /\ indexed \subseteq Convs
             /\ session \in [Keys -> Session]
             /\ \A k \in Keys :
                  LET s == session[k] IN
                    /\ s.pc = "idle" => ~(s.finish \/ s.asked) /\ s.conv = None
                    /\ s.pc # "idle" => s.conv \in Convs /\ key(s.conv) = k
BY DEF TypeOK, RowTypeOK, ReportTypeOK, DispatchTypeOK, LinkTypeOK

LEMMA InitIInv == TurnsInit => IInv
<1> SUFFICES ASSUME TurnsInit PROVE IInv
  OBVIOUS
<1>1. setting \in Settings /\ setting.online \in Conns \cup {None}
  BY SettingsAssumption DEF TurnsInit, Init
<1>2. RegistryInv
  BY InitRegistryInv DEF TurnsInit
<1>3. RowTypeOK /\ ReportTypeOK
  BY DEF TurnsInit, RowTypeOK, ReportTypeOK, Status
<1>4. DispatchTypeOK /\ DispatchIsNewest /\ LatestIsNewest /\ CheckedWasNewest
  BY DEF TurnsInit, DispatchTypeOK, DispatchIsNewest, LatestIsNewest, CheckedWasNewest
<1>5. LinkTypeOK /\ LinkIsFresh
  BY <1>1 DEF TurnsInit, LinkTypeOK, LinkIsFresh
<1>6. SessionInv
  BY DEF TurnsInit, SessionInv, Session, Idle, RunsLinked
<1>. QED
  BY <1>1, <1>2, <1>3, <1>4, <1>5, <1>6, TypeParts DEF IInv, RegistryInv, SessionInv

LEMMA NextIInv == IInv /\ [TurnsNext]_vars => IInv'
<1> SUFFICES ASSUME IInv, [TurnsNext]_vars PROVE IInv'
  OBVIOUS
<1>1. ReportTypeOK'
  BY OutboxKept, BackKept DEF ReportTypeOK
<1>2. setting' \in Settings
  BY SettingStands DEF IInv
<1>3. TypeOK'
  BY <1>1, RowKept, RegistryKept, DispatchKept, LinkKept, SessionKept
  DEF TypeOK, RegistryInv, SessionInv, DispatchInv, RowTypeOK, ReportTypeOK, DispatchTypeOK,
      LinkTypeOK
<1>. QED
  BY <1>2, <1>3, RegistryKept, DispatchKept, LinkKept, SessionKept DEF IInv, SessionInv, DispatchInv

THEOREM TurnsInvariance == TurnsSpec => []IInv
<1> QED BY InitIInv, NextIInv, PTL DEF TurnsSpec

THEOREM TurnsTypeCorrect == TurnsSpec => []TypeOK
<1>1. IInv => TypeOK
  BY DEF IInv
<1> QED BY <1>1, TurnsInvariance, PTL

\* registry.go: no goroutine is left behind that listens for a session of the daemon, even
\* when its connections break, half-open ones included, or another daemon takes them over.
THEOREM NothingOrphanedByTurns == TurnsSpec => []NoOrphan
<1>1. IInv => NoOrphan
  BY DEF IInv, RegistryInv
<1> QED BY <1>1, TurnsInvariance, PTL

\* runner.go: evictIdle and a StartTurn that fails never take a running turn out of the
\* maps an Interrupt looks it up in.
THEOREM RunningTurnsFound == TurnsSpec => []RunsLinked
<1>1. IInv => RunsLinked
  BY DEF IInv
<1> QED BY <1>1, TurnsInvariance, PTL

\* dispatch.go, watchdog: it fails a conversation that has been dispatched again only if
\* it had passed its check before that dispatch took its generation.
THEOREM WatchdogsSpare == TurnsSpec => WatchdogSpares
<1>1. ASSUME IInv, [TurnsNext]_vars,
             NEW d \in watchdogs, d \notin watchdogs', row'[d.conv] # row[d.conv]
      PROVE  /\ job[d.conv] \in {"asking", "publishing"} => d.seen < latest[d.conv]
             /\ \A e \in watchdogs : e.conv = d.conv /\ e.gen > d.gen => d.seen < e.gen
  <2>1. d.conv \in Convs /\ \A e \in watchdogs : e.gen \in Nat
    BY <1>1 DEF IInv, TypeOK
  <2>2. d.pc = "failing"
    <3>1. CASE \E r \in Replicas : ReplicaDies(r)
      BY <1>1, <3>1 DEF ReplicaDies, apiVars
    <3>2. ASSUME NEW v \in Convs, Dispatch(v) PROVE watchdogs \subseteq watchdogs'
      BY <3>2
      DEF Dispatch, Look, Mark, Record, Ask, FailOffline, Publish, LookFails, DispatchFails,
          dispatchVars
    <3>3. ASSUME NEW e \in watchdogs, Wake(e) \/ WatchdogFails(e) PROVE row' = row
      BY <3>3 DEF Wake, WatchdogFails, apiVars
    <3>4. ASSUME NEW e \in watchdogs, FailIfNotTerminal(e) PROVE d.pc = "failing"
      BY <1>1, <3>4 DEF FailIfNotTerminal
    <3>. QED
      BY <1>1, <3>1, <3>2, <3>3, <3>4, DispatchFrame DEF dispatchVars, Watchdog
  <2>. QED
    BY <1>1, <2>1, <2>2 DEF IInv, DispatchIsNewest, CheckedWasNewest
<1>2. IInv /\ [TurnsNext]_vars => [\A d \in watchdogs :
       d \notin watchdogs' /\ row'[d.conv] # row[d.conv] =>
         /\ job[d.conv] \in {"asking", "publishing"} => d.seen < latest[d.conv]
         /\ \A e \in watchdogs : e.conv = d.conv /\ e.gen > d.gen => d.seen < e.gen]_vars
  BY <1>1
<1> QED BY <1>2, TurnsInvariance, PTL DEF TurnsSpec, WatchdogSpares

===============================================================================
