-------------------------- MODULE BridgeRegistryProofs --------------------------
(***************************************************************************)
(* Proofs about BridgeRegistry, for any number of connections and replicas *)
(* of agent-runner: types and NoOrphan, by the inductive invariant         *)
(* RegistryInv of that module.  The lemmas are about what can happen to    *)
(* the registry in one step, whatever the daemon does meanwhile, so that   *)
(* AcpTurnsProofs can use them.                                            *)
(***************************************************************************)
EXTENDS BridgeRegistry, TLAPS

LEMMA InitRegistryInv == Init => RegistryInv
<1> SUFFICES ASSUME Init PROVE RegistryInv
  OBVIOUS
<1> PICK r \in setting.replicas :
      LET up == {setting.online} \cap Conns IN
        /\ presence = (up # {})
        /\ entries = [q \in Replicas |-> IF q = r THEN setting.online ELSE None]
        /\ at = [c \in Conns |-> IF c \in up THEN r ELSE None]
        /\ open = [c \in Conns |-> c \in up]
        /\ pc = [c \in Conns |-> IF c \in up THEN "relaying" ELSE "none"]
        /\ listener = [c \in Conns |-> [g \in Tasks |-> IF c \in up THEN "subscribed" ELSE "none"]]
  BY DEF Init
<1>1. r \in Replicas /\ setting.online \in Conns \cup {None}
  BY SettingsAssumption DEF Init
<1>2. RegistryTypeOK
  BY <1>1 DEF Init, RegistryTypeOK, Outside, Inserted, Locking, Leaving
<1>3. EntriesStand /\ Placed /\ Undialed /\ FreshUntouched /\ InsertedStays /\ ReplacedIsOther
  BY <1>1, NoneAssumption
  DEF Init, EntriesStand, Placed, Undialed, FreshUntouched, InsertedStays, ReplacedIsOther, Outside,
      Inserted
<1>4. NoOrphan
  BY <1>1, NoneAssumption DEF Init, NoOrphan, Alive
<1>. QED
  BY <1>2, <1>3, <1>4 DEF RegistryInv

-----------------------------------------------------------------------------
(***************************************************************************)
(* One lemma for each action.                                              *)
(***************************************************************************)

LEMMA DialInv ==
  ASSUME RegistryInv, NEW c \in Conns, NEW r \in Replicas, Dial(c, r) PROVE RegistryInv'
<1> USE NoneAssumption DEF RegistryInv, Dial, Goto
<1>1. RegistryTypeOK'
  BY DEF RegistryTypeOK, Outside, Inserted, Locking, Leaving
<1>2. EntriesStand'
  BY DEF RegistryTypeOK, EntriesStand, Inserted
<1>3. Placed' /\ Undialed' /\ FreshUntouched' /\ InsertedStays'
  BY DEF RegistryTypeOK, Placed, Undialed, FreshUntouched, InsertedStays, Outside, Inserted
<1>4. ReplacedIsOther'
  BY DEF RegistryTypeOK, ReplacedIsOther, Outside
<1>5. NoOrphan'
  BY DEF RegistryTypeOK, NoOrphan, Alive, FreshUntouched, EntriesStand, Outside, Inserted
<1>. QED
  BY <1>1, <1>2, <1>3, <1>4, <1>5

LEMMA LockInv == ASSUME RegistryInv, NEW c \in Conns, Lock(c) PROVE RegistryInv'
<1> USE NoneAssumption DEF RegistryInv, Lock, Goto
<1>1. RegistryTypeOK'
  BY DEF RegistryTypeOK, Outside, Inserted, Locking, Leaving, Placed
<1>2. EntriesStand'
  BY DEF RegistryTypeOK, EntriesStand, Placed, InsertedStays, Outside, Inserted
<1>3. Placed' /\ Undialed' /\ FreshUntouched'
  BY DEF RegistryTypeOK, Placed, Undialed, FreshUntouched, EntriesStand, ReplacedIsOther, Outside, Inserted
<1>4. InsertedStays'
  BY DEF RegistryTypeOK, InsertedStays, EntriesStand, Placed, Outside, Inserted, Locking
<1>5. ReplacedIsOther'
  BY DEF RegistryTypeOK, ReplacedIsOther, EntriesStand, Placed, Outside, Inserted
<1>6. NoOrphan'
  BY DEF RegistryTypeOK, NoOrphan, Alive, FreshUntouched, EntriesStand, InsertedStays, Placed,
      ReplacedIsOther, Outside, Inserted
<1>. QED
  BY <1>1, <1>2, <1>3, <1>4, <1>5, <1>6

LEMMA CheckPresenceInv == ASSUME RegistryInv, NEW c \in Conns, CheckPresence(c) PROVE RegistryInv'
<1> USE NoneAssumption DEF RegistryInv, CheckPresence, Goto
<1>1. RegistryTypeOK'
  BY DEF RegistryTypeOK, Outside, Inserted, Locking, Leaving, Placed
<1>2. EntriesStand'
  BY DEF RegistryTypeOK, EntriesStand, Placed, InsertedStays, Outside, Inserted
<1>3. Placed' /\ Undialed' /\ FreshUntouched'
  BY DEF RegistryTypeOK, Placed, Undialed, FreshUntouched, EntriesStand, ReplacedIsOther, Outside, Inserted
<1>4. InsertedStays'
  BY DEF RegistryTypeOK, InsertedStays, EntriesStand, Placed, Outside, Inserted, Locking
<1>5. ReplacedIsOther'
  BY DEF RegistryTypeOK, ReplacedIsOther, EntriesStand, Placed, Outside, Inserted
<1>6. NoOrphan'
  BY DEF RegistryTypeOK, NoOrphan, Alive, FreshUntouched, EntriesStand, InsertedStays, Placed,
      ReplacedIsOther, Outside, Inserted
<1>. QED
  BY <1>1, <1>2, <1>3, <1>4, <1>5, <1>6

LEMMA SetPresenceInv == ASSUME RegistryInv, NEW c \in Conns, SetPresence(c) PROVE RegistryInv'
<1> USE NoneAssumption DEF RegistryInv, SetPresence, Goto
<1>1. RegistryTypeOK'
  BY DEF RegistryTypeOK, Outside, Inserted, Locking, Leaving, Placed
<1>2. EntriesStand'
  BY DEF RegistryTypeOK, EntriesStand, Placed, InsertedStays, Outside, Inserted
<1>3. Placed' /\ Undialed' /\ FreshUntouched'
  BY DEF RegistryTypeOK, Placed, Undialed, FreshUntouched, EntriesStand, ReplacedIsOther, Outside, Inserted
<1>4. InsertedStays'
  BY DEF RegistryTypeOK, InsertedStays, EntriesStand, Placed, Outside, Inserted, Locking
<1>5. ReplacedIsOther'
  BY DEF RegistryTypeOK, ReplacedIsOther, EntriesStand, Placed, Outside, Inserted
<1>6. NoOrphan'
  BY DEF RegistryTypeOK, NoOrphan, Alive, FreshUntouched, EntriesStand, InsertedStays, Placed,
      ReplacedIsOther, Outside, Inserted
<1>. QED
  BY <1>1, <1>2, <1>3, <1>4, <1>5, <1>6

LEMMA RefuseInv == ASSUME RegistryInv, NEW c \in Conns, Refuse(c) PROVE RegistryInv'
<1> USE NoneAssumption DEF RegistryInv, Refuse, Goto, Spend
<1>1. RegistryTypeOK'
  BY DEF RegistryTypeOK, Outside, Inserted, Locking, Leaving, Placed
<1>2. EntriesStand'
  BY DEF RegistryTypeOK, EntriesStand, Placed, InsertedStays, Outside, Inserted
<1>3. Placed' /\ Undialed' /\ FreshUntouched'
  BY DEF RegistryTypeOK, Placed, Undialed, FreshUntouched, EntriesStand, ReplacedIsOther, Outside, Inserted
<1>4. InsertedStays'
  BY DEF RegistryTypeOK, InsertedStays, EntriesStand, Placed, Outside, Inserted, Locking
<1>5. ReplacedIsOther'
  BY DEF RegistryTypeOK, ReplacedIsOther, EntriesStand, Placed, Outside, Inserted
<1>6. NoOrphan'
  BY DEF RegistryTypeOK, NoOrphan, Alive, FreshUntouched, EntriesStand, InsertedStays, Placed,
      ReplacedIsOther, Outside, Inserted
<1>. QED
  BY <1>1, <1>2, <1>3, <1>4, <1>5, <1>6

\* The connection that is replaced keeps its goroutines, and is the one to be superseded next.
LEMMA SwapInv == ASSUME RegistryInv, NEW c \in Conns, Swap(c) PROVE RegistryInv'
<1> USE NoneAssumption DEF RegistryInv, Swap, Goto
<1>1. RegistryTypeOK'
  BY DEF RegistryTypeOK, Outside, Inserted, Locking, Leaving, Placed
<1>2. EntriesStand'
  BY DEF RegistryTypeOK, EntriesStand, Placed, InsertedStays, Outside, Inserted
<1>3. Placed' /\ Undialed' /\ FreshUntouched'
  BY DEF RegistryTypeOK, Placed, Undialed, FreshUntouched, EntriesStand, ReplacedIsOther, Outside, Inserted
<1>4. InsertedStays'
  BY DEF RegistryTypeOK, InsertedStays, EntriesStand, Placed, Outside, Inserted, Locking
<1>5. ReplacedIsOther'
  <2> SUFFICES ASSUME NEW d \in Conns, pc'[d] \in {"superseding", "awaiting"}
               PROVE  prev'[d] \notin {d, None} /\ at'[prev'[d]] = at'[d] /\ pc'[prev'[d]] \notin Outside
    BY DEF ReplacedIsOther
  <2>1. at[c] \in Replicas /\ pc[c] = "swapping"
    BY DEF RegistryTypeOK, Placed
  <2>2. CASE d = c
    <3>1. entries[at[c]] \in Conns /\ prev'[c] = entries[at[c]]
      BY <2>1, <2>2 DEF RegistryTypeOK
    <3>2. at[entries[at[c]]] = at[c] /\ pc[entries[at[c]]] \notin Outside
      BY <2>1, <3>1 DEF EntriesStand, Outside, Inserted
    <3>. QED
      BY <2>1, <2>2, <3>1, <3>2 DEF RegistryTypeOK, Outside
  <2>3. CASE d # c
    BY <2>1, <2>3 DEF RegistryTypeOK, ReplacedIsOther, Outside
  <2>. QED
    BY <2>2, <2>3
<1>6. NoOrphan'
  BY DEF RegistryTypeOK, NoOrphan, Alive, FreshUntouched, EntriesStand, InsertedStays, Placed,
      ReplacedIsOther, Outside, Inserted
<1>. QED
  BY <1>1, <1>2, <1>3, <1>4, <1>5, <1>6

\* It is cancelled, and is not the one in the map.
LEMMA SupersedeInv == ASSUME RegistryInv, NEW c \in Conns, Supersede(c) PROVE RegistryInv'
<1> USE NoneAssumption DEF RegistryInv, Supersede, Goto
<1>1. RegistryTypeOK'
  <2>1. cancelled' \in [Conns -> BOOLEAN] /\ open' \in [Conns -> BOOLEAN]
    BY DEF RegistryTypeOK
  <2>2. pc' \in [Conns -> Outside \cup Inserted \cup {"greeting", "relaying"} \cup Leaving]
    BY DEF RegistryTypeOK, Inserted
  <2>3. \A d \in Conns : pc'[d] \in Locking => locks'[at'[d]] = d
    BY DEF RegistryTypeOK, Inserted, Locking
  <2>. QED
    BY <2>1, <2>2, <2>3 DEF RegistryTypeOK
<1>2. EntriesStand'
  BY DEF RegistryTypeOK, EntriesStand, Placed, InsertedStays, Outside, Inserted
<1>3. Placed' /\ Undialed' /\ FreshUntouched'
  BY DEF RegistryTypeOK, Placed, Undialed, FreshUntouched, EntriesStand, ReplacedIsOther, Outside, Inserted
<1>4. InsertedStays'
  BY DEF RegistryTypeOK, InsertedStays, EntriesStand, Placed, Outside, Inserted, Locking
<1>5. ReplacedIsOther'
  BY DEF RegistryTypeOK, ReplacedIsOther, EntriesStand, Placed, Outside, Inserted
<1>6. NoOrphan'
  BY DEF RegistryTypeOK, NoOrphan, Alive, FreshUntouched, EntriesStand, InsertedStays, Placed,
      ReplacedIsOther, Outside, Inserted
<1>. QED
  BY <1>1, <1>2, <1>3, <1>4, <1>5, <1>6

LEMMA AwaitInv == ASSUME RegistryInv, NEW c \in Conns, Await(c) PROVE RegistryInv'
<1> USE NoneAssumption DEF RegistryInv, Await, Goto
<1>1. RegistryTypeOK'
  BY DEF RegistryTypeOK, Outside, Inserted, Locking, Leaving, Placed
<1>2. EntriesStand'
  BY DEF RegistryTypeOK, EntriesStand, Placed, InsertedStays, Outside, Inserted
<1>3. Placed' /\ Undialed' /\ FreshUntouched'
  BY DEF RegistryTypeOK, Placed, Undialed, FreshUntouched, EntriesStand, ReplacedIsOther, Outside, Inserted
<1>4. InsertedStays'
  BY DEF RegistryTypeOK, InsertedStays, EntriesStand, Placed, Outside, Inserted, Locking
<1>5. ReplacedIsOther'
  BY DEF RegistryTypeOK, ReplacedIsOther, EntriesStand, Placed, Outside, Inserted
<1>6. NoOrphan'
  BY DEF RegistryTypeOK, NoOrphan, Alive, FreshUntouched, EntriesStand, InsertedStays, Placed,
      ReplacedIsOther, Outside, Inserted
<1>. QED
  BY <1>1, <1>2, <1>3, <1>4, <1>5, <1>6

LEMMA StartInv == ASSUME RegistryInv, NEW c \in Conns, Start(c) PROVE RegistryInv'
<1> USE NoneAssumption DEF RegistryInv, Start, Goto
<1>1. RegistryTypeOK'
  BY DEF RegistryTypeOK, Outside, Inserted, Locking, Leaving, Placed
<1>2. EntriesStand'
  BY DEF RegistryTypeOK, EntriesStand, Placed, InsertedStays, Outside, Inserted
<1>3. Placed' /\ Undialed' /\ FreshUntouched'
  BY DEF RegistryTypeOK, Placed, Undialed, FreshUntouched, EntriesStand, ReplacedIsOther, Outside, Inserted
<1>4. InsertedStays'
  BY DEF RegistryTypeOK, InsertedStays, EntriesStand, Placed, Outside, Inserted, Locking
<1>5. ReplacedIsOther'
  BY DEF RegistryTypeOK, ReplacedIsOther, EntriesStand, Placed, Outside, Inserted
<1>6. NoOrphan'
  BY DEF RegistryTypeOK, NoOrphan, Alive, FreshUntouched, EntriesStand, InsertedStays, Placed,
      ReplacedIsOther, Outside, Inserted
<1>. QED
  BY <1>1, <1>2, <1>3, <1>4, <1>5, <1>6

LEMMA ReadyInv == ASSUME RegistryInv, NEW c \in Conns, Ready(c) PROVE RegistryInv'
<1> USE NoneAssumption DEF RegistryInv, Ready, Goto, Spend
<1>1. RegistryTypeOK'
  BY DEF RegistryTypeOK, Outside, Inserted, Locking, Leaving, Placed
<1>2. EntriesStand'
  BY DEF RegistryTypeOK, EntriesStand, Placed, InsertedStays, Outside, Inserted
<1>3. Placed' /\ Undialed' /\ FreshUntouched'
  BY DEF RegistryTypeOK, Placed, Undialed, FreshUntouched, EntriesStand, ReplacedIsOther, Outside, Inserted
<1>4. InsertedStays'
  BY DEF RegistryTypeOK, InsertedStays, EntriesStand, Placed, Outside, Inserted, Locking
<1>5. ReplacedIsOther'
  BY DEF RegistryTypeOK, ReplacedIsOther, EntriesStand, Placed, Outside, Inserted
<1>6. NoOrphan'
  BY DEF RegistryTypeOK, NoOrphan, Alive, FreshUntouched, EntriesStand, InsertedStays, Placed,
      ReplacedIsOther, Outside, Inserted
<1>. QED
  BY <1>1, <1>2, <1>3, <1>4, <1>5, <1>6

LEMMA AnnounceInv == ASSUME RegistryInv, NEW c \in Conns, Announce(c) PROVE RegistryInv'
<1> USE NoneAssumption DEF RegistryInv, Announce, Goto
<1>1. RegistryTypeOK'
  <2>1. evicted' \in [Conns -> BOOLEAN]
    BY DEF RegistryTypeOK, Told
  <2>2. pc' \in [Conns -> Outside \cup Inserted \cup {"greeting", "relaying"} \cup Leaving]
    BY DEF RegistryTypeOK
  <2>3. locks' \in [Replicas -> Conns \cup {None}]
    BY DEF RegistryTypeOK
  <2>4. ASSUME NEW d \in Conns, pc'[d] \in Locking PROVE locks'[at'[d]] = d
    <3>1. pc[d] \in Locking /\ d # c /\ locks[at[d]] = d /\ locks[at[c]] = c
      BY <2>4 DEF RegistryTypeOK, Inserted, Locking
    <3>. QED
      BY <3>1 DEF RegistryTypeOK
  <2>. QED
    BY <2>1, <2>2, <2>3, <2>4 DEF RegistryTypeOK
<1>2. EntriesStand'
  BY DEF RegistryTypeOK, EntriesStand, Placed, InsertedStays, Outside, Inserted
<1>3. Placed' /\ Undialed' /\ FreshUntouched'
  BY DEF RegistryTypeOK, Placed, Undialed, FreshUntouched, EntriesStand, ReplacedIsOther, Outside, Inserted
<1>4. InsertedStays'
  BY DEF RegistryTypeOK, InsertedStays, EntriesStand, Placed, Outside, Inserted, Locking
<1>5. ReplacedIsOther'
  BY DEF RegistryTypeOK, ReplacedIsOther, EntriesStand, Placed, Outside, Inserted
<1>6. NoOrphan'
  BY DEF RegistryTypeOK, NoOrphan, Alive, FreshUntouched, EntriesStand, InsertedStays, Placed,
      ReplacedIsOther, Outside, Inserted
<1>. QED
  BY <1>1, <1>2, <1>3, <1>4, <1>5, <1>6

LEMMA GreetInv == ASSUME RegistryInv, NEW c \in Conns, Greet(c) PROVE RegistryInv'
<1> USE NoneAssumption DEF RegistryInv, Greet, Goto
<1>1. RegistryTypeOK'
  BY DEF RegistryTypeOK, Outside, Inserted, Locking, Leaving, Placed
<1>2. EntriesStand'
  BY DEF RegistryTypeOK, EntriesStand, Placed, InsertedStays, Outside, Inserted
<1>3. Placed' /\ Undialed' /\ FreshUntouched'
  BY DEF RegistryTypeOK, Placed, Undialed, FreshUntouched, EntriesStand, ReplacedIsOther, Outside, Inserted
<1>4. InsertedStays'
  BY DEF RegistryTypeOK, InsertedStays, EntriesStand, Placed, Outside, Inserted, Locking
<1>5. ReplacedIsOther'
  BY DEF RegistryTypeOK, ReplacedIsOther, EntriesStand, Placed, Outside, Inserted
<1>6. NoOrphan'
  BY DEF RegistryTypeOK, NoOrphan, Alive, FreshUntouched, EntriesStand, InsertedStays, Placed,
      ReplacedIsOther, Outside, Inserted
<1>. QED
  BY <1>1, <1>2, <1>3, <1>4, <1>5, <1>6

LEMMA HangupInv == ASSUME RegistryInv, NEW c \in Conns, Hangup(c) PROVE RegistryInv'
<1> USE NoneAssumption DEF RegistryInv, Hangup, Goto
<1>1. RegistryTypeOK'
  BY DEF RegistryTypeOK, Outside, Inserted, Locking, Leaving, Placed
<1>2. EntriesStand'
  BY DEF RegistryTypeOK, EntriesStand, Placed, InsertedStays, Outside, Inserted
<1>3. Placed' /\ Undialed' /\ FreshUntouched'
  BY DEF RegistryTypeOK, Placed, Undialed, FreshUntouched, EntriesStand, ReplacedIsOther, Outside, Inserted
<1>4. InsertedStays'
  BY DEF RegistryTypeOK, InsertedStays, EntriesStand, Placed, Outside, Inserted, Locking
<1>5. ReplacedIsOther'
  BY DEF RegistryTypeOK, ReplacedIsOther, EntriesStand, Placed, Outside, Inserted
<1>6. NoOrphan'
  BY DEF RegistryTypeOK, NoOrphan, Alive, FreshUntouched, EntriesStand, InsertedStays, Placed,
      ReplacedIsOther, Outside, Inserted
<1>. QED
  BY <1>1, <1>2, <1>3, <1>4, <1>5, <1>6

\* Only the connection in the map is cancelled by its own Unregister.
LEMMA RemoveInv == ASSUME RegistryInv, NEW c \in Conns, Remove(c) PROVE RegistryInv'
<1> USE NoneAssumption DEF RegistryInv, Remove, Goto
<1>1. RegistryTypeOK'
  <2>1. PICK p \in {"draining", "gone"} : pc[c] = "removing" /\ pc' = [pc EXCEPT ![c] = p]
    OBVIOUS
  <2>2. pc' \in [Conns -> Outside \cup Inserted \cup {"greeting", "relaying"} \cup Leaving]
    BY <2>1 DEF RegistryTypeOK, Leaving
  <2>3. \A d \in Conns : pc'[d] \in Locking => locks'[at'[d]] = d
    BY <2>1 DEF RegistryTypeOK, Inserted, Locking
  <2>4. /\ entries' \in [Replicas -> Conns \cup {None}]
        /\ cancelled' \in [Conns -> BOOLEAN]
    BY DEF RegistryTypeOK
  <2>. QED
    BY <2>2, <2>3, <2>4 DEF RegistryTypeOK
<1>2. EntriesStand'
  BY DEF RegistryTypeOK, EntriesStand, Placed, InsertedStays, Outside, Inserted
<1>3. Placed' /\ Undialed' /\ FreshUntouched'
  BY DEF RegistryTypeOK, Placed, Undialed, FreshUntouched, EntriesStand, ReplacedIsOther, Outside, Inserted
<1>4. InsertedStays'
  BY DEF RegistryTypeOK, InsertedStays, EntriesStand, Placed, Outside, Inserted, Locking
<1>5. ReplacedIsOther'
  BY DEF RegistryTypeOK, ReplacedIsOther, EntriesStand, Placed, Outside, Inserted
<1>6. NoOrphan'
  BY DEF RegistryTypeOK, NoOrphan, Alive, FreshUntouched, EntriesStand, InsertedStays, Placed,
      ReplacedIsOther, Outside, Inserted
<1>. QED
  BY <1>1, <1>2, <1>3, <1>4, <1>5, <1>6

LEMMA DrainInv == ASSUME RegistryInv, NEW c \in Conns, Drain(c) PROVE RegistryInv'
<1> USE NoneAssumption DEF RegistryInv, Drain, Goto
<1>1. RegistryTypeOK'
  BY DEF RegistryTypeOK, Outside, Inserted, Locking, Leaving, Placed
<1>2. EntriesStand'
  BY DEF RegistryTypeOK, EntriesStand, Placed, InsertedStays, Outside, Inserted
<1>3. Placed' /\ Undialed' /\ FreshUntouched'
  BY DEF RegistryTypeOK, Placed, Undialed, FreshUntouched, EntriesStand, ReplacedIsOther, Outside, Inserted
<1>4. InsertedStays'
  BY DEF RegistryTypeOK, InsertedStays, EntriesStand, Placed, Outside, Inserted, Locking
<1>5. ReplacedIsOther'
  BY DEF RegistryTypeOK, ReplacedIsOther, EntriesStand, Placed, Outside, Inserted
<1>6. NoOrphan'
  BY DEF RegistryTypeOK, NoOrphan, Alive, FreshUntouched, EntriesStand, InsertedStays, Placed,
      ReplacedIsOther, Outside, Inserted
<1>. QED
  BY <1>1, <1>2, <1>3, <1>4, <1>5, <1>6

LEMMA ClearPresenceInv == ASSUME RegistryInv, NEW c \in Conns, ClearPresence(c) PROVE RegistryInv'
<1> USE NoneAssumption DEF RegistryInv, ClearPresence, Goto
<1>1. RegistryTypeOK'
  BY DEF RegistryTypeOK, Outside, Inserted, Locking, Leaving, Placed
<1>2. EntriesStand'
  BY DEF RegistryTypeOK, EntriesStand, Placed, InsertedStays, Outside, Inserted
<1>3. Placed' /\ Undialed' /\ FreshUntouched'
  BY DEF RegistryTypeOK, Placed, Undialed, FreshUntouched, EntriesStand, ReplacedIsOther, Outside, Inserted
<1>4. InsertedStays'
  BY DEF RegistryTypeOK, InsertedStays, EntriesStand, Placed, Outside, Inserted, Locking
<1>5. ReplacedIsOther'
  BY DEF RegistryTypeOK, ReplacedIsOther, EntriesStand, Placed, Outside, Inserted
<1>6. NoOrphan'
  BY DEF RegistryTypeOK, NoOrphan, Alive, FreshUntouched, EntriesStand, InsertedStays, Placed,
      ReplacedIsOther, Outside, Inserted
<1>. QED
  BY <1>1, <1>2, <1>3, <1>4, <1>5, <1>6

LEMMA SubscribeInv == ASSUME RegistryInv, NEW c \in Conns, NEW g \in Tasks, Subscribe(c, g) PROVE RegistryInv'
<1> USE NoneAssumption DEF RegistryInv, Subscribe
<1>1. RegistryTypeOK'
  BY DEF RegistryTypeOK, Outside, Inserted, Locking, Leaving, Placed
<1>2. EntriesStand'
  BY DEF RegistryTypeOK, EntriesStand, Placed, InsertedStays, Outside, Inserted
<1>3. Placed' /\ Undialed' /\ FreshUntouched'
  BY DEF RegistryTypeOK, Placed, Undialed, FreshUntouched, EntriesStand, ReplacedIsOther, Outside, Inserted
<1>4. InsertedStays'
  BY DEF RegistryTypeOK, InsertedStays, EntriesStand, Placed, Outside, Inserted, Locking
<1>5. ReplacedIsOther'
  BY DEF RegistryTypeOK, ReplacedIsOther, EntriesStand, Placed, Outside, Inserted
<1>6. NoOrphan'
  BY DEF RegistryTypeOK, NoOrphan, Alive, FreshUntouched, EntriesStand, InsertedStays, Placed,
      ReplacedIsOther, Outside, Inserted
<1>. QED
  BY <1>1, <1>2, <1>3, <1>4, <1>5, <1>6

LEMMA ExitInv == ASSUME RegistryInv, NEW c \in Conns, NEW g \in Tasks, Exit(c, g) PROVE RegistryInv'
<1> USE NoneAssumption DEF RegistryInv, Exit
<1>1. RegistryTypeOK'
  BY DEF RegistryTypeOK, Outside, Inserted, Locking, Leaving, Placed
<1>2. EntriesStand'
  BY DEF RegistryTypeOK, EntriesStand, Placed, InsertedStays, Outside, Inserted
<1>3. Placed' /\ Undialed' /\ FreshUntouched'
  BY DEF RegistryTypeOK, Placed, Undialed, FreshUntouched, EntriesStand, ReplacedIsOther, Outside, Inserted
<1>4. InsertedStays'
  BY DEF RegistryTypeOK, InsertedStays, EntriesStand, Placed, Outside, Inserted, Locking
<1>5. ReplacedIsOther'
  BY DEF RegistryTypeOK, ReplacedIsOther, EntriesStand, Placed, Outside, Inserted
<1>6. NoOrphan'
  BY DEF RegistryTypeOK, NoOrphan, Alive, FreshUntouched, EntriesStand, InsertedStays, Placed,
      ReplacedIsOther, Outside, Inserted
<1>. QED
  BY <1>1, <1>2, <1>3, <1>4, <1>5, <1>6

LEMMA LoseSubscriptionInv == ASSUME RegistryInv, NEW c \in Conns, NEW g \in Tasks, LoseSubscription(c, g) PROVE RegistryInv'
<1> USE NoneAssumption DEF RegistryInv, LoseSubscription
<1>1. RegistryTypeOK'
  BY DEF RegistryTypeOK, Outside, Inserted, Locking, Leaving, Placed
<1>2. EntriesStand'
  BY DEF RegistryTypeOK, EntriesStand, Placed, InsertedStays, Outside, Inserted
<1>3. Placed' /\ Undialed' /\ FreshUntouched'
  BY DEF RegistryTypeOK, Placed, Undialed, FreshUntouched, EntriesStand, ReplacedIsOther, Outside, Inserted
<1>4. InsertedStays'
  BY DEF RegistryTypeOK, InsertedStays, EntriesStand, Placed, Outside, Inserted, Locking
<1>5. ReplacedIsOther'
  BY DEF RegistryTypeOK, ReplacedIsOther, EntriesStand, Placed, Outside, Inserted
<1>6. NoOrphan'
  BY DEF RegistryTypeOK, NoOrphan, Alive, FreshUntouched, EntriesStand, InsertedStays, Placed,
      ReplacedIsOther, Outside, Inserted
<1>. QED
  BY <1>1, <1>2, <1>3, <1>4, <1>5, <1>6

LEMMA BeEvictedInv == ASSUME RegistryInv, NEW c \in Conns, BeEvicted(c) PROVE RegistryInv'
<1> USE NoneAssumption DEF RegistryInv, BeEvicted, Tasks
<1>1. RegistryTypeOK'
  BY DEF RegistryTypeOK, Outside, Inserted, Locking, Leaving, Placed
<1>2. EntriesStand'
  BY DEF RegistryTypeOK, EntriesStand, Placed, InsertedStays, Outside, Inserted
<1>3. Placed' /\ Undialed' /\ FreshUntouched'
  BY DEF RegistryTypeOK, Placed, Undialed, FreshUntouched, EntriesStand, ReplacedIsOther, Outside, Inserted
<1>4. InsertedStays'
  BY DEF RegistryTypeOK, InsertedStays, EntriesStand, Placed, Outside, Inserted, Locking
<1>5. ReplacedIsOther'
  BY DEF RegistryTypeOK, ReplacedIsOther, EntriesStand, Placed, Outside, Inserted
<1>6. NoOrphan'
  BY DEF RegistryTypeOK, NoOrphan, Alive, FreshUntouched, EntriesStand, InsertedStays, Placed,
      ReplacedIsOther, Outside, Inserted
<1>. QED
  BY <1>1, <1>2, <1>3, <1>4, <1>5, <1>6

LEMMA BreakInv == ASSUME RegistryInv, NEW c \in Conns, Break(c) PROVE RegistryInv'
<1> USE NoneAssumption DEF RegistryInv, Break
<1>1. RegistryTypeOK'
  BY DEF RegistryTypeOK, Outside, Inserted, Locking, Leaving, Placed
<1>2. EntriesStand'
  BY DEF RegistryTypeOK, EntriesStand, Placed, InsertedStays, Outside, Inserted
<1>3. Placed' /\ Undialed' /\ FreshUntouched'
  BY DEF RegistryTypeOK, Placed, Undialed, FreshUntouched, EntriesStand, ReplacedIsOther, Outside, Inserted
<1>4. InsertedStays'
  BY DEF RegistryTypeOK, InsertedStays, EntriesStand, Placed, Outside, Inserted, Locking
<1>5. ReplacedIsOther'
  BY DEF RegistryTypeOK, ReplacedIsOther, EntriesStand, Placed, Outside, Inserted
<1>6. NoOrphan'
  BY DEF RegistryTypeOK, NoOrphan, Alive, FreshUntouched, EntriesStand, InsertedStays, Placed,
      ReplacedIsOther, Outside, Inserted
<1>. QED
  BY <1>1, <1>2, <1>3, <1>4, <1>5, <1>6

\* A token that is regenerated, or a key that lapses, touches no connection.
LEMMA OutsideInv ==
  ASSUME RegistryInv, EvictAll \/ \E S : Lapse(S) PROVE RegistryInv'
<1>1. /\ UNCHANGED <<entries, locks, at, open, pc, seen, prev, cancelled, listener>>
      /\ presence' \in BOOLEAN /\ evicted' \in [Conns -> BOOLEAN]
  BY DEF RegistryInv, RegistryTypeOK, EvictAll, Lapse, Told
<1>. QED
  BY <1>1
  DEF RegistryInv, RegistryTypeOK, EntriesStand, Placed, Undialed, FreshUntouched, InsertedStays,
      ReplacedIsOther, NoOrphan, Alive

LEMMA CrashInv == ASSUME RegistryInv, NEW r \in Replicas, Crash(r) PROVE RegistryInv'
<1> USE NoneAssumption DEF RegistryInv, Crash
<1>1. RegistryTypeOK'
  BY DEF RegistryTypeOK, Outside, Inserted, Locking, Leaving, Placed
<1>2. EntriesStand'
  BY DEF RegistryTypeOK, EntriesStand, Placed, InsertedStays, Outside, Inserted
<1>3. Placed' /\ Undialed' /\ FreshUntouched'
  BY DEF RegistryTypeOK, Placed, Undialed, FreshUntouched, EntriesStand, ReplacedIsOther, Outside, Inserted
<1>4. InsertedStays'
  BY DEF RegistryTypeOK, InsertedStays, EntriesStand, Placed, Outside, Inserted, Locking
<1>5. ReplacedIsOther'
  BY DEF RegistryTypeOK, ReplacedIsOther, EntriesStand, Placed, Outside, Inserted
<1>6. NoOrphan'
  BY DEF RegistryTypeOK, NoOrphan, Alive, FreshUntouched, EntriesStand, InsertedStays, Placed,
      ReplacedIsOther, Outside, Inserted
<1>. QED
  BY <1>1, <1>2, <1>3, <1>4, <1>5, <1>6

\* A connection that is given up before it has been dialed: nothing depends on it.
LEMMA AbandonInv ==
  ASSUME RegistryInv, NEW c \in Conns, pc[c] = "none", pc' = [pc EXCEPT ![c] = "gone"],
         UNCHANGED <<presence, entries, locks, at, open, seen, prev, cancelled, listener, evicted>>
  PROVE  RegistryInv'
<1> USE DEF RegistryInv
<1>1. RegistryTypeOK'
  BY DEF RegistryTypeOK, Outside, Inserted, Locking, Leaving
<1>2. EntriesStand' /\ Placed' /\ Undialed' /\ FreshUntouched'
  BY DEF RegistryTypeOK, EntriesStand, Placed, Undialed, FreshUntouched, Outside, Inserted
<1>3. InsertedStays' /\ ReplacedIsOther'
  BY DEF RegistryTypeOK, InsertedStays, ReplacedIsOther, Outside, Inserted
<1>4. NoOrphan'
  BY DEF RegistryTypeOK, NoOrphan, Alive
<1>. QED
  BY <1>1, <1>2, <1>3, <1>4

LEMMA StutterInv == ASSUME RegistryInv, UNCHANGED registryVars PROVE RegistryInv'
BY DEF RegistryInv, registryVars, RegistryTypeOK, EntriesStand, Placed, Undialed,
       FreshUntouched, InsertedStays, ReplacedIsOther, NoOrphan, Alive

-----------------------------------------------------------------------------
LEMMA ServeInv ==
  ASSUME RegistryInv, NEW c \in Conns, Register(c) \/ Greet(c) \/ Unregister(c) \/ Listen(c)
  PROVE  RegistryInv'
<1>1. CASE Register(c)
  BY <1>1, LockInv, CheckPresenceInv, SetPresenceInv, RefuseInv, SwapInv, SupersedeInv, AwaitInv,
     StartInv, ReadyInv, AnnounceInv
  DEF Register
<1>2. CASE Greet(c)
  BY <1>2, GreetInv
<1>3. CASE Unregister(c)
  BY <1>3, HangupInv, RemoveInv, DrainInv, ClearPresenceInv DEF Unregister
<1>4. CASE Listen(c)
  BY <1>4, SubscribeInv, ExitInv, LoseSubscriptionInv, BeEvictedInv DEF Listen
<1>. QED
  BY <1>1, <1>2, <1>3, <1>4

LEMMA NextRegistryInv ==
  ASSUME RegistryInv, [Next]_<<setting, left, registryVars>> PROVE RegistryInv'
<1>1. ASSUME NEW c \in Conns, NEW r \in Replicas, Dial(c, r) PROVE RegistryInv'
  BY <1>1, DialInv
<1>2. ASSUME NEW c \in Conns, Drop(c) PROVE RegistryInv'
  BY <1>2, BreakInv DEF Drop
<1>3. CASE EvictAll \/ Lapse(Closed)
  BY <1>3, OutsideInv
<1>4. ASSUME NEW r \in Replicas, Crash(r) PROVE RegistryInv'
  BY <1>4, CrashInv
<1>5. CASE UNCHANGED <<setting, left, registryVars>>
  BY <1>5, StutterInv
<1>. QED
  BY <1>1, <1>2, <1>3, <1>4, <1>5, ServeInv DEF Next

\* The map of a replica, the locks of Register and the positions of all handleWS
\* goroutines agree, whatever the interleaving.
THEOREM RegistryInvariance == Spec => []RegistryInv
<1> QED BY InitRegistryInv, NextRegistryInv, PTL DEF Spec

\* registry.go, Register and Unregister: reconnections, evictions, lost subscriptions and
\* crashes leave no goroutine behind that listens for a session nobody will cancel.
THEOREM NothingOrphaned == Spec => []NoOrphan
<1>1. RegistryInv => NoOrphan
  BY DEF RegistryInv
<1> QED BY <1>1, RegistryInvariance, PTL
=================================================================================
