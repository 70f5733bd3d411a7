------------------------- MODULE AutomationWalksProofs -------------------------
(***************************************************************************)
(* Proofs of ExecutedOnce, AllSiblingsFirst and NothingStranded of         *)
(* Automation, by the inductive invariant WalkInv.                         *)
(*                                                                         *)
(* First every action is summed up by what it does to the walks, the runs  *)
(* and the pauses, as one of a dozen effects; the rest of the proof speaks *)
(* of effects.  Then the four parts of WalkInv are shown to be kept:       *)
(* WalkBase by itself, CarryInv and OnceInv each with WalkBase, HeardInv   *)
(* with OnceInv.                                                           *)
(***************************************************************************)
EXTENDS AutomationProofs, WellFoundedInduction

USE DistinctAssumption

-----------------------------------------------------------------------------
(* What is left to walk.                                                   *)

LEMMA Least ==
  ASSUME NEW S, S \subseteq Nat, S # {} PROVE Min(S) \in S /\ \A i \in S : Min(S) <= i
<1> DEFINE R == OpToRel(<, Nat)
<1>1. \A x, y \in Nat : <<x, y>> \in R <=> x < y
  BY DEF OpToRel
<1>2. IsWellFoundedOn(R, Nat)
  BY NatLessThanWellFounded
<1> HIDE DEF R
<1>3. \E x \in S : \A y \in S : ~(<<y, x>> \in R)
  BY <1>2, WFMin
<1>4. PICK x \in S : \A y \in S : x <= y
  <2>1. PICK x \in S : \A y \in S : ~(<<y, x>> \in R)
    BY <1>3
  <2>2. ASSUME NEW y \in S PROVE x <= y
    <3>1. ~(y < x) /\ x \in Nat /\ y \in Nat
      BY <1>1, <2>1
    <3>. QED
      BY <3>1
  <2>. QED
    BY <2>2
<1>. QED
  BY <1>4 DEF Min

LEMMA Joined ==
  ASSUME NEW S, NEW s \in Seq(S), NEW out \in Seq(S)
  PROVE  out \o s \in Seq(S) /\ ToSet(out \o s) = ToSet(out) \cup ToSet(s)
<1>1. out \o s \in Seq(S) /\ Len(out \o s) = Len(out) + Len(s)
  OBVIOUS
<1>2. \A i \in DOMAIN out : i \in DOMAIN (out \o s) /\ (out \o s)[i] = out[i]
  OBVIOUS
<1>3. \A i \in DOMAIN s : Len(out) + i \in DOMAIN (out \o s) /\ (out \o s)[Len(out) + i] = s[i]
  OBVIOUS
<1>4. \A i \in DOMAIN (out \o s) : \/ i \in DOMAIN out
                                   \/ i - Len(out) \in DOMAIN s /\ (out \o s)[i] = s[i - Len(out)]
  OBVIOUS
<1>5. ASSUME NEW n \in ToSet(out \o s) PROVE n \in ToSet(out) \cup ToSet(s)
  <2>1. PICK i \in DOMAIN (out \o s) : n = (out \o s)[i]
    BY DEF ToSet
  <2>. QED
    BY <1>2, <1>4, <2>1 DEF ToSet
<1>6. ASSUME NEW n \in ToSet(out) \cup ToSet(s) PROVE n \in ToSet(out \o s)
  BY <1>2, <1>3 DEF ToSet
<1>. QED
  BY <1>1, <1>5, <1>6

LEMMA SequenceParts ==
  ASSUME NEW S, NEW s \in Seq(S)
  PROVE  /\ ToSet(<<>>) = {} /\ ToSet(s) \subseteq S
         /\ \A i \in DOMAIN s : LET rest == SubSeq(s, i, Len(s)) IN
              /\ rest # <<>> /\ Head(rest) = s[i] /\ Tail(rest) \in Seq(S)
              /\ ToSet(Tail(rest)) = {s[j] : j \in {j \in DOMAIN s : j > i}}
<1>1. ToSet(<<>>) = {} /\ ToSet(s) \subseteq S
  BY DEF ToSet
<1>2. ASSUME NEW i \in DOMAIN s
      PROVE  LET rest == SubSeq(s, i, Len(s)) IN
              /\ rest # <<>> /\ Head(rest) = s[i] /\ Tail(rest) \in Seq(S)
              /\ ToSet(Tail(rest)) = {s[j] : j \in {j \in DOMAIN s : j > i}}
  <2> DEFINE rest == SubSeq(s, i, Len(s))
  <2>1. /\ rest \in Seq(S) /\ Len(rest) = Len(s) - i + 1 /\ i \in 1..Len(s) /\ Len(s) \in Nat
        /\ \A j \in 1..Len(rest) : rest[j] = s[i + j - 1]
    OBVIOUS
  <2> HIDE DEF rest
  <2>2. rest # <<>> /\ Head(rest) = s[i] /\ Tail(rest) \in Seq(S)
        /\ Len(Tail(rest)) = Len(s) - i
        /\ \A j \in 1..(Len(s) - i) : Tail(rest)[j] = s[i + j]
    BY <2>1
  <2>3. DOMAIN Tail(rest) = 1..(Len(s) - i)
    BY <2>2
  <2>4. \A j \in DOMAIN s : j > i => j - i \in DOMAIN Tail(rest) /\ Tail(rest)[j - i] = s[j]
    BY <2>1, <2>2, <2>3
  <2>5. \A j \in DOMAIN Tail(rest) : i + j \in DOMAIN s /\ i + j > i /\ Tail(rest)[j] = s[i + j]
    BY <2>1, <2>2, <2>3
  <2>6. ToSet(Tail(rest)) = {s[j] : j \in {j \in DOMAIN s : j > i}}
    <3>1. ASSUME NEW j \in DOMAIN s, j > i PROVE s[j] \in ToSet(Tail(rest))
      BY <2>4, <3>1 DEF ToSet
    <3>2. ASSUME NEW j \in DOMAIN Tail(rest)
          PROVE  Tail(rest)[j] \in {s[k] : k \in {k \in DOMAIN s : k > i}}
      BY <2>5
    <3>. QED
      BY <3>1, <3>2 DEF ToSet
  <2>. QED
    BY <2>2, <2>6 DEF rest
<1>. QED
  BY <1>1, <1>2

LEMMA TodoIsAhead ==
  ASSUME NEW t, NEW S, job[t].todo \in Seq(S)
  PROVE  /\ Todo(t) = <<>> => Ahead(t) = {}
         /\ Todo(t) # <<>> =>
              /\ Head(Todo(t)) \in Ahead(t) /\ Tail(Todo(t)) \in Seq(S)
              /\ ToSet(Tail(Todo(t))) \subseteq ToSet(job[t].todo)
              /\ Ahead(t) \subseteq {Head(Todo(t))} \cup ToSet(Tail(Todo(t)))
<1> DEFINE s == job[t].todo
           fresh == {i \in DOMAIN s : s[i] \in job[t].graph \ job[t].visited}
<1>1. fresh \subseteq Nat /\ fresh \subseteq DOMAIN s /\ s \in Seq(S)
  OBVIOUS
<1>2. Ahead(t) = {s[i] : i \in fresh}
  BY DEF Ahead, ToSet
<1>3. Todo(t) = IF fresh = {} THEN <<>> ELSE SubSeq(s, Min(fresh), Len(s))
  BY DEF Todo
<1>4. CASE fresh = {}
  BY <1>2, <1>3, <1>4
<1>5. CASE fresh # {}
  <2> DEFINE i == Min(fresh)
  <2>0. i \in fresh /\ \A j \in fresh : i <= j
    BY <1>1, <1>5, Least
  <2>1. i \in DOMAIN s /\ Todo(t) = SubSeq(s, i, Len(s)) /\ s[i] \in Ahead(t)
    BY <1>1, <1>2, <1>3, <1>5, <2>0
  <2> HIDE DEF i, s, fresh
  <2>2. /\ Todo(t) # <<>> /\ Head(Todo(t)) = s[i] /\ Tail(Todo(t)) \in Seq(S)
        /\ ToSet(Tail(Todo(t))) = {s[j] : j \in {j \in DOMAIN s : j > i}}
    BY <1>1, <2>1, SequenceParts
  <2>3. ToSet(s) = {s[j] : j \in DOMAIN s}
    BY DEF ToSet
  <2>4. ASSUME NEW n \in Ahead(t) PROVE n = s[i] \/ n \in ToSet(Tail(Todo(t)))
    <3>1. PICK j \in fresh : n = s[j]
      BY <1>2
    <3>2. j = i \/ j > i
      BY <1>1, <2>0
    <3>. QED
      BY <1>1, <2>2, <3>1, <3>2
  <2>. QED
    BY <2>1, <2>2, <2>3, <2>4 DEF s
<1>. QED
  BY <1>4, <1>5
-----------------------------------------------------------------------------
(* Runs and what has been executed in them.                                *)

LEMMA Executed ==
  ASSUME Rows
  PROVE  \A r \in DOMAIN run :
           /\ run[r].failed \subseteq DOMAIN Graph.kind /\ run[r].lost \subseteq DOMAIN Graph.kind
           /\ \A n \in DOMAIN Graph.kind : run[r].steps[n] \in Nat /\ run[r].visits[n] \in Nat
           /\ StepsOf(r) = {n \in DOMAIN Graph.kind : run[r].steps[n] > 0 \/ n \in run[r].failed}
<1>1. /\ run \in Seq(RunRow)
      /\ \A r \in DOMAIN run : StepsOf(r) = {n \in DOMAIN run[r].steps : run[r].steps[n] > 0}
                                              \cup run[r].failed
  BY DEF Rows, StepsOf
<1>2. \A r \in DOMAIN run : run[r] \in RunRow
  BY <1>1
<1>. QED
  BY <1>1, <1>2 DEF RunRow

LEMMA ExecutedNext ==
  ASSUME Rows', setting' = setting
  PROVE  \A r \in DOMAIN run' :
           /\ run'[r].failed \subseteq DOMAIN Graph.kind /\ run'[r].lost \subseteq DOMAIN Graph.kind
           /\ \A n \in DOMAIN Graph.kind : run'[r].steps[n] \in Nat /\ run'[r].visits[n] \in Nat
           /\ StepsOf(r)' = {n \in DOMAIN Graph.kind : run'[r].steps[n] > 0 \/ n \in run'[r].failed}
<1>1. /\ run' \in Seq(RunRow') /\ Graph' = Graph
      /\ \A r \in DOMAIN run' : StepsOf(r)' = {n \in DOMAIN run'[r].steps : run'[r].steps[n] > 0}
                                              \cup run'[r].failed
  BY DEF Rows, StepsOf, Graph
<1>2. \A r \in DOMAIN run' : run'[r] \in RunRow'
  BY <1>1
<1>. QED
  BY <1>1, <1>2 DEF RunRow

\* A step of node n of run r is recorded, or that it has failed; or neither.
Unmarked ==
  DOMAIN run' = DOMAIN run /\ \A q \in DOMAIN run :
    run'[q].steps = run[q].steps /\ run'[q].failed = run[q].failed
Stepped(r, n) ==
  DOMAIN run' = DOMAIN run /\ \A q \in DOMAIN run :
    /\ run'[q].failed = run[q].failed
    /\ \A x \in DOMAIN Graph.kind :
         run'[q].steps[x] = IF q = r /\ x = n /\ n \in nodes THEN run[q].steps[x] + 1 ELSE run[q].steps[x]
Failed(r, n) ==
  DOMAIN run' = DOMAIN run /\ \A q \in DOMAIN run :
    /\ run'[q].steps = run[q].steps
    /\ run'[q].failed = IF q = r /\ n \in nodes THEN run[q].failed \cup {n} ELSE run[q].failed
SameStatus == \A q \in DOMAIN run : run'[q].status = run[q].status

\* Node n of run r is visited, or forgotten by thread t; or neither.
Unseen ==
  \A q \in DOMAIN run : run'[q].visits = run[q].visits /\ run'[q].lost = run[q].lost
Seen(r, n) ==
  \A q \in DOMAIN run :
    /\ run'[q].lost = run[q].lost
    /\ \A x \in DOMAIN Graph.kind :
         run'[q].visits[x] = IF q = r /\ x = n THEN run[q].visits[x] + 1 ELSE run[q].visits[x]
Missed(t, r, n) ==
  \A q \in DOMAIN run :
    /\ run'[q].visits = run[q].visits
    /\ run'[q].lost = IF q = r /\ t \in Waiters THEN run[q].lost \cup {n} ELSE run[q].lost

\* What t has done at its node is recorded, or that it has failed; or it is not.
Unrecorded(t) ==
  "step" \in setting.failing /\ Unmarked /\ Missed(t, job[t].run, job[t].node)
Marks(t) == (Stepped(job[t].run, job[t].node) /\ Unseen) \/ Unrecorded(t)
Fails(t) == (Failed(job[t].run, job[t].node) /\ Unseen) \/ Unrecorded(t)

LEMMA MarksRun ==
  ASSUME Rows, NEW r \in DOMAIN run, NEW n
  PROVE  /\ run' = WithStep(r, n) => Stepped(r, n) /\ Unseen /\ SameStatus
         /\ run' = WithFailed(r, n) => Failed(r, n) /\ Unseen /\ SameStatus
         /\ run' = run => Unmarked /\ Unseen /\ SameStatus
<1>0. run \in Seq(RunRow) /\ DOMAIN run = 1..Len(run) /\ nodes \subseteq DOMAIN Graph.kind
      /\ \A q \in DOMAIN run : run[q] \in RunRow
  BY DEF Rows
<1>1. ASSUME run' = WithStep(r, n) PROVE Stepped(r, n) /\ Unseen /\ SameStatus
  <2>1. CASE n \in nodes
    <3>1. run' = [run EXCEPT ![r].steps[n] = @ + 1]
      BY <1>1, <2>1 DEF WithStep
    <3>2. /\ DOMAIN run' = DOMAIN run
          /\ \A q \in DOMAIN run : q # r => run'[q] = run[q]
          /\ run'[r] = [run[r] EXCEPT !.steps[n] = @ + 1]
      BY <1>0, <3>1
    <3>3. /\ run'[r].failed = run[r].failed /\ run'[r].status = run[r].status
          /\ run'[r].visits = run[r].visits /\ run'[r].lost = run[r].lost
          /\ \A x \in DOMAIN Graph.kind :
               run'[r].steps[x] = IF x = n THEN run[r].steps[x] + 1 ELSE run[r].steps[x]
      BY <1>0, <3>2 DEF RunRow
    <3>. QED
      BY <2>1, <3>2, <3>3 DEF Stepped, Unseen, SameStatus
  <2>2. CASE n \notin nodes
    BY <1>1, <2>2 DEF WithStep, Stepped, Unseen, SameStatus
  <2>. QED
    BY <2>1, <2>2
<1>2. ASSUME run' = WithFailed(r, n) PROVE Failed(r, n) /\ Unseen /\ SameStatus
  <2>1. CASE n \in nodes
    <3>1. run' = [run EXCEPT ![r].failed = @ \cup {n}]
      BY <1>2, <2>1 DEF WithFailed
    <3>2. /\ DOMAIN run' = DOMAIN run
          /\ \A q \in DOMAIN run : q # r => run'[q] = run[q]
          /\ run'[r] = [run[r] EXCEPT !.failed = @ \cup {n}]
      BY <1>0, <3>1
    <3>3. /\ run'[r].failed = run[r].failed \cup {n} /\ run'[r].status = run[r].status
          /\ run'[r].visits = run[r].visits /\ run'[r].lost = run[r].lost
          /\ run'[r].steps = run[r].steps
      BY <1>0, <3>2 DEF RunRow
    <3>. QED
      BY <2>1, <3>2, <3>3 DEF Failed, Unseen, SameStatus
  <2>2. CASE n \notin nodes
    BY <1>2, <2>2 DEF WithFailed, Failed, Unseen, SameStatus
  <2>. QED
    BY <2>1, <2>2
<1>3. run' = run => Unmarked /\ Unseen /\ SameStatus
  BY DEF Unmarked, Unseen, SameStatus
<1>. QED
  BY <1>1, <1>2, <1>3

LEMMA VisitsRun ==
  ASSUME Rows, NEW r \in DOMAIN run, NEW n \in DOMAIN Graph.kind, NEW t
  PROVE  /\ run' = WithVisit(r, n) => Seen(r, n) /\ Unmarked /\ SameStatus
         /\ run' = Forgets(t, r, n) => Missed(t, r, n) /\ Unmarked /\ SameStatus
<1>0. run \in Seq(RunRow) /\ DOMAIN run = 1..Len(run) /\ \A q \in DOMAIN run : run[q] \in RunRow
  BY DEF Rows
<1>1. ASSUME run' = WithVisit(r, n) PROVE Seen(r, n) /\ Unmarked /\ SameStatus
  <2>1. /\ DOMAIN run' = DOMAIN run
        /\ \A q \in DOMAIN run : q # r => run'[q] = run[q]
        /\ run'[r] = [run[r] EXCEPT !.visits[n] = @ + 1]
    BY <1>0, <1>1 DEF WithVisit
  <2>2. /\ run'[r].failed = run[r].failed /\ run'[r].status = run[r].status
        /\ run'[r].steps = run[r].steps /\ run'[r].lost = run[r].lost
        /\ \A x \in DOMAIN Graph.kind :
             run'[r].visits[x] = IF x = n THEN run[r].visits[x] + 1 ELSE run[r].visits[x]
    <3>1. run[r] \in RunRow
      BY <1>0
    <3>2. run[r].visits \in [DOMAIN Graph.kind -> Nat]
      BY <3>1 DEF RunRow
    <3>3. /\ run'[r].failed = run[r].failed /\ run'[r].status = run[r].status
          /\ run'[r].steps = run[r].steps /\ run'[r].lost = run[r].lost
          /\ run'[r].visits = [run[r].visits EXCEPT ![n] = @ + 1]
      BY <2>1, <3>1 DEF RunRow
    <3>. QED
      BY <3>2, <3>3
  <2>. QED
    BY <2>1, <2>2 DEF Seen, Unmarked, SameStatus
<1>2. ASSUME run' = Forgets(t, r, n) PROVE Missed(t, r, n) /\ Unmarked /\ SameStatus
  <2>1. CASE t \in Waiters
    <3>1. /\ DOMAIN run' = DOMAIN run
          /\ \A q \in DOMAIN run : q # r => run'[q] = run[q]
          /\ run'[r] = [run[r] EXCEPT !.lost = @ \cup {n}]
      BY <1>0, <1>2, <2>1 DEF Forgets
    <3>2. /\ run'[r].failed = run[r].failed /\ run'[r].status = run[r].status
          /\ run'[r].steps = run[r].steps /\ run'[r].visits = run[r].visits
          /\ run'[r].lost = run[r].lost \cup {n}
      BY <1>0, <3>1 DEF RunRow
    <3>. QED
      BY <2>1, <3>1, <3>2 DEF Missed, Unmarked, SameStatus
  <2>2. CASE t \notin Waiters
    BY <1>2, <2>2 DEF Forgets, Missed, Unmarked, SameStatus
  <2>. QED
    BY <2>1, <2>2
<1>. QED
  BY <1>1, <1>2
-----------------------------------------------------------------------------
(* What a step of a thread does to the walks.                              *)

\* What a thread is about, and where it is on its way.
SameErrand(t) ==
  /\ job'[t].msg = job[t].msg /\ job'[t].run = job[t].run /\ job'[t].live = job[t].live
  /\ job'[t].delay = job[t].delay /\ job'[t].rest = job[t].rest
SamePath(t) ==
  /\ job'[t].todo = job[t].todo /\ job'[t].visited = job[t].visited
  /\ job'[t].graph = job[t].graph
SameTables == UNCHANGED <<nodes, active, waits, delays>>

\* Look, Apply and Ask: node n is visited.
Visited(t, n) ==
  /\ pc[t] = "walking" /\ pc'[t] = "acting"
  /\ SameErrand(t) /\ n \in Ahead(t) /\ job'[t].node = n /\ job'[t].graph = job[t].graph
  /\ job'[t].visited = job[t].visited \cup {n} /\ job'[t].convs = <<>>
  /\ job'[t].todo \in Seq(DOMAIN Graph.kind) /\ Ahead(t)' = Ahead(t) \ {n}
  /\ n \in DOMAIN Graph.kind /\ (Is(n, "agent") \/ job'[t].want = 0)
  /\ Unmarked /\ Seen(job[t].run, n) /\ SameTables /\ conv' = conv

\* Outs of nodes are sequences of nodes.
LEMMA OutsAreNodes ==
  ASSUME Budget
  PROVE  /\ \A n \in DOMAIN Graph.kind : \A out \in Outs(n) : out \in Seq(DOMAIN Graph.kind)
         /\ \A a \in DOMAIN Graph.first : Graph.first[a] \in Seq(DOMAIN Graph.kind)
         /\ \A n \in DOMAIN Graph.kind : Graph.kind[n] # "condition" =>
              \E out \in Outs(n) : Outs(n) = {out}
BY GraphsAssumption DEF Budget, Graph, Outs

LEMMA Visits ==
  ASSUME Placed, Rows, Jobs, NEW t \in Threads, job[t].todo \in Seq(DOMAIN Graph.kind),
         Look(t) \/ Apply(t) \/ Ask(t)
  PROVE  \E n : Visited(t, n)
<1>0. /\ DOMAIN job[t] = Fields /\ job = [u \in Threads |-> job[u]] /\ pc = [u \in Threads |-> pc[u]]
      /\ job[t].run \in DOMAIN run
  BY JobFields DEF Jobs, Sound, Placed, Look, Apply, Ask, Reach, WithRun, Walking
<1>1. PICK n : n = Head(Todo(t))
  OBVIOUS
<1>2. /\ SameTables /\ conv' = conv /\ pc[t] = "walking" /\ Todo(t) # <<>> /\ pc'[t] = "acting"
      /\ run' = WithVisit(job[t].run, n) /\ n \in DOMAIN Graph.kind
  BY <1>0, <1>1 DEF Look, Apply, Ask, Reach, Goto, Is, SameTables
<1>3. Look(t) \/ Apply(t) \/ Is(n, "agent")
  BY <1>1 DEF Ask, Reach
<1>4. /\ KeepsRest(t) /\ job'[t].node = n /\ job'[t].convs = <<>>
      /\ job'[t].delay = job[t].delay /\ job'[t].graph = job[t].graph
      /\ job'[t].todo = Tail(Todo(t)) /\ job'[t].visited = job[t].visited \cup {n}
      /\ Look(t) \/ Apply(t) => job'[t].want = 0
  BY <1>0, <1>1, ReachKeeps
<1>5. SameErrand(t)
  BY <1>4 DEF SameErrand, KeepsRest
<1>6. /\ n \in Ahead(t) /\ Tail(Todo(t)) \in Seq(DOMAIN Graph.kind)
      /\ ToSet(Tail(Todo(t))) \subseteq ToSet(job[t].todo)
      /\ Ahead(t) \subseteq {n} \cup ToSet(Tail(Todo(t)))
  BY <1>1, <1>2, TodoIsAhead
<1>7. Ahead(t)' = (ToSet(job'[t].todo) \cap job'[t].graph) \ job'[t].visited
  BY DEF Ahead
<1>8. Ahead(t)' = Ahead(t) \ {n}
  BY <1>4, <1>6, <1>7 DEF Ahead
<1>9. Seen(job[t].run, n) /\ Unmarked
  BY <1>0, <1>2, VisitsRun
<1>. QED
  BY <1>2, <1>3, <1>4, <1>5, <1>6, <1>8, <1>9 DEF Visited

\* StartConversation: the new conversation is the last one.
Starts(t) ==
  /\ pc[t] = "acting" /\ pc'[t] = "acting" /\ job[t].want > 0
  /\ SameErrand(t) /\ SamePath(t) /\ job'[t].node = job[t].node /\ SameTables
  /\ Unmarked /\ Unseen
  /\ Len(conv) + 1 \notin DOMAIN conv /\ DOMAIN conv' = DOMAIN conv \cup {Len(conv) + 1}
  /\ \A c \in DOMAIN conv : conv'[c] = conv[c]
  /\ conv'[Len(conv) + 1] = [run |-> job[t].run, node |-> job[t].node, status |-> "running"]
  /\ job'[t].convs = Append(job[t].convs, Len(conv) + 1)
  /\ ToSet(job'[t].convs) = ToSet(job[t].convs) \cup {Len(conv) + 1}

\* FailNode
Refused(t) ==
  /\ pc[t] = "acting" /\ pc'[t] = "walking" /\ job'[t] = job[t] /\ SameTables /\ conv' = conv
  /\ Fails(t)

\* Record: at a node with conversations to wait for, at a wait and at any other.
Served(t) ==
  /\ pc[t] = "acting" /\ pc'[t] = "registering" /\ SameErrand(t) /\ SamePath(t)
  /\ job'[t].node = job[t].node /\ job'[t].convs = job[t].convs
  /\ job[t].convs # <<>> /\ job[t].want = 0
  /\ Marks(t) /\ SameTables /\ conv' = conv
Halts(t) ==
  /\ pc[t] = "acting" /\ pc'[t] = "pausing" /\ SameErrand(t) /\ SamePath(t)
  /\ job'[t].node = job[t].node /\ Is(job[t].node, "wait")
  /\ Marks(t) /\ SameTables /\ conv' = conv
Skipped(t, out) ==
  /\ pc[t] = "acting" /\ pc'[t] = "walking" /\ SameErrand(t)
  /\ job'[t].node = job[t].node /\ job'[t].visited = job[t].visited /\ job'[t].graph = job[t].graph
  /\ ~Is(job[t].node, "wait") /\ job[t].convs = <<>> /\ job'[t].convs = <<>>
  /\ out \in Outs(job[t].node) /\ job'[t].todo \in Seq(DOMAIN Graph.kind)
  /\ Ahead(t)' = Ahead(t) \cup ((ToSet(out) \cap job[t].graph) \ job[t].visited)
  /\ Marks(t) /\ SameTables /\ conv' = conv

\* CreateWait
Registered(t, c) ==
  /\ pc[t] = "registering" /\ pc'[t] \in {"registering", "walking"}
  /\ SameErrand(t) /\ SamePath(t) /\ job'[t].node = job[t].node
  /\ UNCHANGED <<nodes, active, delays, conv>> /\ Unmarked /\ Unseen
  /\ c \in ToSet(job[t].convs) /\ c \in DOMAIN conv
  /\ conv[c].run = job[t].run /\ conv[c].node = job[t].node
  /\ ToSet(job[t].convs) = {c} \cup ToSet(job'[t].convs)
  /\ pc'[t] = "walking" => job'[t].convs = <<>>
  /\ \/ waits' = IF job[t].node \in nodes THEN waits \cup {c} ELSE waits
     \/ waits' = waits /\ "wait" \in setting.failing

\* CreateDelay
Delayed(t) ==
  /\ pc[t] = "pausing" /\ pc'[t] = "walking" /\ job'[t] = job[t]
  /\ UNCHANGED <<nodes, active, waits, conv>> /\ Unmarked /\ Unseen
  /\ \/ delays' = IF job[t].node \in nodes
                  THEN delays \cup {[run |-> job[t].run, node |-> job[t].node]} ELSE delays
     \/ delays' = delays /\ "delay" \in setting.failing

\* EndWalk
Finishes(t) ==
  /\ pc[t] = "walking" /\ pc'[t] = IF t \in Waiters THEN "clearing" ELSE "counting waits"
  /\ SameErrand(t) /\ job'[t].node = job[t].node /\ SameTables /\ conv' = conv
  /\ Unmarked /\ Unseen
  /\ Ahead(t) = {} /\ job'[t].todo = <<>> /\ job'[t].visited = {}

\* Resume
Resumes(t, out) ==
  /\ pc[t] = "resuming" /\ pc'[t] = "walking"
  /\ SameErrand(t) /\ job'[t].node = job[t].node /\ SameTables /\ conv' = conv
  /\ Unmarked /\ Unseen
  /\ job'[t].graph = nodes /\ job'[t].visited = StepsOf(job[t].run)
  /\ out \in Outs(job[t].node)
  /\ job'[t].todo = IF job[t].node \in nodes THEN out ELSE <<>>
Unresumed(t) ==
  /\ t \in Consumers /\ pc[t] = "resuming" /\ pc'[t] = "counting waits" /\ job'[t] = job[t]
  /\ SameTables /\ conv' = conv /\ Unseen
  /\ Failed(job[t].run, job[t].node) \/ ("step" \in setting.failing /\ Unmarked)

LEMMA Asks ==
  ASSUME Placed, Rows, Jobs, NEW t \in Threads, StartConversation(t)
  PROVE  Starts(t)
<1>0. /\ DOMAIN job[t] = Fields /\ job = [u \in Threads |-> job[u]] /\ pc = [u \in Threads |-> pc[u]]
      /\ job[t].run \in DOMAIN run /\ pc[t] = "acting" /\ pc' = pc /\ job[t].convs \in Seq(Nat)
      /\ job[t].want > 0
  BY JobFields DEF Jobs, Sound, Placed, StartConversation, WithRun, Walking
<1>1. SameTables /\ run' = run
  BY DEF StartConversation, SameTables
<1>2. job'[t] = [job[t] EXCEPT !.want = @ - 1, !.convs = Append(@, Len(conv) + 1)]
  BY <1>0 DEF StartConversation, Keep
<1>3. /\ SameErrand(t) /\ SamePath(t) /\ job'[t].node = job[t].node
      /\ job'[t].convs = Append(job[t].convs, Len(conv) + 1)
  BY <1>0, <1>2 DEF SameErrand, SamePath, Fields
<1>4. Unmarked /\ Unseen
  BY <1>0, <1>1, MarksRun
<1>5. PICK new : new = [run |-> job[t].run, node |-> job[t].node, status |-> "running"]
  OBVIOUS
<1>6. /\ IsList(conv) /\ DOMAIN conv = 1..Len(conv) /\ Len(conv) \in Nat
      /\ conv' = Append(conv, new)
  BY <1>5, Lists DEF Rows, IsList, StartConversation
<1>7. /\ Len(conv') = Len(conv) + 1 /\ conv'[Len(conv) + 1] = new
      /\ \A c \in DOMAIN conv : conv'[c] = conv[c]
      /\ DOMAIN conv' = 1..Len(conv')
  BY <1>6, Lists DEF IsList
<1>8. Len(conv) + 1 \notin DOMAIN conv /\ DOMAIN conv' = DOMAIN conv \cup {Len(conv) + 1}
  BY <1>6, <1>7
<1>9. ToSet(job'[t].convs) = ToSet(job[t].convs) \cup {Len(conv) + 1}
  <2>1. PICK s \in Seq(Nat), n \in Nat : s = job[t].convs /\ n = Len(conv) + 1
    BY <1>0, <1>6
  <2>2. /\ DOMAIN Append(s, n) = DOMAIN s \cup {Len(s) + 1} /\ Append(s, n)[Len(s) + 1] = n
        /\ \A i \in DOMAIN s : Append(s, n)[i] = s[i]
    OBVIOUS
  <2>3. ToSet(Append(s, n)) = ToSet(s) \cup {n}
    BY <2>2 DEF ToSet
  <2>. QED
    BY <1>3, <2>1, <2>3
<1>. QED
  BY <1>0, <1>1, <1>3, <1>4, <1>5, <1>7, <1>8, <1>9 DEF Starts

LEMMA Refuses ==
  ASSUME Placed, Rows, Jobs, NEW t \in Threads, FailNode(t)
  PROVE  Refused(t)
<1>0. /\ pc = [u \in Threads |-> pc[u]] /\ pc[t] = "acting" /\ job[t].run \in DOMAIN run
      /\ job[t].node \in DOMAIN Graph.kind
  BY DEF Jobs, Sound, Placed, FailNode, Goto, WithRun, Walking
<1>1. job' = job /\ SameTables /\ conv' = conv /\ pc'[t] = "walking"
  BY <1>0 DEF FailNode, SameTables, Goto
<1>2. \/ run' = WithFailed(job[t].run, job[t].node)
      \/ "step" \in setting.failing /\ run' = Forgets(t, job[t].run, job[t].node)
  BY DEF FailNode
<1>3. Fails(t)
  BY <1>0, <1>2, MarksRun, VisitsRun DEF Fails, Unrecorded
<1>. QED
  BY <1>0, <1>1, <1>3 DEF Refused

LEMMA Answers ==
  ASSUME Placed, Rows, Jobs, Budget, NEW t \in Threads, Record(t),
         job[t].todo \in Seq(DOMAIN Graph.kind)
  PROVE  Served(t) \/ Halts(t) \/ \E out : Skipped(t, out)
<1>0. /\ DOMAIN job[t] = Fields /\ job = [u \in Threads |-> job[u]] /\ pc = [u \in Threads |-> pc[u]]
      /\ job[t].run \in DOMAIN run /\ pc[t] = "acting" /\ job[t].node \in DOMAIN Graph.kind
      /\ job[t].want = 0
  BY JobFields DEF Jobs, Sound, Placed, Record, WithRun, Walking
<1>1. SameTables /\ conv' = conv
  BY DEF Record, SameTables
<1>2. Marks(t)
  <2>1. \/ run' = WithStep(job[t].run, job[t].node)
        \/ "step" \in setting.failing /\ run' = Forgets(t, job[t].run, job[t].node)
    BY DEF Record, Erring
  <2>. QED
    BY <1>0, <2>1, MarksRun, VisitsRun DEF Marks, Unrecorded
<1>3. /\ KeepsRest(t) /\ job'[t].node = job[t].node /\ job'[t].convs = job[t].convs
      /\ job'[t].delay = job[t].delay
      /\ job'[t].graph = job[t].graph /\ job'[t].visited = job[t].visited
  BY <1>0, RecordKeeps
<1>4. SameErrand(t)
  BY <1>3 DEF SameErrand, KeepsRest
<1>5. CASE Is(job[t].node, "wait") /\ Goto(t, "acting", "pausing") /\ UNCHANGED job
  BY <1>0, <1>1, <1>2, <1>4, <1>5 DEF Halts, Goto, SamePath
<1>6. CASE job[t].convs # <<>> /\ Goto(t, "acting", "registering") /\ UNCHANGED job
  BY <1>0, <1>1, <1>2, <1>4, <1>6 DEF Served, Goto, SamePath
<1>7. CASE /\ ~Is(job[t].node, "wait") /\ job[t].convs = <<>>
           /\ Goto(t, "acting", "walking") /\ Onwards(t)
  <2>1. PICK out \in Outs(job[t].node) : job' = [job EXCEPT ![t] = [job[t] EXCEPT !.todo = out \o @]]
    BY <1>7 DEF Onwards, Keep
  <2>2. out \in Seq(DOMAIN Graph.kind)
    BY <1>0, OutsAreNodes
  <2>3. PICK todo : todo = out \o job[t].todo
    OBVIOUS
  <2>4. job'[t] = [job[t] EXCEPT !.todo = todo] /\ pc'[t] = "walking"
    BY <1>0, <1>7, <2>1, <2>3 DEF Goto
  <2>5. job'[t].todo = todo
    BY <1>0, <2>4 DEF Fields
  <2>6. todo \in Seq(DOMAIN Graph.kind) /\ ToSet(todo) = ToSet(out) \cup ToSet(job[t].todo)
    BY <2>2, <2>3, Joined
  <2>7. Ahead(t)' = Ahead(t) \cup ((ToSet(out) \cap job[t].graph) \ job[t].visited)
    BY <1>3, <2>5, <2>6 DEF Ahead
  <2>. QED
    BY <1>0, <1>1, <1>2, <1>3, <1>4, <1>7, <2>4, <2>5, <2>6, <2>7 DEF Skipped
<1>. QED
  BY <1>5, <1>6, <1>7 DEF Record

LEMMA Registering ==
  ASSUME Placed, Rows, Jobs, NEW t \in Threads, CreateWait(t)
  PROVE  \E c : Registered(t, c)
<1>0. /\ DOMAIN job[t] = Fields /\ job = [u \in Threads |-> job[u]] /\ pc = [u \in Threads |-> pc[u]]
      /\ job[t].run \in DOMAIN run /\ pc[t] = "registering" /\ job[t].convs \in Seq(Nat)
      /\ job[t].convs # <<>> /\ Started(t)
  BY JobFields DEF Jobs, Sound, Placed, CreateWait, WithRun, Walking
<1>1. PICK s \in Seq(Nat) : s = job[t].convs /\ s # <<>>
  BY <1>0
<1>2. PICK c : c = Head(s)
  OBVIOUS
<1>3. /\ c = s[1] /\ 1 \in DOMAIN s /\ Len(s) \in Nat
      /\ DOMAIN Tail(s) = 1..(Len(s) - 1) /\ Tail(s) \in Seq(Nat)
      /\ \A i \in DOMAIN Tail(s) : i + 1 \in DOMAIN s /\ Tail(s)[i] = s[i + 1]
      /\ \A i \in DOMAIN s : i = 1 \/ i - 1 \in DOMAIN Tail(s)
  BY <1>1, <1>2
<1>4. ToSet(s) = {c} \cup ToSet(Tail(s))
  <2>1. ASSUME NEW i \in DOMAIN s PROVE s[i] \in {c} \cup ToSet(Tail(s))
    <3>1. CASE i = 1
      BY <1>3, <3>1
    <3>2. CASE i # 1
      <4>1. i - 1 \in DOMAIN Tail(s) /\ Tail(s)[i - 1] = s[(i - 1) + 1] /\ i \in Nat
        BY <1>3, <3>2
      <4>2. Tail(s)[i - 1] = s[i]
        BY <4>1
      <4>. QED
        BY <4>1, <4>2 DEF ToSet
    <3>. QED
      BY <3>1, <3>2
  <2>2. ASSUME NEW i \in DOMAIN Tail(s) PROVE Tail(s)[i] \in ToSet(s)
    BY <1>3 DEF ToSet
  <2>3. c \in ToSet(s)
    BY <1>3 DEF ToSet
  <2>. QED
    BY <2>1, <2>2, <2>3 DEF ToSet
<1>5. /\ job'[t] = [job[t] EXCEPT !.convs = Tail(s)]
      /\ pc'[t] = IF Len(s) = 1 THEN "walking" ELSE "registering"
      /\ UNCHANGED <<nodes, active, delays, conv, run>>
      /\ \/ waits' = IF job[t].node \in nodes THEN waits \cup {c} ELSE waits
         \/ waits' = waits /\ "wait" \in setting.failing
  BY <1>0, <1>1, <1>2 DEF CreateWait, Keep, Erring
<1>6. /\ SameErrand(t) /\ SamePath(t) /\ job'[t].node = job[t].node /\ job'[t].convs = Tail(s)
  BY <1>0, <1>5 DEF SameErrand, SamePath, Fields
<1>7. pc'[t] = "walking" => job'[t].convs = <<>>
  BY <1>3, <1>5, <1>6
<1>8. c \in DOMAIN conv /\ conv[c].run = job[t].run /\ conv[c].node = job[t].node
  BY <1>0, <1>1, <1>3 DEF Started
<1>9. Unmarked /\ Unseen
  BY <1>0, <1>5, MarksRun
<1>10. ToSet(job[t].convs) = {c} \cup ToSet(job'[t].convs)
  BY <1>1, <1>4, <1>6
<1>. QED
  BY <1>0, <1>5, <1>6, <1>7, <1>8, <1>9, <1>10 DEF Registered

LEMMA Delays ==
  ASSUME Placed, Rows, Jobs, NEW t \in Threads, CreateDelay(t)
  PROVE  Delayed(t)
<1>0. pc = [u \in Threads |-> pc[u]] /\ job[t].run \in DOMAIN run
  BY DEF Jobs, Sound, Placed, CreateDelay, Goto, WithRun, Walking
<1>1. Unmarked /\ Unseen
  BY <1>0, MarksRun DEF CreateDelay
<1>. QED
  BY <1>0, <1>1 DEF CreateDelay, Delayed, Goto, Erring

LEMMA Ends ==
  ASSUME Placed, Rows, Jobs, NEW t \in Threads, EndWalk(t), job[t].todo \in Seq(DOMAIN Graph.kind)
  PROVE  Finishes(t)
<1>0. /\ DOMAIN job[t] = Fields /\ job = [u \in Threads |-> job[u]] /\ pc = [u \in Threads |-> pc[u]]
      /\ job[t].run \in DOMAIN run
  BY JobFields DEF Jobs, Sound, Placed, EndWalk, Goto, WithRun, Walking
<1>1. /\ job'[t] = [job[t] EXCEPT !.visited = {}, !.graph = {}, !.todo = <<>>]
      /\ SameTables /\ conv' = conv /\ run' = run
      /\ pc[t] = "walking" /\ pc'[t] = IF t \in Waiters THEN "clearing" ELSE "counting waits"
  BY <1>0 DEF EndWalk, Keep, Goto, dbVars, SameTables
<1>2. /\ SameErrand(t) /\ job'[t].node = job[t].node
      /\ job'[t].todo = <<>> /\ job'[t].visited = {}
  BY <1>0, <1>1 DEF SameErrand, Fields
<1>3. Ahead(t) = {} /\ Unmarked /\ Unseen
  BY <1>0, <1>1, TodoIsAhead, MarksRun DEF EndWalk
<1>. QED
  BY <1>1, <1>2, <1>3 DEF Finishes

\* The graph is loaded, and what has been executed.
Loads(t, visited, todo) ==
  job'[t] = [job[t] EXCEPT !.graph = nodes, !.visited = visited, !.todo = todo]
Loaded(t, visited, todo) ==
  /\ SameErrand(t) /\ job'[t].node = job[t].node
  /\ job'[t].graph = nodes /\ job'[t].visited = visited /\ job'[t].todo = todo

LEMMA ResumeFields ==
  ASSUME NEW t, DOMAIN job[t] = Fields, NEW visited, NEW todo, Loads(t, visited, todo)
  PROVE  Loaded(t, visited, todo)
BY DEF SameErrand, Fields, Loads, Loaded

LEMMA Resuming ==
  ASSUME Placed, Rows, Jobs, NEW t \in Threads, Resume(t), ~(t \in Waiters /\ pc'[t] = "renewing")
  PROVE  (\E out : Resumes(t, out)) \/ Unresumed(t)
<1>0. /\ DOMAIN job[t] = Fields /\ job = [u \in Threads |-> job[u]] /\ pc = [u \in Threads |-> pc[u]]
      /\ job[t].run \in DOMAIN run /\ pc[t] = "resuming" /\ pc[t] \in Places(t)
  BY JobFields DEF Jobs, Sound, Placed, Resume, WithRun, Walking
<1>1. SameTables /\ conv' = conv
  BY DEF Resume, SameTables
<1>2. ASSUME NEW out \in Outs(job[t].node), Goto(t, "resuming", "walking"),
             Keep(t, [job[t] EXCEPT !.graph = nodes, !.visited = StepsOf(job[t].run),
                                    !.todo = IF job[t].node \in nodes THEN out ELSE <<>>]),
             run' = run
      PROVE  Resumes(t, out)
  <2>1. PICK visited, todo : visited = StepsOf(job[t].run)
                             /\ todo = IF job[t].node \in nodes THEN out ELSE <<>>
    OBVIOUS
  <2>2. Loads(t, visited, todo) /\ pc'[t] = "walking"
    BY <1>0, <1>2, <2>1 DEF Keep, Goto, Loads
  <2>3. Loaded(t, visited, todo)
    BY <1>0, <2>2, ResumeFields
  <2>4. Unmarked /\ Unseen
    BY <1>0, <1>2, MarksRun
  <2>. QED
    BY <1>0, <1>1, <1>2, <2>1, <2>2, <2>3, <2>4 DEF Resumes, Loaded
<1>3. ASSUME t \in Consumers, Goto(t, "resuming", "counting waits"),
             \/ run' = WithFailed(job[t].run, job[t].node)
             \/ "step" \in setting.failing /\ run' = run,
             job' = job
      PROVE  Unresumed(t)
  <2>1. Unseen /\ (Failed(job[t].run, job[t].node) \/ ("step" \in setting.failing /\ Unmarked))
    BY <1>0, <1>3, MarksRun
  <2>. QED
    BY <1>0, <1>1, <1>3, <2>1 DEF Unresumed, Goto
<1>4. \/ \E out \in Outs(job[t].node) :
           /\ Goto(t, "resuming", "walking")
           /\ Keep(t, [job[t] EXCEPT !.graph = nodes, !.visited = StepsOf(job[t].run),
                                    !.todo = IF job[t].node \in nodes THEN out ELSE <<>>])
           /\ run' = run
      \/ /\ t \in Consumers /\ Goto(t, "resuming", "counting waits")
         /\ \/ run' = WithFailed(job[t].run, job[t].node)
            \/ "step" \in setting.failing /\ run' = run
         /\ job' = job
      \/ t \notin Consumers /\ Goto(t, "resuming", "renewing")
  BY DEF Resume
<1>5. ~(t \notin Consumers /\ Goto(t, "resuming", "renewing"))
  BY <1>0 DEF Goto, Places, Walking, Closing
<1>. QED
  BY <1>2, <1>3, <1>4, <1>5

\* Open: the new run is the last one.
Opened(t) ==
  /\ pc[t] = "opening" /\ pc'[t] = "walking" /\ SameTables /\ conv' = conv
  /\ Len(run) + 1 \notin DOMAIN run /\ DOMAIN run' = DOMAIN run \cup {Len(run) + 1}
  /\ \A q \in DOMAIN run : run'[q] = run[q]
  /\ run'[Len(run) + 1].failed = {}
  /\ run'[Len(run) + 1].lost = {}
  /\ \A n \in DOMAIN Graph.kind :
       run'[Len(run) + 1].steps[n] = 0 /\ run'[Len(run) + 1].visits[n] = 0
  /\ job'[t].msg = job[t].msg /\ job'[t].visited = job[t].visited /\ job'[t].rest = job[t].rest
  /\ job'[t].run = Len(run) + 1 /\ job'[t].graph = nodes
  /\ job'[t].todo = Graph.first[job[t].msg.about]

LEMMA Opening ==
  ASSUME Placed, Rows, Jobs, NEW t \in Threads, Open(t), pc'[t] = "walking"
  PROVE  Opened(t)
<1>0. /\ job = [u \in Threads |-> job[u]] /\ pc = [u \in Threads |-> pc[u]]
      /\ pc[t] = "opening" /\ run \in Seq(RunRow)
  BY DEF Jobs, Placed, Open, Goto, Rows
<1>f. DOMAIN job[t] = Fields
  BY JobFields DEF Jobs, Sound
<1>1. PICK todo, row : /\ todo = Graph.first[job[t].msg.about]
                       /\ row = [status |-> "running", cause |-> job[t].cause,
                                 steps |-> [n \in DOMAIN Graph.kind |-> 0], failed |-> {},
                                 visits |-> [n \in DOMAIN Graph.kind |-> 0], lost |-> {}]
  OBVIOUS
<1>2. /\ SameTables /\ conv' = conv
      /\ run' = Append(run, row)
      /\ job'[t] = [job[t] EXCEPT !.run = Len(run) + 1, !.todo = todo, !.graph = nodes]
  BY <1>0, <1>1 DEF Open, Goto, Over, Keep, SameTables
<1>3. /\ job'[t].msg = job[t].msg /\ job'[t].visited = job[t].visited /\ job'[t].rest = job[t].rest
      /\ job'[t].run = Len(run) + 1 /\ job'[t].graph = nodes /\ job'[t].todo = todo
  BY <1>f, <1>2 DEF Fields
<1>4. /\ Len(run) + 1 \notin DOMAIN run /\ DOMAIN run' = DOMAIN run \cup {Len(run) + 1}
      /\ \A q \in DOMAIN run : run'[q] = run[q]
      /\ run'[Len(run) + 1] = row
  BY <1>0, <1>2
<1>5. /\ row.failed = {} /\ row.lost = {}
      /\ \A n \in DOMAIN Graph.kind : row.steps[n] = 0 /\ row.visits[n] = 0
  BY <1>1
<1>. QED
  BY <1>0, <1>1, <1>2, <1>3, <1>4, <1>5 DEF Opened

\* Find and Note: what a replica that hears of an end knows then.
Found(k) ==
  LET c == job[k].msg.conv IN
  /\ k \in Consumers /\ pc[k] = "finding" /\ pc'[k] = "noting" /\ c \in waits
  /\ job'[k].msg = job[k].msg /\ job'[k].rest = job[k].rest /\ job'[k].todo = job[k].todo
  /\ job'[k].run = conv[c].run /\ job'[k].node = conv[c].node
  /\ SameTables /\ conv' = conv /\ Unmarked /\ Unseen
Notes(k) ==
  /\ k \in Consumers /\ pc[k] = "noting" /\ pc'[k] = "resolving" /\ SamePath(k)
  /\ job'[k].msg = job[k].msg /\ job'[k].run = job[k].run /\ job'[k].rest = job[k].rest
  /\ job'[k].node = job[k].node /\ job'[k].live = active
  /\ SameTables /\ conv' = conv /\ Unseen
  /\ IF job[k].msg.status = "finished" THEN Unmarked ELSE Failed(job[k].run, job[k].node)

LEMMA Finding ==
  ASSUME Placed, Rows, Jobs, NEW t \in Threads, Find(t), pc'[t] # "acking"
  PROVE  Found(t)
<1>0. /\ job = [u \in Threads |-> job[u]] /\ pc = [u \in Threads |-> pc[u]]
      /\ pc[t] = "finding" /\ pc[t] \in Places(t)
  BY DEF Jobs, Placed, Find
<1>f. DOMAIN job[t] = Fields
  BY JobFields DEF Jobs, Sound
<1>1. t \in Consumers
  BY <1>0 DEF Places, Walking, Closing
<1>2. PICK c : c = job[t].msg.conv
  OBVIOUS
<1>3. /\ c \in waits /\ pc'[t] = "noting" /\ SameTables /\ conv' = conv /\ run' = run
      /\ job'[t] = [job[t] EXCEPT !.run = conv[c].run, !.node = conv[c].node]
  BY <1>0, <1>2 DEF Find, Goto, Keep, dbVars, SameTables
<1>4. /\ job'[t].msg = job[t].msg /\ job'[t].rest = job[t].rest /\ job'[t].todo = job[t].todo
      /\ job'[t].run = conv[c].run /\ job'[t].node = conv[c].node
  BY <1>f, <1>3 DEF Fields
<1>5. Unmarked /\ Unseen
  BY <1>3 DEF Unmarked, Unseen
<1>. QED
  BY <1>0, <1>1, <1>2, <1>3, <1>4, <1>5 DEF Found

LEMMA Noting ==
  ASSUME Placed, Rows, Jobs, NEW t \in Threads, Note(t)
  PROVE  Notes(t)
<1>0. /\ job = [u \in Threads |-> job[u]] /\ pc = [u \in Threads |-> pc[u]]
      /\ pc[t] = "noting" /\ pc[t] \in Places(t) /\ job[t].run \in DOMAIN run
  BY DEF Jobs, Placed, Note, Goto, Sound, WithRun
<1>f. DOMAIN job[t] = Fields
  BY JobFields DEF Jobs, Sound
<1>1. t \in Consumers
  BY <1>0 DEF Places, Walking, Closing
<1>2. /\ pc'[t] = "resolving" /\ SameTables /\ conv' = conv
      /\ job'[t] = [job[t] EXCEPT !.live = active]
      /\ run' = IF job[t].msg.status = "finished" THEN run ELSE WithFailed(job[t].run, job[t].node)
  BY <1>0 DEF Note, Goto, Keep, SameTables
<1>3. /\ job'[t].msg = job[t].msg /\ job'[t].rest = job[t].rest /\ SamePath(t)
      /\ job'[t].run = job[t].run /\ job'[t].node = job[t].node /\ job'[t].live = active
  BY <1>f, <1>2 DEF Fields, SamePath
<1>4. /\ Unseen
      /\ IF job[t].msg.status = "finished" THEN Unmarked ELSE Failed(job[t].run, job[t].node)
  BY <1>0, <1>2, MarksRun
<1>. QED
  BY <1>0, <1>1, <1>2, <1>3, <1>4 DEF Notes

\* Resolve and Check decide where a replica goes on; Clear, where a scheduler does.
Resolves(k) ==
  /\ k \in Consumers /\ pc[k] = "resolving" /\ job'[k] = job[k]
  /\ UNCHANGED <<nodes, active, delays, conv>> /\ Unmarked /\ Unseen
  /\ waits' = waits \ {job[k].msg.conv}
  /\ \/ pc'[k] = "counting waits"
        /\ \/ Siblings(k) \ {job[k].msg.conv} # {}
           \/ job[k].msg.status # "finished" \/ ~job[k].live
     \/ /\ pc'[k] = "checking" /\ Siblings(k) \subseteq {job[k].msg.conv}
        /\ job[k].msg.status = "finished" /\ job[k].live
Checks(k) ==
  /\ k \in Consumers /\ pc[k] = "checking" /\ job'[k] = job[k] /\ SameTables /\ conv' = conv
  /\ Unmarked /\ Unseen
  /\ \/ pc'[k] = "counting waits"
        /\ \/ job[k].node \in run[job[k].run].failed
           \/ "list" \in setting.failing
     \/ pc'[k] = "resuming" /\ job[k].node \notin run[job[k].run].failed
Clears(s) ==
  /\ s \in Waiters /\ pc[s] = "clearing" /\ job'[s] = job[s]
  /\ UNCHANGED <<nodes, active, waits, conv>> /\ Unmarked /\ Unseen
  /\ \/ pc'[s] = "counting waits" /\ delays' = delays \ {job[s].delay}
     \/ pc'[s] = "renewing" /\ delays' = delays

LEMMA Deciding ==
  ASSUME Placed, Rows, Jobs, NEW t \in Threads
  PROVE  /\ Resolve(t) => Resolves(t)
         /\ Check(t) => Checks(t)
         /\ Clear(t) => Clears(t)
<1>0. pc = [u \in Threads |-> pc[u]] /\ pc[t] \in Places(t)
  BY DEF Placed
<1>1. ASSUME Resolve(t) PROVE Resolves(t)
  <2>1. t \in Consumers /\ pc[t] = "resolving"
    BY <1>0, <1>1 DEF Resolve, Goto, Places, Walking, Closing
  <2>2. UNCHANGED <<job, nodes, active, delays, conv, run>> /\ waits' = waits \ {job[t].msg.conv}
    BY <1>1 DEF Resolve
  <2>3. pc'[t] = IF Siblings(t) \ {job[t].msg.conv} # {} THEN "counting waits" ELSE AfterLast(t)
    BY <1>0, <1>1 DEF Resolve, Goto
  <2>4. Unmarked /\ Unseen
    BY <2>2 DEF Unmarked, Unseen
  <2>. QED
    BY <2>1, <2>2, <2>3, <2>4 DEF Resolves, AfterLast
<1>2. ASSUME Check(t) PROVE Checks(t)
  <2>1. t \in Consumers /\ pc[t] = "checking"
    BY <1>0, <1>2 DEF Check, Goto, Places, Walking, Closing
  <2>2. /\ UNCHANGED <<job, run>> /\ SameTables /\ conv' = conv
        /\ \/ pc'[t] = IF job[t].node \in run[job[t].run].failed THEN "counting waits" ELSE "resuming"
           \/ "list" \in setting.failing /\ pc'[t] = "counting waits"
    BY <1>0, <1>2 DEF Check, Goto, dbVars, SameTables, Erring
  <2>3. Unmarked /\ Unseen
    BY <2>2 DEF Unmarked, Unseen
  <2>. QED
    BY <2>1, <2>2, <2>3 DEF Checks
<1>3. ASSUME Clear(t) PROVE Clears(t)
  <2>1. t \in Waiters /\ pc[t] = "clearing"
    BY <1>0, <1>3 DEF Clear, Goto, Places, Walking, Closing, Threads
  <2>2. /\ UNCHANGED <<job, nodes, active, waits, conv, run>>
        /\ \/ pc'[t] = "counting waits" /\ delays' = delays \ {job[t].delay}
           \/ pc'[t] = "renewing" /\ delays' = delays
    BY <1>0, <1>3 DEF Clear, Goto, InHand
  <2>3. Unmarked /\ Unseen
    BY <2>2 DEF Unmarked, Unseen
  <2>. QED
    BY <2>1, <2>2, <2>3 DEF Clears
<1>. QED
  BY <1>1, <1>2, <1>3
-----------------------------------------------------------------------------
(* A thread that neither walks nor decides where a walk goes on.           *)

Starting == {"handling", "recording", "opening"}

\* What it has in hand is what it had, or begins anew.
SameJob(t) == job'[t] = job[t]
NewJob(t) ==
  /\ pc'[t] \in {"idle", "finding", "handling", "renewing", "recording", "yielding"}
  /\ job'[t].todo \in Seq(DOMAIN Graph.kind) /\ job'[t].visited = {} /\ job'[t].rest \subseteq due
  /\ pc'[t] = "recording" => job'[t].msg = NoJob.msg /\ fired < clock
  /\ t \in Clocks => pc'[t] # "handling"
Revives(t) ==
  /\ pc[t] = "renewing" /\ pc'[t] = "reviving" /\ job'[t].rest \subseteq job[t].rest
  /\ \E d \in job[t].rest : job'[t].run = d.run /\ job'[t].node = d.node /\ job'[t].delay = d
  /\ job'[t].todo \in Seq(DOMAIN Graph.kind)
Judges(t) ==
  /\ pc'[t] = "closing" /\ job'[t].run = job[t].run /\ job'[t].msg = job[t].msg
  /\ job'[t].todo = job[t].todo /\ job'[t].rest = job[t].rest

\* A run that is closed is no longer running; a run that is paused is not closed.
Leaves(t) ==
  /\ SameTables /\ conv' = conv /\ Unmarked /\ Unseen
  /\ \A q \in DOMAIN run : run'[q].status = "running" => run[q].status = "running"
  /\ pc'[t] \in Closing => pc[t] \in Closing
  /\ pc[t] \in Closing /\ pc'[t] \notin Closing =>
       Paused(job[t].run) \/ run'[job[t].run].status # "running" \/ "close" \in setting.failing
Aways(t) ==
  /\ pc[t] \notin Walking /\ pc'[t] \notin Walking
  /\ t \notin Waiters => pc[t] \notin {"checking", "resuming"} /\ pc'[t] \notin AtNode
  /\ pc'[t] \in Starting => NewJob(t) \/ (SameJob(t) /\ pc[t] \in Starting)
  /\ pc'[t] \in {"reviving", "resuming", "clearing"} =>
       \/ Revives(t)
       \/ pc[t] = "reviving" /\ SameJob(t) /\ pc'[t] = IF active THEN "resuming" ELSE "clearing"
  /\ SameJob(t) \/ NewJob(t) \/ Revives(t) \/ Judges(t)
Elsewhere(t) == Leaves(t) /\ Aways(t)

LEMMA LeavingAlone ==
  ASSUME SameTables, conv' = conv, run' = run, NEW t, pc'[t] \notin Closing, pc[t] \notin Closing
  PROVE  Leaves(t)
BY DEF Leaves, Unmarked, Unseen

LEMMA ElsewhereSame ==
  ASSUME Placed, Rows, NEW t \in Threads,
         \/ Handle(t) \/ HandleExternal(t) \/ HandleSprint(t) \/ Lead(t) \/ Revive(t)
         \/ LeadClock(t) \/ RecordFire(t)
         \/ (Open(t) /\ pc'[t] # "walking")
         \/ (Find(t) /\ pc'[t] = "acking")
         \/ (Resume(t) /\ t \in Waiters /\ pc'[t] = "renewing")
  PROVE  Elsewhere(t)
<1>0. pc = [u \in Threads |-> pc[u]] /\ pc[t] \in Places(t)
  BY DEF Placed
<1>1. job' = job /\ run' = run /\ SameTables /\ conv' = conv
  <2>1. CASE Handle(t) \/ HandleExternal(t) \/ HandleSprint(t) \/ Lead(t) \/ Revive(t)
             \/ LeadClock(t) \/ RecordFire(t)
    BY <2>1 DEF Handle, HandleExternal, HandleSprint, Lead, Revive, LeadClock, RecordFire, dbVars,
                SameTables
  <2>2. CASE Open(t) /\ pc'[t] # "walking"
    BY <1>0, <2>2 DEF Open, Goto, SameTables
  <2>3. CASE Find(t) /\ pc'[t] = "acking"
    BY <1>0, <2>3 DEF Find, Goto, SameTables, dbVars
  <2>4. CASE Resume(t) /\ t \in Waiters /\ pc'[t] = "renewing"
    BY <1>0, <2>4 DEF Resume, Goto, SameTables
  <2>. QED
    BY <2>1, <2>2, <2>3, <2>4
<1>2. \/ pc[t] = "handling" /\ pc'[t] \in {"opening", "acking"}
      \/ pc[t] = "idle" /\ pc'[t] = "listing"
      \/ pc[t] = "reviving" /\ pc'[t] = IF active THEN "resuming" ELSE "clearing"
      \/ pc[t] = "recording" /\ pc'[t] \in {"opening", "yielding"}
      \/ pc[t] = "opening" /\ pc'[t] \in {"idle", "acking", "renewing", "yielding"}
      \/ pc[t] = "finding" /\ pc'[t] = "acking"
      \/ pc[t] = "resuming" /\ pc'[t] = "renewing" /\ t \in Waiters
  <2>1. CASE Handle(t) \/ HandleExternal(t) \/ HandleSprint(t)
    BY <1>0, <2>1 DEF Handle, HandleExternal, HandleSprint, Goto
  <2>2. CASE Lead(t) \/ Revive(t) \/ LeadClock(t) \/ RecordFire(t)
    BY <1>0, <2>2 DEF Lead, Revive, LeadClock, RecordFire, Goto
  <2>3. CASE Open(t) /\ pc'[t] # "walking"
    BY <1>0, <2>3 DEF Open, Goto, Over
  <2>4. CASE Find(t) /\ pc'[t] = "acking"
    BY <1>0, <2>4 DEF Find, Goto
  <2>5. CASE Resume(t) /\ t \in Waiters /\ pc'[t] = "renewing"
    BY <1>0, <2>5 DEF Resume
  <2>. QED
    BY <2>1, <2>2, <2>3, <2>4, <2>5
<1>3. pc[t] = "reviving" => t \in Waiters
  BY <1>0 DEF Places, Walking, Closing
<1>4. Leaves(t)
  <2>1. pc[t] \notin Closing /\ pc'[t] \notin Closing
    BY <1>2 DEF Closing
  <2>. QED
    BY <1>1, <2>1, LeavingAlone
<1>5. Aways(t)
  BY <1>1, <1>2, <1>3 DEF Aways, SameJob, Walking, AtNode, Starting
<1>. QED
  BY <1>4, <1>5 DEF Elsewhere

LEMMA NoneAsked == NoJob.todo \in Seq(DOMAIN Graph.kind) /\ NoJob.visited = {} /\ NoJob.rest = {}
                   /\ DOMAIN NoJob = Fields
BY DEF NoJob, Fields

LEMMA ElsewhereNew ==
  ASSUME Placed, Jobs, NEW t \in Threads,
         \/ (t \in Consumers /\ Take(t)) \/ Ack(t) \/ ListDue(t) \/ Yield(t) \/ ListFires(t)
         \/ YieldClock(t) \/ Abandon(t) \/ Renew(t)
  PROVE  Elsewhere(t)
<1>0. pc = [u \in Threads |-> pc[u]] /\ pc[t] \in Places(t) /\ job = [u \in Threads |-> job[u]]
  BY DEF Placed, Jobs
<1>1. PICK none : none = NoJob /\ none.todo \in Seq(DOMAIN Graph.kind) /\ none.visited = {} /\ none.rest = {}
                  /\ DOMAIN none = Fields
  BY NoneAsked
<1>2. run' = run /\ SameTables /\ conv' = conv
  BY DEF Take, Ack, ListDue, Yield, ListFires, YieldClock, Abandon, Renew, dbVars, SameTables
<1>3. CASE (t \in Consumers /\ Take(t)) \/ Ack(t) \/ ListDue(t) \/ Yield(t) \/ ListFires(t)
           \/ YieldClock(t) \/ Abandon(t)
  <2>1. \/ pc[t] = "idle" /\ pc'[t] \in {"finding", "handling"}
           /\ \E m : job'[t] = [none EXCEPT !.msg = m]
        \/ pc[t] = "listing" /\ pc'[t] = "renewing" /\ job'[t] = [none EXCEPT !.rest = due]
        \/ pc[t] = "listing" /\ pc'[t] \in {"recording", "yielding"}
           /\ job'[t] = [none EXCEPT !.cause = clock] /\ (pc'[t] = "recording" => fired < clock)
        \/ pc[t] \in {"acking", "yielding", "handling", "finding", "noting", "resolving"}
           /\ pc'[t] = "idle" /\ job'[t] = none
    <3>1. CASE t \in Consumers /\ Take(t)
      <4>1. PICK m : /\ pc[t] = "idle"
                     /\ pc' = [pc EXCEPT ![t] = IF m.kind = "ended" THEN "finding" ELSE "handling"]
                     /\ job' = [job EXCEPT ![t] = [none EXCEPT !.msg = m]]
        BY <1>1, <3>1 DEF Take, Goto, Keep
      <4>2. job'[t] = [none EXCEPT !.msg = m] /\ pc'[t] \in {"finding", "handling"}
        BY <1>0, <4>1
      <4>. QED
        BY <4>1, <4>2
    <3>2. CASE ListDue(t) \/ ListFires(t)
      BY <1>0, <1>1, <3>2 DEF ListDue, ListFires, Goto, Keep
    <3>3. CASE Ack(t) \/ Yield(t) \/ YieldClock(t) \/ Abandon(t)
      BY <1>0, <1>1, <3>3 DEF Ack, Yield, YieldClock, Abandon, Goto, Keep
    <3>. QED
      BY <1>3, <3>1, <3>2, <3>3
  <2>0. t \in Clocks => pc'[t] # "handling"
    BY <1>0, <1>3 DEF Take, Ack, ListDue, Yield, ListFires, YieldClock, Abandon, Goto
  <2>2. NewJob(t)
    <3>1. job'[t].todo = none.todo /\ job'[t].visited = none.visited
          /\ (job'[t].rest = none.rest \/ job'[t].rest = due)
          /\ (pc'[t] = "recording" => job'[t].msg = none.msg)
      BY <1>1, <2>1 DEF Fields
    <3>. QED
      BY <1>0, <1>1, <2>0, <2>1, <3>1 DEF NewJob
  <2>3. pc[t] \notin Closing /\ pc'[t] \notin Closing
    BY <2>1 DEF Closing
  <2>4. Leaves(t)
    BY <1>2, <2>3, LeavingAlone
  <2>5. Aways(t)
    <3>1. pc[t] \notin Walking /\ pc'[t] \notin Walking
          /\ pc[t] \notin {"checking", "resuming"} /\ pc'[t] \notin AtNode
          /\ pc'[t] \notin {"reviving", "resuming", "clearing"}
      BY <2>1 DEF Walking, AtNode
    <3>. QED
      BY <2>2, <3>1 DEF Aways
  <2>. QED
    BY <2>4, <2>5 DEF Elsewhere
<1>4. CASE Renew(t)
  <2>1. \/ pc[t] = "renewing" /\ pc'[t] = "yielding" /\ job'[t] = job[t]
        \/ pc[t] = "renewing" /\ pc'[t] = "reviving" /\ \E d \in job[t].rest :
              job'[t] = [none EXCEPT !.run = d.run, !.node = d.node, !.delay = d, !.rest = job[t].rest \ {d}]
    BY <1>0, <1>1, <1>4 DEF Renew, Goto, Keep
  <2>2. pc[t] \notin Closing /\ pc'[t] \notin Closing
    BY <2>1 DEF Closing
  <2>3. Leaves(t)
    BY <1>2, <2>2, LeavingAlone
  <2>4. (SameJob(t) /\ pc'[t] = "yielding") \/ Revives(t)
    <3>1. ASSUME NEW d \in job[t].rest, pc[t] = "renewing", pc'[t] = "reviving",
              job'[t] = [none EXCEPT !.run = d.run, !.node = d.node, !.delay = d, !.rest = job[t].rest \ {d}]
          PROVE  Revives(t)
      <4>1. /\ job'[t].run = d.run /\ job'[t].node = d.node /\ job'[t].delay = d
            /\ job'[t].rest = job[t].rest \ {d} /\ job'[t].todo = none.todo
        BY <1>1, <3>1 DEF Fields
      <4>. QED
        BY <1>1, <3>1, <4>1 DEF Revives
    <3>. QED
      BY <2>1, <3>1 DEF SameJob
  <2>5. Aways(t)
    <3>1. pc[t] \notin Walking /\ pc'[t] \notin Walking
          /\ pc[t] \notin {"checking", "resuming"} /\ pc'[t] \notin AtNode
          /\ pc'[t] \notin {"resuming", "clearing"} /\ pc'[t] \notin Starting
      BY <2>1 DEF Walking, AtNode, Starting
    <3>2. pc'[t] = "reviving" => Revives(t)
      BY <2>1, <2>4 DEF Revives, SameJob
    <3>. QED
      BY <2>4, <3>1, <3>2 DEF Aways
  <2>. QED
    BY <2>3, <2>5 DEF Elsewhere
<1>. QED
  BY <1>3, <1>4

LEMMA ElsewhereClosing ==
  ASSUME Placed, Rows, Jobs, NEW t \in Threads,
         CountWaits(t) \/ CountDelays(t) \/ Judge(t) \/ Close(t) \/ FailToClose(t)
  PROVE  Elsewhere(t)
<1>0. /\ pc = [u \in Threads |-> pc[u]] /\ pc[t] \in Places(t) /\ job = [u \in Threads |-> job[u]]
      /\ DOMAIN job[t] = Fields
      /\ run \in Seq(RunRow) /\ \A q \in DOMAIN run : run[q] \in RunRow
  BY JobFields DEF Placed, Jobs, Rows, Sound
<1>1. pc[t] \in Closing /\ SameTables /\ conv' = conv /\ pc'[t] \in Closing \cup {Over(t)}
  BY <1>0 DEF CountWaits, CountDelays, Judge, Close, FailToClose, Goto, dbVars, SameTables, Closing
<1>2. Over(t) \in {"acking", "renewing", "yielding"}
  BY DEF Over
<1>3. SameJob(t) \/ Judges(t)
  <2>1. CASE Judge(t)
    <3>1. PICK v : job'[t] = [job[t] EXCEPT !.verdict = v]
      BY <1>0, <2>1 DEF Judge, Keep
    <3>. QED
      BY <1>0, <2>1, <3>1 DEF Judge, Judges, Fields, Goto
  <2>. QED
    BY <2>1 DEF CountWaits, CountDelays, Close, FailToClose, SameJob
<1>4. Aways(t)
  <2>1. /\ pc[t] \notin Walking /\ pc[t] \notin {"checking", "resuming"}
        /\ pc'[t] \notin Walking \cup AtNode \cup Starting \cup {"reviving", "clearing"}
    BY <1>1, <1>2 DEF Closing, Walking, AtNode, Starting
  <2>2. pc'[t] \notin {"reviving", "resuming", "clearing"}
    BY <2>1 DEF AtNode
  <2>. QED
    BY <1>3, <2>1, <2>2 DEF Aways
<1>5. ASSUME Close(t)
      PROVE  /\ Unmarked /\ Unseen /\ run'[job[t].run].status # "running"
             /\ \A q \in DOMAIN run : run'[q].status = "running" => run[q].status = "running"
  <2>1. job[t].run \in DOMAIN run /\ job[t].verdict \in {"completed", "failed"}
    BY <1>5 DEF Jobs, Sound, Close, Goto, WithRun, Closing
  <2>2. run' = [run EXCEPT ![job[t].run].status = job[t].verdict]
    BY <1>5 DEF Close
  <2>3. PICK r, v : r = job[t].run /\ v = job[t].verdict
    OBVIOUS
  <2>4. /\ DOMAIN run' = DOMAIN run
        /\ \A q \in DOMAIN run : q # r => run'[q] = run[q]
        /\ run'[r] = [run[r] EXCEPT !.status = v]
    BY <1>0, <2>1, <2>2, <2>3
  <2>5. /\ run'[r].steps = run[r].steps /\ run'[r].failed = run[r].failed /\ run'[r].status = v
        /\ run'[r].visits = run[r].visits /\ run'[r].lost = run[r].lost
    BY <1>0, <2>1, <2>3, <2>4 DEF RunRow
  <2>. QED
    BY <2>1, <2>3, <2>4, <2>5 DEF Unmarked, Unseen
<1>6. ASSUME ~Close(t) PROVE run' = run
  BY <1>6 DEF CountWaits, CountDelays, Judge, FailToClose, dbVars
<1>7. Leaves(t)
  <2>1. CASE Close(t)
    BY <1>1, <1>5, <2>1 DEF Leaves
  <2>2. CASE CountWaits(t) \/ CountDelays(t) \/ Judge(t)
    <3>1. pc'[t] \in Closing \/ Paused(job[t].run)
      BY <1>0, <2>2 DEF CountWaits, CountDelays, Judge, Goto, Closing, Paused
    <3>2. run' = run
      BY <2>2 DEF CountWaits, CountDelays, Judge, dbVars
    <3>. QED
      BY <1>1, <3>1, <3>2 DEF Leaves, Unmarked, Unseen
  <2>3. CASE FailToClose(t)
    BY <1>1, <2>3 DEF Leaves, Unmarked, Unseen, FailToClose, dbVars, Erring
  <2>. QED
    BY <2>1, <2>2, <2>3
<1>. QED
  BY <1>4, <1>7 DEF Elsewhere

\* All there is.
Effect(t) ==
  \/ Elsewhere(t) \/ (\E n : Visited(t, n)) \/ Starts(t) \/ Refused(t) \/ Served(t) \/ Halts(t)
  \/ (\E out : Skipped(t, out)) \/ (\E c : Registered(t, c)) \/ Delayed(t) \/ Finishes(t)
  \/ (\E out : Resumes(t, out)) \/ Unresumed(t) \/ Opened(t) \/ Found(t) \/ Notes(t)
  \/ Resolves(t) \/ Checks(t) \/ Clears(t)

LEMMA ThreadEffects ==
  ASSUME Placed, Rows, Jobs, Budget, NEW t \in Threads, Step(t), Errand(t)
  PROVE  Effect(t)
<1>0. pc = [u \in Threads |-> pc[u]] /\ job[t].todo \in Seq(DOMAIN Graph.kind)
  BY DEF Errand, Placed
<1>1. CASE Handle(t) \/ HandleExternal(t) \/ HandleSprint(t) \/ Lead(t) \/ Revive(t)
           \/ LeadClock(t) \/ RecordFire(t)
  BY <1>1, ElsewhereSame DEF Effect
<1>2. CASE (t \in Consumers /\ Take(t)) \/ Ack(t) \/ ListDue(t) \/ Yield(t) \/ ListFires(t)
           \/ YieldClock(t) \/ Abandon(t) \/ Renew(t)
  BY <1>2, ElsewhereNew DEF Effect
<1>3. CASE CountWaits(t) \/ CountDelays(t) \/ Judge(t) \/ Close(t) \/ FailToClose(t)
  BY <1>3, ElsewhereClosing DEF Effect
<1>4. CASE Open(t)
  BY <1>4, ElsewhereSame, Opening DEF Effect
<1>5. CASE Find(t)
  BY <1>5, ElsewhereSame, Finding DEF Effect
<1>6. CASE Resume(t)
  BY <1>6, ElsewhereSame, Resuming DEF Effect
<1>7. CASE Look(t) \/ Apply(t) \/ Ask(t)
  BY <1>0, <1>7, Visits DEF Effect
<1>8. CASE StartConversation(t) \/ FailNode(t)
  BY <1>8, Asks, Refuses DEF Effect
<1>9. CASE Record(t)
  BY <1>0, <1>9, Answers DEF Effect
<1>10. CASE CreateWait(t)
  BY <1>10, Registering DEF Effect
<1>11. CASE CreateDelay(t)
  BY <1>11, Delays DEF Effect
<1>12. CASE EndWalk(t)
  BY <1>0, <1>12, Ends DEF Effect
<1>13. CASE Note(t)
  BY <1>13, Noting DEF Effect
<1>14. CASE Resolve(t) \/ Check(t) \/ Clear(t)
  BY <1>14, Deciding DEF Effect
<1>. QED
  BY <1>1, <1>2, <1>3, <1>4, <1>5, <1>6, <1>7, <1>8, <1>9, <1>10, <1>11, <1>12, <1>13, <1>14
  DEF Step
-----------------------------------------------------------------------------
(* What happens around the threads.                                        *)

Calm ==
  /\ UNCHANGED <<pc, job, run, waits, delays, nodes, active, conv>>
  /\ mail' = mail \/ \E i \in setting.watched : mail' = mail \cup {Finished(i)}
Turns(c) ==
  /\ UNCHANGED <<pc, job, run, waits, delays, nodes, active>>
  /\ c \in DOMAIN conv /\ (setting.early \/ ~Unregistered(c))
  /\ DOMAIN conv' = DOMAIN conv /\ \A d \in DOMAIN conv : d # c => conv'[d] = conv[d]
  /\ conv'[c].run = conv[c].run /\ conv'[c].node = conv[c].node
  /\ conv[c].status # "finished" /\ conv'[c].status # "running"
  /\ \E s, who : /\ mail' = mail \cup {Ended(c, s, who)}
                 /\ s = "finished" => conv'[c].status = "finished" /\ who = "runner"
Toggles == UNCHANGED <<pc, job, run, waits, delays, nodes, conv, mail>> /\ left.toggles > 0
Removes(n) ==
  /\ UNCHANGED <<pc, job, conv, active, mail>> /\ left.removes > 0
  /\ n \in nodes /\ nodes' = nodes \ {n} /\ waits' = {c \in waits : conv[c].node # n}
  /\ delays' = {d \in delays : d.node # n}
  /\ DOMAIN run' = DOMAIN run /\ \A q \in DOMAIN run :
       /\ run'[q].status = run[q].status /\ run'[q].failed = run[q].failed \ {n}
       /\ \A x \in DOMAIN Graph.kind : run'[q].steps[x] = IF x = n THEN 0 ELSE run[q].steps[x]
  /\ Unseen
Dies(t) ==
  /\ UNCHANGED <<waits, delays, nodes, active, conv>> /\ left.crashes > 0
  /\ pc'[t] = "idle" /\ job'[t] = NoJob
  /\ Unmarked /\ SameStatus
  /\ IF pc[t] = "acting" THEN Missed(t, job[t].run, job[t].node) ELSE Unseen

LEMMA Turning ==
  ASSUME Rows, Budget, NEW c \in DOMAIN conv, EndConversation(c) \/ StopConversation(c)
  PROVE  Turns(c)
<1>0. /\ IsList(conv) /\ DOMAIN conv = 1..Len(conv) /\ Len(conv) \in Nat
      /\ DOMAIN conv[c] = {"run", "node", "status"}
  BY DEF Rows, IsList
<1>1. /\ UNCHANGED <<pc, job, run, waits, delays, nodes, active>>
      /\ setting.early \/ ~Unregistered(c)
  BY DEF EndConversation, StopConversation
<1>2. PICK s, told, who :
        /\ conv' = [conv EXCEPT ![c].status = s] /\ mail' = mail \cup {Ended(c, told, who)}
        /\ s # "running" /\ conv[c].status # "finished"
        /\ told = "finished" => s = "finished" /\ who = "runner"
  <2>1. CASE EndConversation(c)
    <3>1. PICK s : /\ \/ conv[c].status = "running" /\ s \in setting.outcomes
                      \/ conv[c].status = "stopping" /\ s \in {"stopped", "finished"}
                   /\ conv' = [conv EXCEPT ![c].status = s]
                   /\ mail' = mail \cup {Ended(c, s, "runner")}
      <4>1. CASE conv[c].status = "running"
        BY <2>1, <4>1 DEF EndConversation
      <4>2. CASE conv[c].status = "stopping"
        BY <2>1, <4>2 DEF EndConversation
      <4>3. conv[c].status \in {"running", "stopping"}
        BY <2>1 DEF EndConversation
      <4>. QED
        BY <4>1, <4>2, <4>3
    <3>2. setting.outcomes \subseteq {"finished", "failed"}
      BY SettingsAssumption DEF Budget
    <3>3. s # "running" /\ conv[c].status # "finished"
      BY <3>1, <3>2
    <3>. QED
      BY <3>1, <3>3
  <2>2. CASE StopConversation(c)
    <3>1. PICK s, told, who : s = "stopping" /\ told = "stopped" /\ who = "api"
      OBVIOUS
    <3>2. /\ conv' = [conv EXCEPT ![c].status = s]
          /\ mail' = mail \cup {Ended(c, told, who)} /\ conv[c].status = "running"
      BY <2>2, <3>1 DEF StopConversation
    <3>3. s # "running" /\ conv[c].status # "finished" /\ told # "finished"
      BY <3>1, <3>2
    <3>. QED
      BY <3>2, <3>3
  <2>. QED
    BY <2>1, <2>2
<1>3. PICK new : new = [conv[c] EXCEPT !.status = s]
  OBVIOUS
<1>4. new.run = conv[c].run /\ new.node = conv[c].node /\ new.status = s
  BY <1>0, <1>3
<1>5. conv' = [conv EXCEPT ![c] = new]
  BY <1>2, <1>3
<1>6. LET s2 == [conv EXCEPT ![c] = new] IN
        IsList(s2) /\ Len(s2) = Len(conv)
        /\ \A d \in DOMAIN conv : s2[d] = IF d = c THEN new ELSE conv[d]
  BY <1>0, Lists
<1>7. DOMAIN conv' = DOMAIN conv /\ conv'[c] = new
      /\ \A d \in DOMAIN conv : d # c => conv'[d] = conv[d]
  BY <1>0, <1>5, <1>6 DEF IsList
<1>8. \E x, y : /\ mail' = mail \cup {Ended(c, x, y)}
                /\ x = "finished" => conv'[c].status = "finished" /\ y = "runner"
  BY <1>2, <1>4, <1>7
<1>9. conv[c].status # "finished" /\ conv'[c].status # "running"
  BY <1>2, <1>4, <1>7
<1>. QED
  BY <1>1, <1>4, <1>7, <1>8, <1>9 DEF Turns

LEMMA Removing ==
  ASSUME Rows, NEW n \in nodes, RemoveNode(n) PROVE Removes(n)
<1>0. run \in Seq(RunRow) /\ \A q \in DOMAIN run : run[q] \in RunRow
  BY DEF Rows
<1>1. /\ UNCHANGED <<pc, job, conv, active, mail>> /\ left.removes > 0
      /\ nodes' = nodes \ {n} /\ waits' = {c \in waits : conv[c].node # n}
      /\ delays' = {d \in delays : d.node # n}
      /\ run' = [r \in DOMAIN run |-> [run[r] EXCEPT !.steps[n] = 0, !.failed = @ \ {n}]]
  BY DEF RemoveNode, Spend, streamVars
<1>2. ASSUME NEW q \in DOMAIN run
      PROVE  /\ run'[q].status = run[q].status /\ run'[q].failed = run[q].failed \ {n}
             /\ \A x \in DOMAIN Graph.kind : run'[q].steps[x] = IF x = n THEN 0 ELSE run[q].steps[x]
             /\ run'[q].visits = run[q].visits /\ run'[q].lost = run[q].lost
  <2>1. run'[q] = [run[q] EXCEPT !.steps[n] = 0, !.failed = @ \ {n}] /\ run[q] \in RunRow
    BY <1>0, <1>1
  <2>. QED
    BY <2>1 DEF RunRow
<1>3. DOMAIN run' = DOMAIN run
  BY <1>1
<1>. QED
  BY <1>1, <1>2, <1>3 DEF Removes, Unseen

LEMMA WorldEffects ==
  ASSUME Rows, Budget, [Next]_vars, ~\E t \in Threads : Step(t) \/ Crash(t)
  PROVE  Calm \/ Toggles \/ (\E c : Turns(c)) \/ \E n : Removes(n)
<1>1. CASE \E c \in DOMAIN conv : EndConversation(c) \/ StopConversation(c)
  BY <1>1, Turning
<1>2. CASE (\E d \in delays : FallDue(d)) \/ Occur
  BY <1>2 DEF FallDue, Occur, dbVars, streamVars, Calm
<1>3. CASE Toggle
  BY <1>3 DEF Toggle, Toggles, Spend, streamVars
<1>4. CASE (\E i \in setting.watched : FinishTask(i)) \/ \E kind \in {"wait", "clock"} : Lapse(kind)
  BY <1>4 DEF FinishTask, Lapse, dbVars, streamVars, Calm
<1>5. CASE \E n \in nodes : RemoveNode(n)
  BY <1>5, Removing
<1>6. CASE UNCHANGED vars
  BY <1>6 DEF vars, dbVars, streamVars, Calm
<1>. QED
  BY <1>1, <1>2, <1>3, <1>4, <1>5, <1>6 DEF Next

LEMMA Dying ==
  ASSUME Placed, Rows, Jobs, NEW t \in Threads, Crash(t) PROVE Dies(t)
<1>1. /\ UNCHANGED <<waits, delays, nodes, active, conv>> /\ left.crashes > 0
      /\ pc'[t] = "idle" /\ job'[t] = NoJob
  BY DEF Crash, Spend, Keep, Placed, Jobs
<1>2. CASE pc[t] = "acting"
  <2>1. job[t].run \in DOMAIN run /\ job[t].node \in DOMAIN Graph.kind
    BY <1>2 DEF Jobs, Sound, WithRun, Walking
  <2>. QED
    BY <1>1, <1>2, <2>1, VisitsRun DEF Crash, Dies
<1>3. CASE pc[t] # "acting"
  BY <1>1, <1>3 DEF Crash, Dies, Unmarked, Unseen, SameStatus
<1>. QED
  BY <1>2, <1>3

-----------------------------------------------------------------------------
(* What every step leaves as it is.                                        *)

LEMMA OthersStay ==
  ASSUME Placed, Jobs, NEW t \in Threads, Step(t) \/ Crash(t)
  PROVE  \A u \in Threads \ {t} : pc'[u] = pc[u] /\ job'[u] = job[u]
BY ThreadMoves DEF Moved, Placed, Jobs

LEMMA SettingStays ==
  ASSUME [Next]_vars
  PROVE  /\ setting' = setting /\ Graph' = Graph /\ ByTrigger' = ByTrigger /\ ByDelay' = ByDelay
         /\ Agents' = Agents /\ \A m : ByAgent(m)' = ByAgent(m)
         /\ \A n, kind : Is(n, kind)' = Is(n, kind)
         /\ \A n : Outs(n)' = Outs(n)
<1>1. setting' = setting
  BY Frame DEF tables, RemoveNode
<1>2. Graph' = Graph /\ ByTrigger' = ByTrigger /\ ByDelay' = ByDelay
  BY <1>1 DEF Graph, ByTrigger, ByDelay
<1>3. \A n, kind : Is(n, kind)' = Is(n, kind)
  BY <1>2 DEF Is
<1>4. \A m : ByAgent(m)' = ByAgent(m)
  BY <1>1 DEF ByAgent
<1>5. Agents' = Agents
  BY <1>2, <1>3 DEF Agents
<1>6. \A n : Outs(n)' = Outs(n)
  BY <1>2 DEF Outs
<1>. QED
  BY <1>1, <1>2, <1>3, <1>4, <1>5, <1>6

\* Executions are recorded and not forgotten, but for those of a node that is removed.
Grown(r) ==
  /\ StepsOf(r) \subseteq StepsOf(r)' /\ run[r].failed \subseteq run'[r].failed
  /\ \A n \in DOMAIN Graph.kind : run[r].steps[n] <= run'[r].steps[n]

LEMMA MarksGrow ==
  ASSUME Rows, Rows', [Next]_vars,
         Unmarked \/ (\E q, n : Stepped(q, n)) \/ \E q, n : Failed(q, n)
  PROVE  \A r \in DOMAIN run : r \in DOMAIN run' /\ Grown(r)
<1> SUFFICES ASSUME NEW r \in DOMAIN run PROVE r \in DOMAIN run' /\ Grown(r)
  OBVIOUS
<1>1. r \in DOMAIN run'
  BY DEF Unmarked, Stepped, Failed
<1>2. /\ run[r].failed \subseteq DOMAIN Graph.kind
      /\ \A n \in DOMAIN Graph.kind : run[r].steps[n] \in Nat
      /\ StepsOf(r) = {n \in DOMAIN Graph.kind : run[r].steps[n] > 0 \/ n \in run[r].failed}
  BY Executed
<1>3. StepsOf(r)' = {n \in DOMAIN Graph.kind : run'[r].steps[n] > 0 \/ n \in run'[r].failed}
      /\ \A n \in DOMAIN Graph.kind : run'[r].steps[n] \in Nat
  BY <1>1, SettingStays, ExecutedNext
<1>4. /\ run[r].failed \subseteq run'[r].failed
      /\ \A n \in DOMAIN Graph.kind : run[r].steps[n] <= run'[r].steps[n]
  <2>1. CASE Unmarked
    BY <1>2, <2>1 DEF Unmarked
  <2>2. ASSUME NEW q, NEW n, Stepped(q, n)
        PROVE  /\ run[r].failed \subseteq run'[r].failed
               /\ \A x \in DOMAIN Graph.kind : run[r].steps[x] <= run'[r].steps[x]
    BY <1>2, <2>2 DEF Stepped
  <2>3. ASSUME NEW q, NEW n, Failed(q, n)
        PROVE  /\ run[r].failed \subseteq run'[r].failed
               /\ \A x \in DOMAIN Graph.kind : run[r].steps[x] <= run'[r].steps[x]
    <3>1. run'[r].steps = run[r].steps /\ run[r].failed \subseteq run'[r].failed
      BY <2>3 DEF Failed
    <3>. QED
      BY <1>2, <3>1
  <2>. QED
    BY <2>1, <2>2, <2>3
<1>5. StepsOf(r) \subseteq StepsOf(r)'
  BY <1>2, <1>3, <1>4
<1>. QED
  BY <1>1, <1>4, <1>5 DEF Grown

LEMMA StepGrows ==
  ASSUME Rows, Rows', [Next]_vars, NEW t \in Threads, Effect(t)
  PROVE  nodes' = nodes /\ active' = active /\ \A r \in DOMAIN run : r \in DOMAIN run' /\ Grown(r)
<1>1. nodes' = nodes /\ active' = active
  BY DEF Effect, Elsewhere, Leaves, Visited, Starts, Refused, Served, Halts, Skipped, Registered, Delayed,
         Finishes, Resumes, Unresumed, Opened, Found, Notes, Resolves, Checks, Clears, SameTables
<1>2. \/ Opened(t)
      \/ Unmarked \/ (\E q, n : Stepped(q, n)) \/ \E q, n : Failed(q, n)
  BY DEF Effect, Elsewhere, Leaves, Visited, Starts, Refused, Served, Halts, Skipped, Registered, Delayed,
         Finishes, Resumes, Unresumed, Found, Notes, Resolves, Checks, Clears, Marks, Fails, Unrecorded
<1>3. ASSUME Opened(t), NEW r \in DOMAIN run PROVE r \in DOMAIN run' /\ Grown(r)
  <2>1. r \in DOMAIN run' /\ run'[r] = run[r]
    BY <1>3 DEF Opened
  <2>2. \A n \in DOMAIN Graph.kind : run[r].steps[n] \in Nat
    BY Executed
  <2>3. StepsOf(r)' = StepsOf(r)
    BY <2>1 DEF StepsOf
  <2>. QED
    BY <2>1, <2>2, <2>3 DEF Grown
<1>. QED
  BY <1>1, <1>2, <1>3, MarksGrow

\* What has been visited, and forgotten, stays so.
Trodden(r) ==
  /\ r \in DOMAIN run' /\ run[r].lost \subseteq run'[r].lost
  /\ \A n \in DOMAIN Graph.kind : run[r].visits[n] <= run'[r].visits[n]

LEMMA TracesStay ==
  ASSUME Placed, Rows, Jobs, Budget, [Next]_vars, \A t \in Threads : Errand(t), NEW r \in DOMAIN run
  PROVE  Trodden(r)
<1>0. \A n \in DOMAIN Graph.kind : run[r].visits[n] \in Nat
  BY Executed
<1>1. ASSUME DOMAIN run' = DOMAIN run, Unseen PROVE Trodden(r)
  BY <1>0, <1>1 DEF Unseen, Trodden
<1>2. ASSUME DOMAIN run' = DOMAIN run, NEW q, NEW n, Seen(q, n) PROVE Trodden(r)
  BY <1>0, <1>2 DEF Seen, Trodden
<1>3. ASSUME DOMAIN run' = DOMAIN run, NEW t, NEW q, NEW n, Missed(t, q, n) PROVE Trodden(r)
  <2>1. run'[r].visits = run[r].visits /\ run[r].lost \subseteq run'[r].lost
    BY <1>3 DEF Missed
  <2>. QED
    BY <1>0, <1>3, <2>1 DEF Trodden
<1>4. ASSUME NEW t, Opened(t) PROVE Trodden(r)
  <2>1. r \in DOMAIN run' /\ run'[r] = run[r]
    BY <1>4 DEF Opened
  <2>. QED
    BY <1>0, <2>1 DEF Trodden
<1>5. ASSUME NEW t \in Threads, Step(t) PROVE Trodden(r)
  <2>1. Effect(t)
    BY <1>5, ThreadEffects
  <2>2. Opened(t) \/ DOMAIN run' = DOMAIN run
    BY <2>1
    DEF Effect, Elsewhere, Leaves, Visited, Starts, Refused, Served, Halts, Skipped, Registered,
        Delayed, Finishes, Resumes, Unresumed, Found, Notes, Resolves, Checks, Clears,
        Marks, Fails, Unrecorded, Unmarked, Stepped, Failed
  <2>3. Opened(t) \/ Unseen \/ (\E q, n : Seen(q, n)) \/ \E q, n : Missed(t, q, n)
    BY <2>1
    DEF Effect, Elsewhere, Leaves, Visited, Starts, Refused, Served, Halts, Skipped, Registered,
        Delayed, Finishes, Resumes, Unresumed, Found, Notes, Resolves, Checks, Clears,
        Marks, Fails, Unrecorded
  <2>. QED
    BY <1>1, <1>2, <1>3, <1>4, <2>2, <2>3
<1>6. ASSUME NEW t \in Threads, Crash(t) PROVE Trodden(r)
  BY <1>1, <1>3, <1>6, Dying DEF Dies, Unmarked
<1>7. CASE ~\E t \in Threads : Step(t) \/ Crash(t)
  <2>1. DOMAIN run' = DOMAIN run /\ Unseen
    BY <1>7, WorldEffects DEF Calm, Toggles, Turns, Removes, Unseen
  <2>. QED
    BY <1>1, <2>1
<1>. QED
  BY <1>5, <1>6, <1>7

\* Who hears of the end of a conversation hears of one that exists and has ended.
LEMMA HeardOf ==
  ASSUME TypeOK, Told, NEW k \in Consumers, Hears(k), pc[k] # "idle"
  PROVE  /\ job[k].msg.conv \in DOMAIN conv /\ conv[job[k].msg.conv].status # "running"
         /\ job[k].msg.status = "finished" => conv[job[k].msg.conv].status = "finished"
BY DEF TypeOK, Told, Hears, Known, Idle

-----------------------------------------------------------------------------
(* WalkBase: what each thread is about.                                    *)

LEMMA OthersErrands ==
  ASSUME TypeOK, Placed, Jobs, Told, Kept, [Next]_vars,
         NEW u \in Threads, Errand(u), pc'[u] = pc[u], job'[u] = job[u]
  PROVE  Errand(u)'
<1>1. Graph' = Graph /\ \A n, kind : Is(n, kind)' = Is(n, kind)
  BY SettingStays
<1>2. clock > 0 => clock' > 0
  BY DEF Kept, Jobs
<1>3. Hears(u)' = Hears(u)
  BY DEF Hears
<1>4. ASSUME Hears(u), pc[u] # "idle"
      PROVE  conv'[job[u].msg.conv].run = conv[job[u].msg.conv].run
             /\ conv'[job[u].msg.conv].node = conv[job[u].msg.conv].node
  <2>1. u \in Consumers
    BY <1>4 DEF Hears
  <2>. QED
    BY <1>4, <2>1, HeardOf DEF Kept
<1>5. pc[u] \in AtNode \cup WithRun => pc[u] # "idle"
  BY DEF AtNode, WithRun, Walking, Closing
<1>. QED
  BY <1>1, <1>2, <1>3, <1>4, <1>5 DEF Errand

\* A thread that goes on with what it is about.
LEMMA Onward ==
  ASSUME TypeOK, Told, Kept, [Next]_vars, NEW t \in Threads, Errand(t),
         job'[t].msg = job[t].msg, job'[t].run = job[t].run, job'[t].rest = job[t].rest,
         job'[t].todo \in Seq(DOMAIN Graph.kind), pc[t] \in WithRun,
         pc'[t] \notin Starting, pc'[t] # "reviving", t \in Waiters => pc'[t] # "resuming",
         pc'[t] = "pausing" => Is(job'[t].node, "wait"),
         pc'[t] \in {"acting", "registering"} => job'[t].node \in job'[t].visited,
         pc'[t] = "acting" =>
           Is(job'[t].node, "agent") \/ (job'[t].want = 0 /\ job'[t].convs = <<>>),
         pc'[t] = "registering" => Is(job'[t].node, "agent"),
         t \in Consumers /\ pc'[t] \in AtNode => pc[t] \in AtNode /\ job'[t].node = job[t].node
  PROVE  Errand(t)'
<1>1. Graph' = Graph /\ \A n, kind : Is(n, kind)' = Is(n, kind)
  BY SettingStays
<1>2. Hears(t)' = Hears(t)
  BY DEF Hears
<1>3. pc[t] # "idle"
  BY DEF WithRun, Walking, Closing
<1>4. ASSUME Hears(t)
      PROVE  conv'[job[t].msg.conv].run = conv[job[t].msg.conv].run
             /\ conv'[job[t].msg.conv].node = conv[job[t].msg.conv].node
  <2>1. t \in Consumers
    BY <1>4 DEF Hears
  <2>. QED
    BY <1>3, <1>4, <2>1, HeardOf DEF Kept
<1>. QED
  BY <1>1, <1>2, <1>4 DEF Errand, Starting

LEMMA ErrandElsewhere ==
  ASSUME TypeOK, Placed, Jobs, Told, Errands, Kept, [Next]_vars, NEW t \in Threads, Elsewhere(t),
         pc'[t] \in Places(t)
  PROVE  Errand(t)'
<1>0. Errand(t) /\ due \subseteq delays /\ \A d \in delays : Is(d.node, "wait")
  BY DEF Errands, TypeOK
<1>1. Graph' = Graph /\ \A n, kind : Is(n, kind)' = Is(n, kind)
  BY SettingStays
<1>2. clock > 0 => clock' > 0
  BY DEF Kept, Jobs
<1>3. SameJob(t) \/ NewJob(t) \/ Revives(t) \/ Judges(t)
  BY DEF Elsewhere, Aways
<1>4. job'[t].todo \in Seq(DOMAIN Graph.kind) /\ \A d \in job'[t].rest : Is(d.node, "wait")
  BY <1>0, <1>3 DEF Errand, SameJob, NewJob, Revives, Judges
<1>5. pc'[t] \in Starting => job'[t].visited = {} /\ (t \in Clocks => job'[t].msg = NoJob.msg /\ clock' > 0)
  <2>1. ASSUME NewJob(t), pc'[t] \in Starting, t \in Clocks PROVE job'[t].msg = NoJob.msg /\ clock' > 0
    <3>1. pc'[t] = "recording"
      BY <2>1 DEF NewJob, Starting
    <3>2. fired \in Nat /\ clock \in Nat
      BY DEF TypeOK, Jobs
    <3>. QED
      BY <1>2, <2>1, <3>1, <3>2 DEF NewJob
  <2>2. ASSUME SameJob(t), pc[t] \in Starting, pc'[t] \in Starting
        PROVE  job'[t].visited = {} /\ (t \in Clocks => job'[t].msg = NoJob.msg /\ clock' > 0)
    BY <1>0, <1>2, <2>2 DEF SameJob, Errand, Starting
  <2>. QED
    BY <2>1, <2>2 DEF Elsewhere, Aways, NewJob
<1>6. pc'[t] \in {"reviving", "resuming"} => Is(job'[t].node, "wait")
  <2>1. ASSUME Revives(t) PROVE Is(job'[t].node, "wait")
    BY <1>0, <2>1 DEF Revives, Errand
  <2>2. ASSUME pc[t] = "reviving", SameJob(t) PROVE Is(job'[t].node, "wait")
    <3>1. t \in Waiters
      BY <2>2 DEF Placed, Places, Walking, Closing
    <3>. QED
      BY <1>0, <2>2, <3>1 DEF SameJob, Errand
  <2>. QED
    BY <2>1, <2>2 DEF Elsewhere, Aways
<1>7. pc'[t] \notin Walking /\ (t \in Consumers => pc'[t] \notin AtNode)
  BY DEF Elsewhere, Aways
<1>8. ASSUME Hears(t)', pc'[t] \in WithRun PROVE job'[t].run = conv'[job'[t].msg.conv].run
  <2>1. t \in Consumers
    BY <1>8 DEF Hears
  <2>2. pc'[t] \in Closing
    BY <1>7, <1>8, <2>1 DEF WithRun, Places, AtNode
  <2>3. pc[t] \in Closing /\ (SameJob(t) \/ Judges(t))
    BY <1>3, <2>2 DEF Elsewhere, Leaves, NewJob, Revives, Closing
  <2>4. job'[t].run = job[t].run /\ job'[t].msg = job[t].msg
    BY <2>3 DEF SameJob, Judges
  <2>5. Hears(t) /\ pc[t] \in WithRun /\ pc[t] # "idle"
    BY <1>8, <2>3, <2>4 DEF Hears, WithRun, Closing
  <2>6. job[t].run = conv[job[t].msg.conv].run
    BY <1>0, <2>5 DEF Errand
  <2>. QED
    BY <2>1, <2>4, <2>5, <2>6, HeardOf DEF Kept
<1>. QED
  BY <1>1, <1>4, <1>5, <1>6, <1>7, <1>8 DEF Errand, Walking, Starting

\* Who opens a run does so for a trigger, and not for the end of a conversation.
LEMMA OpensWith ==
  ASSUME TypeOK, Placed, Jobs, Streams, Budget, Told, NEW t \in Threads, Errand(t),
         pc[t] = "opening"
  PROVE  /\ job[t].msg.about \in DOMAIN Graph.first
         /\ ~Hears(t) /\ t \notin Waiters /\ job[t].visited = {}
<1>1. t \in Consumers => Triggers(job[t].msg) /\ job[t].msg.kind # "ended"
  BY DEF Streams, Reads, Triggers
<1>2. CASE t \in Consumers
  BY <1>1, <1>2 DEF TypeOK, Told, Known, Idle, Hears, Errand
<1>3. CASE t \in Clocks
  <2>1. job[t].msg = NoJob.msg /\ clock > 0
    BY <1>3 DEF Errand
  <2>2. job[t].msg.about = "it" /\ setting.occurrences > 0
    <3>1. setting.occurrences \in Nat /\ clock \in Nat /\ clock <= setting.occurrences
      BY SettingsAssumption DEF Budget, Jobs
    <3>2. NoJob.msg.about = "it"
      BY DEF NoJob, Event
    <3>. QED
      BY <2>1, <3>1, <3>2
  <2>. QED
    BY <1>3, <2>2, GraphsAssumption DEF Budget, Graph, Hears, Errand
<1>4. t \notin Waiters
  BY DEF Placed, Places, Walking, Closing
<1>. QED
  BY <1>2, <1>3, <1>4 DEF Threads

LEMMA ErrandEffect ==
  ASSUME TypeOK, Placed, Rows, Jobs, Streams, Budget, Told, Errands, Kept, [Next]_vars,
         NEW t \in Threads, Effect(t), pc'[t] \in Places(t)
  PROVE  Errand(t)'
<1>0. /\ Errand(t) /\ job[t].todo \in Seq(DOMAIN Graph.kind) /\ nodes \subseteq DOMAIN Graph.kind
      /\ pc[t] \in Places(t)
  BY DEF Errands, Errand, Rows, Placed
<1>1. Graph' = Graph /\ \A n, kind : Is(n, kind)' = Is(n, kind)
  BY SettingStays
<1>n. NoJob.todo = <<>> /\ NoJob.todo \in Seq(DOMAIN Graph.kind)
  BY NoneAsked DEF NoJob
<1>2. CASE Elsewhere(t)
  BY <1>2, ErrandElsewhere
<1>3. ASSUME NEW n, Visited(t, n) PROVE Errand(t)'
  <2>1. /\ pc[t] = "walking" /\ pc'[t] = "acting"
        /\ Is(n, "agent") \/ (job'[t].want = 0 /\ job'[t].convs = <<>>)
    BY <1>3 DEF Visited
  <2>2. /\ job'[t].msg = job[t].msg /\ job'[t].run = job[t].run /\ job'[t].rest = job[t].rest
        /\ job'[t].todo \in Seq(DOMAIN Graph.kind) /\ job'[t].node = n /\ n \in job'[t].visited
    BY <1>3 DEF Visited, SameErrand
  <2>. QED
    BY <1>0, <2>1, <2>2, Onward DEF WithRun, Walking, Starting, AtNode
<1>4. CASE Starts(t) \/ Refused(t) \/ Served(t) \/ Halts(t) \/ (\E out : Skipped(t, out))
           \/ (\E c : Registered(t, c)) \/ Delayed(t)
  <2>1. /\ pc[t] \in {"acting", "registering", "pausing"}
        /\ pc'[t] \in {"walking", "acting", "registering", "pausing"}
        /\ pc'[t] = "acting" => Starts(t)
        /\ pc'[t] = "pausing" => Is(job[t].node, "wait")
        /\ pc'[t] = "registering" => Served(t) \/ pc[t] = "registering"
        /\ pc'[t] # "walking" => pc[t] # "pausing"
    BY <1>4 DEF Starts, Refused, Served, Halts, Skipped, Registered, Delayed
  <2>2. /\ job'[t].msg = job[t].msg /\ job'[t].run = job[t].run /\ job'[t].rest = job[t].rest
        /\ job'[t].todo \in Seq(DOMAIN Graph.kind) /\ job'[t].node = job[t].node
        /\ job'[t].visited = job[t].visited
    BY <1>0, <1>4
    DEF Starts, Refused, Served, Halts, Skipped, Registered, Delayed, SameErrand, SamePath
  <2>3. pc'[t] \in {"acting", "registering"} =>
           Is(job'[t].node, "agent") /\ job'[t].node \in job'[t].visited
    <3>1. CASE Starts(t)
      BY <1>0, <2>2, <3>1 DEF Errand, Starts
    <3>2. CASE Served(t)
      BY <1>0, <2>2, <3>2 DEF Errand, Served
    <3>3. CASE pc[t] = "registering"
      BY <1>0, <2>2, <3>3 DEF Errand
    <3>. QED
      BY <2>1, <3>1, <3>2, <3>3
  <2>. QED
    BY <1>0, <2>1, <2>2, <2>3, Onward DEF WithRun, Walking, Starting, AtNode
<1>5. CASE Finishes(t) \/ Unresumed(t) \/ Checks(t) \/ Clears(t) \/ Resolves(t) \/ Notes(t)
  <2>1. /\ pc[t] \in {"walking", "resuming", "checking", "clearing", "resolving", "noting"}
        /\ pc'[t] \in {"clearing", "counting waits", "resuming", "renewing", "checking", "resolving"}
    BY <1>5 DEF Finishes, Unresumed, Checks, Clears, Resolves, Notes
  <2>4. pc'[t] \in AtNode => pc[t] \in AtNode /\ t \in Consumers
    <3>1. CASE Finishes(t) \/ Clears(t)
      BY <3>1 DEF Finishes, Clears, AtNode
    <3>2. CASE Unresumed(t) \/ Checks(t) \/ Resolves(t) \/ Notes(t)
      BY <3>2 DEF Unresumed, Checks, Resolves, Notes, AtNode
    <3>. QED
      BY <1>5, <3>1, <3>2
  <2>2. /\ job'[t].msg = job[t].msg /\ job'[t].run = job[t].run /\ job'[t].rest = job[t].rest
        /\ job'[t].todo \in Seq(DOMAIN Graph.kind) /\ job'[t].node = job[t].node
    BY <1>0, <1>n, <1>5
    DEF Finishes, Unresumed, Checks, Clears, Resolves, Notes, SameErrand, SamePath
  <2>3. t \in Waiters => pc'[t] # "resuming"
    BY <2>4 DEF AtNode
  <2>. QED
    BY <1>0, <2>1, <2>2, <2>3, <2>4, Onward DEF WithRun, Walking, Starting
<1>6. ASSUME NEW out, Resumes(t, out) PROVE Errand(t)'
  <2>1. /\ pc[t] = "resuming" /\ pc'[t] = "walking"
        /\ job'[t].msg = job[t].msg /\ job'[t].run = job[t].run /\ job'[t].rest = job[t].rest
    BY <1>6 DEF Resumes, SameErrand
  <2>2. job'[t].todo \in Seq(DOMAIN Graph.kind)
    <3>1. CASE job[t].node \in nodes
      BY <1>0, <1>6, <3>1, OutsAreNodes DEF Resumes
    <3>2. CASE job[t].node \notin nodes
      BY <1>6, <1>n, <3>2 DEF Resumes
    <3>. QED
      BY <3>1, <3>2
  <2>. QED
    BY <1>0, <2>1, <2>2, Onward DEF WithRun, Walking, Starting, AtNode
<1>7. CASE Opened(t)
  <2>1. /\ pc[t] = "opening" /\ pc'[t] = "walking" /\ job'[t].rest = job[t].rest
        /\ job'[t].msg = job[t].msg /\ job'[t].todo = Graph.first[job[t].msg.about]
    BY <1>7 DEF Opened
  <2>2. job[t].msg.about \in DOMAIN Graph.first /\ ~Hears(t)
    BY <1>0, <2>1, OpensWith
  <2>4. job'[t].todo \in Seq(DOMAIN Graph.kind)
    BY <2>1, <2>2, OutsAreNodes
  <2>5. ~Hears(t)'
    BY <2>1, <2>2 DEF Hears
  <2>. QED
    BY <1>0, <1>1, <2>1, <2>4, <2>5 DEF Errand, Starting, AtNode
<1>8. CASE Found(t)
  <2>1. PICK c : c = job[t].msg.conv
    OBVIOUS
  <2>2. /\ t \in Consumers /\ pc[t] = "finding" /\ pc'[t] = "noting"
        /\ job'[t].msg = job[t].msg /\ job'[t].rest = job[t].rest /\ job'[t].todo = job[t].todo
        /\ job'[t].run = conv[c].run /\ job'[t].node = conv[c].node /\ conv' = conv
    BY <1>8, <2>1 DEF Found
  <2>3. job[t].msg.kind = "ended"
    BY <2>2 DEF Streams, Reads, Hearing
  <2>4. Hears(t)'
    BY <2>2, <2>3 DEF Hears
  <2>5. t \notin Waiters
    BY <2>2
  <2>. QED
    BY <1>0, <1>1, <2>1, <2>2, <2>4, <2>5 DEF Errand
<1>. QED
  BY <1>2, <1>3, <1>4, <1>5, <1>6, <1>7, <1>8 DEF Effect

LEMMA ErrandsStep ==
  ASSUME IInv, Streams, Budget, Told, Errands, [Next]_vars PROVE Errands'
<1>0. TypeOK /\ Placed /\ Rows /\ Jobs /\ Kept /\ Rows'
  BY TablesKept, RowsStep DEF IInv
<1>1. Graph' = Graph /\ \A n, kind : Is(n, kind)' = Is(n, kind)
  BY SettingStays
<1>2. ASSUME NEW t \in Threads, Step(t) PROVE Errands'
  <2>1. Effect(t) /\ pc'[t] \in Places(t)
    BY <1>0, <1>2, ThreadEffects, ThreadMoves DEF Errands, Moved
  <2>2. ASSUME NEW u \in Threads PROVE Errand(u)'
    <3>1. CASE u = t
      BY <1>0, <2>1, <3>1, ErrandEffect
    <3>2. CASE u # t
      BY <1>0, <1>2, <3>2, OthersStay, OthersErrands DEF Errands
    <3>. QED
      BY <3>1, <3>2
  <2>3. \A c \in DOMAIN conv' : Is(conv'[c].node, "agent")
    <3>1. CASE conv' = conv
      BY <3>1 DEF Errands
    <3>2. CASE Starts(t)
      <4>1. Is(job[t].node, "agent")
        BY <3>2 DEF Errands, Errand, Starts
      <4>. QED
        BY <3>2, <4>1 DEF Errands, Starts
    <3>. QED
      BY <2>1, <3>1, <3>2
      DEF Effect, Elsewhere, Leaves, Visited, Refused, Served, Halts, Skipped, Registered, Delayed,
         Finishes, Resumes, Unresumed, Opened, Found, Notes, Resolves, Checks, Clears
  <2>4. \A d \in delays' : Is(d.node, "wait")
    <3>1. CASE delays' \subseteq delays
      BY <3>1 DEF Errands
    <3>2. CASE Delayed(t)
      <4>1. Is(job[t].node, "wait")
        BY <3>2 DEF Errands, Errand, Delayed
      <4>. QED
        BY <3>2, <4>1 DEF Errands, Delayed
    <3>. QED
      BY <2>1, <3>1, <3>2
      DEF Effect, Elsewhere, Leaves, Visited, Starts, Refused, Served, Halts, Skipped, Registered,
         Finishes, Resumes, Unresumed, Opened, Found, Notes, Resolves, Checks, Clears, SameTables
  <2>. QED
    BY <1>1, <2>2, <2>3, <2>4 DEF Errands
<1>3. ASSUME NEW t \in Threads, Crash(t) PROVE Errands'
  <2>1. Dies(t)
    BY <1>0, <1>3, Dying
  <2>2. ASSUME NEW u \in Threads PROVE Errand(u)'
    <3>1. CASE u = t
      <4>1. job'[t] = NoJob /\ pc'[t] = "idle"
        BY <2>1 DEF Dies
      <4>. QED
        BY <1>1, <3>1, <4>1, NoneAsked DEF Errand, AtNode, WithRun, Walking, Closing
    <3>2. CASE u # t
      BY <1>0, <1>3, <3>2, OthersStay, OthersErrands DEF Errands
    <3>. QED
      BY <3>1, <3>2
  <2>. QED
    BY <1>1, <2>1, <2>2 DEF Errands, Dies
<1>4. CASE ~\E t \in Threads : Step(t) \/ Crash(t)
  <2>1. pc' = pc /\ job' = job
    BY <1>4, WorldStep
  <2>2. \A u \in Threads : Errand(u)'
    BY <1>0, <2>1, OthersErrands DEF Errands
  <2>3. /\ \A c \in DOMAIN conv' : c \in DOMAIN conv /\ conv'[c].node = conv[c].node
        /\ delays' \subseteq delays
    BY <1>0, <1>4, WorldEffects DEF Calm, Toggles, Turns, Removes
  <2>. QED
    BY <1>1, <2>2, <2>3 DEF Errands
<1>. QED
  BY <1>2, <1>3, <1>4
-----------------------------------------------------------------------------
(* WalkBase: what is told of the ends of conversations.                    *)

LEMMA Statuses ==
  ASSUME Placed, Rows, Jobs, Budget, Errands, [Next]_vars, NEW c \in DOMAIN conv
  PROVE  /\ c \in DOMAIN conv' /\ conv'[c].run = conv[c].run /\ conv'[c].node = conv[c].node
         /\ conv[c].status # "running" => conv'[c].status # "running"
         /\ conv[c].status = "finished" => conv'[c].status = "finished"
         /\ conv'[c].status # conv[c].status => ~\E t \in Threads : Step(t) \/ Crash(t)
<1>1. CASE conv' = conv
  BY <1>1
<1>2. ASSUME NEW t \in Threads, Starts(t) PROVE c \in DOMAIN conv' /\ conv'[c] = conv[c]
  BY <1>2 DEF Starts
<1>3. ASSUME NEW t \in Threads, Step(t)
      PROVE  conv' = conv \/ Starts(t)
  <2>1. Effect(t)
    BY <1>3, ThreadEffects DEF Errands
  <2>. QED
    BY <2>1
    DEF Effect, Elsewhere, Leaves, Visited, Refused, Served, Halts, Skipped, Registered, Delayed,
        Finishes, Resumes, Unresumed, Opened, Found, Notes, Resolves, Checks, Clears
<1>4. ASSUME NEW t \in Threads, Crash(t) PROVE conv' = conv
  BY <1>4, Dying DEF Dies
<1>5. CASE ~\E t \in Threads : Step(t) \/ Crash(t)
  BY <1>5, WorldEffects DEF Calm, Toggles, Turns, Removes
<1>. QED
  BY <1>1, <1>2, <1>3, <1>4, <1>5

LEMMA KnownStays ==
  ASSUME Placed, Rows, Jobs, Budget, Errands, [Next]_vars, NEW m, Known(m)
  PROVE  Known(m)'
<1>1. Graph' = Graph
  BY SettingStays
<1>2. CASE m.kind = "ended"
  BY <1>2, Statuses DEF Known
<1>3. CASE m.kind # "ended"
  BY <1>1, <1>3 DEF Known
<1>. QED
  BY <1>2, <1>3

LEMMA ReadLess ==
  ASSUME Placed, Jobs, NEW t \in Threads, Works(t), NEW k \in Consumers
  PROVE  pel'[k] \subseteq pel[k]
<1>1. k # t => pel'[k] = pel[k]
  BY ThreadListens DEF Listened, Works
<1>2. ASSUME k = t PROVE pel'[k] \subseteq pel[k]
  <2>1. GoesOn(t) \/ Drops(t) \/ Acknowledges(t)
    BY <1>2, ReplicaWorks
  <2>2. ASSUME GoesOn(t) PROVE pel'[t] = pel[t]
    BY <1>2, <2>2, ThreadListens DEF Listened, Works, GoesOn
  <2>. QED
    BY <1>2, <2>1, <2>2 DEF Drops, Acknowledges, Jobs
<1>. QED
  BY <1>1, <1>2

LEMMA ToldWorks ==
  ASSUME Placed, Rows, Jobs, Budget, Errands, Told, [Next]_vars, NEW t \in Threads, Works(t)
  PROVE  Told'
<1>1. /\ \A k \in Consumers : pel'[k] \subseteq pel[k]
      /\ mail' = mail \/ \E n : Is(n, "action") /\ mail' = mail \cup Graph.tells[n]
  BY ReadLess, ThreadAside DEF Aside
<1>2. \A n : Is(n, "action") => \A m \in Graph.tells[n] : m.kind # "ended" /\ m.about \in DOMAIN Graph.first
  BY GraphsAssumption DEF Budget, Is, Graph, Entries
<1>3. \A m \in mail' : m \in mail \/ (m.kind # "ended" /\ m.about \in DOMAIN Graph.first)
  BY <1>1, <1>2
<1>4. ASSUME NEW m \in mail' PROVE Known(m)'
  <2>1. Known(m)
    BY <1>3 DEF Told, Known
  <2>. QED
    BY <2>1, KnownStays
<1>5. ASSUME NEW k \in Consumers, NEW m \in pel'[k] PROVE Known(m)' /\ ToldOnce(k, m)'
  <2>1. Known(m) /\ ToldOnce(k, m)
    BY <1>1 DEF Told
  <2>. QED
    BY <1>1, <1>3, <2>1, KnownStays DEF ToldOnce
<1>. QED
  BY <1>4, <1>5 DEF Told

LEMMA ToldTake ==
  ASSUME Placed, Rows, Jobs, Budget, Streams, Errands, Told, [Next]_vars,
         NEW t \in Consumers, Take(t)
  PROVE  Told'
<1>0. t \in Threads /\ Step(t) /\ boot[t] \subseteq pel[t]
  BY DEF Threads, Step, Streams, Reads
<1>1. PICK m : /\ boot[t] = {} => m \in mail
               /\ boot[t] # {} => m \in boot[t]
               /\ pel'[t] = pel[t] \cup {m} /\ mail' = mail \ {m}
  BY TakeReads
<1>2. \A k \in Consumers \ {t} : pel'[k] = pel[k]
  BY <1>0, ThreadListens DEF Listened
<1>3. m \in pel[t] \/ m \in mail
  BY <1>0, <1>1
<1>4. ASSUME NEW x \in mail' PROVE Known(x)'
  BY <1>1, KnownStays DEF Told
<1>5. ASSUME NEW k \in Consumers, NEW x \in pel'[k] PROVE Known(x)' /\ ToldOnce(k, x)'
  <2>1. Known(x)
    BY <1>1, <1>2, <1>3 DEF Told
  <2>2. ToldOnce(k, x)'
    <3>1. CASE x \in pel[k]
      <4>1. ToldOnce(k, x)
        BY <3>1 DEF Told
      <4>2. CASE x = m /\ m \in mail
        BY <1>1, <1>2, <4>1, <4>2 DEF ToldOnce
      <4>3. CASE x # m \/ m \in pel[t]
        BY <1>1, <1>2, <4>1, <4>3 DEF ToldOnce
      <4>. QED
        BY <1>3, <4>2, <4>3
    <3>2. CASE x \notin pel[k]
      <4>1. k = t /\ x = m /\ m \in mail
        BY <1>1, <1>2, <1>3, <3>2
      <4>2. x.kind = "ended" /\ x.status = "finished" => \A k2 \in Consumers : x \notin pel[k2]
        BY <4>1 DEF Told, ToldOnce
      <4>. QED
        BY <1>1, <1>2, <4>1, <4>2 DEF ToldOnce
    <3>. QED
      BY <3>1, <3>2
  <2>. QED
    BY <2>1, <2>2, KnownStays
<1>. QED
  BY <1>4, <1>5 DEF Told

LEMMA ToldAround ==
  ASSUME Placed, Rows, Jobs, Budget, Errands, Told, [Next]_vars,
         ~\E t \in Threads : Step(t) \/ Crash(t)
  PROVE  Told'
<1>1. pel' = pel
  BY WorldStep
<1>2. CASE mail' = mail
  BY <1>1, <1>2, KnownStays DEF Told, ToldOnce
<1>3. ASSUME NEW i \in setting.watched, mail' = mail \cup {Finished(i)} PROVE Told'
  <2>1. Finished(i).kind # "ended" /\ Finished(i).about = "watched"
    BY DEF Finished, Event
  <2>2. "watched" \in DOMAIN Graph.first
    BY GraphsAssumption DEF Budget, Graph
  <2>3. Known(Finished(i))
    BY <2>1, <2>2 DEF Known
  <2>. QED
    BY <1>1, <1>3, <2>1, <2>3, KnownStays DEF Told, ToldOnce
<1>4. ASSUME NEW c, Turns(c) PROVE Told'
  <2>1. PICK s, who : /\ mail' = mail \cup {Ended(c, s, who)}
                      /\ s = "finished" => conv'[c].status = "finished" /\ who = "runner"
    BY <1>4 DEF Turns
  <2>0. /\ Ended(c, s, who).kind = "ended" /\ Ended(c, s, who).conv = c
        /\ Ended(c, s, who).status = s
    BY DEF Ended
  <2>2. PICK e : /\ e = Ended(c, s, who) /\ e.kind = "ended" /\ e.conv = c /\ e.status = s
                 /\ s = "finished" /\ who = "runner" => e = Ended(c, "finished", "runner")
    BY <2>0
  <2>3. c \in DOMAIN conv' /\ conv'[c].status # "running" /\ conv[c].status # "finished"
    BY <1>4 DEF Turns
  <2>4. Known(e)'
    BY <2>1, <2>2, <2>3 DEF Known
  <2>5. ASSUME s = "finished", NEW k \in Consumers PROVE e \notin pel[k]
    BY <2>2, <2>3, <2>5 DEF Told, Known
  <2>6. ASSUME NEW k \in Consumers, NEW x \in pel[k] PROVE Known(x)' /\ ToldOnce(k, x)'
    <3>1. Known(x)' /\ ToldOnce(k, x)
      BY KnownStays DEF Told
    <3>. QED
      BY <1>1, <2>1, <2>2, <2>5, <3>1 DEF ToldOnce
  <2>. QED
    BY <1>1, <2>1, <2>2, <2>4, <2>6, KnownStays DEF Told
<1>. QED
  BY <1>2, <1>3, <1>4, WorldEffects DEF Calm, Toggles, Removes

LEMMA ToldStep ==
  ASSUME IInv, Streams, Budget, Errands, Told, [Next]_vars PROVE Told'
<1>0. Placed /\ Rows /\ Jobs
  BY DEF IInv
<1>1. ASSUME NEW t \in Threads, Step(t) PROVE Told'
  BY <1>0, <1>1, ToldWorks, ToldTake DEF Works
<1>2. ASSUME NEW t \in Threads, Crash(t) PROVE Told'
  <2>1. mail' = mail /\ pel' = pel
    BY <1>2 DEF Crash
  <2>. QED
    BY <1>0, <2>1, KnownStays DEF Told, ToldOnce
<1>. QED
  BY <1>0, <1>1, <1>2, ToldAround
-----------------------------------------------------------------------------
(* WalkBase: what is left to happen, and what a replica has noted.         *)

LEMMA LeftStep ==
  ASSUME [Next]_vars PROVE left' = left \/ \E what : Spend(what)
<1>1. ASSUME NEW t \in Threads, Step(t) PROVE left' = left \/ \E what : Spend(what)
  <2>2. CASE Handle(t) \/ HandleExternal(t) \/ HandleSprint(t) \/ Ack(t) \/ (t \in Consumers /\ Take(t))
    BY <2>2 DEF Handle, HandleExternal, HandleSprint, Ack, Take
  <2>3. CASE Open(t) \/ Resume(t)
    BY <2>3 DEF Open, Erring, Resume
  <2>4. CASE Look(t) \/ Apply(t) \/ Ask(t) \/ FailNode(t)
    BY <2>4 DEF Look, Apply, Ask, Reach, FailNode, Erring
  <2>6. CASE CreateDelay(t) \/ StartConversation(t)
    BY <2>6 DEF CreateDelay, Erring, StartConversation
  <2>7. CASE Record(t) \/ CreateWait(t) \/ EndWalk(t)
    BY <2>7 DEF Record, CreateWait, Erring, EndWalk
  <2>9. CASE CountWaits(t) \/ CountDelays(t) \/ Judge(t) \/ Close(t) \/ FailToClose(t)
    BY <2>9 DEF CountWaits, CountDelays, Judge, Close, FailToClose, Erring
  <2>10. CASE Find(t) \/ Note(t) \/ Check(t) \/ Resolve(t) \/ Abandon(t)
    BY <2>10 DEF Find, Note, Check, Resolve, Abandon, Erring
  <2>12. CASE Lead(t) \/ ListDue(t) \/ Renew(t) \/ Revive(t) \/ Clear(t) \/ Yield(t)
    BY <2>12 DEF Lead, ListDue, Renew, Revive, Clear, Erring, Yield
  <2>14. CASE LeadClock(t) \/ ListFires(t) \/ RecordFire(t) \/ YieldClock(t)
    BY <2>14 DEF LeadClock, ListFires, RecordFire, Erring, YieldClock
  <2>. QED
    BY <1>1, <2>2, <2>3, <2>4, <2>6, <2>7, <2>9, <2>10, <2>12, <2>14 DEF Step
<1>2. ASSUME NEW t \in Threads, Crash(t) PROVE left' = left \/ \E what : Spend(what)
  BY <1>2 DEF Crash
<1>3. CASE \E c \in DOMAIN conv : EndConversation(c) \/ StopConversation(c)
  BY <1>3 DEF EndConversation, StopConversation
<1>4. CASE (\E d \in delays : FallDue(d)) \/ Occur \/ Toggle
  BY <1>4 DEF FallDue, Occur, Toggle
<1>5. CASE (\E i \in setting.watched : FinishTask(i)) \/ \E kind \in {"wait", "clock"} : Lapse(kind)
  BY <1>5 DEF FinishTask, Lapse
<1>6. CASE \E n \in nodes : RemoveNode(n)
  BY <1>6 DEF RemoveNode
<1>7. CASE UNCHANGED vars
  BY <1>7 DEF vars
<1>. QED
  BY <1>1, <1>2, <1>3, <1>4, <1>5, <1>6, <1>7 DEF Next

LEMMA LessLeft ==
  ASSUME Budget, [Next]_vars, NEW what \in {"crashes", "removes", "toggles"}, left[what] \in Nat
  PROVE  left'[what] = left[what] \/ (left[what] > 0 /\ left'[what] = left[what] - 1)
<1>1. what \in DOMAIN left
  BY DEF Budget
<1>2. ASSUME NEW x, Spend(x)
      PROVE  left'[what] = left[what] \/ (left[what] > 0 /\ left'[what] = left[what] - 1)
  BY <1>1, <1>2 DEF Spend
<1>. QED
  BY <1>2, LeftStep

\* What every step does to nodes and to the activity of the automation.
LEMMA Edits ==
  ASSUME Placed, Rows, Rows', Jobs, Budget, Errands, [Next]_vars
  PROVE  /\ nodes' = nodes \/ \E n : Removes(n)
         /\ active' = active \/ Toggles
<1>1. ASSUME NEW t \in Threads, Step(t) PROVE nodes' = nodes /\ active' = active
  <2>1. Effect(t)
    BY <1>1, ThreadEffects DEF Errands
  <2>. QED
    BY <2>1, StepGrows
<1>2. ASSUME NEW t \in Threads, Crash(t) PROVE nodes' = nodes /\ active' = active
  BY <1>2, Dying DEF Dies
<1>. QED
  BY <1>1, <1>2, WorldEffects DEF Calm, Turns, Removes, Toggles

LEMMA SparedStep ==
  ASSUME IInv, Budget, Errands, Spared, [Next]_vars PROVE Spared'
<1>0. Placed /\ Rows /\ Jobs /\ Rows' /\ setting' = setting /\ Graph' = Graph
  BY RowsStep, SettingStays DEF IInv
<1>1. /\ nodes' = nodes \/ left.removes > 0
      /\ active' = active \/ left.toggles > 0
  BY <1>0, Edits DEF Removes, Toggles
<1>2. \A what \in {"crashes", "removes", "toggles"} :
        /\ left[what] \in Nat /\ left'[what] \in Nat
        /\ left'[what] # left[what] => left[what] > 0
  BY LessLeft DEF Spared
<1>3. ASSUME setting.crashes = 0, "step" \notin setting.failing, NEW r \in DOMAIN run'
      PROVE  run'[r].lost = {}
  <2>0. \A q \in DOMAIN run : run[q].lost = {}
    BY <1>3 DEF Spared
  <2>1. ASSUME NEW t \in Threads, Step(t) PROVE run'[r].lost = {}
    <3>1. Effect(t)
      BY <1>0, <2>1, ThreadEffects DEF Errands
    <3>2. CASE Opened(t)
      BY <2>0, <3>2 DEF Opened
    <3>3. ~Opened(t) => DOMAIN run' = DOMAIN run
      BY <3>1
      DEF Effect, Elsewhere, Leaves, Visited, Starts, Refused, Served, Halts, Skipped, Registered,
          Delayed, Finishes, Resumes, Unresumed, Found, Notes, Resolves, Checks, Clears,
          Marks, Fails, Unrecorded, Unmarked, Stepped, Failed
    <3>4. Opened(t) \/ Unseen \/ \E q, n : Seen(q, n)
      BY <1>3, <3>1
      DEF Effect, Elsewhere, Leaves, Visited, Starts, Refused, Served, Halts, Skipped, Registered,
          Delayed, Finishes, Resumes, Unresumed, Found, Notes, Resolves, Checks, Clears,
          Marks, Fails, Unrecorded
    <3>. QED
      BY <2>0, <3>2, <3>3, <3>4 DEF Unseen, Seen
  <2>2. ASSUME NEW t \in Threads, Crash(t) PROVE run'[r].lost = {}
    BY <1>0, <1>3, <2>2, Dying DEF Dies, Spared
  <2>3. CASE ~\E t \in Threads : Step(t) \/ Crash(t)
    BY <1>0, <2>0, <2>3, WorldEffects DEF Calm, Toggles, Turns, Removes, Unseen
  <2>. QED
    BY <2>1, <2>2, <2>3
<1>. QED
  BY <1>0, <1>1, <1>2, <1>3 DEF Spared

LEMMA DoomedStays ==
  ASSUME Placed, Rows, Rows', Jobs, Budget, Errands, [Next]_vars, NEW r \in DOMAIN run, NEW m,
         Doomed(r, m)
  PROVE  Doomed(r, m)'
<1>1. ASSUME NEW t \in Threads, Step(t) PROVE Doomed(r, m)'
  <2>1. Effect(t)
    BY <1>1, ThreadEffects DEF Errands
  <2>. QED
    BY <2>1, StepGrows DEF Doomed, Grown
<1>2. CASE Unmarked /\ nodes' = nodes
  BY <1>2 DEF Doomed, Unmarked
<1>3. ASSUME NEW n, Removes(n) PROVE Doomed(r, m)'
  BY <1>3 DEF Doomed, Removes
<1>4. ASSUME NEW t \in Threads, Crash(t) PROVE Unmarked /\ nodes' = nodes
  BY <1>4, Dying DEF Dies
<1>5. CASE Calm \/ Toggles \/ \E c : Turns(c)
  BY <1>2, <1>5 DEF Calm, Turns, Toggles, Unmarked
<1>. QED
  BY <1>1, <1>2, <1>3, <1>4, <1>5, WorldEffects

LEMMA NotedStep ==
  ASSUME IInv, Streams, Budget, WalkBase, [Next]_vars PROVE \A k \in Threads : Noted(k)'
<1>0. /\ Placed /\ Rows /\ Jobs /\ Rows' /\ Errands /\ Spared /\ setting' = setting
      /\ nodes \subseteq DOMAIN Graph.kind
  BY RowsStep, SettingStays DEF IInv, WalkBase, Rows
<1> SUFFICES ASSUME NEW k \in Threads, pc'[k] = "resolving", k \in Consumers
             PROVE  /\ job'[k].msg.status # "finished" => Doomed(job[k].run, job[k].node)'
                    /\ setting'.toggles = 0 => job'[k].live
  BY DEF Noted
<1>1. CASE pc[k] = "resolving" /\ job'[k] = job[k]
  <2>1. job[k].run \in DOMAIN run /\ Noted(k)
    BY <1>1 DEF IInv, Jobs, Sound, WithRun, WalkBase
  <2>. QED
    <3>1. PICK r, m : r = job[k].run /\ m = job[k].node
      OBVIOUS
    <3>2. /\ job[k].msg.status # "finished" => Doomed(r, m)
          /\ setting.toggles = 0 => job[k].live
      BY <1>1, <2>1, <3>1 DEF Noted
    <3>3. job[k].msg.status # "finished" => Doomed(r, m)'
      BY <1>0, <2>1, <3>1, <3>2, DoomedStays
    <3>. QED
      BY <1>0, <1>1, <3>1, <3>2, <3>3 DEF Doomed
<1>2. CASE Notes(k)
  <2>1. /\ job'[k].live = active /\ job'[k].msg = job[k].msg /\ job'[k].run = job[k].run
        /\ job'[k].node = job[k].node /\ nodes' = nodes
        /\ job[k].msg.status # "finished" => Failed(job[k].run, job[k].node)
    BY <1>2 DEF Notes, SameTables
  <2>2. job[k].run \in DOMAIN run
    BY <1>2 DEF IInv, Jobs, Sound, WithRun, Notes
  <2>3. job[k].msg.status # "finished" => Doomed(job[k].run, job[k].node)'
    BY <2>1, <2>2 DEF Failed, Doomed
  <2>. QED
    BY <1>0, <2>1, <2>3 DEF Spared, Doomed
<1>3. ASSUME NEW t \in Threads, Step(t) PROVE Notes(k) \/ (pc[k] = "resolving" /\ job'[k] = job[k])
  <2>1. CASE t = k
    <3>1. Effect(k)
      BY <1>0, <1>3, <2>1, ThreadEffects DEF Errands
    <3>2. ~Elsewhere(k)
      BY DEF Elsewhere, Aways, AtNode, DistinctAssumption
    <3>. QED
      BY <3>1, <3>2 DEF Effect, Visited, Starts, Refused, Served, Halts, Skipped, Registered, Delayed,
        Finishes, Resumes, Unresumed, Opened, Found, Resolves, Checks, Clears
  <2>2. CASE t # k
    BY <1>0, <1>3, <2>2, OthersStay
  <2>. QED
    BY <2>1, <2>2
<1>4. ASSUME NEW t \in Threads, Crash(t) PROVE pc[k] = "resolving" /\ job'[k] = job[k]
  <2>1. t # k
    BY <1>0, <1>4, Dying DEF Dies
  <2>. QED
    BY <1>0, <1>4, <2>1, OthersStay
<1>5. CASE ~\E t \in Threads : Step(t) \/ Crash(t)
  BY <1>1, <1>5, WorldStep
<1>. QED
  BY <1>1, <1>2, <1>3, <1>4, <1>5

LEMMA WalkBaseStep ==
  ASSUME IInv, Streams, Budget, WalkBase, [Next]_vars PROVE WalkBase'
BY ErrandsStep, ToldStep, SparedStep, NotedStep DEF WalkBase
-----------------------------------------------------------------------------
(* CarryInv: what is still to be walked is in somebody's hands.            *)

LEMMA Marked ==
  ASSUME Rows, Rows', [Next]_vars, NEW r \in DOMAIN run, NEW n \in nodes,
         Stepped(r, n) \/ Failed(r, n)
  PROVE  n \in StepsOf(r)' /\ (Failed(r, n) => n \in run'[r].failed)
<1>1. r \in DOMAIN run' /\ n \in DOMAIN Graph.kind
  BY DEF Stepped, Failed, Rows
<1>2. StepsOf(r)' = {x \in DOMAIN Graph.kind : run'[r].steps[x] > 0 \/ x \in run'[r].failed}
  BY <1>1, SettingStays, ExecutedNext
<1>3. ASSUME Stepped(r, n) PROVE run'[r].steps[n] > 0
  <2>1. run[r].steps[n] \in Nat
    BY <1>1, Executed
  <2>. QED
    BY <1>1, <1>3, <2>1 DEF Stepped
<1>4. Failed(r, n) => n \in run'[r].failed
  BY DEF Failed
<1>. QED
  BY <1>1, <1>2, <1>3, <1>4

\* Who is about to visit x still is, or has.
LEMMA BringsStep ==
  ASSUME Rows, Rows', Jobs, [Next]_vars, NEW t \in Threads, Errand(t), Effect(t),
         nodes = DOMAIN Graph.kind, "step" \notin setting.failing,
         NEW r \in DOMAIN run, NEW x, Brings(t, r, x)
  PROVE  x \in StepsOf(r)' \/ Brings(t, r, x)'
<1>0. pc[t] \in Walking /\ job[t].run = r /\ (x \in Ahead(t) \/ Acting(t, x))
  BY DEF Brings, Walks
<1>1. ASSUME NEW n, Visited(t, n) PROVE x \in StepsOf(r)' \/ Brings(t, r, x)'
  <2>1. x \in Ahead(t) /\ pc'[t] \in Walking /\ job'[t].run = r
    BY <1>0, <1>1 DEF Visited, SameErrand, Acting, Walking
  <2>2. x \in Ahead(t)' \/ Acting(t, x)'
    BY <1>1, <2>1 DEF Visited, Acting
  <2>. QED
    BY <2>1, <2>2 DEF Brings, Walks
<1>2. CASE Starts(t) \/ (\E c : Registered(t, c)) \/ Delayed(t)
  <2>1. /\ pc'[t] \in Walking /\ job'[t].run = job[t].run /\ SamePath(t)
        /\ job'[t].node = job[t].node /\ (pc[t] = "acting" => pc'[t] = "acting")
    BY <1>2 DEF Starts, Registered, Delayed, SameErrand, SamePath, Walking
  <2>2. Ahead(t)' = Ahead(t)
    BY <2>1 DEF Ahead, SamePath
  <2>. QED
    BY <1>0, <2>1, <2>2 DEF Brings, Walks, Acting
<1>3. CASE Refused(t) \/ Served(t) \/ Halts(t) \/ \E out : Skipped(t, out)
  <2>1. /\ pc[t] = "acting" /\ pc'[t] \in Walking /\ job'[t].run = r
        /\ Stepped(r, job[t].node) \/ Failed(r, job[t].node)
    BY <1>0, <1>3
    DEF Refused, Served, Halts, Skipped, SameErrand, Walking, Marks, Fails, Unrecorded
  <2>2. CASE x = job[t].node
    <3>1. x \in nodes
      BY <2>1, <2>2 DEF Jobs, Sound
    <3>. QED
      BY <2>1, <2>2, <3>1, Marked
  <2>3. CASE x \in Ahead(t)
    <3>1. SamePath(t) \/ job'[t] = job[t] => Ahead(t)' = Ahead(t)
      BY DEF Ahead, SamePath
    <3>2. x \in Ahead(t)'
      BY <1>3, <2>3, <3>1 DEF Refused, Served, Halts, Skipped
    <3>. QED
      BY <2>1, <3>2 DEF Brings, Walks
  <2>. QED
    BY <1>0, <2>2, <2>3 DEF Acting
<1>4. ~Finishes(t)
  BY <1>0 DEF Finishes, Acting
<1>5. ~Elsewhere(t) /\ ~(\E out : Resumes(t, out)) /\ ~Unresumed(t) /\ ~Opened(t) /\ ~Found(t)
      /\ ~Notes(t) /\ ~Resolves(t) /\ ~Checks(t) /\ ~Clears(t)
  BY <1>0 DEF Elsewhere, Aways, Resumes, Unresumed, Opened, Found, Notes, Resolves, Checks, Clears,
              Walking
<1>. QED
  BY <1>1, <1>2, <1>3, <1>4, <1>5 DEF Effect

LEMMA FaithfulStep ==
  ASSUME Rows, Rows', Jobs, [Next]_vars, NEW t \in Threads, Errand(t), Effect(t), Faithful(t),
         nodes = DOMAIN Graph.kind, "step" \notin setting.failing
  PROVE  Faithful(t)'
<1>0. Graph' = Graph /\ \A r \in DOMAIN run : r \in DOMAIN run' /\ StepsOf(r) \subseteq StepsOf(r)'
  BY SettingStays, StepGrows DEF Grown
<1>r. pc[t] \in WithRun => job[t].run \in DOMAIN run
  BY DEF Jobs, Sound
<1>1. ASSUME NEW n, Visited(t, n) PROVE Faithful(t)'
  <2>1. PICK r : r = job[t].run /\ r \in DOMAIN run /\ job'[t].run = r
    BY <1>r, <1>1 DEF Visited, SameErrand, WithRun, Walking
  <2>2. /\ job'[t].visited = job[t].visited \cup {n} /\ job'[t].graph = DOMAIN Graph.kind
        /\ \A v \in job[t].visited : v \in StepsOf(r)'
    BY <1>0, <1>1, <2>1 DEF Visited, Faithful, Walking, Acting
  <2>3. Acting(t, n)'
    BY <1>1 DEF Visited, Acting
  <2>. QED
    BY <1>0, <2>1, <2>2, <2>3 DEF Faithful
<1>2. CASE Starts(t) \/ Refused(t) \/ Served(t) \/ Halts(t) \/ (\E out : Skipped(t, out))
           \/ (\E c : Registered(t, c)) \/ Delayed(t)
  <2>1. PICK r : r = job[t].run /\ r \in DOMAIN run /\ job'[t].run = r
    BY <1>r, <1>2
    DEF Starts, Refused, Served, Halts, Skipped, Registered, Delayed, SameErrand, WithRun, Walking
  <2>2. /\ job'[t].visited = job[t].visited /\ job'[t].graph = DOMAIN Graph.kind
        /\ pc[t] \in Walking
    BY <1>2
    DEF Starts, Refused, Served, Halts, Skipped, Registered, Delayed, SamePath, Faithful, Walking
  <2>3. ASSUME NEW n \in job[t].visited PROVE n \in StepsOf(r)' \/ Acting(t, n)'
    <3>1. CASE n \in StepsOf(r)
      BY <1>0, <2>1, <3>1
    <3>2. CASE Acting(t, n) /\ Starts(t)
      BY <3>2 DEF Acting, Starts
    <3>3. CASE Acting(t, n) /\ ~Starts(t)
      <4>1. Stepped(r, n) \/ Failed(r, n)
        BY <1>2, <2>1, <3>3
        DEF Acting, Refused, Served, Halts, Skipped, Registered, Delayed, Marks, Fails, Unrecorded
      <4>2. n \in nodes
        BY <3>3 DEF Acting, Jobs, Sound
      <4>. QED
        BY <2>1, <4>1, <4>2, Marked
    <3>. QED
      BY <2>1, <2>2, <3>1, <3>2, <3>3 DEF Faithful
  <2>. QED
    BY <1>0, <2>1, <2>2, <2>3 DEF Faithful
<1>3. ASSUME NEW out, Resumes(t, out) PROVE Faithful(t)'
  <2>1. PICK r : r = job[t].run /\ r \in DOMAIN run /\ job'[t].run = r
    BY <1>r, <1>3 DEF Resumes, SameErrand, WithRun
  <2>2. job'[t].visited = StepsOf(r) /\ job'[t].graph = DOMAIN Graph.kind
    BY <1>3, <2>1 DEF Resumes
  <2>. QED
    BY <1>0, <2>1, <2>2 DEF Faithful
<1>4. CASE Opened(t)
  <2>1. job'[t].visited = {} /\ job'[t].graph = DOMAIN Graph.kind
    BY <1>4 DEF Opened, Errand
  <2>. QED
    BY <1>0, <2>1 DEF Faithful
<1>5. CASE Elsewhere(t) \/ Finishes(t) \/ Unresumed(t) \/ Found(t) \/ Notes(t) \/ Resolves(t)
           \/ Checks(t) \/ Clears(t)
  <2>1. pc'[t] \notin Walking
    BY <1>5 DEF Elsewhere, Aways, Finishes, Unresumed, Found, Notes, Resolves, Checks, Clears,
                Walking
  <2>. QED
    BY <2>1 DEF Faithful
<1>. QED
  BY <1>1, <1>2, <1>3, <1>4, <1>5 DEF Effect

\* What follows a node that is resumed is visited, unless it has been before.
LEMMA Reloading ==
  ASSUME Rows, Rows', Budget, [Next]_vars, NEW t \in Threads, NEW out, Resumes(t, out),
         NEW r \in DOMAIN run, r = job[t].run, StepsOf(r) \subseteq StepsOf(r)',
         nodes = DOMAIN Graph.kind, NEW n \in DOMAIN Graph.kind, n = job[t].node,
         ~Is(n, "condition"), NEW o \in Outs(n), NEW x \in ToSet(o)
  PROVE  x \in StepsOf(r)' \/ Brings(t, r, x)'
<1>1. o = out /\ out \in Outs(n)
  BY OutsAreNodes DEF Resumes, Is
<1>2. o \in Seq(DOMAIN Graph.kind) /\ x \in DOMAIN Graph.kind
  <2>1. o \in Seq(DOMAIN Graph.kind)
    BY OutsAreNodes
  <2>. QED
    BY <2>1, SequenceParts
<1>3. /\ job'[t].todo = o /\ job'[t].graph = DOMAIN Graph.kind /\ job'[t].visited = StepsOf(r)
      /\ pc'[t] = "walking" /\ job'[t].run = r
  BY <1>1 DEF Resumes, SameErrand
<1>4. CASE x \in StepsOf(r)
  BY <1>4
<1>5. CASE x \notin StepsOf(r)
  <2>1. x \in Ahead(t)'
    BY <1>2, <1>3, <1>5 DEF Ahead
  <2>. QED
    BY <1>3, <2>1 DEF Brings, Walks, Walking
<1>. QED
  BY <1>4, <1>5

LEMMA RedeemsStep ==
  ASSUME Placed, Rows, Rows', Jobs, Budget, Spared, [Next]_vars, NEW t \in Threads, Errand(t),
         Effect(t), Redeems(t), nodes = DOMAIN Graph.kind, "step" \notin setting.failing
  PROVE  Redeems(t)'
<1> SUFFICES ASSUME t \in Waiters, pc'[t] \in Reviving PROVE Redeems(t)'
  BY DEF Redeems
<1>0. /\ setting' = setting /\ \A n : Outs(n)' = Outs(n)
      /\ \A r \in DOMAIN run : r \in DOMAIN run' /\ StepsOf(r) \subseteq StepsOf(r)'
  BY SettingStays, StepGrows DEF Grown
<1>1. CASE Elsewhere(t)
  <2>1. pc'[t] \in {"reviving", "resuming", "clearing"}
    BY <1>1 DEF Elsewhere, Aways, Reviving
  <2>2. CASE Revives(t)
    BY <2>2 DEF Revives, Redeems, Walking
  <2>3. CASE pc[t] = "reviving" /\ SameJob(t) /\ pc'[t] = IF active THEN "resuming" ELSE "clearing"
    <3>1. job[t].delay.run = job[t].run /\ job[t].delay.node = job[t].node
      BY <2>3 DEF Redeems, Reviving
    <3>2. setting.toggles = 0 => pc'[t] = "resuming"
      BY <2>3 DEF Spared
    <3>. QED
      BY <1>0, <2>3, <3>1, <3>2 DEF Redeems, SameJob, Walking
  <2>. QED
    BY <1>1, <2>1, <2>2, <2>3 DEF Elsewhere, Aways
<1>2. ASSUME pc[t] \in Walking, pc'[t] \in Walking \cup {"clearing"},
             job'[t].delay = job[t].delay, job'[t].run = job[t].run,
             Finishes(t) \/ pc'[t] \in Walking
      PROVE  Redeems(t)'
  <2>1. PICK r, d : r = job[t].run /\ d = job[t].delay /\ r \in DOMAIN run
    BY <1>2 DEF Jobs, Sound, WithRun
  <2>2. d.run = r
    BY <1>2, <2>1 DEF Redeems, Reviving
  <2>3. ASSUME setting.toggles = 0, NEW out \in Outs(d.node), NEW x \in ToSet(out)
        PROVE  x \in StepsOf(r)' \/ Brings(t, r, x)'
    <3>1. x \in StepsOf(r) \/ Brings(t, r, x)
      BY <1>2, <2>1, <2>3 DEF Redeems, Reviving
    <3>. QED
      BY <1>0, <2>1, <3>1, BringsStep
  <2>4. pc'[t] \notin {"reviving", "resuming"}
    BY <1>2 DEF Walking
  <2>. QED
    BY <1>0, <1>2, <2>1, <2>2, <2>3, <2>4 DEF Redeems
<1>3. CASE (\E n : Visited(t, n)) \/ Starts(t) \/ Refused(t) \/ Served(t) \/ Halts(t)
           \/ (\E out : Skipped(t, out)) \/ (\E c : Registered(t, c)) \/ Delayed(t) \/ Finishes(t)
  <2>1. /\ pc[t] \in Walking /\ pc'[t] \in Walking \cup {"clearing"}
        /\ job'[t].delay = job[t].delay /\ job'[t].run = job[t].run
        /\ Finishes(t) \/ pc'[t] \in Walking
    BY <1>3 DEF Visited, Starts, Refused, Served, Halts, Skipped, Registered, Delayed, Finishes,
                SameErrand, Walking
  <2>. QED
    BY <1>2, <2>1
<1>4. ASSUME NEW out, Resumes(t, out) PROVE Redeems(t)'
  <2>1. PICK r, d, n : r = job[t].run /\ d = job[t].delay /\ n = job[t].node /\ r \in DOMAIN run
    BY <1>4 DEF Jobs, Sound, WithRun, Resumes
  <2>2. /\ d.run = r /\ d.node = n /\ job'[t].delay = d /\ job'[t].run = r /\ pc'[t] = "walking"
    BY <1>4, <2>1 DEF Redeems, Reviving, Resumes, SameErrand
  <2>3. n \in DOMAIN Graph.kind /\ ~Is(n, "condition")
    BY <1>4, <2>1 DEF Errand, Resumes, Is
  <2>4. ASSUME NEW o \in Outs(n), NEW x \in ToSet(o)
        PROVE  x \in StepsOf(r)' \/ Brings(t, r, x)'
    BY <1>0, <1>4, <2>1, <2>3, Reloading
  <2>. QED
    BY <1>0, <2>2, <2>4 DEF Redeems
<1>5. ~Unresumed(t) /\ ~Opened(t) /\ ~Found(t) /\ ~Notes(t) /\ ~Resolves(t) /\ ~Checks(t) /\ ~Clears(t)
  BY DEF Unresumed, Opened, Found, Notes, Resolves, Checks, Clears, Placed, Places, Walking, Closing,
         Reviving
<1>. QED
  BY <1>1, <1>3, <1>4, <1>5 DEF Effect

\* A step where nothing loses work, and what is known before it.
Carries ==
  /\ IInv /\ IInv' /\ Streams /\ Budget /\ WalkBase /\ WalkBase' /\ [Next]_vars
  /\ NothingLoses /\ CarryInv
Acts(t) == Step(t) /\ Effect(t) /\ Errand(t)

LEMMA Lossless ==
  ASSUME Carries
  PROVE  /\ nodes = DOMAIN Graph.kind /\ left.crashes = 0 /\ left.removes = 0 /\ ~setting.early
         /\ setting.toggles = 0 => left.toggles = 0 /\ active
         /\ setting.failing \cap {"delay", "wait", "find", "list", "close", "step"} = {}
         /\ \A t \in Threads : Faithful(t) /\ Redeems(t)
         /\ \A r \in DOMAIN run : Held(r) /\ (setting.toggles = 0 => Pursued(r))
BY DEF Carries, WalkBase, Spared, NothingLoses, CarryInv

\* Then a step is one of a thread, or one that leaves the walks alone.
LEMMA CarryKinds ==
  ASSUME Carries
  PROVE  (\E t \in Threads : Acts(t)) \/ Calm \/ Toggles \/ \E c : Turns(c)
<1>0. /\ Placed /\ Rows /\ Jobs /\ Budget /\ [Next]_vars
      /\ \A t \in Threads : Errand(t)
  BY DEF Carries, IInv, WalkBase, Errands
<1>1. ASSUME NEW t \in Threads, Step(t) PROVE Acts(t)
  BY <1>0, <1>1, ThreadEffects DEF Acts
<1>2. ASSUME NEW t \in Threads PROVE ~Crash(t)
  <2>1. left.crashes = 0
    BY Lossless
  <2>. QED
    BY <1>0, <2>1, Dying DEF Dies
<1>3. ~\E n : Removes(n)
  <2>1. left.removes = 0
    BY Lossless
  <2>. QED
    BY <2>1 DEF Removes
<1>. QED
  BY <1>0, <1>1, <1>2, <1>3, WorldEffects

LEMMA CarryGrows ==
  ASSUME Carries, NEW r \in DOMAIN run
  PROVE  /\ r \in DOMAIN run' /\ StepsOf(r) \subseteq StepsOf(r)' /\ run[r].failed \subseteq run'[r].failed
         /\ nodes' = nodes
<1>1. CASE \E t \in Threads : Acts(t)
  <2>1. Rows /\ Rows' /\ [Next]_vars
    BY DEF Carries, IInv
  <2>. QED
    BY <1>1, <2>1, StepGrows DEF Acts, Grown
<1>2. CASE Calm \/ Toggles \/ \E c : Turns(c)
  BY <1>2 DEF Calm, Toggles, Turns, StepsOf
<1>. QED
  BY <1>1, <1>2, CarryKinds

\* Every thread but the one that takes the step is where it was.
LEMMA CarryOthers ==
  ASSUME Carries, NEW u \in Threads
  PROVE  (pc'[u] = pc[u] /\ job'[u] = job[u]) \/ Acts(u)
<1>1. Placed /\ Jobs
  BY DEF Carries, IInv
<1>2. ASSUME NEW t \in Threads, Acts(t), t # u PROVE pc'[u] = pc[u] /\ job'[u] = job[u]
  BY <1>1, <1>2, OthersStay DEF Acts
<1>. QED
  BY <1>2, CarryKinds DEF Calm, Toggles, Turns

LEMMA CarryBrings ==
  ASSUME Carries, NEW u \in Threads, NEW r \in DOMAIN run, NEW x, Brings(u, r, x)
  PROVE  x \in StepsOf(r)' \/ Brings(u, r, x)'
<1>1. CASE Acts(u)
  <2>1. Rows /\ Rows' /\ Jobs /\ [Next]_vars /\ nodes = DOMAIN Graph.kind
        /\ "step" \notin setting.failing
    BY Lossless DEF Carries, IInv
  <2>. QED
    BY <1>1, <2>1, BringsStep DEF Acts
<1>2. CASE pc'[u] = pc[u] /\ job'[u] = job[u]
  <2>1. Ahead(u)' = Ahead(u)
    BY <1>2 DEF Ahead
  <2>. QED
    BY <1>2, <2>1 DEF Brings, Walks, Acting
<1>. QED
  BY <1>1, <1>2, CarryOthers

LEMMA CarryFaithful ==
  ASSUME Carries, NEW u \in Threads
  PROVE  Faithful(u)' /\ Redeems(u)'
<1>0. /\ Placed /\ Rows /\ Rows' /\ Jobs /\ Budget /\ Spared /\ [Next]_vars
      /\ nodes = DOMAIN Graph.kind /\ "step" \notin setting.failing /\ Faithful(u) /\ Redeems(u)
  BY Lossless DEF Carries, IInv, WalkBase
<1>1. CASE Acts(u)
  BY <1>0, <1>1, FaithfulStep, RedeemsStep DEF Acts
<1>2. CASE pc'[u] = pc[u] /\ job'[u] = job[u]
  <2>1. PICK r, d : r = job[u].run /\ d = job[u].delay
    OBVIOUS
  <2>2. pc[u] \in WithRun => r \in DOMAIN run
    BY <1>0, <2>1 DEF Jobs, Sound
  <2>3. setting' = setting /\ Graph' = Graph /\ \A n : Outs(n)' = Outs(n)
    BY <1>0, SettingStays
  <2>4. Faithful(u)'
    <3> SUFFICES ASSUME pc[u] \in Walking PROVE Faithful(u)'
      BY <1>2 DEF Faithful
    <3>1. StepsOf(r) \subseteq StepsOf(r)'
      BY <2>2, CarryGrows DEF WithRun
    <3>. QED
      BY <1>0, <1>2, <2>1, <2>3, <3>1 DEF Faithful, Acting
  <2>5. Redeems(u)'
    <3> SUFFICES ASSUME u \in Waiters, pc[u] \in Reviving PROVE Redeems(u)'
      BY <1>2 DEF Redeems
    <3>1. r \in DOMAIN run
      BY <2>2 DEF Reviving, WithRun
    <3>2. /\ d.run = r /\ (pc[u] \in {"reviving", "resuming"} => d.node = job[u].node)
          /\ setting.toggles = 0 /\ pc[u] \in Walking \cup {"clearing"} =>
               \A out \in Outs(d.node) : \A x \in ToSet(out) : x \in StepsOf(r) \/ Brings(u, r, x)
      BY <1>0, <2>1 DEF Redeems
    <3>3. \A x : x \in StepsOf(r) \/ Brings(u, r, x) => x \in StepsOf(r)' \/ Brings(u, r, x)'
      BY <3>1, CarryGrows, CarryBrings
    <3>. QED
      BY <1>2, <2>1, <2>3, <3>2, <3>3 DEF Redeems
  <2>. QED
    BY <2>4, <2>5
<1>. QED
  BY <1>1, <1>2, CarryOthers

\* A run that is over stays so.
LEMMA StaysOver ==
  ASSUME Rows, Jobs, [Next]_vars, NEW r \in DOMAIN run, run'[r].status = "running"
  PROVE  run[r].status = "running"
<1>0. run \in Seq(RunRow) /\ nodes \subseteq DOMAIN Graph.kind
  BY DEF Rows
<1>1. ASSUME NEW t \in Threads, WritesRun(t) PROVE run[r].status = "running"
  <2>1. CASE Open(t)
    BY <1>0, <2>1 DEF Open
  <2>2. ASSUME ~Open(t), ~Close(t)
        PROVE  \/ \E n : \/ run' = run
                         \/ run' = WithStep(job[t].run, n)
                         \/ run' = WithFailed(job[t].run, n)
               \/ \E n \in DOMAIN Graph.kind : run' = WithVisit(job[t].run, n)
               \/ pc[t] = "acting" /\ run' = Forgets(t, job[t].run, job[t].node)
    <3>1. CASE Look(t) \/ Apply(t) \/ Ask(t)
      BY <3>1 DEF Look, Apply, Ask, Reach, Is
    <3>2. CASE FailNode(t) \/ Record(t) \/ Resume(t) \/ Note(t) \/ Crash(t)
      BY <3>2 DEF FailNode, Record, Resume, Note, Crash, Goto
    <3>. QED
      BY <1>1, <2>2, <3>1, <3>2 DEF WritesRun
  <2>3. ASSUME ~Open(t), run' # run PROVE job[t].run \in DOMAIN run
    <3>1. pc[t] \in WithRun
      BY <1>1, <2>3
      DEF WritesRun, Look, Apply, Ask, Reach, FailNode, Record, Resume, Note, Close, Crash, Goto,
          WithRun, Walking, Closing
    <3>. QED
      BY <3>1 DEF Jobs, Sound
  <2>4. CASE ~Open(t) /\ ~Close(t)
    <3>1. pc[t] = "acting" => job[t].node \in DOMAIN Graph.kind
      BY DEF Jobs, Sound
    <3>2. CASE run' = run
      BY <3>2
    <3>3. CASE run' # run
      <4>1. SameStatus
        BY <2>2, <2>3, <2>4, <3>1, <3>3, MarksRun, VisitsRun
      <4>. QED
        BY <4>1 DEF SameStatus
    <3>. QED
      BY <3>2, <3>3
  <2>5. CASE Close(t)
    <3>1. PICK q, v : q = job[t].run /\ v = job[t].verdict
      OBVIOUS
    <3>2. v # "running" /\ run' = [run EXCEPT ![q].status = v]
      BY <2>5, <3>1 DEF Close, Goto, Jobs, Sound
    <3>3. run[r] \in RunRow
      BY <1>0
    <3>. QED
      BY <1>0, <3>2, <3>3 DEF RunRow
  <2>. QED
    BY <2>1, <2>4, <2>5
<1>2. ASSUME NEW n \in nodes, RemoveNode(n) PROVE run[r].status = "running"
  BY <1>2, Removing DEF Removes
<1>. QED
  BY <1>1, <1>2, Frame DEF tables

\* A run is new when it has been opened.
LEMMA NewRun ==
  ASSUME Carries, NEW r \in DOMAIN run', r \notin DOMAIN run
  PROVE  \E t \in Threads : Acts(t) /\ Opened(t) /\ r = Len(run) + 1
<1>1. ASSUME NEW t \in Threads, Acts(t) PROVE Opened(t) \/ DOMAIN run' = DOMAIN run
  <2>1. Effect(t)
    BY <1>1 DEF Acts
  <2>. QED
    BY <2>1 DEF Effect, Elsewhere, Leaves, Visited, Starts, Refused, Served, Halts, Skipped, Registered,
                Delayed, Finishes, Resumes, Unresumed, Found, Notes, Resolves, Checks, Clears,
                Marks, Fails, Unrecorded, Unmarked, Stepped, Failed
<1>2. PICK t \in Threads : Acts(t)
  BY CarryKinds DEF Calm, Toggles, Turns
<1>3. Opened(t)
  BY <1>1, <1>2
<1>4. DOMAIN run' = DOMAIN run \cup {Len(run) + 1}
  BY <1>3 DEF Opened
<1>5. r = Len(run) + 1
  BY <1>4
<1>. QED
  BY <1>2, <1>3, <1>5

\* Whoever takes a pause away sees to the run.
LEMMA Unpaused ==
  ASSUME Carries, NEW r \in DOMAIN run, Paused(r)
  PROVE  Paused(r)' \/ \E u \in Threads : Engaged(u, r)'
<1>0. Placed /\ \A t \in Threads : Errand(t) /\ Redeems(t)
  BY Lossless DEF Carries, IInv, WalkBase, Errands
<1>1. ASSUME NEW t \in Threads, Acts(t), NEW c \in waits, c \notin waits', conv[c].run = r
      PROVE  Engaged(t, r)'
  <2>1. Resolves(t)
    BY <1>1 DEF Acts, Effect, Elsewhere, Leaves, Visited, Starts, Refused, Served, Halts, Skipped,
                Registered, Delayed, Finishes, Resumes, Unresumed, Opened, Found, Notes, Checks,
                Clears, SameTables
  <2>2. job[t].msg.conv = c /\ t \notin Waiters /\ pc[t] = "resolving"
    BY <1>1, <2>1 DEF Resolves
  <2>3. job[t].run = r
    BY <1>0, <1>1, <2>1, <2>2 DEF Errand, AtNode, WithRun, Resolves
  <2>. QED
    BY <2>1, <2>2, <2>3 DEF Resolves, Engaged, Closing
<1>2. ASSUME NEW t \in Threads, Acts(t), NEW d \in delays, d \notin delays', d.run = r
      PROVE  Engaged(t, r)'
  <2>1. Clears(t)
    BY <1>2 DEF Acts, Effect, Elsewhere, Leaves, Visited, Starts, Refused, Served, Halts, Skipped,
                Registered, Delayed, Finishes, Resumes, Unresumed, Opened, Found, Notes, Checks,
                Resolves, SameTables
  <2>2. job[t].delay = d /\ t \in Waiters /\ pc[t] = "clearing" /\ pc'[t] = "counting waits"
    BY <1>2, <2>1 DEF Clears
  <2>3. job[t].run = r
    BY <1>0, <1>2, <2>2 DEF Redeems, Reviving
  <2>. QED
    BY <2>1, <2>2, <2>3 DEF Clears, Engaged, Closing
<1>3. ASSUME NEW c \in waits, c \in waits', conv[c].run = r PROVE Paused(r)'
  <2>1. c \in DOMAIN conv /\ conv'[c].run = conv[c].run
    <3>1. TypeOK /\ Kept
      BY TablesKept DEF Carries, IInv
    <3>. QED
      BY <3>1 DEF TypeOK, Kept
  <2>. QED
    BY <1>3, <2>1 DEF Paused
<1>4. ASSUME NEW d \in delays, d \in delays', d.run = r PROVE Paused(r)'
  BY <1>4 DEF Paused
<1>5. (waits' = waits /\ delays' = delays) \/ \E t \in Threads : Acts(t)
  BY CarryKinds DEF Calm, Toggles, Turns
<1>. QED
  BY <1>1, <1>2, <1>3, <1>4, <1>5 DEF Paused

LEMMA EngagedStep ==
  ASSUME Carries, NEW r \in DOMAIN run, NEW u \in Threads, Engaged(u, r), Acts(u)
  PROVE  Engaged(u, r)' \/ Paused(r)' \/ run'[r].status # "running"
<1>0. job[u].run = r /\ Effect(u)
  BY DEF Engaged, Acts
<1>1. CASE pc[u] \in Closing
  <2>1. Elsewhere(u)
    BY <1>0, <1>1 DEF Effect, Closing, Visited, Starts, Refused, Served, Halts, Skipped, Registered,
                Delayed, Finishes, Resumes, Unresumed, Opened, Found, Notes, Resolves, Checks,
                Clears
  <2>2. CASE pc'[u] \in Closing
    <3>1. job'[u].run = r
      BY <1>0, <2>1, <2>2 DEF Elsewhere, Aways, SameJob, NewJob, Revives, Judges, Closing
    <3>. QED
      BY <2>2, <3>1 DEF Engaged
  <2>3. CASE pc'[u] \notin Closing
    <3>1. Paused(r) \/ run'[r].status # "running"
      <4>1. "close" \notin setting.failing
        BY Lossless
      <4>. QED
        BY <1>0, <1>1, <2>1, <2>3, <4>1 DEF Elsewhere, Leaves
    <3>2. waits' = waits /\ delays' = delays /\ conv' = conv
      BY <2>1 DEF Elsewhere, Leaves, SameTables
    <3>. QED
      BY <3>1, <3>2 DEF Paused
  <2>. QED
    BY <2>2, <2>3
<1>2. CASE u \notin Waiters /\ pc[u] \in Walking \cup {"checking", "resuming"}
  <2>1. ~Elsewhere(u) /\ ~Opened(u) /\ ~Found(u) /\ ~Notes(u) /\ ~Resolves(u) /\ ~Clears(u)
    BY <1>2 DEF Elsewhere, Aways, Opened, Found, Notes, Resolves, Clears, Walking
  <2>2. /\ job'[u].run = r
        /\ pc'[u] \in Walking \cup Closing \cup {"checking", "resuming"}
    BY <1>0, <1>2, <2>1
    DEF Effect, Visited, Starts, Refused, Served, Halts, Skipped, Registered, Delayed, Finishes,
        Resumes, Unresumed, Checks, SameErrand, Walking, Closing
  <2>. QED
    BY <1>2, <2>2 DEF Engaged
<1>. QED
  BY <1>1, <1>2 DEF Engaged

LEMMA CarryHeld ==
  ASSUME Carries, NEW r \in DOMAIN run' PROVE Held(r)'
<1>1. CASE r \notin DOMAIN run
  <2>1. PICK t \in Threads : Acts(t) /\ Opened(t) /\ r = Len(run) + 1
    BY <1>1, NewRun
  <2>2. t \notin Waiters
    BY <2>1 DEF Opened, Carries, IInv, Placed, Places, Walking, Closing
  <2>3. Engaged(t, r)'
    BY <2>1, <2>2 DEF Engaged, Opened, Walking
  <2>. QED
    BY <2>3 DEF Held
<1>2. CASE r \in DOMAIN run /\ run'[r].status = "running"
  <2>1. run[r].status = "running"
    BY <1>2, StaysOver DEF Carries, IInv
  <2>2. Paused(r) \/ \E u \in Threads : Engaged(u, r)
    BY <1>2, <2>1, Lossless DEF Held
  <2>3. ASSUME NEW u \in Threads, Engaged(u, r)
        PROVE  Paused(r)' \/ Engaged(u, r)'
    <3>1. CASE Acts(u)
      BY <1>2, <2>3, <3>1, EngagedStep
    <3>2. CASE pc'[u] = pc[u] /\ job'[u] = job[u]
      BY <2>3, <3>2 DEF Engaged
    <3>. QED
      BY <3>1, <3>2, CarryOthers
  <2>. QED
    BY <1>2, <2>2, <2>3, Unpaused DEF Held
<1>. QED
  BY <1>1, <1>2 DEF Held

\* A pause at node n is given up only by who goes on behind n.
LEMMA DelayKept ==
  ASSUME Carries, setting.toggles = 0, NEW r \in DOMAIN run, NEW n,
         NEW o \in Outs(n), NEW x \in ToSet(o), [run |-> r, node |-> n] \in delays
  PROVE  x \in StepsOf(r)' \/ Awaits(r, n, x)'
<1> DEFINE row == [run |-> r, node |-> n]
<1>1. CASE row \in delays'
  BY <1>1 DEF Awaits
<1>2. CASE row \notin delays'
  <2>1. PICK t \in Threads : Acts(t)
    BY <1>2, CarryKinds DEF Calm, Toggles, Turns
  <2>2. Clears(t)
    BY <1>2, <2>1 DEF Acts, Effect, Elsewhere, Leaves, Visited, Starts, Refused, Served, Halts, Skipped,
                Registered, Delayed, Finishes, Resumes, Unresumed, Opened, Found, Notes, Checks,
                Resolves, SameTables
  <2>3. job[t].delay = row /\ t \in Waiters /\ pc[t] = "clearing"
    BY <1>2, <2>2 DEF Clears
  <2>4. Redeems(t)
    BY Lossless
  <2>5. job[t].run = r /\ job[t].delay.node = n
    BY <2>3, <2>4 DEF Redeems, Reviving
  <2>6. x \in StepsOf(r) \/ Brings(t, r, x)
    BY <2>3, <2>4, <2>5 DEF Redeems, Reviving
  <2>7. ~Brings(t, r, x)
    BY <2>3 DEF Brings, Walks, Walking
  <2>. QED
    BY <2>6, <2>7, CarryGrows
<1>. QED
  BY <1>1, <1>2

LEMMA WaitKept ==
  ASSUME Carries, setting.toggles = 0, NEW r \in DOMAIN run, NEW n \in Followable(r), NEW x,
         WaitsOf(r, n) # {}
  PROVE  Awaits(r, n, x)'
<1>0. /\ \A t \in Threads : Errand(t) /\ Noted(t)
      /\ TypeOK /\ Kept /\ Rows
  BY TablesKept DEF Carries, IInv, WalkBase, Errands
<1>1. \A c \in DOMAIN conv : conv'[c].run = conv[c].run /\ conv'[c].node = conv[c].node
  BY <1>0 DEF Kept
<1>2. \A c \in waits : c \in DOMAIN conv
  BY <1>0 DEF TypeOK
<1>3. ASSUME NEW c \in WaitsOf(r, n), c \in waits' PROVE Awaits(r, n, x)'
  <2>1. c \in WaitsOf(r, n)'
    BY <1>1, <1>2, <1>3 DEF WaitsOf
  <2>. QED
    BY <2>1 DEF Awaits
<1>4. ASSUME NEW c \in WaitsOf(r, n), c \notin waits' PROVE Awaits(r, n, x)'
  <2>1. PICK t \in Threads : Acts(t)
    BY <1>4, CarryKinds DEF Calm, Toggles, Turns, WaitsOf
  <2>2. Resolves(t)
    BY <1>4, <2>1 DEF Acts, Effect, Elsewhere, Leaves, Visited, Starts, Refused, Served, Halts, Skipped,
                Registered, Delayed, Finishes, Resumes, Unresumed, Opened, Found, Notes, Checks,
                Clears, SameTables, WaitsOf
  <2>3. /\ job[t].msg.conv = c /\ t \in Consumers /\ pc[t] = "resolving" /\ job'[t] = job[t]
        /\ waits' = waits \ {c}
    BY <1>4, <2>2 DEF Resolves, WaitsOf
  <2>4. job[t].run = r /\ job[t].node = n
    BY <1>0, <1>4, <2>3 DEF Errand, AtNode, WithRun, WaitsOf
  <2>5. CASE pc'[t] = "checking"
    BY <2>3, <2>4, <2>5 DEF Awaits, At
  <2>6. ~Doomed(r, n)
    <3>1. n \in DOMAIN Graph.kind /\ n \notin run[r].failed
      BY <1>0, Executed DEF Followable
    <3>. QED
      BY <3>1, Lossless DEF Doomed
  <2>7. job[t].msg.status = "finished" /\ job[t].live
    BY <1>0, <2>3, <2>4, <2>6 DEF Noted
  <2>8. CASE pc'[t] = "counting waits"
    <3>1. Siblings(t) \ {c} # {}
      BY <2>2, <2>3, <2>7, <2>8 DEF Resolves
    <3>2. PICK d : d \in Siblings(t) \ {c}
      BY <3>1
    <3>3. d \in WaitsOf(r, n) /\ d \in waits'
      BY <2>3, <2>4, <3>2 DEF Siblings, WaitsOf
    <3>. QED
      BY <1>3, <3>3
  <2>. QED
    BY <2>2, <2>5, <2>8 DEF Resolves
<1>. QED
  BY <1>3, <1>4

\* A thread that is at node n leaves a pause there, or goes on behind n.
LEMMA WalkKept ==
  ASSUME Carries, NEW r \in DOMAIN run, NEW n \in Followable(r), NEW x, NEW u \in Threads,
         Walks(u, r), pc[u] \in {"pausing", "registering"}, job[u].node = n
  PROVE  Awaits(r, n, x)'
<1>0. n \in nodes /\ job[u].run = r
  BY Lossless, Executed DEF Followable, Carries, IInv, Walks
<1>1. CASE pc'[u] = pc[u] /\ job'[u] = job[u]
  BY <1>1 DEF Awaits, Walks
<1>2. CASE Acts(u)
  <2>1. Delayed(u) \/ \E c : Registered(u, c)
    BY <1>2 DEF Acts, Effect, Elsewhere, Aways, Visited, Starts, Refused, Served, Halts, Skipped, Walking,
                Finishes, Resumes, Unresumed, Opened, Found, Notes, Checks, Clears, Resolves
  <2>2. CASE Delayed(u)
    <3>1. [run |-> r, node |-> n] \in delays'
      BY <1>0, <2>2, Lossless DEF Delayed
    <3>. QED
      BY <3>1 DEF Awaits
  <2>3. ASSUME NEW c, Registered(u, c) PROVE Awaits(r, n, x)'
    <3>1. c \in waits'
      BY <1>0, <2>3, Lossless DEF Registered
    <3>2. conv'[c].run = r /\ conv'[c].node = n
      BY <1>0, <2>3 DEF Registered
    <3>3. c \in WaitsOf(r, n)'
      BY <3>1, <3>2 DEF WaitsOf
    <3>. QED
      BY <3>3 DEF Awaits
  <2>. QED
    BY <2>1, <2>2, <2>3
<1>. QED
  BY <1>1, <1>2, CarryOthers

LEMMA ResumerKept ==
  ASSUME Carries, NEW r \in DOMAIN run, NEW n \in Followable(r), n \in Followable(r)',
         NEW o \in Outs(n), NEW x \in ToSet(o), NEW u \in Threads,
         At(u, r, n), pc[u] \in {"checking", "resuming"}
  PROVE  x \in StepsOf(r)' \/ Awaits(r, n, x)'
<1>0. /\ n \in nodes /\ n \in DOMAIN Graph.kind /\ n \notin run[r].failed /\ ~Is(n, "condition")
      /\ n \notin run'[r].failed
      /\ job[u].run = r /\ job[u].node = n /\ u \in Consumers
      /\ Rows /\ Rows' /\ Budget /\ [Next]_vars /\ nodes = DOMAIN Graph.kind
  BY Lossless, Executed DEF Followable, Carries, IInv, At
<1>1. CASE pc'[u] = pc[u] /\ job'[u] = job[u]
  BY <1>1 DEF Awaits, At
<1>2. CASE Acts(u)
  <2>1. Checks(u) \/ (\E out : Resumes(u, out)) \/ Unresumed(u)
    BY <1>0, <1>2 DEF Acts, Effect, Elsewhere, Aways, Visited, Starts, Refused, Served, Halts, Skipped,
                Registered, Delayed, Finishes, Opened, Found, Notes, Clears, Resolves
  <2>2. CASE Checks(u)
    <3>1. pc'[u] = "resuming" /\ job'[u] = job[u]
      BY <1>0, <2>2, Lossless DEF Checks
    <3>. QED
      BY <1>0, <3>1 DEF Awaits, At
  <2>3. ASSUME NEW out, Resumes(u, out) PROVE x \in StepsOf(r)' \/ Awaits(r, n, x)'
    <3>1. x \in StepsOf(r)' \/ Brings(u, r, x)'
      BY <1>0, <2>3, CarryGrows, Reloading
    <3>. QED
      BY <3>1 DEF Awaits
  <2>4. ~Unresumed(u)
    BY <1>0, Marked, Lossless DEF Unresumed
  <2>. QED
    BY <2>1, <2>2, <2>3, <2>4
<1>. QED
  BY <1>1, <1>2, CarryOthers

LEMMA AwaitsKept ==
  ASSUME Carries, setting.toggles = 0, NEW r \in DOMAIN run,
         NEW n \in Followable(r), n \in Followable(r)', NEW o \in Outs(n), NEW x \in ToSet(o),
         x \in StepsOf(r) \/ Awaits(r, n, x)
  PROVE  x \in StepsOf(r)' \/ Awaits(r, n, x)'
<1>1. ASSUME NEW u \in Threads, Brings(u, r, x) PROVE x \in StepsOf(r)' \/ Awaits(r, n, x)'
  BY <1>1, CarryBrings DEF Awaits
<1>. QED
  BY <1>1, CarryGrows, DelayKept, WaitKept, WalkKept, ResumerKept DEF Awaits

\* A node that has just completed: its walk goes on behind it, or is about to pause there.
LEMMA Completed ==
  ASSUME Carries, NEW r \in DOMAIN run, NEW n, n \in Followable(r)', n \notin Followable(r)
  PROVE  /\ n \in DOMAIN Graph.kind /\ ~Is(n, "condition")
         /\ \E t \in Threads : /\ Acts(t) /\ job[t].run = r /\ job[t].node = n
                               /\ Served(t) \/ Halts(t) \/ \E out : Skipped(t, out)
<1>0. Rows /\ Rows' /\ [Next]_vars
  BY DEF Carries, IInv
<1>1. /\ n \in StepsOf(r)' /\ n \notin run'[r].failed /\ ~Is(n, "condition")
  BY <1>0, SettingStays DEF Followable
<1>2. r \in DOMAIN run' /\ run[r].failed \subseteq run'[r].failed
  BY CarryGrows
<1>3. n \notin StepsOf(r)
  BY <1>1, <1>2 DEF Followable
<1>4. n \in DOMAIN Graph.kind /\ run'[r].steps[n] > 0 /\ run[r].steps[n] = 0
  <2>1. n \in DOMAIN Graph.kind /\ run'[r].steps[n] > 0
    BY <1>0, <1>1, <1>2, ExecutedNext, SettingStays
  <2>2. run[r].steps[n] \in Nat /\ ~(run[r].steps[n] > 0)
    BY <1>0, <1>3, <2>1, Executed
  <2>. QED
    BY <2>1, <2>2
<1>5. PICK t \in Threads : Acts(t)
  BY <1>4, CarryKinds DEF Calm, Toggles, Turns
<1>6. ~Unmarked /\ ~Opened(t) /\ (\A q, m : ~Failed(q, m)) /\ \A q, m : Stepped(q, m) => q = r /\ m = n
  <2>1. run'[r].steps[n] # run[r].steps[n]
    BY <1>4
  <2>2. ~Unmarked
    BY <2>1 DEF Unmarked
  <2>3. ~Opened(t)
    BY <2>1 DEF Opened
  <2>4. ASSUME NEW q, NEW m PROVE ~Failed(q, m) /\ (Stepped(q, m) => q = r /\ m = n)
    BY <1>4, <2>1 DEF Failed, Stepped
  <2>. QED
    BY <2>2, <2>3, <2>4
<1>7. /\ ~Elsewhere(t) /\ (\A m : ~Visited(t, m)) /\ ~Starts(t) /\ ~Refused(t)
      /\ (\A c : ~Registered(t, c)) /\ ~Delayed(t)
      /\ ~Finishes(t) /\ (\A out : ~Resumes(t, out)) /\ ~Unresumed(t) /\ ~Found(t) /\ ~Notes(t)
      /\ ~Resolves(t) /\ ~Checks(t) /\ ~Clears(t)
  BY <1>6 DEF Elsewhere, Leaves, Visited, Starts, Refused, Registered, Delayed, Finishes, Resumes,
              Unresumed, Found, Notes, Resolves, Checks, Clears, Fails, Unrecorded
<1>8. Effect(t)
  BY <1>5 DEF Acts
<1>9. Served(t) \/ Halts(t) \/ \E out : Skipped(t, out)
  BY <1>6, <1>7, <1>8 DEF Effect
<1>10. job[t].run = r /\ job[t].node = n
  BY <1>6, <1>9 DEF Served, Halts, Skipped, Marks, Unrecorded
<1>. QED
  BY <1>1, <1>4, <1>5, <1>9, <1>10

LEMMA CompletedAwaits ==
  ASSUME Carries, NEW r \in DOMAIN run, NEW n, n \in Followable(r)', n \notin Followable(r),
         NEW o \in Outs(n), NEW x \in ToSet(o)
  PROVE  x \in StepsOf(r)' \/ Awaits(r, n, x)'
<1>0. Rows /\ Budget /\ [Next]_vars
  BY DEF Carries, IInv
<1>1. n \in DOMAIN Graph.kind /\ ~Is(n, "condition")
  BY Completed
<1>2. (\A out \in Outs(n) : out = o) /\ x \in DOMAIN Graph.kind
  <2>1. /\ o \in Seq(DOMAIN Graph.kind)
        /\ \E out \in Outs(n) : Outs(n) = {out}
    BY <1>0, <1>1, OutsAreNodes DEF Is
  <2>2. ToSet(o) \subseteq DOMAIN Graph.kind
    BY <2>1, SequenceParts
  <2>. QED
    BY <2>1, <2>2
<1>3. ASSUME NEW t \in Threads, job'[t].run = r, pc[t] \in Walking, pc'[t] = "walking",
             x \in Ahead(t)' \/ x \in job'[t].visited
      PROVE  x \in StepsOf(r)' \/ Awaits(r, n, x)'
  <2>1. x \in job'[t].visited => x \in StepsOf(r)'
    BY <1>3, CarryFaithful DEF Faithful, Acting, Walking
  <2>2. x \in Ahead(t)' => Awaits(r, n, x)'
    BY <1>3 DEF Awaits, Brings, Walks, Walking
  <2>. QED
    BY <1>3, <2>1, <2>2
<1>4. ASSUME NEW t \in Threads, job[t].run = r, NEW out, Skipped(t, out), job[t].node = n
      PROVE  x \in StepsOf(r)' \/ Awaits(r, n, x)'
  <2>1. job[t].graph = DOMAIN Graph.kind
    <3>1. Faithful(t) /\ pc[t] \in Walking
      BY <1>4, Lossless DEF Skipped, Walking
    <3>. QED
      BY <3>1 DEF Faithful
  <2>2. x \in Ahead(t)' \/ x \in job'[t].visited
    BY <1>2, <1>4, <2>1 DEF Skipped
  <2>3. pc[t] \in Walking /\ job'[t].run = r /\ pc'[t] = "walking"
    BY <1>4 DEF Skipped, SameErrand, Walking
  <2>. QED
    BY <1>3, <2>2, <2>3
<1>5. ASSUME NEW t \in Threads, job[t].run = r, Served(t) \/ Halts(t), job[t].node = n
      PROVE  Awaits(r, n, x)'
  <2>1. job'[t].run = r /\ job'[t].node = n /\ pc'[t] \in {"pausing", "registering"}
    BY <1>5 DEF Served, Halts, SameErrand
  <2>. QED
    BY <2>1 DEF Awaits, Walks, Walking
<1>. QED
  BY <1>4, <1>5, Completed

LEMMA CarryPursued ==
  ASSUME Carries, setting.toggles = 0, NEW r \in DOMAIN run' PROVE Pursued(r)'
<1>0. Rows /\ Rows' /\ [Next]_vars /\ setting' = setting /\ \A n : Outs(n)' = Outs(n)
  BY SettingStays DEF Carries, IInv
<1>1. CASE r \notin DOMAIN run
  <2>1. PICK t \in Threads : Opened(t) /\ r = Len(run) + 1
    BY <1>1, NewRun
  <2>2. StepsOf(r)' = {}
    <3>1. \A n \in DOMAIN Graph.kind : run'[r].steps[n] = 0 /\ n \notin run'[r].failed
      BY <2>1 DEF Opened
    <3>2. StepsOf(r)' = {n \in DOMAIN Graph.kind : run'[r].steps[n] > 0 \/ n \in run'[r].failed}
      BY <1>0, ExecutedNext
    <3>. QED
      BY <3>1, <3>2
  <2>. QED
    BY <2>2 DEF Pursued, Followable
<1>2. CASE r \in DOMAIN run
  <2> SUFFICES ASSUME NEW n, n \in Followable(r)', NEW o \in Outs(n), NEW x \in ToSet(o)
               PROVE  x \in StepsOf(r)' \/ Awaits(r, n, x)'
    BY <1>0 DEF Pursued
  <2>1. CASE n \notin Followable(r)
    BY <1>2, <2>1, CompletedAwaits
  <2>2. CASE n \in Followable(r)
    <3>1. x \in StepsOf(r) \/ Awaits(r, n, x)
      BY <1>2, <2>2, Lossless DEF Pursued
    <3>. QED
      BY <1>2, <2>2, <3>1, AwaitsKept
  <2>. QED
    BY <2>1, <2>2
<1>. QED
  BY <1>1, <1>2

LEMMA CarryStep ==
  ASSUME IInv, IInv', Streams, Budget, WalkBase, WalkBase', CarryInv, [Next]_vars
  PROVE  CarryInv'
<1>1. setting' = setting
  BY SettingStays
<1>2. CASE NothingLoses
  <2>1. Carries
    BY <1>2 DEF Carries
  <2>. QED
    BY <1>1, <2>1, CarryFaithful, CarryHeld, CarryPursued DEF CarryInv
<1>. QED
  BY <1>1, <1>2 DEF CarryInv, NothingLoses

\* In the end: whoever would see to it works on the run, or the run is paused.
LEMMA CarriedIsWalked == CarryInv => NothingStranded
<1> SUFFICES ASSUME CarryInv, NothingLoses, NEW r \in DOMAIN run,
                    \A t \in Threads : ~WorksOn(t, r), ~Paused(r)
             PROVE  /\ run[r].status # "running"
                    /\ setting.toggles = 0 =>
                         \A n \in StepsOf(r) \ run[r].failed :
                           Is(n, "condition") \/ \A out \in Outs(n) : ToSet(out) \subseteq StepsOf(r)
  BY DEF NothingStranded
<1>1. \A t \in Threads : pc[t] # "idle" => job[t].run # r
  BY DEF WorksOn, Idle
<1>2. run[r].status # "running"
  <2>1. Held(r)
    BY DEF CarryInv
  <2>2. \A t \in Threads : ~Engaged(t, r)
    BY <1>1 DEF Engaged, Closing, Walking
  <2>. QED
    BY <2>1, <2>2 DEF Held
<1>3. ASSUME setting.toggles = 0, NEW n \in StepsOf(r) \ run[r].failed, ~Is(n, "condition"),
             NEW out \in Outs(n), NEW x \in ToSet(out)
      PROVE  x \in StepsOf(r)
  <2>1. n \in Followable(r) /\ Pursued(r)
    BY <1>3 DEF Followable, CarryInv
  <2>2. x \in StepsOf(r) \/ Awaits(r, n, x)
    BY <1>3, <2>1 DEF Pursued
  <2>3. [run |-> r, node |-> n] \notin delays /\ WaitsOf(r, n) = {}
    BY DEF Paused, WaitsOf
  <2>4. \A t \in Threads : /\ ~Walks(t, r)
                           /\ ~(At(t, r, n) /\ pc[t] \in {"checking", "resuming"})
    BY <1>1 DEF Walks, Walking, At
  <2>. QED
    BY <2>2, <2>3, <2>4 DEF Awaits, Brings
<1>. QED
  BY <1>2, <1>3

LEMMA WalksInit == Init => WalkBase /\ CarryInv
<1> SUFFICES ASSUME Init PROVE WalkBase /\ CarryInv
  OBVIOUS
<1>1. /\ \A t \in Threads : pc[t] = "idle" /\ job[t] = NoJob
      /\ DOMAIN run = {} /\ DOMAIN conv = {} /\ delays = {} /\ mail = setting.events
      /\ \A k \in Consumers : pel[k] = {}
  BY DEF Init
<1>2. Errands
  <2>1. \A t \in Threads : Errand(t)
    BY <1>1, NoneAsked DEF Errand, AtNode, WithRun, Walking, Closing, Hears
  <2>. QED
    BY <1>1, <2>1 DEF Errands
<1>3. Told
  <2>1. \A m \in setting.events : Entries(Graph, m)
    BY GraphsAssumption DEF Init, Graph
  <2>2. \A m \in mail : Known(m)
    BY <1>1, <2>1 DEF Known, Entries
  <2>. QED
    BY <1>1, <2>2 DEF Told
<1>4. Spared
  <2>1. left.crashes = setting.crashes /\ left.removes = setting.removes
        /\ left.toggles = setting.toggles
    BY DEF Init
  <2>2. setting.crashes \in Nat /\ setting.removes \in Nat /\ setting.toggles \in Nat
    BY SettingsAssumption DEF Init
  <2>. QED
    BY <2>1, <2>2 DEF Spared, Init
<1>5. \A k \in Threads : Noted(k)
  BY <1>1 DEF Noted
<1>6. CarryInv
  BY <1>1 DEF CarryInv, Faithful, Redeems, Reviving, Walking
<1>. QED
  BY <1>2, <1>3, <1>4, <1>5, <1>6 DEF WalkBase
-----------------------------------------------------------------------------
(* Where a walk may have come from: the nodes of one origin.               *)

LEMMA Closed ==
  ASSUME Budget
  PROVE  /\ ByTrigger = UNION {S \in SUBSET DOMAIN Graph.kind : Entered(Graph, S, {})}
         /\ ByDelay = UNION {S \in SUBSET Later(Graph) : Entered(Graph, S, Of(Graph, {"wait"}))}
         /\ \A m \in DOMAIN Graph.kind :
              ByAgent(m) = UNION {S \in SUBSET (Later(Graph) \ {m}) : Entered(Graph, S, {m})}
BY GraphsAssumption DEF Budget, ByTrigger, ByDelay, ByAgent, Origins, Graph

\* What comes before a node of one origin is of the same origin.
LEMMA Into ==
  ASSUME Budget, NEW n \in DOMAIN Graph.kind, NEW o \in Outs(n), NEW x \in ToSet(o)
  PROVE  /\ x \in ByTrigger => n \in ByTrigger /\ (Is(n, "condition") \/ Is(n, "action"))
         /\ x \in ByDelay =>
              Is(n, "wait") \/ (n \in ByDelay /\ (Is(n, "condition") \/ Is(n, "action")))
         /\ \A m \in DOMAIN Graph.kind : x \in ByAgent(m) =>
              n = m \/ (n \in ByAgent(m) /\ (Is(n, "condition") \/ Is(n, "action")))
<1>1. n \in Before(Graph, x)
  BY DEF Before, Outs
<1>2. ASSUME NEW S, NEW from, Entered(Graph, S, from), x \in S
      PROVE  n \in from \/ (n \in S /\ (Is(n, "condition") \/ Is(n, "action")))
  BY <1>1, <1>2 DEF Entered, Of, Is
<1>3. ASSUME x \in ByTrigger PROVE n \in ByTrigger /\ (Is(n, "condition") \/ Is(n, "action"))
  <2>1. PICK S \in SUBSET DOMAIN Graph.kind : Entered(Graph, S, {}) /\ x \in S
    BY <1>3, Closed
  <2>2. n \in S /\ (Is(n, "condition") \/ Is(n, "action"))
    BY <1>2, <2>1
  <2>. QED
    BY <2>1, <2>2, Closed
<1>4. ASSUME x \in ByDelay
      PROVE  Is(n, "wait") \/ (n \in ByDelay /\ (Is(n, "condition") \/ Is(n, "action")))
  <2>1. PICK S \in SUBSET Later(Graph) : Entered(Graph, S, Of(Graph, {"wait"})) /\ x \in S
    BY <1>4, Closed
  <2>2. n \in Of(Graph, {"wait"}) \/ (n \in S /\ (Is(n, "condition") \/ Is(n, "action")))
    BY <1>2, <2>1
  <2>3. n \in S => n \in ByDelay
    BY <2>1, Closed
  <2>. QED
    BY <2>2, <2>3 DEF Of, Is
<1>5. ASSUME NEW m \in DOMAIN Graph.kind, x \in ByAgent(m)
      PROVE  n = m \/ (n \in ByAgent(m) /\ (Is(n, "condition") \/ Is(n, "action")))
  <2>1. PICK S \in SUBSET (Later(Graph) \ {m}) : Entered(Graph, S, {m}) /\ x \in S
    BY <1>5, Closed
  <2>2. n = m \/ (n \in S /\ (Is(n, "condition") \/ Is(n, "action")))
    BY <1>2, <2>1
  <2>3. n \in S => n \in ByAgent(m)
    BY <2>1, Closed
  <2>. QED
    BY <2>2, <2>3
<1>. QED
  BY <1>3, <1>4, <1>5

LEMMA OriginsAreNodes ==
  ASSUME Budget
  PROVE  /\ ByTrigger \subseteq DOMAIN Graph.kind /\ ByDelay \subseteq DOMAIN Graph.kind
         /\ Agents \subseteq DOMAIN Graph.kind /\ \A m \in Agents : Is(m, "agent")
         /\ \A m \in DOMAIN Graph.kind : ByAgent(m) \subseteq DOMAIN Graph.kind /\ m \notin ByAgent(m)
         /\ \A a \in DOMAIN Graph.first : \A x \in ToSet(Graph.first[a]) :
              x \notin ByDelay /\ \A m \in DOMAIN Graph.kind : x \notin ByAgent(m)
<1>1. /\ ByTrigger \subseteq DOMAIN Graph.kind
      /\ ByDelay \subseteq Later(Graph)
      /\ \A m \in DOMAIN Graph.kind : ByAgent(m) \subseteq Later(Graph) \ {m}
  BY Closed
<1>2. Later(Graph) \subseteq DOMAIN Graph.kind
  BY DEF Later
<1>3. \A a \in DOMAIN Graph.first : \A x \in ToSet(Graph.first[a]) : x \notin Later(Graph)
  BY DEF Later
<1>. QED
  BY <1>1, <1>2, <1>3 DEF Agents, Is
-----------------------------------------------------------------------------
(* OnceInv: who walks where.                                               *)

\* A step, and what is known before it.
Steady ==
  /\ IInv /\ IInv' /\ Streams /\ Budget /\ WalkBase /\ WalkBase' /\ [Next]_vars
  /\ ~setting.early /\ ~setting.slow /\ OnceInv
Stays(u) == pc'[u] = pc[u] /\ job'[u] = job[u]
Plays(t) == Acts(t) /\ \A u \in Threads \ {t} : Stays(u)
Beside ==
  /\ Calm \/ Toggles \/ (\E c : Turns(c)) \/ (\E n : Removes(n)) \/ \E t \in Threads : Dies(t)
  /\ \A u \in Threads : Stays(u) \/ (Dies(u) /\ pc'[u] = "idle" /\ job'[u] = NoJob)

LEMMA SteadyParts ==
  ASSUME Steady
  PROVE  /\ Placed /\ Rows /\ Rows' /\ Jobs /\ Jobs' /\ Leases /\ TypeOK /\ Kept /\ Budget /\ Streams
         /\ Told /\ Errands /\ Spared /\ [Next]_vars
         /\ \A t \in Threads : Errand(t) /\ Errand(t)' /\ Noted(t)
         /\ ExecutedOnce /\ \A r \in DOMAIN run : OwnWalks(r)
         /\ \A t \in Threads : Attended(t)
         /\ \A r \in DOMAIN run : \A m \in Agents \ run[r].lost : AtAgent(r, m)
BY TablesKept DEF Steady, IInv, WalkBase, Errands, OnceInv

LEMMA SteadyKinds ==
  ASSUME Steady PROVE (\E t \in Threads : Plays(t)) \/ Beside
<1>0. /\ Placed /\ Rows /\ Jobs /\ Budget /\ [Next]_vars
      /\ \A t \in Threads : Errand(t)
  BY SteadyParts
<1>1. ASSUME NEW t \in Threads, Step(t) PROVE Plays(t)
  BY <1>0, <1>1, ThreadEffects, OthersStay DEF Acts, Plays, Stays
<1>2. ASSUME NEW t \in Threads, Crash(t) PROVE Beside
  <2>1. Dies(t)
    BY <1>0, <1>2, Dying
  <2>2. \A u \in Threads \ {t} : Stays(u)
    BY <1>0, <1>2, OthersStay DEF Stays
  <2>. QED
    BY <2>1, <2>2 DEF Dies, Beside
<1>3. CASE ~\E t \in Threads : Step(t) \/ Crash(t)
  <2>1. Calm \/ Toggles \/ (\E c : Turns(c)) \/ \E n : Removes(n)
    BY <1>0, <1>3, WorldEffects
  <2>2. pc' = pc /\ job' = job
    BY <2>1 DEF Calm, Toggles, Turns, Removes
  <2>. QED
    BY <2>1, <2>2 DEF Beside, Stays
<1>. QED
  BY <1>1, <1>2, <1>3

LEMMA DiesAlone ==
  ASSUME Beside, NEW t \in Threads PROVE Stays(t) \/ Dies(t)
BY DEF Beside

\* Beside the threads nothing is visited; who dies may forget where it was.
LEMMA AroundRuns ==
  ASSUME Steady, Beside
  PROVE  /\ DOMAIN run' = DOMAIN run
         /\ \A r \in DOMAIN run : run'[r].visits = run[r].visits /\ run[r].lost \subseteq run'[r].lost
<1>1. CASE Calm \/ Toggles \/ \E c : Turns(c)
  BY <1>1 DEF Calm, Toggles, Turns
<1>2. CASE (\E n : Removes(n)) \/ \E t \in Threads : Dies(t)
  <2>1. DOMAIN run' = DOMAIN run
    BY <1>2 DEF Removes, Dies, Unmarked
  <2>2. Unseen \/ \E t, q, n : Missed(t, q, n)
    BY <1>2 DEF Removes, Dies
  <2>. QED
    BY <2>1, <2>2 DEF Unseen, Missed
<1>. QED
  BY <1>1, <1>2 DEF Beside

\* What a walk has still to visit of the graph it has loaded.
Unvisited(t, n) == n \in job[t].graph \ job[t].visited

\* A thread visits a node that it has, and had not visited before.
LEMMA Visiting ==
  ASSUME Steady, NEW t \in Threads, Plays(t), NEW r \in DOMAIN run, NEW n \in DOMAIN Graph.kind
  PROVE  /\ r \in DOMAIN run' /\ run[r].lost \subseteq run'[r].lost
         /\ \/ run'[r].visits[n] = run[r].visits[n]
            \/ /\ run'[r].visits[n] = run[r].visits[n] + 1 /\ Visited(t, n) /\ job[t].run = r
               /\ Has(t, r, n) /\ Unvisited(t, n) /\ ~Unvisited(t, n)'
<1>0. Effect(t) /\ Trodden(r)
  BY SteadyParts, TracesStay DEF Plays, Acts
<1>1. r \in DOMAIN run' /\ run[r].lost \subseteq run'[r].lost
  BY <1>0 DEF Trodden
<1>2. CASE Unseen \/ Opened(t) \/ \E u, q, m : Missed(u, q, m)
  BY <1>1, <1>2 DEF Unseen, Opened, Missed
<1>3. ASSUME NEW m, Visited(t, m)
      PROVE  \/ run'[r].visits[n] = run[r].visits[n]
             \/ /\ run'[r].visits[n] = run[r].visits[n] + 1 /\ Visited(t, n) /\ job[t].run = r
                /\ Has(t, r, n) /\ Unvisited(t, n) /\ ~Unvisited(t, n)'
  <2>1. Seen(job[t].run, m)
    BY <1>3 DEF Visited
  <2>2. CASE job[t].run # r \/ m # n
    BY <2>1, <2>2 DEF Seen
  <2>3. CASE job[t].run = r /\ m = n
    <3>1. run'[r].visits[n] = run[r].visits[n] + 1
      BY <2>1, <2>3 DEF Seen
    <3>2. Has(t, r, n) /\ Unvisited(t, n) /\ ~Unvisited(t, n)'
      BY <1>3, <2>3 DEF Visited, Has, Walks, Walking, Ahead, Unvisited
    <3>. QED
      BY <1>3, <2>3, <3>1, <3>2
  <2>. QED
    BY <2>2, <2>3
<1>4. Unseen \/ Opened(t) \/ (\E u, q, m : Missed(u, q, m)) \/ \E m : Visited(t, m)
  BY <1>0 DEF Effect, Elsewhere, Leaves, Starts, Refused, Served, Halts, Skipped, Registered, Delayed,
              Finishes, Resumes, Unresumed, Found, Notes, Resolves, Checks, Clears, Marks, Fails,
              Unrecorded
<1>. QED
  BY <1>1, <1>2, <1>3, <1>4

\* How a thread comes to walk.
LEMMA WalksOn ==
  ASSUME Steady, NEW t \in Threads, Plays(t), pc'[t] \in Walking
  PROVE  \/ Opened(t) \/ (\E out : Resumes(t, out))
         \/ /\ pc[t] \in Walking /\ job'[t].run = job[t].run /\ job'[t].msg = job[t].msg
            /\ job'[t].graph = job[t].graph /\ job[t].visited \subseteq job'[t].visited
            /\ \A n : Acting(t, n)' => Acting(t, n) \/ n \in Ahead(t)
<1>0. Effect(t)
  BY DEF Plays, Acts
<1>1. ~Elsewhere(t) /\ ~Finishes(t) /\ ~Unresumed(t) /\ ~Found(t) /\ ~Notes(t) /\ ~Resolves(t)
      /\ ~Checks(t) /\ ~Clears(t)
  BY DEF Elsewhere, Aways, Finishes, Unresumed, Found, Notes, Resolves, Checks, Clears, Walking
<1>2. ASSUME NEW n, Visited(t, n)
      PROVE  /\ pc[t] \in Walking /\ job'[t].run = job[t].run /\ job'[t].msg = job[t].msg
             /\ job'[t].graph = job[t].graph /\ job[t].visited \subseteq job'[t].visited
             /\ \A x : Acting(t, x)' => x \in Ahead(t)
  BY <1>2 DEF Visited, SameErrand, Walking, Acting
<1>3. CASE Starts(t) \/ Refused(t) \/ Served(t) \/ Halts(t) \/ (\E out : Skipped(t, out))
           \/ (\E c : Registered(t, c)) \/ Delayed(t)
  <2>1. /\ pc[t] \in Walking /\ job'[t].run = job[t].run /\ job'[t].msg = job[t].msg
        /\ job'[t].graph = job[t].graph /\ job'[t].visited = job[t].visited
        /\ job'[t].node = job[t].node /\ (pc'[t] = "acting" => pc[t] = "acting")
    BY <1>3 DEF Starts, Refused, Served, Halts, Skipped, Registered, Delayed, SameErrand, SamePath, Walking
  <2>. QED
    BY <2>1 DEF Acting
<1>. QED
  BY <1>0, <1>1, <1>2, <1>3 DEF Effect

\* How a thread comes to have a node: it had it, or one before it.
LEMMA HasOn ==
  ASSUME Steady, NEW t \in Threads, Plays(t), NEW r, NEW n, Has(t, r, n)'
  PROVE  \/ Has(t, r, n) /\ job'[t].msg = job[t].msg
         \/ /\ Opened(t) /\ r = Len(run) + 1 /\ job'[t].msg = job[t].msg
            /\ n \in ToSet(Graph.first[job[t].msg.about])
         \/ \E p \in DOMAIN Graph.kind : \E out \in Outs(p) : /\ n \in ToSet(out)
            /\ \/ Skipped(t, out) /\ Acting(t, p) /\ Has(t, r, p) /\ job'[t].msg = job[t].msg
                  /\ ~Is(p, "wait")
               \/ Resumes(t, out) /\ job[t].run = r /\ job[t].node = p /\ p \in nodes
<1>0. /\ Effect(t) /\ Errand(t) /\ pc'[t] \in Walking /\ job'[t].run = r
      /\ nodes \subseteq DOMAIN Graph.kind
      /\ n \in Ahead(t)' \/ (pc'[t] \in {"acting", "registering"} /\ job'[t].node = n)
  BY SteadyParts DEF Plays, Acts, Has, Walks, Rows
<1>t. job[t].todo \in Seq(DOMAIN Graph.kind)
  BY <1>0 DEF Errand
<1>1. ~Elsewhere(t) /\ ~Finishes(t) /\ ~Unresumed(t) /\ ~Found(t) /\ ~Notes(t) /\ ~Resolves(t)
      /\ ~Checks(t) /\ ~Clears(t)
  BY <1>0 DEF Elsewhere, Aways, Finishes, Unresumed, Found, Notes, Resolves, Checks, Clears, Walking
<1>2. ASSUME NEW p, Visited(t, p)
      PROVE  Has(t, r, n) /\ job'[t].msg = job[t].msg
  <2>1. /\ p \in Ahead(t) /\ pc[t] \in Walking /\ job[t].run = r /\ job'[t].msg = job[t].msg
        /\ job'[t].node = p /\ Ahead(t)' \subseteq Ahead(t)
    BY <1>0, <1>2 DEF Visited, SameErrand, Walking
  <2>. QED
    BY <1>0, <2>1 DEF Has, Walks
<1>3. CASE Starts(t) \/ Refused(t) \/ Served(t) \/ Halts(t) \/ (\E c : Registered(t, c)) \/ Delayed(t)
  <2>1. /\ pc[t] \in Walking /\ job'[t].run = job[t].run /\ job'[t].msg = job[t].msg
        /\ SamePath(t) /\ job'[t].node = job[t].node
        /\ (pc'[t] \in {"acting", "registering"} => pc[t] \in {"acting", "registering"})
    BY <1>3
    DEF Starts, Refused, Served, Halts, Registered, Delayed, SameErrand, SamePath, Walking
  <2>2. Ahead(t)' = Ahead(t)
    BY <2>1 DEF Ahead, SamePath
  <2>. QED
    BY <1>0, <2>1, <2>2 DEF Has, Walks
<1>4. ASSUME NEW out, Skipped(t, out)
      PROVE  \/ Has(t, r, n) /\ job'[t].msg = job[t].msg
             \/ \E p \in DOMAIN Graph.kind : /\ out \in Outs(p) /\ n \in ToSet(out) /\ Acting(t, p)
                  /\ Has(t, r, p) /\ job'[t].msg = job[t].msg /\ ~Is(p, "wait")
  <2>1. /\ pc[t] = "acting" /\ job[t].run = r /\ job'[t].msg = job[t].msg
        /\ pc'[t] = "walking" /\ out \in Outs(job[t].node)
        /\ Ahead(t)' \subseteq Ahead(t) \cup ToSet(out)
        /\ ~Is(job[t].node, "wait")
    BY <1>0, <1>4 DEF Skipped, SameErrand
  <2>2. job[t].node \in DOMAIN Graph.kind
    BY <2>1, SteadyParts DEF Jobs, Sound
  <2>3. Has(t, r, job[t].node) /\ Acting(t, job[t].node)
    BY <2>1 DEF Has, Walks, Walking, Acting
  <2>. QED
    BY <1>0, <2>1, <2>2, <2>3 DEF Has, Walks
<1>5. ASSUME NEW out, Resumes(t, out)
      PROVE  /\ job[t].run = r /\ out \in Outs(job[t].node) /\ n \in ToSet(out)
             /\ job[t].node \in nodes /\ job[t].node \in DOMAIN Graph.kind
  <2>1. /\ job[t].run = r /\ out \in Outs(job[t].node) /\ pc'[t] = "walking"
        /\ job'[t].todo = IF job[t].node \in nodes THEN out ELSE <<>>
    BY <1>0, <1>5 DEF Resumes, SameErrand
  <2>2. n \in ToSet(job'[t].todo)
    BY <1>0, <2>1 DEF Ahead
  <2>3. ToSet(<<>>) = {}
    BY <1>t, SequenceParts
  <2>. QED
    BY <1>0, <2>1, <2>2, <2>3
<1>6. CASE Opened(t)
  <2>1. /\ r = Len(run) + 1 /\ job'[t].msg = job[t].msg /\ pc'[t] = "walking"
        /\ job'[t].todo = Graph.first[job[t].msg.about]
    BY <1>0, <1>6 DEF Opened
  <2>2. n \in ToSet(job'[t].todo)
    BY <1>0, <2>1 DEF Ahead
  <2>. QED
    BY <1>6, <2>1, <2>2
<1>. QED
  BY <1>0, <1>1, <1>2, <1>3, <1>4, <1>5, <1>6 DEF Effect

\* Who resumes a walk: a replica behind an agent's node, a scheduler behind a wait.
LEMMA ResumesAt ==
  ASSUME Steady, NEW t \in Threads, NEW out, Resumes(t, out)
  PROVE  /\ t \in Consumers => Hears(t) /\ Hears(t)' /\ Is(job[t].node, "agent")
         /\ t \in Waiters => ~Hears(t) /\ Is(job[t].node, "wait")
         /\ t \in Consumers \cup Waiters
<1>0. /\ pc[t] = "resuming" /\ job'[t].msg = job[t].msg
      /\ Errand(t) /\ Told /\ TypeOK /\ Errands /\ Placed
  BY SteadyParts DEF Resumes, SameErrand
<1>1. t \in Consumers \cup Waiters
  BY <1>0 DEF Placed, Places, Walking, Closing
<1>2. CASE t \in Consumers
  <2>1. Hears(t) /\ job[t].node = conv[job[t].msg.conv].node
    BY <1>0, <1>2 DEF Errand, AtNode
  <2>2. job[t].msg.conv \in DOMAIN conv
    BY <1>0, <1>2, <2>1, HeardOf
  <2>. QED
    BY <1>0, <1>2, <2>1, <2>2 DEF Errands, Hears
<1>3. CASE t \in Waiters
  BY <1>0, <1>3 DEF Errand, Hears
<1>. QED
  BY <1>1, <1>2, <1>3

\* There is one scheduler that resumes delays.
LEMMA OneWaiter ==
  ASSUME Steady, NEW s1 \in Waiters, NEW s2 \in Waiters, pc[s1] \notin Resting, pc[s2] \notin Resting
  PROVE  s1 = s2
BY SteadyParts DEF Steady, Leases

LEMMA OwnWalksAt ==
  ASSUME Steady, NEW r \in DOMAIN run
  PROVE  /\ \A t1, t2 \in Threads : FirstWalk(t1, r) /\ FirstWalk(t2, r) => t1 = t2
         /\ \A t \in Threads : \A n \in ByTrigger :
              (Has(t, r, n) => FirstWalk(t, r)) /\ (FirstWalk(t, r) => Unmet(t, r, n))
         /\ \A t \in Threads : \A n \in ByDelay :
              (Has(t, r, n) => DelayWalk(t, r)) /\ (DelayWalk(t, r) => Unmet(t, r, n))
         /\ \A n \in ByDelay : Traced(r, n)
BY SteadyParts DEF OwnWalks

LEMMA TriggerWalksStep ==
  ASSUME Steady, NEW r \in DOMAIN run'
  PROVE  /\ \A t1, t2 \in Threads : FirstWalk(t1, r)' /\ FirstWalk(t2, r)' => t1 = t2
         /\ \A t \in Threads : \A n \in ByTrigger :
              (Has(t, r, n)' => FirstWalk(t, r)') /\ (FirstWalk(t, r)' => Unmet(t, r, n)')
<1>0. /\ Placed /\ Rows /\ Rows' /\ Jobs /\ Budget /\ [Next]_vars
      /\ \A t \in Threads : pc[t] \in WithRun => job[t].run \in DOMAIN run
      /\ ByTrigger \subseteq DOMAIN Graph.kind
  BY SteadyParts, OriginsAreNodes DEF Jobs, Sound
<1>1. ASSUME Beside PROVE /\ \A t \in Threads : FirstWalk(t, r)' => FirstWalk(t, r)
                          /\ r \in DOMAIN run
                          /\ \A t \in Threads : \A n \in ByTrigger :
                               (Has(t, r, n)' => FirstWalk(t, r)') /\ (FirstWalk(t, r)' => Unmet(t, r, n)')
  <2>1. r \in DOMAIN run
    BY <1>1, AroundRuns
  <2>2. ASSUME NEW t \in Threads, pc'[t] # "idle" PROVE Stays(t)
    BY <1>1, <2>2 DEF Beside
  <2>3. ASSUME NEW t \in Threads, FirstWalk(t, r)' PROVE FirstWalk(t, r) /\ Stays(t)
    BY <2>2, <2>3 DEF FirstWalk, Walks, Walking, Hears, Stays
  <2>4. ASSUME NEW t \in Threads, NEW n \in ByTrigger, Has(t, r, n)' PROVE FirstWalk(t, r)'
    <3>1. Stays(t)
      BY <2>2, <2>4 DEF Has, Walks, Walking
    <3>2. Has(t, r, n)
      BY <2>4, <3>1 DEF Has, Walks, Ahead, Stays
    <3>3. FirstWalk(t, r)
      BY <1>0, <2>1, <3>2, OwnWalksAt
    <3>. QED
      BY <3>1, <3>3 DEF FirstWalk, Walks, Hears, Stays
  <2>5. ASSUME NEW t \in Threads, NEW n \in ByTrigger, FirstWalk(t, r)' PROVE Unmet(t, r, n)'
    <3>1. Unmet(t, r, n) /\ Stays(t)
      BY <1>0, <2>1, <2>3, <2>5, OwnWalksAt
    <3>2. Unvisited(t, n)' => Unvisited(t, n)
      BY <3>1 DEF Unvisited, Stays
    <3>3. run'[r].visits = run[r].visits /\ run[r].lost \subseteq run'[r].lost
      BY <1>1, <2>1, AroundRuns
    <3>. QED
      BY <3>1, <3>2, <3>3 DEF Unmet, Unvisited
  <2>. QED
    BY <2>1, <2>3, <2>4, <2>5
<1>2. ASSUME NEW t \in Threads, Plays(t), r \in DOMAIN run
      PROVE  /\ \A u \in Threads : FirstWalk(u, r)' => FirstWalk(u, r)
             /\ \A u \in Threads : \A n \in ByTrigger :
                  (Has(u, r, n)' => FirstWalk(u, r)') /\ (FirstWalk(u, r)' => Unmet(u, r, n)')
  <2>1. ~(Opened(t) /\ job'[t].run = r)
    BY <1>2 DEF Opened
  <2>2. ASSUME FirstWalk(t, r)'
        PROVE  FirstWalk(t, r) /\ \A n : Unvisited(t, n)' => Unvisited(t, n)
    <3>1. ~\E out : Resumes(t, out)
      BY <2>2, ResumesAt DEF FirstWalk
    <3>2. /\ pc[t] \in Walking /\ job'[t].run = job[t].run /\ job'[t].msg = job[t].msg
          /\ job'[t].graph = job[t].graph /\ job[t].visited \subseteq job'[t].visited
      BY <1>2, <2>1, <2>2, <3>1, WalksOn DEF FirstWalk, Walks
    <3>. QED
      BY <2>2, <3>2 DEF FirstWalk, Walks, Hears, Unvisited
  <2>3. ASSUME NEW u \in Threads, u # t
        PROVE  /\ FirstWalk(u, r)' => FirstWalk(u, r) /\ \A n : Unvisited(u, n)' => Unvisited(u, n)
               /\ \A n : Has(u, r, n)' => Has(u, r, n)
               /\ FirstWalk(u, r) => FirstWalk(u, r)'
    <3>1. Stays(u)
      BY <1>2, <2>3 DEF Plays
    <3>. QED
      BY <3>1 DEF FirstWalk, Walks, Hears, Unvisited, Has, Ahead, Stays
  <2>4. ASSUME NEW n \in ByTrigger, Has(t, r, n)' PROVE FirstWalk(t, r)'
    <3>0. ASSUME NEW p \in ByTrigger, Has(t, r, p), job'[t].msg = job[t].msg PROVE FirstWalk(t, r)'
      <4>1. FirstWalk(t, r)
        BY <1>0, <1>2, <3>0, OwnWalksAt
      <4>. QED
        BY <2>4, <3>0, <4>1 DEF FirstWalk, Hears, Has, Walks
    <3>1. CASE Has(t, r, n) /\ job'[t].msg = job[t].msg
      BY <3>0, <3>1
    <3>2. ASSUME NEW p \in DOMAIN Graph.kind, NEW out \in Outs(p), n \in ToSet(out)
          PROVE  p \in ByTrigger /\ ~Is(p, "agent") /\ ~Is(p, "wait")
      BY <1>0, <2>4, <3>2, Into DEF Is
    <3>4. \A out : Resumes(t, out) => Is(job[t].node, "agent") \/ Is(job[t].node, "wait")
      BY ResumesAt
    <3>. QED
      BY <1>2, <2>1, <2>4, <3>1, <3>2, <3>0, <3>4, HasOn DEF Opened
  <2>5. ASSUME NEW u \in Threads, NEW n \in ByTrigger, FirstWalk(u, r)' PROVE Unmet(u, r, n)'
    <3>1. FirstWalk(u, r) /\ (Unvisited(u, n)' => Unvisited(u, n))
      BY <2>2, <2>3, <2>5
    <3>2. Unmet(u, r, n)
      BY <1>0, <1>2, <3>1, OwnWalksAt
    <3>l. run[r].lost \subseteq run'[r].lost
      BY <1>0, <1>2, Visiting
    <3>3. CASE run'[r].visits[n] = run[r].visits[n]
      BY <3>l, <3>1, <3>2, <3>3 DEF Unmet, Unvisited
    <3>4. CASE Has(t, r, n) /\ ~Unvisited(t, n)'
      <4>1. u = t
        BY <1>0, <1>2, <3>1, <3>4, OwnWalksAt
      <4>. QED
        BY <3>4, <4>1 DEF Unmet, Unvisited
    <3>. QED
      BY <1>0, <1>2, <3>3, <3>4, Visiting
  <2>6. ASSUME NEW u \in Threads, NEW n \in ByTrigger, Has(u, r, n)' PROVE FirstWalk(u, r)'
    <3>1. CASE u = t
      BY <2>4, <2>6, <3>1
    <3>2. CASE u # t
      BY <1>0, <1>2, <2>3, <2>6, <3>2, OwnWalksAt
    <3>. QED
      BY <3>1, <3>2
  <2>. QED
    BY <2>2, <2>3, <2>5, <2>6
<1>3. ASSUME NEW t \in Threads, Plays(t), r \notin DOMAIN run
      PROVE  /\ Opened(t) /\ r = Len(run) + 1 /\ FirstWalk(t, r)'
             /\ \A u \in Threads : u # t => ~Walks(u, r)'
             /\ \A n \in DOMAIN Graph.kind : run'[r].visits[n] = 0
  <2>1. Effect(t) /\ Errand(t)
    BY <1>3 DEF Plays, Acts
  <2>2. Opened(t)
    BY <1>3, <2>1 DEF Effect, Elsewhere, Leaves, Visited, Starts, Refused, Served, Halts, Skipped, Registered,
                Delayed, Finishes, Resumes, Unresumed, Found, Notes, Resolves, Checks, Clears,
                Marks, Fails, Unrecorded, Unmarked, Stepped, Failed
  <2>3. DOMAIN run' = DOMAIN run \cup {Len(run) + 1}
    BY <2>2 DEF Opened
  <2>4. r = Len(run) + 1
    BY <1>3, <2>3
  <2>5. ~Hears(t) /\ t \notin Waiters
    BY <2>1, <2>2, SteadyParts, OpensWith DEF Opened
  <2>6. FirstWalk(t, r)'
    BY <2>2, <2>4, <2>5 DEF Opened, FirstWalk, Walks, Hears, Walking
  <2>7. ASSUME NEW u \in Threads, u # t, Walks(u, r)' PROVE FALSE
    <3>1. pc[u] \in Walking /\ job[u].run = r
      BY <1>3, <2>7 DEF Plays, Stays, Walks
    <3>. QED
      BY <1>0, <1>3, <3>1 DEF WithRun
  <2>8. \A n \in DOMAIN Graph.kind : run'[r].visits[n] = 0
    BY <2>2, <2>4 DEF Opened
  <2>. QED
    BY <2>2, <2>4, <2>6, <2>7, <2>8
<1>4. CASE r \in DOMAIN run
  BY <1>0, <1>1, <1>2, <1>4, SteadyKinds, OwnWalksAt
<1>5. CASE r \notin DOMAIN run
  <2>1. PICK t \in Threads : Plays(t)
    BY <1>1, <1>5, SteadyKinds
  <2>2. \A u \in Threads : Walks(u, r)' => u = t
    BY <1>3, <1>5, <2>1
  <2>3. \A n \in ByTrigger : run'[r].visits[n] = 0
    BY <1>0, <1>3, <1>5, <2>1
  <2>4. FirstWalk(t, r)'
    BY <1>3, <1>5, <2>1
  <2>. QED
    BY <2>2, <2>3, <2>4 DEF FirstWalk, Has, Unmet
<1>. QED
  BY <1>4, <1>5

LEMMA DelayWalksStep ==
  ASSUME Steady, NEW r \in DOMAIN run'
  PROVE  \A t \in Threads : \A n \in ByDelay :
           (Has(t, r, n)' => DelayWalk(t, r)') /\ (DelayWalk(t, r)' => Unmet(t, r, n)')
<1>0. /\ Placed /\ Rows /\ Rows' /\ Jobs /\ Jobs' /\ Budget /\ [Next]_vars
      /\ ByDelay \subseteq DOMAIN Graph.kind
      /\ \A n \in DOMAIN Graph.kind : run'[r].visits[n] \in Nat
      /\ \A a \in DOMAIN Graph.first : \A x \in ToSet(Graph.first[a]) : x \notin ByDelay
  BY SteadyParts, OriginsAreNodes, ExecutedNext, SettingStays
<1>1. ASSUME NEW t \in Threads, NEW n \in ByDelay, Has(t, r, n)', Stays(t) PROVE DelayWalk(t, r)'
  <2>1. Has(t, r, n) /\ r \in DOMAIN run
    BY <1>0, <1>1 DEF Has, Walks, Ahead, Stays, Jobs, Sound, WithRun
  <2>2. DelayWalk(t, r)
    BY <1>0, <2>1, OwnWalksAt
  <2>. QED
    BY <1>1, <2>2 DEF DelayWalk, Walks, Stays
<1>2. ASSUME NEW t \in Threads, NEW n \in ByDelay, Has(t, r, n)', Plays(t) PROVE DelayWalk(t, r)'
  <2>0. Walks(t, r)' /\ Errand(t)
    BY <1>2, SteadyParts DEF Has
  <2> SUFFICES t \in Waiters
    BY <2>0 DEF DelayWalk
  <2>1. ASSUME NEW p \in ByDelay, Has(t, r, p) PROVE t \in Waiters
    <3>1. r \in DOMAIN run
      BY <1>0, <2>1 DEF Has, Walks, Jobs, Sound, WithRun
    <3>. QED
      BY <1>0, <2>1, <3>1, OwnWalksAt DEF DelayWalk
  <2>2. ASSUME NEW p \in DOMAIN Graph.kind, NEW out \in Outs(p), n \in ToSet(out)
        PROVE  Is(p, "wait") \/ (p \in ByDelay /\ ~Is(p, "agent"))
    BY <1>0, <2>2, Into DEF Is
  <2>3. \A p : ~(Is(p, "wait") /\ Is(p, "agent"))
    BY DEF Is
  <2>4. CASE Opened(t)
    <3>1. job[t].msg.about \in DOMAIN Graph.first /\ pc[t] = "opening"
      BY <2>0, <2>4, SteadyParts, OpensWith DEF Opened
    <3>2. r = Len(run) + 1 /\ r \notin DOMAIN run
      BY <2>0, <2>4 DEF Opened, Walks
    <3>3. \A p : ~Has(t, r, p)
      BY <3>1 DEF Has, Walks, Walking
    <3>4. n \in ToSet(Graph.first[job[t].msg.about])
      BY <1>2, <2>0, <2>4, <3>1, <3>3, HasOn DEF Opened, Skipped, Resumes
    <3>. QED
      BY <1>0, <3>1, <3>4
  <2>5. ASSUME NEW out, Resumes(t, out), ~Is(job[t].node, "agent") PROVE t \in Waiters
    BY <2>5, ResumesAt
  <2>6. ASSUME NEW p \in DOMAIN Graph.kind, NEW out \in Outs(p), n \in ToSet(out),
               \/ Has(t, r, p) /\ ~Is(p, "wait")
               \/ Resumes(t, out) /\ job[t].node = p
        PROVE  t \in Waiters
    <3>1. Is(p, "wait") \/ (p \in ByDelay /\ ~Is(p, "agent"))
      BY <2>2, <2>6
    <3>. QED
      BY <2>1, <2>3, <2>5, <2>6, <3>1
  <2>. QED
    BY <1>2, <2>1, <2>4, <2>6, HasOn
<1>3. ASSUME NEW t \in Threads, NEW n \in ByDelay, DelayWalk(t, r)', Beside PROVE Unmet(t, r, n)'
  <2>1. Stays(t) /\ r \in DOMAIN run /\ DelayWalk(t, r)
    BY <1>0, <1>3 DEF Beside, DelayWalk, Walks, Walking, Stays, Jobs, Sound, WithRun
  <2>2. Unmet(t, r, n)
    BY <1>0, <2>1, OwnWalksAt
  <2>3. run'[r].visits = run[r].visits /\ run[r].lost \subseteq run'[r].lost
    BY <1>3, <2>1, AroundRuns
  <2>4. Unvisited(t, n)' => Unvisited(t, n)
    BY <2>1 DEF Unvisited, Stays
  <2>. QED
    BY <2>2, <2>3, <2>4 DEF Unmet, Unvisited
<1>4. ASSUME NEW u \in Threads, NEW t \in Threads, Plays(u), r \in DOMAIN run, NEW n \in ByDelay,
             DelayWalk(t, r)',
             ~Unvisited(t, n)' \/ run[r].visits[n] = 0 \/ n \in run[r].lost,
             pc[t] \notin Resting
      PROVE  Unmet(t, r, n)'
  <2>l. run[r].lost \subseteq run'[r].lost
    BY <1>0, <1>4, Visiting
  <2>1. CASE run'[r].visits[n] = run[r].visits[n] \/ ~Unvisited(t, n)'
    BY <1>4, <2>l, <2>1 DEF Unmet, Unvisited
  <2>2. CASE Has(u, r, n) /\ ~Unvisited(u, n)'
    <3>1. DelayWalk(u, r)
      BY <1>0, <1>4, <2>2, OwnWalksAt
    <3>2. u = t
      BY <1>4, <3>1, OneWaiter DEF DelayWalk, Walks, Walking, Resting
    <3>. QED
      BY <2>2, <3>2 DEF Unmet, Unvisited
  <2>. QED
    BY <1>0, <1>4, <2>1, <2>2, Visiting
<1>5. ASSUME NEW u \in Threads, NEW t \in Threads, Plays(u), NEW n \in ByDelay, DelayWalk(t, r)'
      PROVE  Unmet(t, r, n)'
  <2>0. pc'[t] \in Walking /\ job'[t].run = r /\ t \in Waiters
    BY <1>5 DEF DelayWalk, Walks
  <2>1. CASE t # u \/ (pc[t] \in Walking /\ job'[t].run = job[t].run
                       /\ job'[t].graph = job[t].graph /\ job[t].visited \subseteq job'[t].visited)
    <3>1. DelayWalk(t, r) /\ (Unvisited(t, n)' => Unvisited(t, n))
      BY <1>5, <2>0, <2>1 DEF Plays, Stays, DelayWalk, Walks, Unvisited
    <3>2. r \in DOMAIN run /\ pc[t] \notin Resting
      BY <1>0, <3>1 DEF DelayWalk, Walks, Walking, Resting, Jobs, Sound, WithRun
    <3>3. Unmet(t, r, n)
      BY <1>0, <3>1, <3>2, OwnWalksAt
    <3>. QED
      BY <1>4, <1>5, <3>1, <3>2, <3>3 DEF Unmet, Unvisited
  <2>2. ASSUME t = u, NEW out, Resumes(t, out) PROVE Unmet(t, r, n)'
    <3>1. /\ job[t].run = r /\ pc[t] = "resuming" /\ job'[t].visited = StepsOf(r)
          /\ job'[t].graph = nodes /\ pc[t] \notin Resting
      BY <2>0, <2>2 DEF Resumes, SameErrand, Resting
    <3>2. r \in DOMAIN run
      BY <1>0, <3>1 DEF Jobs, Sound, WithRun
    <3>3. ASSUME NEW v \in Threads, DelayWalk(v, r), Acting(v, n) PROVE FALSE
      <4>1. v \in Waiters /\ pc[v] \notin Resting /\ pc[v] = "acting"
        BY <3>3 DEF DelayWalk, Acting, Resting
      <4>2. v = t
        BY <2>0, <3>1, <4>1, OneWaiter
      <4>. QED
        BY <3>1, <4>1, <4>2
    <3>4. Traced(r, n) /\ run[r].visits[n] \in Nat
      BY <1>0, <3>2, OwnWalksAt, Executed
    <3>5. n \in StepsOf(r) \/ n \notin nodes \/ run[r].visits[n] = 0 \/ n \in run[r].lost
      BY <3>3, <3>4 DEF Traced
    <3>6. n \in StepsOf(r) \/ n \notin nodes => ~Unvisited(t, n)'
      BY <3>1 DEF Unvisited
    <3>. QED
      BY <1>4, <1>5, <2>2, <3>1, <3>2, <3>5, <3>6
  <2>3. t = u => ~Opened(t)
    BY <1>5, <2>0, SteadyParts, OpensWith DEF Opened
  <2>. QED
    BY <1>5, <2>0, <2>1, <2>2, <2>3, WalksOn
<1>6. ASSUME NEW t \in Threads, NEW n \in ByDelay, Has(t, r, n)' PROVE DelayWalk(t, r)'
  <2>1. Stays(t) \/ Plays(t)
    BY <1>6, SteadyKinds DEF Beside, Plays, Has, Walks, Walking
  <2>. QED
    BY <1>1, <1>2, <1>6, <2>1
<1>. QED
  BY <1>3, <1>5, <1>6, SteadyKinds

\* What is over for a node stays so.
LEMMA DoomedLasts ==
  ASSUME Steady, NEW r \in DOMAIN run, NEW m
  PROVE  /\ Doomed(r, m) => Doomed(r, m)'
         /\ m \in nodes' => m \in nodes
         /\ m \in StepsOf(r) \/ m \notin nodes => m \in StepsOf(r)' \/ m \notin nodes'
<1>0. /\ Placed /\ Rows /\ Rows' /\ Jobs /\ Budget /\ Errands /\ [Next]_vars
  BY SteadyParts
<1>1. nodes' = nodes \/ \E n : Removes(n)
  BY <1>0, Edits
<1>2. m \in nodes' => m \in nodes
  BY <1>1 DEF Removes
<1>3. ASSUME m \in StepsOf(r), m \in nodes' PROVE m \in StepsOf(r)'
  <2>1. ASSUME NEW t \in Threads, Plays(t) PROVE m \in StepsOf(r)'
    BY <1>0, <1>3, <2>1, StepGrows DEF Plays, Acts, Grown
  <2>2. CASE Unmarked
    BY <1>3, <2>2 DEF Unmarked, StepsOf
  <2>3. ASSUME NEW n, Removes(n) PROVE m \in StepsOf(r)'
    <3>1. m # n /\ r \in DOMAIN run'
      BY <1>3, <2>3 DEF Removes
    <3>2. m \in DOMAIN Graph.kind /\ (run[r].steps[m] > 0 \/ m \in run[r].failed)
      BY <1>0, <1>3, Executed
    <3>3. run'[r].steps[m] > 0 \/ m \in run'[r].failed
      BY <2>3, <3>1, <3>2 DEF Removes
    <3>. QED
      BY <1>0, <3>1, <3>2, <3>3, ExecutedNext, SettingStays
  <2>. QED
    BY <2>1, <2>2, <2>3, SteadyKinds DEF Beside, Calm, Toggles, Turns, Dies, Unmarked
<1>. QED
  BY <1>0, <1>2, <1>3, DoomedStays

\* A walk behind a delay leaves a trace of where it has been: a step, or it is lost.
LEMMA TracedStep ==
  ASSUME Steady, NEW r \in DOMAIN run', NEW n \in ByDelay PROVE Traced(r, n)'
<1> SUFFICES ASSUME run'[r].visits[n] > 0, n \in nodes', n \notin run'[r].lost
             PROVE  \/ n \in StepsOf(r)'
                    \/ \E t \in Threads : DelayWalk(t, r)' /\ Acting(t, n)'
  BY DEF Traced
<1>0. /\ Placed /\ Rows /\ Rows' /\ Jobs /\ Budget /\ [Next]_vars
      /\ n \in DOMAIN Graph.kind
  BY SteadyParts, OriginsAreNodes
<1>1. r \in DOMAIN run
  <2>1. ASSUME NEW t \in Threads, Plays(t), r \notin DOMAIN run PROVE FALSE
    <3>1. Effect(t)
      BY <2>1 DEF Plays, Acts
    <3>2. Opened(t)
      BY <2>1, <3>1
      DEF Effect, Elsewhere, Leaves, Visited, Starts, Refused, Served, Halts, Skipped, Registered,
          Delayed, Finishes, Resumes, Unresumed, Found, Notes, Resolves, Checks, Clears,
          Marks, Fails, Unrecorded, Unmarked, Stepped, Failed
    <3>3. r = Len(run) + 1
      BY <2>1, <3>2 DEF Opened
    <3>4. run'[r].visits[n] = 0
      BY <1>0, <3>2, <3>3 DEF Opened
    <3>. QED
      BY <3>4
  <2>. QED
    BY <2>1, SteadyKinds, AroundRuns
<1>l. run[r].lost \subseteq run'[r].lost
  BY <1>1, SteadyParts, TracesStay DEF Trodden
<1>2. ASSUME NEW t \in Threads, Plays(t), Visited(t, n), job[t].run = r
      PROVE  DelayWalk(t, r)' /\ Acting(t, n)'
  <2>1. Has(t, r, n)
    BY <1>2 DEF Visited, Has, Walks, Walking
  <2>2. DelayWalk(t, r)
    BY <1>1, <2>1, OwnWalksAt
  <2>. QED
    BY <1>2, <2>2 DEF Visited, SameErrand, DelayWalk, Walks, Walking, Acting
<1>3. CASE run'[r].visits[n] = run[r].visits[n]
  <2>1. \/ n \in StepsOf(r) \/ n \notin nodes
        \/ \E t \in Threads : DelayWalk(t, r) /\ Acting(t, n)
    BY <1>1, <1>l, <1>3, OwnWalksAt DEF Traced
  <2>2. n \in nodes /\ (n \in StepsOf(r) => n \in StepsOf(r)')
    BY <1>1, DoomedLasts
  <2>3. ASSUME NEW t \in Threads, DelayWalk(t, r), Acting(t, n)
        PROVE  n \in StepsOf(r)' \/ (DelayWalk(t, r)' /\ Acting(t, n)')
    <3>1. t \in Waiters /\ pc[t] = "acting" /\ job[t].run = r /\ job[t].node = n
      BY <2>3 DEF DelayWalk, Walks, Acting
    <3>2. CASE Stays(t)
      BY <2>3, <3>2 DEF Stays, DelayWalk, Walks, Acting
    <3>3. CASE Dies(t)
      BY <1>1, <3>1, <3>3 DEF Dies, Missed
    <3>4. CASE Plays(t)
      <4>1. Starts(t) \/ Refused(t) \/ Served(t) \/ Halts(t) \/ \E out : Skipped(t, out)
        BY <3>1, <3>4
        DEF Plays, Acts, Effect, Elsewhere, Aways, Visited, Registered, Delayed, Finishes, Resumes,
            Unresumed, Opened, Found, Notes, Resolves, Checks, Clears, Walking
      <4>2. CASE Starts(t)
        BY <3>1, <4>2 DEF Starts, SameErrand, DelayWalk, Walks, Walking, Acting
      <4>3. CASE Refused(t) \/ Served(t) \/ Halts(t) \/ \E out : Skipped(t, out)
        <5>1. Marks(t) \/ Fails(t)
          BY <4>3 DEF Refused, Served, Halts, Skipped
        <5>2. ~Unrecorded(t)
          BY <1>1, <3>1 DEF Unrecorded, Missed
        <5>3. Stepped(r, n) \/ Failed(r, n)
          BY <3>1, <5>1, <5>2 DEF Marks, Fails
        <5>. QED
          BY <1>0, <1>1, <2>2, <5>3, Marked
      <4>. QED
        BY <4>1, <4>2, <4>3
    <3>5. Stays(t) \/ Dies(t) \/ Plays(t)
      BY <3>1, SteadyKinds, DiesAlone DEF Plays
    <3>. QED
      BY <3>2, <3>3, <3>4, <3>5
  <2>. QED
    BY <2>1, <2>2, <2>3
<1>4. CASE run'[r].visits[n] # run[r].visits[n]
  <2>1. PICK t \in Threads : Plays(t)
    BY <1>1, <1>4, SteadyKinds, AroundRuns
  <2>2. Visited(t, n) /\ job[t].run = r
    BY <1>0, <1>1, <1>4, <2>1, Visiting
  <2>. QED
    BY <1>2, <2>1, <2>2
<1>. QED
  BY <1>3, <1>4

LEMMA OwnWalksStep ==
  ASSUME Steady, NEW r \in DOMAIN run' PROVE OwnWalks(r)'
<1>1. ByTrigger' = ByTrigger /\ ByDelay' = ByDelay
  BY SteadyParts, SettingStays
<1>. QED
  BY <1>1, TriggerWalksStep, DelayWalksStep, TracedStep DEF OwnWalks

\* The status of a conversation changes only when nobody is about to wait for it.
LEMMA StatusTurns ==
  ASSUME Steady, NEW c \in DOMAIN conv, conv'[c].status # conv[c].status
  PROVE  Beside /\ Turns(c) /\ ~Unregistered(c)
<1>1. ASSUME NEW t \in Threads, Plays(t) PROVE conv'[c] = conv[c]
  <2>1. Effect(t)
    BY <1>1 DEF Plays, Acts
  <2>. QED
    BY <2>1 DEF Effect, Elsewhere, Leaves, Visited, Starts, Refused, Served, Halts, Skipped, Registered,
                Delayed, Finishes, Resumes, Unresumed, Opened, Found, Notes, Resolves, Checks,
                Clears, SameTables
<1>2. Beside
  BY <1>1, SteadyKinds
<1>3. ~Calm /\ ~Toggles /\ (\A n : ~Removes(n)) /\ (\A t : ~Dies(t)) /\ \A d : Turns(d) => d = c
  BY DEF Calm, Toggles, Removes, Dies, Turns
<1>4. Turns(c)
  BY <1>2, <1>3 DEF Beside
<1>. QED
  BY <1>2, <1>4 DEF Turns, Steady

LEMMA AttendedStep ==
  ASSUME Steady, NEW t \in Threads PROVE Attended(t)'
<1> SUFFICES ASSUME pc'[t] \in {"acting", "registering"}, NEW c \in ToSet(job'[t].convs)
             PROVE  conv'[c].status = "running"
  BY DEF Attended
<1>0. /\ Attended(t) /\ Sound(t) /\ Errand(t)
  BY SteadyParts DEF Jobs
<1>1. ASSUME pc[t] \in {"acting", "registering"}, c \in ToSet(job[t].convs)
      PROVE  conv'[c].status = "running"
  <2>1. conv[c].status = "running"
    BY <1>0, <1>1 DEF Attended
  <2>2. c \in DOMAIN conv /\ conv[c].run = job[t].run /\ conv[c].node = job[t].node
    BY <1>0, <1>1 DEF Sound, Started, ToSet
  <2>3. Unregistered(c)
    BY <1>1, <2>2 DEF Unregistered
  <2>. QED
    BY <2>1, <2>2, <2>3, StatusTurns
<1>2. CASE Stays(t)
  BY <1>1, <1>2 DEF Stays
<1>3. CASE Plays(t)
  <2>1. Effect(t)
    BY <1>3 DEF Plays, Acts
  <2>2. CASE \E n : Visited(t, n)
    <3>1. job'[t].convs = <<>>
      BY <2>2 DEF Visited
    <3>2. ToSet(<<>>) = {}
      BY <1>0, SequenceParts DEF Errand
    <3>. QED
      BY <3>1, <3>2
  <2>3. CASE Starts(t)
    BY <1>1, <2>3 DEF Starts
  <2>4. CASE Served(t) \/ \E d : Registered(t, d)
    BY <1>1, <2>4 DEF Served, Registered
  <2>. QED
    BY <2>1, <2>2, <2>3, <2>4
    DEF Effect, Elsewhere, Aways, Refused, Halts, Skipped, Delayed, Finishes, Resumes, Unresumed, Opened,
        Found, Notes, Resolves, Checks, Clears, Walking
<1>. QED
  BY <1>2, <1>3, SteadyKinds DEF Beside, Plays
-----------------------------------------------------------------------------
(* OnceInv: what happens at an agent's node.                               *)

LEMMA AgentNodes ==
  ASSUME Steady, NEW m \in Agents
  PROVE  /\ m \in DOMAIN Graph.kind /\ Is(m, "agent") /\ ~Is(m, "wait") /\ ~Is(m, "condition")
         /\ ~Is(m, "action") /\ (m \in ByTrigger \/ m \in ByDelay)
         /\ ByAgent(m) \subseteq DOMAIN Graph.kind /\ m \notin ByAgent(m)
         /\ \A n : ByAgent(n)' = ByAgent(n)
         /\ ByTrigger' = ByTrigger /\ Agents' = Agents
BY SteadyParts, OriginsAreNodes, SettingStays DEF Agents, Is

\* One walk comes by an agent's node.
LEMMA OneAsker ==
  ASSUME Steady, NEW r \in DOMAIN run, NEW m \in Agents, NEW t \in Threads
  PROVE  /\ Walks(t, r) /\ Acting(t, m) => Nears(t, r, m)
         /\ \A u \in Threads : Asker(t, r, m) /\ Asker(u, r, m) => t = u
<1>1. ASSUME Walks(t, r), Acting(t, m) PROVE Nears(t, r, m)
  <2>1. Has(t, r, m)
    BY <1>1 DEF Has, Acting
  <2>2. Asker(t, r, m)
    BY <2>1, OwnWalksAt, AgentNodes DEF Asker
  <2>. QED
    BY <1>1, <2>2 DEF Nears
<1>2. ASSUME NEW u \in Threads, Asker(t, r, m), Asker(u, r, m) PROVE t = u
  <2>1. CASE m \in ByTrigger
    BY <1>2, <2>1, OwnWalksAt DEF Asker
  <2>2. CASE m \notin ByTrigger
    BY <1>2, <2>2, OneWaiter DEF Asker, DelayWalk, Walks, Walking, Resting
  <2>. QED
    BY <2>1, <2>2
<1>. QED
  BY <1>1, <1>2

\* Who does not move comes no nearer.
LEMMA StillThere ==
  ASSUME Steady, NEW r \in DOMAIN run, NEW m \in Agents, NEW u \in Threads,
         Stays(u) \/ pc'[u] = "idle"
  PROVE  /\ Nears(u, r, m)' => Nears(u, r, m)
         /\ Contends(u, r, m)' => Contends(u, r, m) /\ job'[u].msg = job[u].msg
         /\ Registers(u, r, m)' => Registers(u, r, m)
         /\ Follows(u, r, m)' => Follows(u, r, m) /\ Stays(u)
<1>1. CASE pc'[u] = "idle"
  BY <1>1 DEF Nears, Asker, FirstWalk, DelayWalk, Walks, Walking, Contends, Registers, Follows, Wins,
              Has
<1>2. CASE Stays(u)
  <2>1. pc'[u] = pc[u] /\ job'[u] = job[u]
    BY <1>2 DEF Stays
  <2>2. Nears(u, r, m)' => Nears(u, r, m)
    BY <2>1, AgentNodes DEF Nears, Asker, FirstWalk, DelayWalk, Walks, Hears, Acting
  <2>3. Contends(u, r, m)' => Contends(u, r, m)
    BY <2>1 DEF Contends, At
  <2>4. Registers(u, r, m)' => Registers(u, r, m)
    BY <2>1 DEF Registers, Walks
  <2>5. Wins(u, r, m)' => Wins(u, r, m)
    BY <2>1, DoomedLasts DEF Wins, At
  <2>6. \A n : Has(u, r, n)' => Has(u, r, n)
    BY <2>1 DEF Has, Walks, Ahead
  <2>7. Follows(u, r, m)' => Follows(u, r, m)
    BY <2>5, <2>6, AgentNodes DEF Follows
  <2>. QED
    BY <1>2, <2>1, <2>2, <2>3, <2>4, <2>7
<1>. QED
  BY <1>1, <1>2

LEMMA NearsOn ==
  ASSUME Steady, NEW r \in DOMAIN run, NEW m \in Agents \ run[r].lost, NEW t \in Threads, Plays(t), Nears(t, r, m)'
  PROVE  Nears(t, r, m) \/ ~Touched(r, m)
<1>1. /\ pc'[t] \in Walking /\ job'[t].run = r
      /\ IF m \in ByTrigger THEN t \notin Waiters /\ ~Hears(t)' ELSE t \in Waiters
      /\ m \in job'[t].graph \ job'[t].visited \/ Acting(t, m)'
  BY AgentNodes DEF Nears, Asker, FirstWalk, DelayWalk, Walks
<1>2. ~Opened(t)
  BY <1>1 DEF Opened
<1>3. ASSUME NEW out, Resumes(t, out) PROVE ~Touched(r, m)
  <2>1. m \in nodes \ StepsOf(r)
    BY <1>1, <1>3 DEF Resumes, SameErrand, Acting
  <2>2. m \notin ByTrigger
    BY <1>1, <1>3, ResumesAt
  <2>. QED
    BY <2>1, <2>2, SteadyParts DEF AtAgent
<1>4. CASE /\ pc[t] \in Walking /\ job'[t].run = job[t].run /\ job'[t].msg = job[t].msg
           /\ job'[t].graph = job[t].graph /\ job[t].visited \subseteq job'[t].visited
           /\ \A n : Acting(t, n)' => Acting(t, n) \/ n \in Ahead(t)
  <2>1. m \in job[t].graph \ job[t].visited \/ Acting(t, m)
    BY <1>1, <1>4 DEF Ahead
  <2>. QED
    BY <1>1, <1>4, <2>1 DEF Nears, Asker, FirstWalk, DelayWalk, Walks, Hears
<1>. QED
  BY <1>1, <1>2, <1>3, <1>4, WalksOn

LEMMA ContendsOn ==
  ASSUME Steady, NEW r \in DOMAIN run, NEW m \in Agents, NEW t \in Threads, Plays(t),
         Contends(t, r, m)'
  PROVE  (Contends(t, r, m) /\ job'[t].msg = job[t].msg) \/ Found(t)
<1>1. /\ t \in Consumers /\ job'[t].run = r /\ job'[t].node = m
      /\ pc'[t] \in {"noting", "resolving"} /\ job'[t].msg.status = "finished"
  BY DEF Contends, At
<1>2. Found(t) \/ Notes(t)
  BY <1>1 DEF Plays, Acts, Effect, Elsewhere, Aways, AtNode, Visited, Starts, Refused, Served, Halts,
              Skipped, Registered, Delayed, Finishes, Resumes, Unresumed, Opened, Resolves, Checks,
              Clears
<1>3. Notes(t) => Contends(t, r, m) /\ job'[t].msg = job[t].msg
  BY <1>1 DEF Notes, Contends, At
<1>. QED
  BY <1>2, <1>3

LEMMA RegistersOn ==
  ASSUME Steady, NEW r \in DOMAIN run, NEW m \in Agents, NEW t \in Threads, Plays(t),
         Registers(t, r, m)'
  PROVE  Registers(t, r, m) \/ (Served(t) /\ Walks(t, r) /\ Acting(t, m))
<1>1. job'[t].run = r /\ pc'[t] = "registering" /\ job'[t].node = m
  BY DEF Registers, Walks
<1>2. Served(t) \/ \E c : Registered(t, c)
  BY <1>1 DEF Plays, Acts, Effect, Elsewhere, Aways, Walking, Visited, Starts, Refused, Halts, Skipped,
              Delayed, Finishes, Resumes, Unresumed, Opened, Found, Notes, Resolves, Checks, Clears
<1>3. Served(t) => Walks(t, r) /\ Acting(t, m)
  BY <1>1 DEF Served, SameErrand, Walks, Acting, Walking
<1>4. (\E c : Registered(t, c)) => Registers(t, r, m)
  BY <1>1 DEF Registered, SameErrand, Registers, Walks, Walking
<1>. QED
  BY <1>2, <1>3, <1>4

\* Who comes to follow an agent's node: the last replica to resolve, or the walk itself.
LEMMA FollowsOn ==
  ASSUME Steady, NEW r \in DOMAIN run, NEW m \in Agents, NEW t \in Threads, Plays(t),
         Follows(t, r, m)'
  PROVE  \/ Follows(t, r, m)
         \/ Resolves(t) /\ pc'[t] = "checking" /\ At(t, r, m) /\ ~Doomed(r, m)
         \/ \E out : Skipped(t, out) /\ Walks(t, r) /\ Acting(t, m)
<1>0. Budget /\ m \in DOMAIN Graph.kind /\ Is(m, "agent")
  BY SteadyParts, AgentNodes
<1>1. ASSUME Wins(t, r, m)'
      PROVE  \/ Follows(t, r, m)
             \/ Resolves(t) /\ pc'[t] = "checking" /\ At(t, r, m) /\ ~Doomed(r, m)
  <2>1. /\ t \in Consumers /\ job'[t].run = r /\ job'[t].node = m
        /\ \/ pc'[t] = "resuming" /\ m \in nodes
           \/ pc'[t] = "checking" /\ ~Doomed(r, m)
    BY <1>1, DoomedLasts DEF Wins, At
  <2>2. Resolves(t) \/ Checks(t)
    BY <2>1 DEF Plays, Acts, Effect, Elsewhere, Aways, AtNode, Visited, Starts, Refused, Served, Halts,
                Skipped, Registered, Delayed, Finishes, Resumes, Unresumed, Opened, Found, Notes,
                Clears
  <2>3. CASE Checks(t)
    BY <2>1, <2>3 DEF Checks, Follows, Wins, At, Doomed
  <2>4. CASE Resolves(t)
    BY <2>1, <2>4 DEF Resolves, At
  <2>. QED
    BY <2>2, <2>3, <2>4
<1>2. ASSUME NEW n \in ByAgent(m), Has(t, r, n)'
      PROVE  Follows(t, r, m) \/ \E out : Skipped(t, out) /\ Walks(t, r) /\ Acting(t, m)
  <2>1. ~Opened(t)
    BY <1>2 DEF Opened, Has, Walks
  <2>2. CASE Has(t, r, n)
    BY <2>2 DEF Follows
  <2>3. ASSUME NEW p \in DOMAIN Graph.kind, NEW out \in Outs(p), n \in ToSet(out)
        PROVE  p = m \/ (p \in ByAgent(m) /\ ~Is(p, "agent") /\ ~Is(p, "wait"))
    BY <1>0, <1>2, <2>3, Into DEF Is
  <2>4. ASSUME NEW p \in DOMAIN Graph.kind, NEW out \in Outs(p), n \in ToSet(out),
               Skipped(t, out), Acting(t, p), Has(t, r, p)
        PROVE  Follows(t, r, m) \/ (Walks(t, r) /\ Acting(t, m))
    <3>1. CASE p = m
      BY <2>4, <3>1 DEF Has
    <3>2. CASE p \in ByAgent(m)
      BY <2>4, <3>2 DEF Follows
    <3>. QED
      BY <2>3, <2>4, <3>1, <3>2
  <2>6. ASSUME NEW out \in Outs(job[t].node), n \in ToSet(out), Resumes(t, out), job[t].run = r,
               job[t].node \in nodes, job[t].node \in DOMAIN Graph.kind
        PROVE  Follows(t, r, m)
    <3>1. job[t].node = m /\ t \in Consumers
      BY <1>0, <2>3, <2>6, ResumesAt DEF Is
    <3>. QED
      BY <2>6, <3>1 DEF Follows, Wins, At, Resumes
  <2>. QED
    BY <1>2, <2>1, <2>2, <2>4, <2>6, HasOn
<1>. QED
  BY <1>1, <1>2, AgentNodes DEF Follows

LEMMA WaitsOn ==
  ASSUME Steady, NEW r, NEW m, NEW c \in WaitsOf(r, m)'
  PROVE  c \in WaitsOf(r, m)
         \/ \E t \in Threads : Plays(t) /\ Registered(t, c) /\ Registers(t, r, m)
<1>0. TypeOK /\ Kept /\ c \in waits' /\ conv'[c].run = r /\ conv'[c].node = m
  BY SteadyParts DEF WaitsOf
<1>1. CASE c \in waits
  BY <1>0, <1>1 DEF TypeOK, Kept, WaitsOf
<1>2. CASE c \notin waits
  <2>1. PICK t \in Threads : Plays(t)
    BY <1>0, <1>2, SteadyKinds DEF Beside, Calm, Toggles, Turns, Removes, Dies
  <2>2. \E d : Registered(t, d)
    BY <1>0, <1>2, <2>1 DEF Plays, Acts, Effect, Elsewhere, Leaves, Visited, Starts, Refused, Served, Halts,
              Skipped, Delayed, Finishes, Resumes, Unresumed, Opened, Found, Notes, Resolves, Checks,
              Clears, SameTables
  <2>3. Registered(t, c)
    BY <1>0, <1>2, <2>2 DEF Registered
  <2>4. Registers(t, r, m)
    BY <1>0, <2>3 DEF Registered, Registers, Walks, Walking
  <2>. QED
    BY <2>1, <2>3, <2>4
<1>. QED
  BY <1>1, <1>2

\* What is behind an agent's node is executed by who follows it.
LEMMA FollowedOn ==
  ASSUME Steady, NEW r \in DOMAIN run, NEW m \in Agents, Followed(r, m)',
         \A t \in Threads : Follows(t, r, m)' => Follows(t, r, m)
  PROVE  Followed(r, m)
<1> SUFFICES ASSUME NEW n \in ByAgent(m), run'[r].visits[n] > 0 PROVE Followed(r, m)
  BY AgentNodes DEF Followed
<1>0. n \in DOMAIN Graph.kind
  BY AgentNodes
<1>1. CASE Beside
  <2>. QED
    BY <1>1, AroundRuns DEF Followed
<1>2. ASSUME NEW t \in Threads, Plays(t) PROVE Followed(r, m)
  <2>1. CASE Has(t, r, n)
    BY <2>1 DEF Followed, Follows
  <2>2. CASE run'[r].visits[n] = run[r].visits[n]
    BY <2>2 DEF Followed
  <2>. QED
    BY <1>0, <1>2, <2>1, <2>2, Visiting
<1>. QED
  BY <1>1, <1>2, SteadyKinds

LEMMA WalkingOn ==
  ASSUME Steady, NEW t \in Threads, Plays(t), pc[t] \in Walking
  PROVE  pc'[t] \in Walking \cup {"clearing", "counting waits"}
BY DEF Plays, Acts, Effect, Elsewhere, Aways, Visited, Starts, Refused, Served, Halts, Skipped, Registered,
       Delayed, Finishes, Resumes, Unresumed, Opened, Found, Notes, Resolves, Checks, Clears, Walking

\* Who follows an agent's node still meets nothing there that has been visited.
LEMMA FollowersMeet ==
  ASSUME Steady, NEW r \in DOMAIN run, NEW m \in Agents \ run[r].lost, NEW t \in Threads,
         Follows(t, r, m), Follows(t, r, m)', NEW n \in ByAgent(m)
  PROVE  /\ pc'[t] \in Walking => Unmet(t, r, n)'
         /\ pc'[t] \notin Walking => run'[r].visits[n] = 0
<1>0. n \in DOMAIN Graph.kind
  BY AgentNodes
<1>i. /\ pc[t] \in Walking => Unmet(t, r, n)
      /\ pc[t] \notin Walking => run[r].visits[n] = 0
      /\ \A u \in Threads : Follows(u, r, m) => u = t
  BY SteadyParts DEF AtAgent
<1>1. ASSUME run'[r].visits[n] = run[r].visits[n], run[r].lost \subseteq run'[r].lost,
             pc[t] \notin Walking \/ (pc'[t] \in Walking /\ (Unvisited(t, n)' => Unvisited(t, n)))
      PROVE  /\ pc'[t] \in Walking => Unmet(t, r, n)'
             /\ pc'[t] \notin Walking => run'[r].visits[n] = 0
  BY <1>i, <1>1 DEF Unmet, Unvisited
<1>2. Stays(t) => pc'[t] = pc[t] /\ (Unvisited(t, n)' => Unvisited(t, n))
  BY DEF Stays, Unvisited
<1>3. CASE Beside
  <2>1. Stays(t)
    BY <1>3, StillThere DEF Beside
  <2>. QED
    BY <1>1, <1>2, <1>3, <2>1, AroundRuns
<1>4. ASSUME Plays(t), pc[t] \in Walking
      PROVE  pc'[t] \in Walking /\ (Unvisited(t, n)' => Unvisited(t, n))
  <2>1. pc'[t] \in Walking
    BY <1>4, WalkingOn DEF Follows, Wins, Has, Walks
  <2>2. ~Opened(t) /\ ~\E out : Resumes(t, out)
    BY <1>4 DEF Opened, Resumes, Walking
  <2>. QED
    BY <1>4, <2>1, <2>2, WalksOn DEF Unvisited
<1>5. ASSUME NEW u \in Threads, Plays(u)
      PROVE  /\ pc'[t] \in Walking => Unmet(t, r, n)'
             /\ pc'[t] \notin Walking => run'[r].visits[n] = 0
  <2>0. run[r].lost \subseteq run'[r].lost
    BY <1>0, <1>5, Visiting
  <2>1. pc[t] \notin Walking \/ (pc'[t] \in Walking /\ (Unvisited(t, n)' => Unvisited(t, n)))
    BY <1>2, <1>4, <1>5 DEF Plays
  <2>2. CASE run'[r].visits[n] = run[r].visits[n]
    BY <1>1, <2>0, <2>1, <2>2
  <2>3. CASE Has(u, r, n) /\ ~Unvisited(u, n)'
    <3>1. u = t
      BY <1>i, <2>3 DEF Follows
    <3>2. pc'[t] \in Walking
      BY <2>1, <2>3, <3>1 DEF Has, Walks
    <3>. QED
      BY <2>3, <3>1, <3>2 DEF Unmet, Unvisited
  <2>. QED
    BY <1>0, <1>5, <2>2, <2>3, Visiting
<1>. QED
  BY <1>3, <1>5, SteadyKinds

LEMMA RunningKept ==
  ASSUME Steady, NEW r, NEW m, NEW t \in Threads, Registers(t, r, m), NEW c \in WaitsOf(r, m),
         conv[c].status = "running"
  PROVE  conv'[c].status = "running"
<1>1. c \in DOMAIN conv /\ Unregistered(c)
  BY SteadyParts DEF TypeOK, WaitsOf, Registers, Walks, Unregistered
<1>. QED
  BY <1>1, StatusTurns

\* Who hears that a conversation has finished, hears it alone.
LEMMA Tidings ==
  ASSUME Steady, NEW k \in Consumers, pc[k] \in AtNode \ {"checking", "resuming"}, NEW c,
         c = job[k].msg.conv
  PROVE  /\ c \in DOMAIN conv /\ conv[c].run = job[k].run /\ conv[c].node = job[k].node
         /\ conv[c].status # "running"
         /\ job[k].msg.status = "finished" => conv[c].status = "finished"
<1>0. k \in Threads /\ pc[k] \in AtNode /\ pc[k] \in WithRun /\ pc[k] # "idle"
  BY DEF Threads, AtNode, WithRun
<1>e. Errand(k) /\ TypeOK /\ Told
  BY <1>0, SteadyParts
<1>1. /\ Hears(k) /\ job[k].node = conv[c].node /\ job[k].run = conv[c].run
  BY <1>0, <1>e DEF Errand
<1>. QED
  BY <1>0, <1>e, <1>1, HeardOf

LEMMA HeardAlone ==
  ASSUME Steady, NEW k1 \in Consumers, NEW k2 \in Consumers,
         pc[k1] \in AtNode, pc[k2] \in AtNode, job[k1].msg.conv = job[k2].msg.conv,
         job[k1].msg.status = "finished", job[k2].msg.status = "finished"
  PROVE  k1 = k2
<1>1. PICK a, b : a = job[k1].msg /\ b = job[k2].msg
  OBVIOUS
<1>0. /\ k1 \in Threads /\ pc[k1] # "idle" /\ k2 \in Threads /\ pc[k2] # "idle"
  BY DEF Threads, AtNode
<1>e. Errand(k1) /\ Errand(k2) /\ TypeOK
  BY <1>0, SteadyParts
<1>h. Hears(k1) /\ Hears(k2)
  BY <1>e DEF Errand
<1>2. a \in pel[k1] /\ b \in pel[k2] /\ a.kind = "ended" /\ b.kind = "ended"
  BY <1>0, <1>1, <1>e, <1>h DEF TypeOK, Idle, Hears
<1>3. Known(a) /\ Known(b) /\ ToldOnce(k1, a)
  BY <1>2, SteadyParts DEF Told
<1>4. a = b
  BY <1>1, <1>2, <1>3 DEF Known
<1>. QED
  BY <1>1, <1>2, <1>3, <1>4 DEF ToldOnce

\* A wait is resolved by who contends for it, or the node is doomed.
LEMMA ContendsKept ==
  ASSUME Steady, NEW r \in DOMAIN run, NEW m \in Agents \ run[r].lost, NEW k \in Threads,
         Contends(k, r, m), Contends(k, r, m)', job'[k].msg = job[k].msg,
         job[k].msg.conv \notin waits'
  PROVE  Doomed(r, m)'
<1>0. PICK c : c = job[k].msg.conv
  OBVIOUS
<1>1. /\ k \in Consumers /\ pc[k] \in {"noting", "resolving"} /\ job[k].run = r /\ job[k].node = m
      /\ job[k].msg.status = "finished" /\ pc'[k] \in {"noting", "resolving"}
  BY DEF Contends, At
<1>2. c \in DOMAIN conv /\ conv[c].run = r /\ conv[c].node = m
  BY <1>0, <1>1, Tidings DEF AtNode
<1>3. CASE c \notin waits
  BY <1>0, <1>3, SteadyParts, DoomedLasts DEF AtAgent
<1>4. ASSUME NEW n, Removes(n), c \in waits PROVE Doomed(r, m)'
  BY <1>0, <1>2, <1>4 DEF Removes, Doomed
<1>5. ASSUME NEW t \in Threads, Plays(t), c \in waits PROVE Doomed(r, m)'
  <2>1. Resolves(t)
    BY <1>0, <1>5 DEF Plays, Acts, Effect, Elsewhere, Leaves, Visited, Starts, Refused, Served, Halts,
              Skipped, Registered, Delayed, Finishes, Resumes, Unresumed, Opened, Found, Notes,
              Checks, Clears, SameTables
  <2>2. t \in Consumers /\ pc[t] = "resolving" /\ job[t].msg.conv = c
        /\ pc'[t] \in {"counting waits", "checking"}
    BY <1>0, <1>5, <2>1 DEF Resolves
  <2>3. t # k
    BY <1>1, <2>2
  <2>4. job[t].msg.status # "finished"
    BY <1>0, <1>1, <2>2, <2>3, HeardAlone DEF AtNode
  <2>5. job[t].run = r /\ job[t].node = m
    BY <1>2, <2>2, Tidings DEF AtNode
  <2>6. Doomed(r, m)
    BY <2>2, <2>4, <2>5, SteadyParts DEF Noted
  <2>. QED
    BY <2>6, DoomedLasts
<1>. QED
  BY <1>0, <1>3, <1>4, <1>5, SteadyKinds DEF Beside, Calm, Toggles, Turns, Dies
-----------------------------------------------------------------------------
(* OnceInv: every step, seen from an agent's node.                         *)

\* What does not bring anybody to an agent's node leaves things there as they are.
LEMMA AtAgentKept ==
  ASSUME Steady, NEW r \in DOMAIN run, NEW m \in Agents \ run[r].lost,
         WaitsOf(r, m)' \subseteq WaitsOf(r, m),
         \A t \in Threads :
           /\ Nears(t, r, m)' => Nears(t, r, m) \/ ~Touched(r, m)
           /\ Contends(t, r, m)' => Contends(t, r, m) /\ job'[t].msg = job[t].msg
           /\ Registers(t, r, m)' => Registers(t, r, m)
           /\ Follows(t, r, m)' => Follows(t, r, m)
  PROVE  AtAgent(r, m)'
<1>0. ByAgent(m)' = ByAgent(m) /\ AtAgent(r, m)
  BY SteadyParts, AgentNodes
<1>f. Followed(r, m)' => Followed(r, m)
  BY FollowedOn
<1>t. Touched(r, m)' => Touched(r, m)
  BY <1>f DEF Touched
<1>1. \A t \in Threads : Nears(t, r, m)' => ~Touched(r, m)'
  BY <1>0, <1>t DEF AtAgent
<1>2. Touched(r, m)' => m \in StepsOf(r)' \/ m \notin nodes' \/ m \in ByTrigger'
  BY <1>0, <1>t, DoomedLasts, AgentNodes DEF AtAgent
<1>3. ASSUME NEW t \in Threads, Registers(t, r, m)'
      PROVE  /\ ~Followed(r, m)' /\ \A k \in Threads : ~Contends(k, r, m)'
             /\ \A c \in WaitsOf(r, m)' : conv'[c].status = "running"
  <2>1. /\ ~Followed(r, m) /\ \A k \in Threads : ~Contends(k, r, m)
        /\ \A c \in WaitsOf(r, m) : conv[c].status = "running"
    BY <1>0, <1>3 DEF AtAgent
  <2>. QED
    BY <1>3, <1>f, <2>1, RunningKept
<1>4. Followed(r, m)' /\ ~Doomed(r, m)' =>
        WaitsOf(r, m)' = {} /\ \A k \in Threads : ~Contends(k, r, m)'
  BY <1>0, <1>f, DoomedLasts DEF AtAgent
<1>5. \A t1, t2 \in Threads : Follows(t1, r, m)' /\ Follows(t2, r, m)' => t1 = t2
  BY <1>0 DEF AtAgent
<1>6. \A t \in Threads : Follows(t, r, m)' =>
        \A n \in ByAgent(m) : /\ pc'[t] \in Walking => Unmet(t, r, n)'
                              /\ pc'[t] \notin Walking => run'[r].visits[n] = 0
  BY FollowersMeet
<1>7. \A k \in Threads : Contends(k, r, m)' /\ job'[k].msg.conv \notin waits' => Doomed(r, m)'
  BY ContendsKept
<1>. QED
  BY <1>0, <1>1, <1>2, <1>3, <1>4, <1>5, <1>6, <1>7 DEF AtAgent

\* The node's step is recorded: now its conversations are registered, or, when it has
\* none, what follows is walked.
LEMMA AtAgentServed ==
  ASSUME Steady, NEW r \in DOMAIN run, NEW m \in Agents \ run[r].lost, NEW t \in Threads, Plays(t),
         Walks(t, r), Acting(t, m), Served(t) \/ (\E out : Skipped(t, out)), m \notin run'[r].lost
  PROVE  AtAgent(r, m)'
<1>0. ByAgent(m)' = ByAgent(m) /\ AtAgent(r, m) /\ Errand(t) /\ Rows /\ Rows' /\ [Next]_vars
  BY SteadyParts, AgentNodes
<1>1. /\ pc[t] = "acting" /\ job[t].run = r /\ job[t].node = m /\ m \in job[t].visited
      /\ job'[t].visited = job[t].visited /\ pc'[t] # "acting" /\ Marks(t) /\ waits' = waits
  BY <1>0 DEF Walks, Acting, Errand, Served, Skipped, SamePath, SameTables
<1>2. Nears(t, r, m)
  BY OneAsker
<1>3. ~Touched(r, m)
  BY <1>0, <1>2 DEF AtAgent
<1>4. /\ WaitsOf(r, m) = {} /\ ~Followed(r, m)
      /\ \A u \in Threads : ~Contends(u, r, m) /\ ~Registers(u, r, m) /\ ~Follows(u, r, m)
  BY <1>3 DEF Touched, Followed
<1>5. WaitsOf(r, m)' = {}
  BY <1>4, WaitsOn
<1>6. ASSUME NEW u \in Threads, u # t
      PROVE  /\ ~Nears(u, r, m)' /\ ~Contends(u, r, m)' /\ ~Registers(u, r, m)' /\ ~Follows(u, r, m)'
  <2>1. Stays(u)
    BY <1>6 DEF Plays
  <2>2. Nears(u, r, m) => u = t
    BY <1>2, OneAsker DEF Nears
  <2>. QED
    BY <1>4, <1>6, <2>1, <2>2, StillThere
<1>7. ~Nears(t, r, m)' /\ ~Contends(t, r, m)'
  BY <1>1 DEF Nears, Acting, Contends, Served, Skipped
<1>8. m \in StepsOf(r)' \/ m \notin nodes' \/ m \in ByTrigger'
  <2>1. nodes' = nodes
    BY DEF Served, Skipped, SameTables
  <2>2. CASE Stepped(r, m)
    BY <1>0, <2>1, <2>2, Marked
  <2>3. CASE Unrecorded(t)
    <3>1. t \notin Waiters
      BY <1>1, <2>3 DEF Unrecorded, Missed
    <3>2. m \in ByTrigger
      BY <1>2, <3>1 DEF Nears, Asker, DelayWalk
    <3>. QED
      BY <3>2, AgentNodes
  <2>. QED
    BY <1>1, <2>2, <2>3 DEF Marks
<1>9. CASE Served(t)
  <2>1. ~\E out : Skipped(t, out)
    BY <1>9 DEF Served, Skipped
  <2>2. ~Follows(t, r, m)'
    BY <1>1, <1>4, <2>1, FollowsOn DEF Resolves
  <2>3. ~Followed(r, m)'
    BY <1>4, <1>6, <2>2, FollowedOn
  <2>. QED
    BY <1>0, <1>5, <1>6, <1>7, <1>8, <2>2, <2>3 DEF AtAgent
<1>10. ASSUME NEW out, Skipped(t, out) PROVE AtAgent(r, m)'
  <2>1. ~Registers(t, r, m)'
    BY <1>10 DEF Skipped, Registers
  <2>2. ASSUME NEW n \in ByAgent(m) PROVE run'[r].visits[n] = 0
    <3>1. run[r].visits[n] = 0
      <4>1. run[r].visits[n] \in Nat /\ ~(run[r].visits[n] > 0)
        BY <1>0, <1>4, <2>2, AgentNodes, Executed DEF Followed
      <4>. QED
        BY <4>1
    <3>2. run'[r].visits = run[r].visits
      BY <1>1 DEF Marks, Unrecorded, Unseen, Missed
    <3>. QED
      BY <3>1, <3>2
  <2>. QED
    BY <1>0, <1>5, <1>6, <1>7, <1>8, <2>1, <2>2 DEF AtAgent, Unmet
<1>. QED
  BY <1>9, <1>10

\* One of its conversations is registered: it is running.
LEMMA AtAgentRegistered ==
  ASSUME Steady, NEW r \in DOMAIN run, NEW m \in Agents \ run[r].lost, NEW t \in Threads, Plays(t),
         NEW c, Registered(t, c), Registers(t, r, m)
  PROVE  AtAgent(r, m)'
<1>0. ByAgent(m)' = ByAgent(m) /\ AtAgent(r, m) /\ Attended(t)
  BY SteadyParts, AgentNodes
<1>1. /\ ~Followed(r, m) /\ Touched(r, m)
      /\ \A u \in Threads : ~Contends(u, r, m) /\ ~Nears(u, r, m) /\ ~Follows(u, r, m)
      /\ \A d \in WaitsOf(r, m) : conv[d].status = "running"
  BY <1>0 DEF AtAgent, Touched, Followed
<1>2. conv[c].status = "running"
  BY <1>0 DEF Attended, Registered
<1>3. \A d \in WaitsOf(r, m)' : conv'[d].status = "running"
  <2>1. conv' = conv /\ waits' \subseteq waits \cup {c}
    BY DEF Registered
  <2>. QED
    BY <1>1, <1>2, <2>1 DEF WaitsOf
<1>4. ASSUME NEW u \in Threads
      PROVE  ~Nears(u, r, m)' /\ ~Contends(u, r, m)' /\ ~Follows(u, r, m)'
  <2>1. CASE u = t
    <3>1. ~Found(t) /\ ~Resolves(t) /\ ~\E out : Skipped(t, out)
      BY DEF Registered, Found, Resolves, Skipped
    <3>. QED
      BY <1>1, <2>1, <3>1, NearsOn, ContendsOn, FollowsOn
  <2>2. CASE u # t
    BY <1>1, <2>2, StillThere DEF Plays
  <2>. QED
    BY <2>1, <2>2
<1>5. ~Followed(r, m)'
  BY <1>1, <1>4, FollowedOn
<1>6. m \in StepsOf(r)' \/ m \notin nodes' \/ m \in ByTrigger'
  BY AgentNodes, <1>0, <1>1, DoomedLasts DEF AtAgent
<1>. QED
  BY <1>0, <1>3, <1>4, <1>5, <1>6 DEF AtAgent

\* The end of one of its conversations is heard by somebody who finds its row.
LEMMA AtAgentFound ==
  ASSUME Steady, NEW r \in DOMAIN run, NEW m \in Agents \ run[r].lost, NEW t \in Threads, Plays(t),
         Found(t), Contends(t, r, m)'
  PROVE  AtAgent(r, m)'
<1>0. ByAgent(m)' = ByAgent(m) /\ AtAgent(r, m) /\ TypeOK /\ Told /\ Streams
  BY SteadyParts, AgentNodes
<1>c. PICK c : c = job[t].msg.conv
  OBVIOUS
<1>1. /\ t \in Consumers /\ pc[t] = "finding" /\ c \in waits /\ conv[c].run = r /\ conv[c].node = m
      /\ job'[t].msg = job[t].msg /\ waits' = waits /\ conv' = conv
  BY <1>c DEF Found, Contends, At, SameTables
<1>2. conv[c].status # "running" /\ c \in WaitsOf(r, m)
  <2>1. Hears(t) /\ pc[t] # "idle"
    BY <1>0, <1>1 DEF Streams, Reads, Hearing, Hears
  <2>2. conv[c].status # "running"
    BY <1>0, <1>1, <1>c, <2>1, HeardOf
  <2>. QED
    BY <1>1, <2>2 DEF WaitsOf
<1>3. Touched(r, m) /\ (Followed(r, m) => Doomed(r, m))
      /\ \A u \in Threads : ~Nears(u, r, m) /\ ~Registers(u, r, m)
  <2>1. Touched(r, m) /\ WaitsOf(r, m) # {}
    BY <1>2 DEF Touched
  <2>. QED
    BY <1>0, <1>2, <2>1 DEF AtAgent
<1>4. ASSUME NEW u \in Threads
      PROVE  /\ ~Nears(u, r, m)' /\ ~Registers(u, r, m)' /\ (Follows(u, r, m)' => Follows(u, r, m))
             /\ Contends(u, r, m)' /\ u # t => Contends(u, r, m) /\ job'[u].msg = job[u].msg
  <2>1. CASE u = t
    <3>1. ~Served(t) /\ ~Resolves(t) /\ ~\E out : Skipped(t, out)
      BY DEF Served, Found, Resolves, Skipped
    <3>. QED
      BY <1>3, <2>1, <3>1, NearsOn, RegistersOn, FollowsOn
  <2>2. CASE u # t
    BY <1>3, <2>2, StillThere DEF Plays
  <2>. QED
    BY <2>1, <2>2
<1>5. Followed(r, m)' => Doomed(r, m)'
  BY <1>3, <1>4, FollowedOn, DoomedLasts
<1>6. m \in StepsOf(r)' \/ m \notin nodes' \/ m \in ByTrigger'
  BY AgentNodes, <1>0, <1>3, DoomedLasts DEF AtAgent
<1>7. \A t1, t2 \in Threads : Follows(t1, r, m)' /\ Follows(t2, r, m)' => t1 = t2
  BY <1>0, <1>4 DEF AtAgent
<1>8. \A u \in Threads : Follows(u, r, m)' =>
        \A n \in ByAgent(m) : /\ pc'[u] \in Walking => Unmet(u, r, n)'
                              /\ pc'[u] \notin Walking => run'[r].visits[n] = 0
  BY <1>4, FollowersMeet
<1>9. \A u \in Threads : Contends(u, r, m)' /\ job'[u].msg.conv \notin waits' => Doomed(r, m)'
  BY <1>1, <1>c, <1>4, ContendsKept
<1>. QED
  BY <1>0, <1>4, <1>5, <1>6, <1>7, <1>8, <1>9 DEF AtAgent

\* The last of them wins.
LEMMA AtAgentResolved ==
  ASSUME Steady, NEW r \in DOMAIN run, NEW m \in Agents \ run[r].lost, NEW t \in Threads, Plays(t),
         Resolves(t), pc'[t] = "checking", At(t, r, m), ~Doomed(r, m)
  PROVE  AtAgent(r, m)'
<1>0. ByAgent(m)' = ByAgent(m) /\ AtAgent(r, m) /\ Rows
  BY SteadyParts, AgentNodes
<1>c. PICK c : c = job[t].msg.conv
  OBVIOUS
<1>1. /\ t \in Consumers /\ pc[t] = "resolving" /\ job[t].run = r /\ job[t].node = m
      /\ job[t].msg.status = "finished" /\ waits' = waits \ {c} /\ conv' = conv /\ Unseen
      /\ Siblings(t) \subseteq {c}
  BY <1>c DEF At, Resolves
<1>2. Contends(t, r, m) /\ Touched(r, m)
  BY <1>1 DEF Contends, At, Touched
<1>3. ASSUME NEW u \in Threads, Contends(u, r, m) PROVE job[u].msg.conv \in WaitsOf(r, m) /\ u = t
  <2>1. PICK d : d = job[u].msg.conv
    OBVIOUS
  <2>2. /\ u \in Consumers /\ pc[u] \in {"noting", "resolving"} /\ job[u].run = r /\ job[u].node = m
        /\ job[u].msg.status = "finished"
    BY <1>3 DEF Contends, At
  <2>3. conv[d].run = r /\ conv[d].node = m
    BY <2>1, <2>2, Tidings DEF AtNode
  <2>4. d \in waits
    BY <1>0, <1>3, <2>1 DEF AtAgent
  <2>5. d \in Siblings(t)
    BY <1>1, <2>3, <2>4 DEF Siblings
  <2>6. d = c
    BY <1>1, <2>5
  <2>7. u = t
    BY <1>1, <1>c, <2>1, <2>2, <2>6, HeardAlone DEF AtNode
  <2>. QED
    BY <2>1, <2>3, <2>4, <2>7 DEF WaitsOf
<1>4. WaitsOf(r, m) # {} /\ ~Followed(r, m)
  BY <1>0, <1>2, <1>3 DEF AtAgent
<1>5. \A u \in Threads : ~Nears(u, r, m) /\ ~Registers(u, r, m) /\ ~Follows(u, r, m)
  BY <1>0, <1>2, <1>4 DEF AtAgent, Followed
<1>6. WaitsOf(r, m)' = {}
  <2>1. WaitsOf(r, m) = Siblings(t)
    BY <1>1 DEF WaitsOf, Siblings
  <2>. QED
    BY <1>1, <2>1 DEF WaitsOf
<1>7. ASSUME NEW u \in Threads
      PROVE  /\ ~Nears(u, r, m)' /\ ~Registers(u, r, m)' /\ ~Contends(u, r, m)'
             /\ Follows(u, r, m)' => u = t
  <2>1. CASE u = t
    <3>1. ~Served(t) /\ ~Contends(t, r, m)'
      BY <1>1 DEF Served, Contends
    <3>. QED
      BY <1>2, <1>5, <2>1, <3>1, NearsOn, RegistersOn
  <2>2. CASE u # t
    BY <1>3, <1>5, <2>2, StillThere DEF Plays
  <2>. QED
    BY <2>1, <2>2
<1>8. m \in StepsOf(r)' \/ m \notin nodes' \/ m \in ByTrigger'
  BY AgentNodes, <1>0, <1>2, DoomedLasts DEF AtAgent
<1>9. ASSUME NEW n \in ByAgent(m) PROVE run'[r].visits[n] = 0
  <2>1. run[r].visits[n] \in Nat /\ ~(run[r].visits[n] > 0)
    BY <1>0, <1>4, <1>9, AgentNodes, Executed DEF Followed
  <2>2. run'[r].visits = run[r].visits
    BY <1>1 DEF Unseen
  <2>. QED
    BY <2>1, <2>2
<1>. QED
  BY <1>0, <1>6, <1>7, <1>8, <1>9 DEF AtAgent, Unmet

\* A run that has just been opened has not come to an agent's node.
LEMMA NewRuns ==
  ASSUME Steady, NEW r \in DOMAIN run', r \notin DOMAIN run
  PROVE  /\ \E t \in Threads : Plays(t) /\ Opened(t)
         /\ \A n \in DOMAIN Graph.kind : run'[r].visits[n] = 0
<1>1. PICK t \in Threads : Plays(t)
  BY SteadyKinds DEF Beside, Calm, Toggles, Turns, Removes, Dies, Unmarked
<1>2. Opened(t)
  <2>1. Effect(t)
    BY <1>1 DEF Plays, Acts
  <2>. QED
    BY <2>1 DEF Effect, Elsewhere, Leaves, Visited, Starts, Refused, Served, Halts, Skipped, Registered,
                Delayed, Finishes, Resumes, Unresumed, Found, Notes, Resolves, Checks, Clears,
                Unmarked, Stepped, Failed, Marks, Fails, Unrecorded
<1>3. \A n \in DOMAIN Graph.kind : run'[r].visits[n] = 0
  BY <1>2 DEF Opened
<1>. QED
  BY <1>1, <1>2, <1>3

LEMMA AtAgentOpened ==
  ASSUME Steady, NEW r \in DOMAIN run', r \notin DOMAIN run, NEW m \in Agents
  PROVE  AtAgent(r, m)'
<1>0. /\ ByAgent(m)' = ByAgent(m) /\ Rows /\ Jobs /\ Rows' /\ Budget /\ [Next]_vars
      /\ \A t \in Threads : pc[t] \in WithRun => job[t].run \in DOMAIN run
      /\ \A n \in DOMAIN Graph.kind : run'[r].visits[n] = 0
  BY SteadyParts, AgentNodes, NewRuns DEF Jobs, Sound
<1>1. PICK t \in Threads : Plays(t) /\ Opened(t)
  BY NewRuns
<1>4. waits' = waits /\ conv' = conv /\ pc'[t] = "walking" /\ t \notin Waiters
      /\ job'[t].todo = Graph.first[job[t].msg.about] /\ job[t].msg.about \in DOMAIN Graph.first
  <2>1. Errand(t)
    BY SteadyParts
  <2>. QED
    BY <1>1, <2>1, SteadyParts, OpensWith DEF Opened, SameTables
<1>5. WaitsOf(r, m)' = {}
  BY <1>0, <1>4, SteadyParts DEF WaitsOf, TypeOK, Rows
<1>6. ASSUME NEW u \in Threads
      PROVE  ~Contends(u, r, m)' /\ ~Registers(u, r, m)' /\ ~Follows(u, r, m)'
  <2>1. CASE u = t
    <3>1. ~Contends(t, r, m)' /\ ~Registers(t, r, m)' /\ ~Wins(t, r, m)'
      BY <1>4 DEF Contends, Registers, Wins
    <3>2. ASSUME NEW n \in ByAgent(m), Has(t, r, n)' PROVE FALSE
      <4>1. n \in ToSet(Graph.first[job[t].msg.about])
        BY <1>4, <3>2 DEF Has, Ahead
      <4>. QED
        BY <1>0, <1>4, <3>2, <4>1, AgentNodes, OriginsAreNodes
    <3>. QED
      BY <1>0, <2>1, <3>1, <3>2 DEF Follows
  <2>2. CASE u # t
    <3>1. pc'[u] = pc[u] /\ job'[u] = job[u]
      BY <1>1, <2>2 DEF Plays, Stays
    <3>2. job[u].run = r => pc[u] \notin WithRun
      BY <1>0
    <3>. QED
      BY <3>1, <3>2 DEF Contends, Registers, Follows, Wins, Has, Walks, At, WithRun
  <2>. QED
    BY <2>1, <2>2
<1>7. ~Followed(r, m)'
  BY <1>0, <1>6, AgentNodes DEF Followed
<1>8. ~Touched(r, m)'
  BY <1>5, <1>6, <1>7 DEF Touched
<1>. QED
  BY <1>0, <1>5, <1>6, <1>7, <1>8 DEF AtAgent

LEMMA AtAgentStep ==
  ASSUME Steady, NEW r \in DOMAIN run', NEW m \in Agents \ run'[r].lost PROVE AtAgent(r, m)'
<1>0. r \in DOMAIN run => m \in Agents \ run[r].lost
  BY SteadyParts, TracesStay DEF Trodden
<1>1. CASE r \notin DOMAIN run
  BY <1>1, AtAgentOpened
<1>2. ASSUME r \in DOMAIN run, ~\E t \in Threads : Plays(t) PROVE AtAgent(r, m)'
  <2>1. Beside
    BY <1>2, SteadyKinds
  <2>2. WaitsOf(r, m)' \subseteq WaitsOf(r, m)
    BY <1>2, WaitsOn
  <2>3. \A t \in Threads : Stays(t) \/ pc'[t] = "idle"
    BY <2>1 DEF Beside
  <2>. QED
    BY <1>0, <1>2, <2>2, <2>3, StillThere, AtAgentKept
<1>3. ASSUME r \in DOMAIN run, NEW t \in Threads, Plays(t) PROVE AtAgent(r, m)'
  <2>1. CASE Walks(t, r) /\ Acting(t, m) /\ (Served(t) \/ \E out : Skipped(t, out))
    BY <1>0, <1>3, <2>1, AtAgentServed
  <2>2. CASE Registers(t, r, m) /\ \E c : Registered(t, c)
    BY <1>0, <1>3, <2>2, AtAgentRegistered
  <2>3. CASE Found(t) /\ Contends(t, r, m)'
    BY <1>0, <1>3, <2>3, AtAgentFound
  <2>4. CASE Resolves(t) /\ pc'[t] = "checking" /\ At(t, r, m) /\ ~Doomed(r, m)
    BY <1>0, <1>3, <2>4, AtAgentResolved
  <2>5. ASSUME ~(Walks(t, r) /\ Acting(t, m) /\ (Served(t) \/ \E out : Skipped(t, out))),
               ~(Registers(t, r, m) /\ \E c : Registered(t, c)),
               ~(Found(t) /\ Contends(t, r, m)'),
               ~(Resolves(t) /\ pc'[t] = "checking" /\ At(t, r, m) /\ ~Doomed(r, m))
        PROVE  AtAgent(r, m)'
    <3>1. WaitsOf(r, m)' \subseteq WaitsOf(r, m)
      <4>1. ASSUME NEW c \in WaitsOf(r, m)', c \notin WaitsOf(r, m) PROVE FALSE
        <5>1. c \in waits' /\ c \notin waits
          BY <4>1, SteadyParts DEF WaitsOf, TypeOK, Kept
        <5>2. \E d : Registered(t, d)
          BY <1>3, <5>1 DEF Plays, Acts, Effect, Elsewhere, Leaves, Visited, Starts, Refused, Served, Halts,
              Skipped, Delayed, Finishes, Resumes, Unresumed, Opened, Found, Notes, Resolves, Checks,
              Clears, SameTables
        <5>3. Registered(t, c)
          BY <5>1, <5>2 DEF Registered
        <5>4. conv[c].run = r /\ conv[c].node = m
          BY <4>1, <5>3 DEF WaitsOf, Registered
        <5>5. Registers(t, r, m)
          BY <5>3, <5>4 DEF Registered, Registers, Walks, Walking
        <5>. QED
          BY <2>5, <5>3, <5>5
      <4>. QED
        BY <4>1
    <3>2. ASSUME NEW u \in Threads
          PROVE  /\ Nears(u, r, m)' => Nears(u, r, m) \/ ~Touched(r, m)
                 /\ Contends(u, r, m)' => Contends(u, r, m) /\ job'[u].msg = job[u].msg
                 /\ Registers(u, r, m)' => Registers(u, r, m)
                 /\ Follows(u, r, m)' => Follows(u, r, m)
      <4>1. CASE u = t
        BY <1>0, <1>3, <2>5, <4>1, NearsOn, ContendsOn, RegistersOn, FollowsOn
      <4>2. CASE u # t
        BY <1>3, <4>2, StillThere DEF Plays
      <4>. QED
        BY <4>1, <4>2
    <3>. QED
      BY <1>0, <1>3, <3>1, <3>2, AtAgentKept
  <2>. QED
    BY <2>1, <2>2, <2>3, <2>4, <2>5
<1>. QED
  BY <1>1, <1>2, <1>3

\* A node is visited by a walk that has not met it, and which nobody else shares.
LEMMA ExecutedOnceStep ==
  ASSUME Steady PROVE ExecutedOnce'
<1> SUFFICES ASSUME NEW n \in OneWalk, NEW r \in DOMAIN run'
             PROVE  run'[r].visits[n] <= 1 \/ Forgotten(r, n)'
  BY SteadyParts, SettingStays DEF ExecutedOnce, OneWalk
<1>0. /\ n \in DOMAIN Graph.kind /\ Rows /\ Rows' /\ Budget /\ [Next]_vars
      /\ run'[r].visits[n] \in Nat
      /\ n \in ByTrigger \/ n \in ByDelay \/ \E m \in Agents : n \in ByAgent(m)
  BY SteadyParts, OriginsAreNodes, ExecutedNext, SettingStays DEF OneWalk
<1>1. CASE r \notin DOMAIN run
  BY <1>0, <1>1, NewRuns
<1>2. ASSUME r \in DOMAIN run
      PROVE  run[r].visits[n] \in Nat /\ (run[r].visits[n] <= 1 \/ Forgotten(r, n))
  BY <1>0, <1>2, SteadyParts, Executed DEF ExecutedOnce, Steady
<1>f. ASSUME r \in DOMAIN run, Forgotten(r, n) PROVE Forgotten(r, n)'
  <2>1. run[r].lost \subseteq run'[r].lost
    BY <1>f, SteadyParts, TracesStay DEF Trodden
  <2>2. Agents' = Agents /\ \A m \in Agents : ByAgent(m)' = ByAgent(m)
    BY SteadyParts, SettingStays
  <2>. QED
    BY <1>f, <2>1, <2>2 DEF Forgotten
<1>3. CASE r \in DOMAIN run /\ Beside
  BY <1>0, <1>2, <1>3, <1>f, AroundRuns
<1>4. ASSUME NEW t \in Threads, Has(t, r, n), Unvisited(t, n), r \in DOMAIN run
      PROVE  run[r].visits[n] = 0 \/ Forgotten(r, n)
  <2>1. CASE n \in ByTrigger \/ n \in ByDelay
    BY <1>4, <2>1, OwnWalksAt DEF Unmet, Unvisited, Forgotten
  <2>2. ASSUME NEW m \in Agents, n \in ByAgent(m) PROVE run[r].visits[n] = 0 \/ Forgotten(r, n)
    <3>1. Follows(t, r, m) /\ pc[t] \in Walking
      BY <1>4, <2>2 DEF Follows, Has, Walks
    <3>. QED
      BY <1>4, <2>2, <3>1, SteadyParts DEF AtAgent, Unmet, Unvisited, Forgotten
  <2>. QED
    BY <1>0, <2>1, <2>2
<1>5. ASSUME r \in DOMAIN run, NEW t \in Threads, Plays(t)
      PROVE  run'[r].visits[n] <= 1 \/ Forgotten(r, n)'
  <2>1. CASE run'[r].visits[n] = run[r].visits[n]
    BY <1>2, <1>5, <1>f, <2>1
  <2>2. CASE run'[r].visits[n] = run[r].visits[n] + 1 /\ Has(t, r, n) /\ Unvisited(t, n)
    <3>1. run[r].visits[n] = 0 \/ Forgotten(r, n)
      BY <1>4, <1>5, <2>2
    <3>. QED
      BY <1>5, <1>f, <2>2, <3>1
  <2>. QED
    BY <1>0, <1>5, <2>1, <2>2, Visiting
<1>. QED
  BY <1>1, <1>3, <1>5, SteadyKinds

LEMMA OnceStep ==
  ASSUME IInv, IInv', Streams, Budget, WalkBase, WalkBase', OnceInv, [Next]_vars
  PROVE  OnceInv'
<1>1. setting' = setting
  BY SettingStays
<1>2. CASE setting.early \/ setting.slow
  BY <1>1, <1>2 DEF OnceInv
<1>3. CASE Steady
  <2>1. Agents' = Agents
    BY <1>1, SettingStays
  <2>. QED
    BY <1>3, <2>1, AttendedStep, OwnWalksStep, AtAgentStep, ExecutedOnceStep DEF OnceInv
<1>. QED
  BY <1>2, <1>3 DEF Steady

LEMMA OnceInit == Init => OnceInv
<1> SUFFICES ASSUME Init PROVE OnceInv
  OBVIOUS
<1>1. /\ DOMAIN run = {} /\ \A t \in Threads : pc[t] = "idle"
  BY DEF Init
<1>. QED
  BY <1>1 DEF OnceInv, ExecutedOnce, Attended
-----------------------------------------------------------------------------
(* HeardInv: no conversation is lost sight of.                             *)

Heedful ==
  /\ Steady /\ setting.crashes = 0 /\ "wait" \notin setting.failing /\ "step" \notin setting.failing
  /\ HeardInv

\* Nothing is forgotten.
LEMMA NothingLost ==
  ASSUME Heedful, NEW r \in DOMAIN run'
  PROVE  run'[r].lost = {} /\ (r \in DOMAIN run => run[r].lost = {})
<1>1. Spared /\ Spared' /\ setting' = setting
  BY SteadyParts, SettingStays DEF Heedful, Steady, WalkBase
<1>. QED
  BY <1>1 DEF Heedful, Spared

LEMMA HeededAt ==
  ASSUME Heedful, NEW c \in DOMAIN conv, NEW r, NEW m \in Agents,
         conv[c].run = r, conv[c].node = m
  PROVE  /\ Heeded(c, r, m) /\ Steady /\ r \in DOMAIN run /\ m \in Agents \ run[r].lost
         /\ c \in DOMAIN conv' /\ conv'[c].run = r /\ conv'[c].node = m
         /\ conv[c].status = "finished" => conv'[c].status = "finished"
<1>0. Steady
  BY DEF Heedful
<1>1. Heeded(c, r, m)
  BY DEF Heedful, Steady, HeardInv
<1>2. r \in DOMAIN run /\ c \in DOMAIN conv' /\ conv'[c].run = r /\ conv'[c].node = m
  BY <1>0, SteadyParts DEF Rows, Kept
<1>4. run[r].lost = {}
  BY <1>2, SteadyParts DEF Heedful, Spared
<1>3. conv[c].status = "finished" => conv'[c].status = "finished"
  BY <1>0, StatusTurns DEF Turns
<1>. QED
  BY <1>0, <1>1, <1>2, <1>3, <1>4

LEMMA NobodyDies ==
  ASSUME Heedful, NEW t \in Threads PROVE Stays(t) \/ Plays(t)
<1>0. Steady /\ setting.crashes = 0
  BY DEF Heedful
<1>1. left.crashes = 0
  BY <1>0, SteadyParts DEF Spared
<1>2. ASSUME Beside PROVE Stays(t)
  BY <1>1, <1>2 DEF Beside, Calm, Toggles, Turns, Removes, Dies, Stays
<1>. QED
  BY <1>0, <1>2, SteadyKinds DEF Plays

\* A conversation is started by the walk that comes by its node.
LEMMA NewConversation ==
  ASSUME Heedful, NEW c \in DOMAIN conv', c \notin DOMAIN conv, NEW r, NEW m \in Agents,
         conv'[c].run = r, conv'[c].node = m
  PROVE  Heeded(c, r, m)'
<1>0. Steady
  BY DEF Heedful
<1>1. PICK t \in Threads : Plays(t)
  BY <1>0, SteadyKinds DEF Beside, Calm, Toggles, Turns, Removes, Dies
<1>2. Starts(t)
  <2>1. Effect(t)
    BY <1>1 DEF Plays, Acts
  <2>. QED
    BY <2>1 DEF Effect, Elsewhere, Leaves, Visited, Refused, Served, Halts, Skipped, Registered, Delayed,
                Finishes, Resumes, Unresumed, Opened, Found, Notes, Resolves, Checks, Clears
<1>3. /\ pc[t] = "acting" /\ pc'[t] = "acting" /\ job[t].run = r /\ job[t].node = m
      /\ job'[t].run = r /\ job'[t].node = m /\ c \in ToSet(job'[t].convs)
  <2>1. c = Len(conv) + 1
    BY <1>2 DEF Starts
  <2>2. conv'[c] = [run |-> job[t].run, node |-> job[t].node, status |-> "running"]
    BY <1>2, <2>1 DEF Starts
  <2>. QED
    BY <1>2, <2>1, <2>2 DEF Starts, SameErrand
<1>4. r \in DOMAIN run /\ m \in Agents \ run[r].lost
  <2>1. r \in DOMAIN run
    BY <1>0, <1>3, SteadyParts DEF Jobs, Sound, WithRun, Walking
  <2>. QED
    BY <1>0, <2>1, SteadyParts DEF Heedful, Spared
<1>5. Nears(t, r, m)
  BY <1>0, <1>3, <1>4, OneAsker DEF Walks, Acting, Walking
<1>6. ~Touched(r, m)
  BY <1>0, <1>4, <1>5, SteadyParts DEF AtAgent
<1>7. Walks(t, r)' /\ Acting(t, m)'
  BY <1>3 DEF Walks, Acting, Walking
<1>8. ASSUME NEW u \in Threads, u # t PROVE ~Nears(u, r, m)' /\ ~Follows(u, r, m)'
  <2>1. Nears(u, r, m) => u = t
    BY <1>0, <1>4, <1>5, OneAsker DEF Nears
  <2>2. ~Follows(u, r, m)
    BY <1>6 DEF Touched, Followed
  <2>. QED
    BY <1>0, <1>1, <1>4, <1>8, <2>1, <2>2, StillThere DEF Plays
<1>9. ~Follows(t, r, m)'
  <2>1. ~Resolves(t) /\ ~\E out : Skipped(t, out)
    BY <1>3 DEF Resolves, Skipped
  <2>. QED
    BY <1>0, <1>1, <1>4, <1>6, <2>1, FollowsOn DEF Touched, Followed
<1>10. ~Followed(r, m)'
  BY <1>0, <1>4, <1>6, <1>8, <1>9, FollowedOn DEF Touched
<1>. QED
  BY <1>3, <1>7, <1>8, <1>10 DEF Heeded

\* Until it is over, it waits for its walk to register it, or for its end to be heard.
LEMMA StaysInSight ==
  ASSUME Heedful, NEW c \in DOMAIN conv, NEW r, NEW m \in Agents,
         conv[c].run = r, conv[c].node = m, ~Doomed(r, m)'
  PROVE  \/ c \in waits' \/ conv'[c].status = "finished"
         \/ \E t \in Threads : pc'[t] \in {"acting", "registering"} /\ c \in ToSet(job'[t].convs)
<1>0. /\ Steady /\ Heeded(c, r, m) /\ r \in DOMAIN run /\ m \in Agents \ run[r].lost
      /\ conv[c].status = "finished" => conv'[c].status = "finished"
  BY HeededAt
<1>1. ~Doomed(r, m) /\ m \in nodes
  BY <1>0, DoomedLasts DEF Doomed
<1>2. ASSUME c \in waits, c \notin waits' PROVE conv'[c].status = "finished"
  <2>1. ASSUME NEW n, Removes(n) PROVE FALSE
    BY <1>2, <2>1 DEF Removes, Doomed
  <2>2. ASSUME NEW t \in Threads, Plays(t) PROVE conv[c].status = "finished"
    <3>1. Resolves(t)
      BY <1>2, <2>2 DEF Plays, Acts, Effect, Elsewhere, Leaves, Visited, Starts, Refused, Served, Halts,
              Skipped, Registered, Delayed, Finishes, Resumes, Unresumed, Opened, Found, Notes,
              Checks, Clears, SameTables
    <3>2. t \in Consumers /\ pc[t] = "resolving" /\ job[t].msg.conv = c
      BY <1>2, <3>1 DEF Resolves
    <3>3. /\ job[t].run = r /\ job[t].node = m
          /\ job[t].msg.status = "finished" => conv[c].status = "finished"
      BY <1>0, <3>2, Tidings DEF AtNode
    <3>. QED
      BY <1>0, <1>1, <3>2, <3>3, SteadyParts DEF Noted
  <2>. QED
    BY <1>0, <1>2, <2>1, <2>2, SteadyKinds DEF Beside, Calm, Toggles, Turns, Dies
<1>3. ASSUME NEW t \in Threads, pc[t] \in {"acting", "registering"}, c \in ToSet(job[t].convs)
      PROVE  \/ c \in waits'
             \/ pc'[t] \in {"acting", "registering"} /\ c \in ToSet(job'[t].convs)
  <2>1. job[t].run = r /\ job[t].node = m /\ Errand(t)
    BY <1>0, <1>3, SteadyParts DEF Jobs, Sound, Started, ToSet
  <2>2. CASE Stays(t)
    BY <1>3, <2>2 DEF Stays
  <2>3. CASE Starts(t) \/ Served(t)
    BY <1>3, <2>3 DEF Starts, Served
  <2>4. ~Refused(t)
    BY <1>0, <1>1, <2>1 DEF Refused, Fails, Unrecorded, Failed, Doomed, Heedful
  <2>5. ASSUME NEW out, Skipped(t, out) PROVE FALSE
    <3>1. ToSet(<<>>) = {}
      BY <2>1, SequenceParts DEF Errand
    <3>. QED
      BY <1>3, <2>5, <3>1 DEF Skipped
  <2>6. ASSUME NEW d, Registered(t, d)
        PROVE  c \in waits' \/ (pc'[t] \in {"acting", "registering"} /\ c \in ToSet(job'[t].convs))
    <3>1. waits' = waits \cup {d}
      BY <1>1, <2>1, <2>6 DEF Registered, Heedful
    <3>2. c = d \/ c \in ToSet(job'[t].convs)
      BY <1>3, <2>6 DEF Registered
    <3>3. ToSet(<<>>) = {}
      BY <2>1, SequenceParts DEF Errand
    <3>. QED
      BY <2>6, <3>1, <3>2, <3>3 DEF Registered
  <2>7. ~Halts(t)
    BY <1>0, <2>1, AgentNodes DEF Halts
  <2>. QED
    BY <1>3, <2>2, <2>3, <2>4, <2>5, <2>6, <2>7, NobodyDies
    DEF Plays, Acts, Effect, Elsewhere, Aways, Visited, Delayed, Finishes, Resumes, Unresumed, Opened,
        Found, Notes, Resolves, Checks, Clears, Walking
<1>. QED
  BY <1>0, <1>1, <1>2, <1>3 DEF Heeded

\* Whoever comes to follow the node finds it finished.
LEMMA FollowedFinished ==
  ASSUME Heedful, NEW c \in DOMAIN conv, NEW r, NEW m \in Agents,
         conv[c].run = r, conv[c].node = m, Followed(r, m)'
  PROVE  conv'[c].status = "finished"
<1>0. /\ Steady /\ Heeded(c, r, m) /\ r \in DOMAIN run /\ m \in Agents \ run[r].lost
      /\ conv[c].status = "finished" => conv'[c].status = "finished"
  BY HeededAt
<1>1. CASE \A t \in Threads : Follows(t, r, m)' => Follows(t, r, m)
  BY <1>0, <1>1, FollowedOn DEF Heeded
<1>2. ASSUME NEW t \in Threads, Plays(t), Resolves(t), pc'[t] = "checking", At(t, r, m), ~Doomed(r, m)
      PROVE  conv[c].status = "finished"
  <2>1. /\ t \in Consumers /\ pc[t] = "resolving" /\ job[t].run = r /\ job[t].node = m
        /\ job[t].msg.status = "finished" /\ Siblings(t) \subseteq {job[t].msg.conv}
    BY <1>2 DEF At, Resolves
  <2>2. Contends(t, r, m) /\ Touched(r, m)
    BY <2>1 DEF Contends, At, Touched
  <2>3. CASE c \in waits
    <3>1. c = job[t].msg.conv
      BY <2>1, <2>3 DEF Siblings
    <3>. QED
      BY <1>0, <2>1, <3>1, Tidings DEF AtNode
  <2>4. ASSUME NEW u \in Threads, pc[u] \in {"acting", "registering"}, c \in ToSet(job[u].convs)
        PROVE  FALSE
    <3>1. job[u].run = r /\ job[u].node = m
      BY <1>0, <2>4, SteadyParts DEF Jobs, Sound, Started, ToSet
    <3>2. CASE pc[u] = "acting"
      <4>1. Nears(u, r, m)
        BY <1>0, <3>1, <3>2, OneAsker DEF Walks, Acting, Walking
      <4>. QED
        BY <1>0, <2>2, <4>1, SteadyParts DEF AtAgent
    <3>3. CASE pc[u] = "registering"
      <4>1. Registers(u, r, m)
        BY <3>1, <3>3 DEF Registers, Walks, Walking
      <4>. QED
        BY <1>0, <2>2, <4>1, SteadyParts DEF AtAgent
    <3>. QED
      BY <2>4, <3>2, <3>3
  <2>. QED
    BY <1>0, <1>2, <2>3, <2>4 DEF Heeded
<1>3. ASSUME NEW t \in Threads, NEW out, Skipped(t, out), Walks(t, r), Acting(t, m) PROVE FALSE
  <2>1. Nears(t, r, m) /\ Errand(t)
    BY <1>0, <1>3, OneAsker, SteadyParts
  <2>2. c \in ToSet(job[t].convs) /\ job[t].convs = <<>>
    BY <1>0, <1>3, <2>1 DEF Heeded, Skipped
  <2>3. ToSet(<<>>) = {}
    BY <2>1, SequenceParts DEF Errand
  <2>. QED
    BY <2>2, <2>3
<1>4. ASSUME NEW t \in Threads, Follows(t, r, m)', ~Follows(t, r, m)
      PROVE  conv'[c].status = "finished"
  <2>1. Plays(t)
    BY <1>0, <1>4, NobodyDies, StillThere
  <2>. QED
    BY <1>0, <1>2, <1>3, <1>4, <2>1, FollowsOn
<1>. QED
  BY <1>1, <1>4

\* The walk that started it has recorded its node, or still starts others.
LEMMA StaysStarted ==
  ASSUME Heedful, NEW c \in DOMAIN conv, NEW r, NEW m \in Agents,
         conv[c].run = r, conv[c].node = m
  PROVE  m \in StepsOf(r)' \/ m \notin nodes' \/ \E t \in Threads : Walks(t, r)' /\ Acting(t, m)'
<1>0. /\ Steady /\ Heeded(c, r, m) /\ r \in DOMAIN run /\ m \in Agents \ run[r].lost
  BY HeededAt
<1>1. CASE m \in StepsOf(r) \/ m \notin nodes
  BY <1>0, <1>1, DoomedLasts
<1>2. ASSUME NEW t \in Threads, Walks(t, r), Acting(t, m), m \in nodes
      PROVE  m \in StepsOf(r)' \/ (Walks(t, r)' /\ Acting(t, m)')
  <2>1. pc[t] = "acting" /\ job[t].run = r /\ job[t].node = m
    BY <1>2 DEF Walks, Acting
  <2>2. CASE Stays(t)
    BY <1>2, <2>2 DEF Stays, Walks, Acting
  <2>3. CASE Starts(t)
    BY <2>1, <2>3 DEF Starts, SameErrand, Walks, Acting, Walking
  <2>4. CASE Refused(t) \/ Served(t) \/ \E out : Skipped(t, out)
    <3>1. Stepped(r, m) \/ Failed(r, m)
      BY <2>1, <2>4 DEF Refused, Served, Skipped, Marks, Fails, Unrecorded, Heedful
    <3>. QED
      BY <1>0, <1>2, <3>1, Marked, SteadyParts
  <2>5. ~Halts(t)
    BY <1>0, <2>1, AgentNodes DEF Halts
  <2>. QED
    BY <2>1, <2>2, <2>3, <2>4, <2>5, NobodyDies
    DEF Plays, Acts, Effect, Elsewhere, Aways, Visited, Registered, Delayed, Finishes, Resumes,
        Unresumed, Opened, Found, Notes, Resolves, Checks, Clears, Walking
<1>. QED
  BY <1>0, <1>1, <1>2 DEF Heeded

\* No other walk comes by the node.
LEMMA StaysAlone ==
  ASSUME Heedful, NEW c \in DOMAIN conv, NEW r, NEW m \in Agents,
         conv[c].run = r, conv[c].node = m, NEW t \in Threads, Nears(t, r, m)'
  PROVE  Acting(t, m)' /\ c \in ToSet(job'[t].convs)
<1>0. /\ Steady /\ Heeded(c, r, m) /\ r \in DOMAIN run /\ m \in Agents \ run[r].lost
  BY HeededAt
<1>1. CASE Stays(t)
  <2>1. Nears(t, r, m)
    BY <1>0, <1>1, StillThere
  <2>. QED
    BY <1>0, <1>1, <2>1 DEF Heeded, Stays, Acting
<1>2. ASSUME Plays(t), Nears(t, r, m) PROVE Acting(t, m)' /\ c \in ToSet(job'[t].convs)
  <2>1. /\ pc[t] = "acting" /\ job[t].node = m /\ c \in ToSet(job[t].convs)
    BY <1>0, <1>2 DEF Heeded, Acting
  <2>2. CASE Starts(t)
    BY <2>1, <2>2 DEF Starts, Acting
  <2>3. ASSUME Refused(t) \/ Served(t) \/ \E out : Skipped(t, out) PROVE FALSE
    <3>1. job'[t].visited = job[t].visited /\ pc'[t] # "acting"
      BY <2>3 DEF Refused, Served, Skipped, SamePath
    <3>2. m \in job[t].visited
      BY <1>0, <2>1, SteadyParts DEF Errand
    <3>. QED
      BY <3>1, <3>2 DEF Nears, Acting
  <2>4. ~Halts(t)
    BY <1>0, <2>1, AgentNodes DEF Halts
  <2>. QED
    BY <1>2, <2>1, <2>2, <2>3, <2>4
    DEF Plays, Acts, Effect, Elsewhere, Aways, Visited, Registered, Delayed, Finishes, Resumes,
        Unresumed, Opened, Found, Notes, Resolves, Checks, Clears, Walking
<1>3. ASSUME Plays(t), ~Nears(t, r, m) PROVE FALSE
  <2>0. /\ pc'[t] \in Walking /\ job'[t].run = r
        /\ IF m \in ByTrigger THEN t \notin Waiters /\ ~Hears(t)' ELSE t \in Waiters
        /\ m \in job'[t].graph \ job'[t].visited \/ Acting(t, m)'
    BY <1>0, AgentNodes DEF Nears, Asker, FirstWalk, DelayWalk, Walks
  <2>1. ~Opened(t)
    BY <1>0, <2>0 DEF Opened
  <2>2. ASSUME NEW out, Resumes(t, out) PROVE FALSE
    <3>1. m \in nodes \ StepsOf(r) /\ pc[t] = "resuming"
      BY <2>0, <2>2 DEF Resumes, SameErrand, Acting
    <3>2. PICK u \in Threads : Walks(u, r) /\ Acting(u, m)
      BY <1>0, <3>1 DEF Heeded
    <3>3. Nears(u, r, m)
      BY <1>0, <3>2, OneAsker
    <3>4. t \in Waiters /\ m \notin ByTrigger
      BY <1>0, <2>0, <2>2, ResumesAt
    <3>5. u \in Waiters /\ pc[u] = "acting"
      BY <3>2, <3>3, <3>4 DEF Nears, Asker, DelayWalk, Acting
    <3>. QED
      BY <1>0, <3>1, <3>4, <3>5, OneWaiter DEF Resting
  <2>3. CASE /\ pc[t] \in Walking /\ job'[t].run = job[t].run /\ job'[t].msg = job[t].msg
             /\ job'[t].graph = job[t].graph /\ job[t].visited \subseteq job'[t].visited
             /\ \A n : Acting(t, n)' => Acting(t, n) \/ n \in Ahead(t)
    <3>1. m \in job[t].graph \ job[t].visited \/ Acting(t, m)
      BY <2>0, <2>3 DEF Ahead
    <3>. QED
      BY <1>3, <2>0, <2>3, <3>1 DEF Nears, Asker, FirstWalk, DelayWalk, Walks, Hears
  <2>. QED
    BY <1>0, <1>3, <2>0, <2>1, <2>2, <2>3, WalksOn
<1>. QED
  BY <1>1, <1>2, <1>3, NobodyDies

LEMMA HeardStep ==
  ASSUME IInv, IInv', Streams, Budget, WalkBase, WalkBase', OnceInv, HeardInv, [Next]_vars
  PROVE  HeardInv'
<1>1. setting' = setting /\ Agents' = Agents
  BY SettingStays
<1>2. ASSUME Heedful, NEW c \in DOMAIN conv', NEW m \in Agents, conv'[c].node = m
      PROVE  Heeded(c, conv[c].run, m)'
  <2>1. PICK r : r = conv'[c].run
    OBVIOUS
  <2>2. CASE c \notin DOMAIN conv
    BY <1>2, <2>1, <2>2, NewConversation
  <2>3. CASE c \in DOMAIN conv
    <3>1. conv[c].run = r /\ conv[c].node = m
      BY <1>2, <2>1, <2>3, SteadyParts DEF Heedful, Kept
    <3>2. Heeded(c, r, m)'
      BY <1>2, <2>3, <3>1, StaysInSight, FollowedFinished, StaysStarted, StaysAlone DEF Heeded
    <3>. QED
      BY <2>1, <3>2
  <2>. QED
    BY <2>2, <2>3
<1>3. CASE Heedful
  BY <1>1, <1>2, <1>3 DEF HeardInv
<1>. QED
  BY <1>1, <1>3 DEF HeardInv, Heedful, Steady

\* What has been visited behind an agent's node has been followed.
LEMMA HeardInTime == CausesInv /\ HeardInv => AllSiblingsFirst
<1> SUFFICES ASSUME CausesInv, HeardInv, NEW m \in Agents, NEW n \in ByAgent(m),
                    NEW c \in DOMAIN conv, conv[c].node = m, run[conv[c].run].visits[n] > 0,
                    ~setting.early /\ ~setting.slow /\ setting.crashes = 0,
                    setting.failing \cap {"wait", "step"} = {}
             PROVE  conv[c].status = "finished"
  BY DEF AllSiblingsFirst
<1>1. Heeded(c, conv[c].run, m)
  BY DEF HeardInv
<1>2. Followed(conv[c].run, m)
  BY DEF Followed
<1>. QED
  BY <1>1, <1>2 DEF Heeded
-----------------------------------------------------------------------------
(* The theorems.                                                           *)

LEMMA WalkInit == Init => WalkInv
<1>1. Init => HeardInv
  BY DEF HeardInv, Init
<1>. QED
  BY <1>1, WalksInit, OnceInit DEF WalkInv

LEMMA WalkStep ==
  ASSUME CausesInv, CausesInv', WalkInv, [Next]_vars PROVE WalkInv'
<1>0. IInv /\ IInv' /\ Streams /\ Budget /\ WalkBase /\ OnceInv /\ CarryInv /\ HeardInv
  BY DEF CausesInv, WalkInv
<1>1. WalkBase'
  BY <1>0, WalkBaseStep
<1>2. OnceInv'
  BY <1>0, <1>1, OnceStep
<1>3. CarryInv'
  BY <1>0, <1>1, CarryStep
<1>4. HeardInv'
  BY <1>0, <1>1, HeardStep
<1>. QED
  BY <1>1, <1>2, <1>3, <1>4 DEF WalkInv

\* WalkInv: where what is still to be walked can be, who walks it, and whom it waits for.
THEOREM WalksInvariance == Spec => []WalkInv
<1>1. CausesInv /\ CausesInv' /\ WalkInv /\ [Next]_vars => WalkInv'
  BY WalkStep
<1>. QED
  BY <1>1, WalkInit, CausesInvariance, PTL DEF Spec

\* ExecutedOnce: however the ends of conversations and delays fall together, whoever crashes
\* and whichever call fails, a node to which walks of one origin lead is visited at most once
\* in a run, unless a walk behind a delay has forgotten it, or the agent before it.
THEOREM NodesAreExecutedOnce == Spec => []ExecutedOnce
<1>1. WalkInv => ExecutedOnce
  BY DEF WalkInv, OnceInv, ExecutedOnce
<1>. QED
  BY <1>1, WalksInvariance, PTL

\* AllSiblingsFirst: what follows an agent's node is visited only when each conversation
\* that the node has started has finished, as long as no row of a wait or a step is missing.
THEOREM SiblingsAreFirst == Spec => []AllSiblingsFirst
<1>1. CausesInv /\ WalkInv => AllSiblingsFirst
  BY HeardInTime DEF WalkInv
<1>. QED
  BY <1>1, WalksInvariance, CausesInvariance, PTL

\* NothingStranded: where nothing loses work, a run that nobody works on and that is not
\* paused is closed, and all that follows a node that completed has been walked.
THEOREM NothingIsStranded == Spec => []NothingStranded
<1>1. WalkInv => NothingStranded
  BY CarriedIsWalked DEF WalkInv
<1>. QED
  BY <1>1, WalksInvariance, PTL
===============================================================================
