------------------------------ MODULE MCAcpTurns ------------------------------
EXTENDS AcpTurns

CONSTANTS c1, c2, c3, r1, r2, v1, v2, k1

Nothing == [crashes |-> 0, drops |-> 0, losses |-> 0, evictions |-> 0, errors |-> 0,
            messages |-> 0, controls |-> 0, faults |-> 0, deaths |-> 0]

\* Sessions of the agent that come, replace each other and go: the turns stand still.
Sessions(conns, others, replicas, budget) ==
  [online |-> c1, conns |-> conns, others |-> others, replicas |-> replicas, budget |-> budget,
   convs |-> {}, key |-> [v \in Convs |-> k1]]

MCSessions ==
  {Sessions({c2, c3}, {c3}, {r1}, [Nothing EXCEPT !.drops = 1]),
   Sessions({c2}, {c2}, {r1, r2}, [Nothing EXCEPT !.drops = 1, !.evictions = 1]),
   Sessions({c2}, {c2}, {r1}, [Nothing EXCEPT !.drops = 1, !.losses = 1]),
   Sessions({c2, c3}, {c2, c3}, {r1}, [Nothing EXCEPT !.errors = 1]),
   Sessions({c2}, {c2}, {r1}, [Nothing EXCEPT !.drops = 1, !.crashes = 1])}

\* Turns of conversations on one task, over a connection that has stood for long and may
\* have to be replaced.
Turns(conns, convs, budget) ==
  [online |-> c1, conns |-> conns, others |-> {}, replicas |-> {r1}, budget |-> budget,
   convs |-> convs, key |-> [v \in Convs |-> k1]]

MCTurns ==
  {Turns({}, {v1, v2}, [Nothing EXCEPT !.messages = 2, !.controls = 1]),
   Turns({}, {v1}, [Nothing EXCEPT !.messages = 2, !.faults = 1]),
   Turns({}, {v1}, [Nothing EXCEPT !.messages = 1, !.controls = 2, !.faults = 1]),
   Turns({}, {v1}, [Nothing EXCEPT !.messages = 2, !.errors = 1]),
   Turns({}, {v1}, [Nothing EXCEPT !.messages = 1, !.controls = 1, !.errors = 1]),
   Turns({}, {v1}, [Nothing EXCEPT !.messages = 1, !.controls = 1, !.losses = 1]),
   Turns({}, {v1}, [Nothing EXCEPT !.messages = 1, !.crashes = 1]),
   Turns({c2}, {v1}, [Nothing EXCEPT !.messages = 1, !.drops = 1]),
   Turns({c2}, {v1}, [Nothing EXCEPT !.messages = 1, !.deaths = 1]),
   Turns({c2}, {v1}, [Nothing EXCEPT !.messages = 1, !.evictions = 1])}

MCSettings == MCSessions \cup MCTurns
===============================================================================
