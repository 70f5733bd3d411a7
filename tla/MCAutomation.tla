---------------------------- MODULE MCAutomation ----------------------------
EXTENDS Automation

CONSTANTS c1, c2, w1, w2, k1, k2

\* Six automations.  fan: an agent with two conversations or none, and an action
\* behind it.  fork: an agent and a delay, whose branches meet.  nap and rest: a delay
\* before an agent or an action.  plain: an action, of which the engine tells everybody.
\* sprints: two triggers with an action each.
MCGraphs ==
  [fan |-> [first |-> [it |-> <<"ask">>], size |-> {0, 2}, tells |-> [then |-> {}],
            kind |-> [ask |-> "agent", then |-> "action"],
            outs |-> [ask |-> {<<"then">>}, then |-> {<<>>}]],
   fork |-> [first |-> [it |-> <<"ask", "pause">>], size |-> {1}, tells |-> [join |-> {}],
             kind |-> [ask |-> "agent", pause |-> "wait", test |-> "condition",
                       join |-> "action"],
             outs |-> [ask |-> {<<"join">>}, pause |-> {<<"test">>},
                       test |-> {<<"join">>, <<>>}, join |-> {<<>>}]],
   nap |-> [first |-> [it |-> <<"pause">>], size |-> {1}, tells |-> [then |-> {}],
            kind |-> [pause |-> "wait", ask |-> "agent", then |-> "action"],
            outs |-> [pause |-> {<<"ask">>}, ask |-> {<<"then">>}, then |-> {<<>>}]],
   rest |-> [first |-> [it |-> <<"pause">>], size |-> {1}, tells |-> [act |-> {}],
             kind |-> [pause |-> "wait", act |-> "action"],
             outs |-> [pause |-> {<<"act">>}, act |-> {<<>>}]],
   plain |-> [first |-> [it |-> <<"act">>, watched |-> <<"act">>], size |-> {1},
              kind |-> [act |-> "action"], outs |-> [act |-> {<<>>}],
              tells |-> [act |-> {Event("task", "it", "automation")}]],
   sprints |-> [first |-> [started |-> <<"complete">>, completed |-> <<"activate">>], size |-> {1},
                kind |-> [complete |-> "action", activate |-> "action"],
                outs |-> [complete |-> {<<>>}, activate |-> {<<>>}],
                tells |-> [complete |-> {Event("sprint", "completed", "automation")},
                           activate |-> {Event("sprint", "started", "automation")}]]]

Quiet(graph, up) ==
  [graph |-> graph, up |-> up, early |-> FALSE, slow |-> FALSE, mortal |-> {}, failing |-> {},
   events |-> {Event("task", "it", "user")}, watched |-> {}, outcomes |-> {"finished"},
   occurrences |-> 0, crashes |-> 0, errors |-> 0, stops |-> 0, removes |-> 0, toggles |-> 0,
   lapses |-> 0]

Fan   == Quiet("fan", {c1, c2})
Fork  == Quiet("fork", {c1, w1})
Nap   == Quiet("nap", {c1, w1, w2})
Clock == [Quiet("plain", {c1, k1, k2}) EXCEPT !.occurrences = 2, !.events = {}]
Plain == Quiet("plain", {c1, c2})

Recovered == {"node", "load", "clear", "open", "record"}
Logged    == {"delay", "wait", "find", "list", "close", "step"}

MCSettings ==
  {[Fan EXCEPT !.outcomes = {"finished", "failed"}],
   [Fan EXCEPT !.stops = 1],
   [Fan EXCEPT !.crashes = 1, !.mortal = {c1}],
   [Fan EXCEPT !.early = TRUE],
   [Fork EXCEPT !.up = {c1, c2, w1}],
   [Fork EXCEPT !.lapses = 2, !.up = {c1, w1, w2}],
   [Fork EXCEPT !.toggles = 1],
   [Fork EXCEPT !.errors = 1, !.failing = Recovered],
   [Fork EXCEPT !.errors = 1, !.failing = Logged],
   [Fork EXCEPT !.crashes = 1, !.mortal = {w1}, !.up = {c1, w1, w2}],
   [Fork EXCEPT !.removes = 1],
   [Nap EXCEPT !.slow = TRUE, !.lapses = 2, !.graph = "rest"],
   [Nap EXCEPT !.crashes = 1, !.mortal = {w1}, !.lapses = 1],
   [Nap EXCEPT !.crashes = 1, !.mortal = {w1}, !.graph = "rest"],
   [Nap EXCEPT !.errors = 2, !.failing = {"node", "step", "clear"}, !.graph = "rest"],
   [Nap EXCEPT !.toggles = 1],
   [Clock EXCEPT !.crashes = 1, !.mortal = {k1}],
   [Clock EXCEPT !.errors = 1, !.failing = {"open", "record"}],
   [Plain EXCEPT !.events = {Event("sprint", "it", "user")}],
   [Plain EXCEPT !.watched = {1, 2}, !.events = {}],
   [Plain EXCEPT !.errors = 1, !.failing = {"open"}, !.events = {Event("webhook", "it", "user")}]}

\* One automation that completes a sprint that starts, and starts one that is completed.
MCSprints == {[Quiet("sprints", {c1}) EXCEPT !.events = {Event("sprint", "completed", "user")}]}
=============================================================================
