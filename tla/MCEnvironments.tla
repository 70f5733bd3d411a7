---------------------------- MODULE MCEnvironments ----------------------------
EXTENDS Environments

CONSTANTS u1, u2, u3, r1, n1, t1, t2, b1

OneProfile == [t \in Turns |-> CHOOSE p \in Profiles : TRUE]

Quietly(up, kinds) ==
  [up |-> up, kinds |-> kinds, mortal |-> {}, failing |-> {}, crashes |-> 0, errors |-> 0,
   vanishes |-> 0]

\* Requests that are executed as commands, and the reaper, with a replica, a request or
\* a reaper that dies or a call that fails -- and the write of its error with it;
\* conversations that attach, with a boot, the reaper, a request that removes the environment, and a
\* container that is gone or cannot be started.
Commands == Quietly({u1, u2, u3, n1}, {"create", "start", "stop", "restart"})
Attaches == Quietly({u1, u2, t1, t2}, {"create", "delete", "ports"})
Unheard == {"marking", "checking", "failing", "stopped", "reaping", "sparing", "touching",
            "clearing", "claiming", "reading", "locking", "trying", "deleting", "dropping",
            "working"}

MCSettings ==
  {[Commands EXCEPT !.up = @ \ {u3}, !.mortal = Jobs \cup {r1}, !.crashes = 1],
   [Commands EXCEPT !.up = @ \ {u3}, !.mortal = {u1, n1}, !.crashes = 1],
   [Commands EXCEPT !.errors = 1, !.failing = {"appending", "persisting", "waiting", "calling",
                                               "stopping", "starting", "removing", "building"}],
   [Commands EXCEPT !.up = @ \ {u3}, !.errors = 2,
                    !.failing = Unheard \cup {"stopping", "calling"}],
   [Attaches EXCEPT !.up = @ \cup {b1}],
   [Attaches EXCEPT !.up = {u1, t1, n1}, !.kinds = {"create"}],
   [Attaches EXCEPT !.vanishes = 1],
   [Attaches EXCEPT !.up = @ \cup {b1}, !.vanishes = 1, !.kinds = {"create"}],
   [Attaches EXCEPT !.errors = 1, !.failing = {"starting", "removing", "healing", "building"}],
   [Attaches EXCEPT !.up = {u1, t1, t2, b1}, !.errors = 1, !.failing = Unheard \cup {"starting"}],
   [Attaches EXCEPT !.errors = 1, !.failing = Unheard \ {"claiming", "reading"}]}
=============================================================================
