--------------------------- MODULE MCBridgeRegistry ---------------------------
EXTENDS BridgeRegistry

CONSTANTS c1, c2, r1

\* A session that has stood for long is lost, and another one comes.
MCSettings ==
  {[online |-> c1, conns |-> {c2}, replicas |-> {r1},
    budget |-> [crashes |-> 0, drops |-> 1, losses |-> 0, evictions |-> 0, errors |-> 0]]}
===============================================================================
