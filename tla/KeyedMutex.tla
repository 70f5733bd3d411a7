----------------------------- MODULE KeyedMutex -----------------------------
(***************************************************************************)
(* What the per-key lock of services/agent-runner/internal/convlock        *)
(* promises its users, with no table of mutexes and no reference counts:   *)
(* every key has at most one owner, a caller asks for one key at a time,   *)
(* and a key goes from one owner to the next only through "free".          *)
(***************************************************************************)
CONSTANTS
  Keys,       \* conversation (or environment) ids
  Callers,    \* goroutines that call Lock
  None        \* no owner, no key

VARIABLES
  owner,      \* owner[k]: the caller holding k, or None
  wants       \* wants[c]: the key c is blocked on, or None

mutexVars == <<owner, wants>>

Init ==
  /\ owner = [k \in Keys |-> None]
  /\ wants = [c \in Callers |-> None]

\* c calls Lock(k) and blocks.
Ask(c, k) ==
  /\ wants[c] = None
  /\ \A j \in Keys : owner[j] # c
  /\ wants' = [wants EXCEPT ![c] = k]
  /\ UNCHANGED owner

\* Lock returns to c.
Take(c, k) ==
  /\ wants[c] = k
  /\ owner[k] = None
  /\ owner' = [owner EXCEPT ![k] = c]
  /\ wants' = [wants EXCEPT ![c] = None]

\* c calls the unlock function Lock returned to it.
Release(c, k) ==
  /\ owner[k] = c
  /\ owner' = [owner EXCEPT ![k] = None]
  /\ UNCHANGED wants

Next == \E c \in Callers, k \in Keys : Ask(c, k) \/ Take(c, k) \/ Release(c, k)

Spec == Init /\ [][Next]_mutexVars
=============================================================================
