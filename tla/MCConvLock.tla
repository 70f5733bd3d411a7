----------------------------- MODULE MCConvLock -----------------------------
(* Two keys so that entries are created and deleted independently, three   *)
(* callers so that one can arrive while another holds and a third leaves,  *)
(* and an address for each caller: no more mutexes than callers are alive. *)
EXTENDS ConvLock
=============================================================================
