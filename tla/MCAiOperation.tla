--------------------------- MODULE MCAiOperation ---------------------------
(* Small instances of AiOperation for TLC. *)
EXTENDS AiOperation, TLC

(* Where no poller submits, and all the others do, the pollers can be exchanged. *)
PollersToo == Permutations(Pollers)

=============================================================================
