--------------------------- MODULE MCDurableGateway ---------------------------
(* Instances of DurableGateway for TLC. *)
EXTENDS DurableGateway, TLC

\* Workers are told apart only by what happened to them.
WorkerSymmetry == Permutations(Worker)
=============================================================================
