---------------------------- MODULE MCOpenaiWorker ----------------------------
(* A small instance of OpenaiWorker. *)
EXTENDS OpenaiWorker
=============================================================================
