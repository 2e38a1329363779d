---------------------------- MODULE MCOpenaiRoutes ----------------------------
(* A small instance of OpenaiRoutes.                                         *)
EXTENDS OpenaiRoutes
=============================================================================
