-------------------------- MODULE MCDeviceMembership --------------------------
(* Instances of DeviceMembership for TLC. *)
EXTENDS DeviceMembership
=============================================================================
