-------------------------- MODULE MCSipStackThreads -------------------------
(* Instances of SipStackThreads for TLC. *)
EXTENDS SipStackThreads
=============================================================================
