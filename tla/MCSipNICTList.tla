---------------------------- MODULE MCSipNICTList ---------------------------
(* Instances of SipNICTList for TLC. *)
EXTENDS SipNICTList

CONSTANT k1

OneKey == {k1}

ThreeSends == <<1, 2, 3>>
=============================================================================
