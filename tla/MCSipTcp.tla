------------------------------ MODULE MCSipTcp ------------------------------
(* An instance of SipTcp for TLC: two messages to one peer, and another    *)
(* peer whose connections take the numbers of closed ones.                 *)
EXTENDS SipTcp

CONSTANTS p1, p2, m1, m2

ToOnePeer == [m \in {m1, m2} |-> p1]
=============================================================================
