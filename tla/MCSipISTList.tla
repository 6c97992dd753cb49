---------------------------- MODULE MCSipISTList ----------------------------
(* Instances of SipISTList for TLC. *)
EXTENDS SipISTList

CONSTANTS c1, k1, k2

TwoKeys == {k1, k2}
OneCall == {c1}

(* Two INVITEs of one call, as re-INVITEs make them. *)
ReInvites == [k \in Keys |-> <<c1, IF k = k1 THEN 1 ELSE 2>>]

TwoOrOne == [k \in Keys |-> IF k = k1 THEN 2 ELSE 1]

TwoSends == <<1, 1>>
=============================================================================
