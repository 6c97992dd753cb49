---------------------------- MODULE MCSipICTList ----------------------------
(* Instances of SipICTList for TLC. *)
EXTENDS SipICTList

CONSTANTS c1, c2, k1, k2

TwoKeys == {k1, k2}
OneCall == {c1}
TwoCalls == {c1, c2}

SameCall == [k \in Keys |-> c1]
OwnCall == [k \in Keys |-> IF k = k1 THEN c1 ELSE c2]

OneOrTwo == [k \in Keys |-> IF k = k1 THEN 2 ELSE 1]

TwoSends == <<1, 1>>
=============================================================================
