--------------------------- MODULE MCSipMessageLife ---------------------------
(* An instance of SipMessageLife for TLC: an INVITE that is repeated and     *)
(* acknowledged, or a request; two responses the second of which replaces    *)
(* the first, and the 660 of a connection that could not be made.            *)
EXTENDS SipMessageLife

CONSTANTS q1, q2, a1, ok, refused, error

Codes == (q1 :> 0) @@ (q2 :> 0) @@ (a1 :> -1) @@ (ok :> 200) @@ (refused :> 401) @@ (error :> 660)
===============================================================================
