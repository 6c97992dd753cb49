--------------------------- MODULE MCSipUserAgent ---------------------------
(* Instances of SipUserAgent for TLC. *)
EXTENDS SipUserAgent

MidCall  == [features |-> {"threads", "challenge", "refer"}, seqs |-> 3]
Modified == [features |-> {"threads", "challenge", "forward", "reinvite"}, seqs |-> 2]
Timed    == [features |-> {"challenge", "refer", "timeout"}, seqs |-> 3]
Reliable == [features |-> {"forward", "refer", "prack"}, seqs |-> 3]
Crossed  == [features |-> {"threads", "challenge", "forward"}, seqs |-> 2]
AllScenarios == {MidCall, Modified, Timed, Reliable, Crossed}
=============================================================================
