---------------------------- MODULE MCSipNonInvite --------------------------
(* An instance of SipNonInvite for TLC: with a tick of 250 ms these are    *)
(* the values m_arrICTReSendTime has in the code.                          *)
EXTENDS SipNonInvite

CONSTANT k1

OneKey == {k1}
Sends == <<2, 6, 14, 30, 46, 62, 78, 94, 110, 126, 128>>
=============================================================================
