------------------------------ MODULE KSipCall ------------------------------
(***************************************************************************)
(* The calls of KSipServer, a back-to-back user agent: an INVITE it        *)
(* receives makes it send one of its own, and what becomes of either of    *)
(* the two dialogs is carried over to the other (SipServerUserAgent.hpp,   *)
(* SipServerPickUp.hpp).  gclsCallMap says which dialogs belong together,  *)
(* gclsTransCallMap which dialog a transfer is waiting for, and gclsRtpMap *)
(* holds the ports that relay the media, each with a thread of its own.    *)
(*                                                                         *)
(* Callbacks run in any of the UDP threads at the same time.  They lock    *)
(* one map at a time for a moment only; between two of these moments any   *)
(* other thread may run, so each is a step in the thread's list of things  *)
(* to do.                                                                  *)
(*                                                                         *)
(* A Call-ID is a number, and NoCall the empty one.  A dialog is what      *)
(* StopCall, AcceptCall and the handlers of CANCEL, BYE and the responses  *)
(* to an INVITE make of it; SipUserAgent models it in detail.  Provisional *)
(* responses, re-INVITE, PRACK and NOTIFY change nothing here, and calls   *)
(* are taken to have one media line each and the RTP relay to be on.       *)
(* Routing (users, IP-PBX, do not disturb, forwarding) is a choice.        *)
(*                                                                         *)
(* An operator named F_Fault is F with a fault seeded in it: no action     *)
(* uses it, and the properties are shown to notice it.                     *)
(***************************************************************************)
EXTENDS Integers, Sequences

CONSTANTS
  Incoming,  \* Call-IDs of INVITEs the server receives
  Outgoing,  \* Call-IDs of INVITEs the server sends
  Ports,     \* first ports of the blocks of four the relay may use
  Threads,   \* UDP threads
  Scenarios  \* what may happen and to what; one of them in each behaviour

Features == {"threads", "crossing", "failure", "pickup", "blind", "attended"}

ASSUME CallAssumption ==
  /\ Incoming \cup Outgoing \cup Ports \subseteq Nat \ {0}
  /\ Incoming \cap Outgoing = {}
  /\ \A p, q \in Ports : p # q => p + 4 <= q \/ q + 4 <= p
  /\ Scenarios \subseteq
       [features : SUBSET Features, incoming : SUBSET Incoming, outgoing : SUBSET Outgoing,
        ports : SUBSET Ports, transferors : SUBSET (Incoming \cup Outgoing)]

VARIABLES
  scenario, \* the scenario of this behaviour
  dialog,   \* m_clsDialogMap of CSipUserAgent
  calls,    \* gclsCallMap
  trans,    \* gclsTransCallMap
  ports,    \* gclsRtpMap: "free", "used", or "stopping" (m_bStop)
  todo,     \* what each thread has still to do
  crossed,  \* history: a transfer or a pick-up was crossed by another thread
  astray,   \* history: Call-IDs whose entries were missed, lost or left over
  forgotten \* history: ports that no entry leads to any more

vars == <<scenario, dialog, calls, trans, ports, todo, crossed, astray, forgotten>>

None == [none |-> TRUE]    \* not in the map, not yet
Over == [none |-> FALSE]   \* no longer in the map
NoCall == 0
NoPort == -1

Calls == Incoming \cup Outgoing
CallIds == Calls \cup {NoCall}

May(feature) == feature \in scenario.features

\* CSipDialog: m_pclsInvite is there; the time stamps are set; and whether
\* the INVITE of an outgoing call was sent.
Dialog == [invite : BOOLEAN, start : BOOLEAN, end : BOOLEAN, cancel : BOOLEAN, sent : BOOLEAN]
Unconnected == [invite |-> FALSE, start |-> FALSE, end |-> FALSE, cancel |-> FALSE, sent |-> FALSE]

\* CCallInfo: m_strPeerCallId, m_bRecv, m_iPeerRtpPort.
CallInfo == [peer : CallIds, recv : BOOLEAN, port : Int]

Exists(x) == dialog[x] \notin {None, Over}
Fresh == {d \in scenario.outgoing : dialog[d] = None}

Init ==
  /\ scenario \in Scenarios
  /\ dialog = [x \in CallIds |-> None]
  /\ calls = [x \in CallIds |-> None]
  /\ trans = [x \in CallIds |-> None]
  /\ ports = [p \in Ports |-> "free"]
  /\ todo = [t \in Threads |-> <<>>]
  /\ crossed = FALSE
  /\ astray = {}
  /\ forgotten = {}

-----------------------------------------------------------------------------
(* A thread's list of things to do. *)
Idle(t) == todo[t] = <<>>
Quiet == \A t \in Threads : Idle(t)

Doing(t, do) == ~Idle(t) /\ Head(todo[t]).do = do
Now(t) == Head(todo[t])
Start(t, steps) == todo' = [todo EXCEPT ![t] = steps]
Then(t, steps) == todo' = [todo EXCEPT ![t] = steps \o Tail(@)]

\* Another thread works on a transfer or a pick-up, or on the start or the end
\* of a call, while one is at a transfer or a pick-up.
MoveSteps == {"EventBlindTransfer", "CreatePort", "SendInvite", "InsertTrans", "Transfer",
              "DeleteTrans", "EventTransfer", "SelectRefer", "Refer", "Redial", "SelectToRing",
              "SelectOld", "InsertOne", "DeleteOne", "AcceptCaller", "SelectCaller", "Update"}
TurnSteps == {"EventCallStart", "AcceptCall", "EventCallEnd", "Delete", "DeleteDialog"}

Has(t, steps) == \E i \in DOMAIN todo[t] : todo[t][i].do \in steps
Moves(t) ==
  \/ Has(t, MoveSteps)
  \/ \E i \in DOMAIN todo[t] : todo[t][i].do = "Insert" /\ todo[t][i].moved
Crossing == \E t, u \in Threads : t # u /\ Moves(t) /\ (Moves(u) \/ Has(u, TurnSteps))

\* A thread takes the next message up: at any time, or to cross a transfer
\* only, or when no other thread is busy.
MayStart(t) ==
  /\ Idle(t)
  /\ \/ May("threads")
     \/ May("crossing") /\ \E u \in Threads : Moves(u)
     \/ Quiet

StopCallStep(x) == [do |-> "StopCall", call |-> x]
DeleteDialogStep(x) == [do |-> "DeleteDialog", call |-> x]
DeleteStep(x, stop) == [do |-> "Delete", call |-> x, stop |-> stop]
InsertStep(x, y, p, moved) ==
  [do |-> "Insert", recv |-> x, send |-> y, port |-> p, moved |-> moved]

-----------------------------------------------------------------------------
(* CCallMap *)

\* Insert(recv, send, start): an entry that is there already stays.
Inserted(map, r, s, p) ==
  LET withRecv == IF map[r] # None THEN map
                  ELSE [map EXCEPT ![r] = [peer |-> s, recv |-> TRUE, port |-> p]]
  IN IF map[s] # None THEN withRecv
     ELSE [withRecv EXCEPT ![s] = [peer |-> r, recv |-> FALSE, port |-> p + 2]]

Erased_One(map, x) == [map EXCEPT ![x] = None]

\* Delete(x): the entry of x and that of its peer.
Erased(map, x) ==
  IF map[x] = None THEN map ELSE [map EXCEPT ![x] = None, ![map[x].peer] = None]

\* ... and the port of the one that received the INVITE.
ErasedPort_Own(map, x) ==
  IF map[x] # None /\ map[x].recv THEN map[x].port ELSE NoPort

ErasedPort(map, x) ==
  IF map[x] = None THEN NoPort
  ELSE LET y == map[x].peer
       IN IF map[y] # None /\ map[y].recv THEN map[y].port
          ELSE IF map[x].recv THEN map[x].port ELSE NoPort

-----------------------------------------------------------------------------
(* CSipUserAgent: what StopCall makes of a dialog. *)
Stopped_NoCancel(d) ==
  IF d \notin {None, Over} /\ (d.start \/ d.invite) /\ ~(d.start /\ d.end) THEN Over ELSE d

Stopped(d) ==
  IF d \in {None, Over} THEN d
  ELSE IF d.start THEN IF d.end THEN d ELSE Over
  ELSE IF d.invite THEN Over
  ELSE IF d.cancel \/ d.end THEN d ELSE [d EXCEPT !.cancel = TRUE]

Acceptable(x) == Exists(x) /\ ~dialog[x].start /\ dialog[x].invite

StopCall(t) ==
  /\ Doing(t, "StopCall")
  /\ dialog' = [dialog EXCEPT ![Now(t).call] = Stopped(@)]
  /\ Then(t, <<>>)
  /\ UNCHANGED <<calls, trans, ports, astray, forgotten>>

DeleteDialog(t) ==
  /\ Doing(t, "DeleteDialog")
  /\ dialog' = [dialog EXCEPT ![Now(t).call] = IF Exists(Now(t).call) THEN Over ELSE @]
  /\ Then(t, <<>>)
  /\ UNCHANGED <<calls, trans, ports, astray, forgotten>>

AcceptCall(t) ==
  /\ Doing(t, "AcceptCall")
  /\ dialog' = [dialog EXCEPT ![Now(t).call] =
       IF Acceptable(Now(t).call) THEN [@ EXCEPT !.start = TRUE, !.invite = FALSE] ELSE @]
  /\ Then(t, <<>>)
  /\ UNCHANGED <<calls, trans, ports, astray, forgotten>>

-----------------------------------------------------------------------------
(* The steps on the maps. *)

InsertCalls(t) ==
  /\ Doing(t, "Insert")
  /\ calls' = Inserted(calls, Now(t).recv, Now(t).send, Now(t).port)
  /\ Then(t, <<>>)
  /\ UNCHANGED <<dialog, trans, ports, astray, forgotten>>

\* The port is stopped after the mutex was released.
DeleteCalls(t) ==
  /\ Doing(t, "Delete")
  /\ LET x == Now(t).call
         p == ErasedPort(calls, x)
     IN /\ calls' = Erased(calls, x)
        /\ Then(t, IF Now(t).stop /\ p # NoPort THEN <<[do |-> "SetStop", port |-> p]>> ELSE <<>>)
  /\ UNCHANGED <<dialog, trans, ports, astray, forgotten>>

InsertTrans(t) ==
  /\ Doing(t, "InsertTrans")
  /\ trans' = Inserted(trans, Now(t).recv, Now(t).send, Now(t).port)
  /\ Then(t, <<>>)
  /\ UNCHANGED <<dialog, calls, ports, astray, forgotten>>

DeleteTrans(t) ==
  /\ Doing(t, "DeleteTrans")
  /\ LET x == Now(t).call
         p == ErasedPort(trans, x)
     IN /\ trans' = Erased(trans, x)
        /\ Then(t, IF Now(t).stop /\ p # NoPort THEN <<[do |-> "SetStop", port |-> p]>> ELSE <<>>)
  /\ UNCHANGED <<dialog, calls, ports, astray, forgotten>>

SetStop(t) ==
  /\ Doing(t, "SetStop")
  /\ LET p == Now(t).port
     IN ports' = [q \in Ports |-> IF q = p /\ ports[q] = "used" THEN "stopping" ELSE ports[q]]
  /\ Then(t, <<>>)
  /\ UNCHANGED <<dialog, calls, trans, astray, forgotten>>

\* RtpThread sees m_bStop, closes its sockets and deletes its entry.
RtpThread(p) ==
  /\ ports[p] = "stopping"
  /\ ports' = [ports EXCEPT ![p] = "free"]
  /\ UNCHANGED <<scenario, dialog, calls, trans, todo, crossed, astray, forgotten>>

FreePorts == {p \in scenario.ports : ports[p] = "free"}
LowestFree(p) == p \in FreePorts /\ \A q \in FreePorts : p <= q

-----------------------------------------------------------------------------
(* EventIncomingCall *)

RecvInvite(t, c) ==
  /\ MayStart(t) /\ (May("crossing") => Quiet)   \* bound
  /\ c \in scenario.incoming /\ dialog[c] = None
  /\ dialog' = [dialog EXCEPT ![c] = [Unconnected EXCEPT !.invite = TRUE]]
  /\ Start(t, <<[do |-> "EventIncomingCall", call |-> c]>>)
  /\ UNCHANGED <<calls, trans, ports, astray, forgotten>>

\* The callee is unknown, not registered, or wants no calls or others.
Refuse(t) ==
  /\ Doing(t, "EventIncomingCall")
  /\ Then(t, <<StopCallStep(Now(t).call)>>)
  /\ UNCHANGED <<dialog, calls, trans, ports, astray, forgotten>>

CreatePort(t) ==
  /\ Doing(t, "EventIncomingCall")
  /\ \E p \in Ports :
       /\ LowestFree(p)
       /\ ports' = [ports EXCEPT ![p] = "used"]
       /\ Then(t, <<[do |-> "CreateCall", call |-> Now(t).call, port |-> p]>>)
  /\ UNCHANGED <<dialog, calls, trans, astray, forgotten>>

\* Bound: it fails as well when the scenario has no Call-ID left.
MayFail == May("failure") \/ Fresh = {}

CreateCall(t) ==
  /\ Doing(t, "CreateCall")
  /\ \E d \in Fresh :
       /\ \A e \in Fresh : d <= e
       /\ dialog' = [dialog EXCEPT ![d] = Unconnected]
       /\ Then(t, <<InsertStep(Now(t).call, d, Now(t).port, FALSE),
                    [do |-> "StartCall", call |-> Now(t).call, invite |-> d]>>)
  /\ UNCHANGED <<calls, trans, ports, astray, forgotten>>

CreateCallFails(t) ==
  /\ Doing(t, "CreateCall") /\ MayFail
  /\ Then(t, <<StopCallStep(Now(t).call)>>)
  /\ forgotten' = forgotten \cup {Now(t).port}
  /\ UNCHANGED <<dialog, calls, trans, ports, astray>>

StartCall(t) ==
  /\ Doing(t, "StartCall")
  /\ dialog' = [dialog EXCEPT ![Now(t).invite] = IF Exists(Now(t).invite) THEN [@ EXCEPT !.sent = TRUE] ELSE @]
  /\ Then(t, <<>>)
  /\ UNCHANGED <<calls, trans, ports, astray, forgotten>>

StartCallFails(t) ==
  /\ Doing(t, "StartCall") /\ May("failure")
  /\ dialog' = [dialog EXCEPT ![Now(t).invite] = IF Exists(Now(t).invite) THEN Over ELSE @]
  /\ Then(t, <<DeleteStep(Now(t).call, TRUE), StopCallStep(Now(t).call)>>)
  /\ UNCHANGED <<calls, trans, ports, astray, forgotten>>

-----------------------------------------------------------------------------
(* EventCallStart: a response 200 to an INVITE of ours.  If the call was   *)
(* cancelled, SetInviteResponse ends it.                                   *)

Awaited(d) == Exists(d) /\ dialog[d].sent /\ ~dialog[d].start /\ ~dialog[d].end

RecvOk(t, d) ==
  /\ MayStart(t)
  /\ Awaited(d)
  /\ dialog' = [dialog EXCEPT ![d].start = TRUE]
  /\ Start(t, IF dialog[d].cancel THEN <<StopCallStep(d)>>
              ELSE <<[do |-> "EventCallStart", call |-> d]>>)
  /\ UNCHANGED <<calls, trans, ports, astray, forgotten>>

\* A peer that is connected already is sent a re-INVITE instead.
AcceptPeer(t) ==
  /\ Doing(t, "EventCallStart") /\ calls[Now(t).call] # None
  /\ Then(t, <<[do |-> "AcceptCall", call |-> calls[Now(t).call].peer]>>)
  /\ UNCHANGED <<dialog, calls, trans, ports, astray, forgotten>>

SelectTransferor(t) ==
  /\ Doing(t, "EventCallStart") /\ calls[Now(t).call] = None /\ trans[Now(t).call] # None
  /\ LET x == Now(t).call
     IN Then(t, <<[do |-> "Transfer", call |-> x, from |-> trans[x].peer, port |-> trans[x].port - 2]>>)
  /\ UNCHANGED <<dialog, calls, trans, ports, astray, forgotten>>

\* The transferor's peer gets the callee.  If it is gone, the entry of the
\* callee names the empty Call-ID, which gets one too.
Transfer(t) ==
  /\ Doing(t, "Transfer")
  /\ LET x == Now(t).call
         from == Now(t).from
         found == calls[from] # None
         peer == IF found THEN calls[from].peer ELSE NoCall
         stop == IF found THEN <<StopCallStep(from), DeleteStep(from, TRUE)>> ELSE <<>>
     IN /\ Then(t, stop \o <<InsertStep(peer, x, Now(t).port, TRUE),
                             [do |-> "DeleteTrans", call |-> x, stop |-> FALSE]>>)
        /\ astray' = IF found THEN astray ELSE astray \cup {x, NoCall}
  /\ UNCHANGED <<dialog, calls, trans, ports, forgotten>>

Unwanted(t) ==
  /\ Doing(t, "EventCallStart") /\ calls[Now(t).call] = None /\ trans[Now(t).call] = None
  /\ Then(t, <<StopCallStep(Now(t).call)>>)
  /\ astray' = astray \cup {Now(t).call}
  /\ UNCHANGED <<dialog, calls, trans, ports, forgotten>>

-----------------------------------------------------------------------------
(* EventCallEnd: CANCEL, BYE, or an INVITE of ours that failed.  The       *)
(* dialog is deleted when the application was told.                        *)

End(t, x) ==
  /\ dialog' = [dialog EXCEPT ![x].end = TRUE]
  /\ Start(t, <<[do |-> "EventCallEnd", call |-> x], DeleteDialogStep(x)>>)
  /\ UNCHANGED <<calls, trans, ports, astray, forgotten>>

\* A CANCEL that is repeated does not get past the transaction list.
RecvCancel(t, c) ==
  /\ MayStart(t)
  /\ c \in Incoming /\ Acceptable(c) /\ ~dialog[c].end
  /\ End(t, c)

RecvBye(t, x) ==
  /\ MayStart(t)
  /\ Exists(x) /\ dialog[x].start /\ ~dialog[x].end
  /\ End(t, x)

RecvError(t, d) ==
  /\ MayStart(t)
  /\ Awaited(d)
  /\ End(t, d)

EndPeer_DeleteOnly(t) ==
  /\ Doing(t, "EventCallEnd") /\ calls[Now(t).call] # None
  /\ Then(t, <<DeleteStep(Now(t).call, TRUE)>>)
  /\ UNCHANGED <<dialog, calls, trans, ports, astray, forgotten>>

EndPeer(t) ==
  /\ Doing(t, "EventCallEnd") /\ calls[Now(t).call] # None
  /\ LET x == Now(t).call
     IN Then(t, <<StopCallStep(calls[x].peer), DeleteStep(x, TRUE)>>)
  /\ UNCHANGED <<dialog, calls, trans, ports, astray, forgotten>>

\* When it is the transferor who ends, the callee of the transfer rings on.
EndTransfer(t) ==
  /\ Doing(t, "EventCallEnd") /\ calls[Now(t).call] = None /\ trans[Now(t).call] # None
  /\ LET x == Now(t).call
     IN /\ Then(t, <<[do |-> "DeleteTrans", call |-> x, stop |-> TRUE]>>)
        /\ astray' = IF trans[x].recv THEN astray \cup {trans[x].peer} ELSE astray
  /\ UNCHANGED <<dialog, calls, trans, ports, forgotten>>

EndAlone(t) ==
  /\ Doing(t, "EventCallEnd") /\ calls[Now(t).call] = None /\ trans[Now(t).call] = None
  /\ Then(t, <<>>)
  /\ astray' = astray \cup {Now(t).call}
  /\ UNCHANGED <<dialog, calls, trans, ports, forgotten>>

-----------------------------------------------------------------------------
(* EventBlindTransfer *)

\* Bound: transfers are asked for in connected calls.
RecvRefer(t, a) ==
  /\ MayStart(t) /\ May("blind")
  /\ Exists(a) /\ dialog[a].start /\ ~dialog[a].end
  /\ Fresh # {} /\ \A c \in scenario.incoming : dialog[c] # None   \* bound
  /\ Start(t, <<[do |-> "EventBlindTransfer", call |-> a]>>)
  /\ UNCHANGED <<dialog, calls, trans, ports, astray, forgotten>>

\* GetToId and GetRemoteCallRtp find the dialog of the peer.
BlindTransfer(t) ==
  /\ Doing(t, "EventBlindTransfer")
  /\ LET a == Now(t).call
     IN Then(t, IF calls[a] # None THEN <<[do |-> "CreatePort", call |-> a, peer |-> calls[a].peer]>> ELSE <<>>)
  /\ UNCHANGED <<dialog, calls, trans, ports, astray, forgotten>>

CreateTransPort(t) ==
  /\ Doing(t, "CreatePort")
  /\ \/ /\ Exists(Now(t).peer)
        /\ \E p \in Ports :
             /\ LowestFree(p)
             /\ ports' = [ports EXCEPT ![p] = "used"]
             /\ Then(t, <<[do |-> "SendInvite", call |-> Now(t).call, port |-> p]>>)
     \/ /\ ~Exists(Now(t).peer) \/ FreePorts = {}
        /\ UNCHANGED ports /\ Then(t, <<>>)
  /\ UNCHANGED <<dialog, calls, trans, astray, forgotten>>

\* The Call-ID is put in the map after the INVITE was sent.
StartTransCall(t) ==
  /\ Doing(t, "SendInvite")
  /\ \E d \in Fresh :
       /\ \A e \in Fresh : d <= e
       /\ dialog' = [dialog EXCEPT ![d] = [Unconnected EXCEPT !.sent = TRUE]]
       /\ Then(t, <<[do |-> "InsertTrans", recv |-> Now(t).call, send |-> d, port |-> Now(t).port]>>)
  /\ UNCHANGED <<calls, trans, ports, astray, forgotten>>

StartTransCallFails(t) ==
  /\ Doing(t, "SendInvite") /\ MayFail
  /\ Then(t, <<>>)
  /\ forgotten' = forgotten \cup {Now(t).port}
  /\ UNCHANGED <<dialog, calls, trans, ports, astray>>

-----------------------------------------------------------------------------
(* EventTransfer: the transferor has the calls a and b, and wants to have  *)
(* their peers connected with each other.                                  *)

RecvReferReplaces(t, a, b) ==
  /\ MayStart(t) /\ May("attended")
  /\ \A u \in Threads : ~Moves(u)   \* bound: one such transfer at a time
  /\ Exists(a) /\ dialog[a].start /\ ~dialog[a].end
  /\ Exists(b) /\ ~dialog[b].end
  /\ {a, b} \subseteq scenario.transferors   \* bound
  /\ b # a /\ (calls[a] # None => calls[a].peer # b)
  /\ Start(t, <<[do |-> "EventTransfer", call |-> a, to |-> b, screened |-> dialog[b].start]>>)
  /\ UNCHANGED <<dialog, calls, trans, ports, astray, forgotten>>

SelectTransfer(t) ==
  /\ Doing(t, "EventTransfer")
  /\ LET a == Now(t).call
     IN Then(t, IF calls[a] = None THEN <<>>
                ELSE <<[do |-> "SelectRefer", call |-> a, to |-> Now(t).to,
                        screened |-> Now(t).screened, peer |-> calls[a].peer]>>)
  /\ UNCHANGED <<dialog, calls, trans, ports, astray, forgotten>>

SelectReferTo_StopBoth(t) ==
  /\ Doing(t, "SelectRefer")
  /\ LET a == Now(t).call
         b == Now(t).to
     IN Then(t, IF calls[b] = None THEN <<>>
          ELSE <<DeleteStep(a, TRUE), DeleteStep(b, TRUE),
                 [do |-> "Refer", call |-> a, to |-> b, screened |-> Now(t).screened,
                  peer |-> Now(t).peer, toPeer |-> calls[b].peer,
                  port |-> calls[b].port, owner |-> calls[b].recv]>>)
  /\ UNCHANGED <<dialog, calls, trans, ports, astray, forgotten>>

SelectReferTo(t) ==
  /\ Doing(t, "SelectRefer")
  /\ LET a == Now(t).call
         b == Now(t).to
     IN Then(t, IF calls[b] = None THEN <<>>
          ELSE <<DeleteStep(a, TRUE), DeleteStep(b, FALSE),
                 [do |-> "Refer", call |-> a, to |-> b, screened |-> Now(t).screened,
                  peer |-> Now(t).peer, toPeer |-> calls[b].peer,
                  port |-> calls[b].port, owner |-> calls[b].recv]>>)
  /\ UNCHANGED <<dialog, calls, trans, ports, astray, forgotten>>

\* The entry of a call that was sent has the second port of the block: as the
\* first port of a new pair of entries it leads nowhere.
PortOf(step) == IF step.owner THEN step.port ELSE step.port - 2
Forget(step) == forgotten \cup ({PortOf(step)} \cap Ports)
Forgotten(step) == IF step.owner THEN forgotten ELSE Forget(step)

ScreenedTransfer(t) ==
  /\ Doing(t, "Refer") /\ Now(t).screened
  /\ Exists(Now(t).peer) /\ Exists(Now(t).toPeer)
  /\ Then(t, <<InsertStep(Now(t).peer, Now(t).toPeer, Now(t).port, TRUE),
               StopCallStep(Now(t).call), StopCallStep(Now(t).to)>>)
  /\ forgotten' = Forgotten(Now(t))
  /\ UNCHANGED <<dialog, calls, trans, ports, astray>>

UnscreenedTransfer(t) ==
  /\ Doing(t, "Refer") /\ ~Now(t).screened /\ Exists(Now(t).peer)
  /\ Then(t, <<StopCallStep(Now(t).call), StopCallStep(Now(t).to),
               [Now(t) EXCEPT !.do = "Redial"]>>)
  /\ UNCHANGED <<dialog, calls, trans, ports, astray, forgotten>>

\* The entries are gone, and the calls go on without.
TransferFails(t) ==
  /\ Doing(t, "Refer")
  /\ ~Exists(Now(t).peer) \/ (Now(t).screened /\ ~Exists(Now(t).toPeer))
  /\ Then(t, <<>>)
  /\ astray' = astray \cup {Now(t).call, Now(t).to, Now(t).peer, Now(t).toPeer}
  /\ forgotten' = Forget(Now(t))
  /\ UNCHANGED <<dialog, calls, trans, ports>>

\* The user at the other end of b is called again, for the peer of a.
Redial(t) ==
  /\ Doing(t, "Redial")
  /\ \E d \in Fresh :
       /\ \A e \in Fresh : d <= e
       /\ dialog' = [x \in CallIds |-> IF x = d THEN [Unconnected EXCEPT !.sent = TRUE]
                                       ELSE IF x = Now(t).toPeer THEN Stopped(dialog[x])
                                       ELSE dialog[x]]
       /\ Then(t, <<InsertStep(d, Now(t).peer, Now(t).port, TRUE)>>)
  /\ forgotten' = Forgotten(Now(t))
  /\ UNCHANGED <<calls, trans, ports, astray>>

\* StartCall's result is not looked at: the empty Call-ID gets an entry then.
RedialFails(t) ==
  /\ Doing(t, "Redial") /\ MayFail
  /\ dialog' = [dialog EXCEPT ![Now(t).toPeer] = Stopped(@)]
  /\ Then(t, <<InsertStep(NoCall, Now(t).peer, Now(t).port, TRUE)>>)
  /\ astray' = astray \cup {Now(t).peer, NoCall}
  /\ forgotten' = Forgotten(Now(t))
  /\ UNCHANGED <<calls, trans, ports>>

\* ... or is not registered any more.
RedialNobody(t) ==
  /\ Doing(t, "Redial")
  /\ Then(t, <<StopCallStep(Now(t).peer), StopCallStep(Now(t).toPeer)>>)
  /\ forgotten' = Forget(Now(t))
  /\ UNCHANGED <<dialog, calls, trans, ports, astray>>

-----------------------------------------------------------------------------
(* PickUp: c takes over a call x that rings, whose caller is o.            *)

PickUp(t) ==
  /\ Doing(t, "EventIncomingCall") /\ May("pickup")
  /\ Then(t, <<[do |-> "SelectToRing", call |-> Now(t).call]>>)
  /\ UNCHANGED <<dialog, calls, trans, ports, astray, forgotten>>

Rings(x) ==
  /\ calls[x] # None /\ ~calls[x].recv
  /\ Exists(x) /\ ~(dialog[x].start /\ ~dialog[x].end)

SelectToRing(t) ==
  /\ Doing(t, "SelectToRing")
  /\ LET c == Now(t).call
     IN \/ \E x \in Calls : Rings(x) /\ Then(t, <<[do |-> "SelectOld", call |-> c, old |-> x]>>)
        \/ (\A x \in Calls : ~Rings(x)) /\ Then(t, <<StopCallStep(c)>>)
  /\ UNCHANGED <<dialog, calls, trans, ports, astray, forgotten>>

SelectOld(t) ==
  /\ Doing(t, "SelectOld")
  /\ LET c == Now(t).call
         x == Now(t).old
     IN Then(t, IF calls[x] = None THEN <<StopCallStep(c)>>
                ELSE <<[do |-> "InsertOne", call |-> c, info |-> calls[x]],
                       [do |-> "DeleteOne", call |-> x], StopCallStep(x),
                       [do |-> "AcceptCaller", call |-> c, caller |-> calls[x].peer]>>)
  /\ UNCHANGED <<dialog, calls, trans, ports, astray, forgotten>>

\* c gets the entry that x has, and so the same port.
InsertOne(t) ==
  /\ Doing(t, "InsertOne")
  /\ calls' = [calls EXCEPT ![Now(t).call] = Now(t).info]
  /\ Then(t, <<>>)
  /\ UNCHANGED <<dialog, trans, ports, astray, forgotten>>

DeleteOne(t) ==
  /\ Doing(t, "DeleteOne")
  /\ calls' = [calls EXCEPT ![Now(t).call] = None]
  /\ Then(t, <<>>)
  /\ UNCHANGED <<dialog, trans, ports, astray, forgotten>>

AcceptCaller(t) ==
  /\ Doing(t, "AcceptCaller")
  /\ LET o == Now(t).caller
     IN /\ Acceptable(o)
        /\ dialog' = [dialog EXCEPT ![o].start = TRUE, ![o].invite = FALSE]
        /\ Then(t, <<[do |-> "SelectCaller", call |-> Now(t).call, caller |-> o]>>)
  /\ UNCHANGED <<calls, trans, ports, astray, forgotten>>

\* Nobody takes back the entries that the pick-up has made and deleted.
PickUpFails(t) ==
  /\ \/ Doing(t, "AcceptCaller") /\ ~Acceptable(Now(t).caller)
        /\ Then(t, <<StopCallStep(Now(t).call)>>)
     \/ Doing(t, "SelectCaller") /\ calls[Now(t).caller] = None
        /\ Then(t, <<StopCallStep(Now(t).caller), StopCallStep(Now(t).call)>>)
  /\ astray' = astray \cup {Now(t).call, Now(t).caller}
  /\ UNCHANGED <<dialog, calls, trans, ports, forgotten>>

SelectCaller(t) ==
  /\ Doing(t, "SelectCaller") /\ calls[Now(t).caller] # None
  /\ Then(t, <<[do |-> "Update", call |-> Now(t).caller, peer |-> Now(t).call],
               [do |-> "AcceptCall", call |-> Now(t).call]>>)
  /\ UNCHANGED <<dialog, calls, trans, ports, astray, forgotten>>

Update(t) ==
  /\ Doing(t, "Update")
  /\ calls' = [calls EXCEPT ![Now(t).call] =
       IF @ = None THEN @ ELSE [@ EXCEPT !.peer = Now(t).peer]]
  /\ Then(t, <<>>)
  /\ UNCHANGED <<dialog, trans, ports, astray, forgotten>>

-----------------------------------------------------------------------------
Crosses == crossed' = (crossed \/ Crossing') /\ UNCHANGED scenario

Receive(t) ==
  /\ \E x \in Calls :
       \/ RecvInvite(t, x) \/ RecvCancel(t, x)
       \/ RecvOk(t, x) \/ RecvError(t, x) \/ RecvBye(t, x) \/ RecvRefer(t, x)
       \/ \E y \in Calls : RecvReferReplaces(t, x, y)
  /\ Crosses

Handle(t) ==
  /\ \/ StopCall(t) \/ DeleteDialog(t) \/ AcceptCall(t)
     \/ InsertCalls(t) \/ DeleteCalls(t) \/ InsertTrans(t) \/ DeleteTrans(t) \/ SetStop(t)
     \/ Refuse(t) \/ CreatePort(t) \/ CreateCall(t) \/ CreateCallFails(t)
     \/ StartCall(t) \/ StartCallFails(t)
     \/ AcceptPeer(t) \/ SelectTransferor(t) \/ Transfer(t) \/ Unwanted(t)
     \/ EndPeer(t) \/ EndTransfer(t) \/ EndAlone(t)
     \/ BlindTransfer(t) \/ CreateTransPort(t) \/ StartTransCall(t) \/ StartTransCallFails(t)
     \/ SelectTransfer(t) \/ SelectReferTo(t) \/ ScreenedTransfer(t) \/ UnscreenedTransfer(t) \/ TransferFails(t)
     \/ Redial(t) \/ RedialFails(t) \/ RedialNobody(t)
     \/ PickUp(t) \/ SelectToRing(t) \/ SelectOld(t) \/ InsertOne(t) \/ DeleteOne(t)
     \/ AcceptCaller(t) \/ PickUpFails(t) \/ SelectCaller(t) \/ Update(t)
  /\ Crosses

Next ==
  \/ \E t \in Threads : Receive(t) \/ Handle(t)
  \/ \E p \in Ports : RtpThread(p)

Spec == Init /\ [][Next]_vars

\* An INVITE of ours is answered some time, or else its transaction ends it.
Answer == \E t \in Threads, d \in Outgoing : (RecvOk(t, d) \/ RecvError(t, d)) /\ Crosses

FairSpec ==
  /\ Spec
  /\ \A t \in Threads : WF_vars(Handle(t))
  /\ SF_vars(Answer)
  /\ \A p \in Ports : WF_vars(RtpThread(p))

-----------------------------------------------------------------------------
\* The state of the server has its type.
TypeOK ==
  /\ scenario \in Scenarios
  /\ dialog \in [CallIds -> Dialog \cup {None, Over}]
  /\ calls \in [CallIds -> CallInfo \cup {None}]
  /\ trans \in [CallIds -> CallInfo \cup {None}]
  /\ ports \in [Ports -> {"free", "used", "stopping"}]
  /\ \A t \in Threads : \A i \in DOMAIN todo[t] : "do" \in DOMAIN todo[t][i]
  /\ crossed \in BOOLEAN
  /\ astray \subseteq CallIds
  /\ forgotten \subseteq Ports

\* Between callbacks two entries name each other, one for the INVITE that
\* was received and one for that sent, and lead to the same relay port
\* (CCallMap), unless one of the calls went astray.
PeersAgree ==
  Quiet /\ ~crossed => \A x \in CallIds : calls[x] # None =>
    LET y == calls[x].peer
    IN \/ {x, y} \cap astray # {}
       \/ /\ calls[y] # None /\ calls[y].peer = x
          /\ calls[y].recv # calls[x].recv
          /\ calls[x].recv => calls[y].port = calls[x].port + 2

\* Every variable has its type, and the entries of calls agree.
Consistent == TypeOK /\ PeersAgree

Live(x) == Exists(x) /\ ~dialog[x].end /\ ~dialog[x].cancel
Together(x) == calls[x] # None /\ Live(calls[x].peer)
Astray(x) == x \in astray \/ (calls[x] # None /\ calls[x].peer \in astray)

\* Between callbacks nobody is left alone in a call: who has not hung up has
\* a peer who has not either, or is being called for a transfer (EventCallEnd,
\* EventCallStart, EventTransfer, PickUp), unless one of them went astray.
NobodyAlone ==
  Quiet /\ ~crossed =>
    \A x \in Calls : Live(x) => Together(x) \/ trans[x] # None \/ Astray(x)

\* The port of two connected calls is relayed (CCallMap::Delete stops the
\* port of the call it deletes, and no other).
RelayLasts ==
  \A x, y \in Calls :
    /\ calls[x] # None /\ calls[x].recv /\ calls[x].peer = y
    /\ Live(x) /\ dialog[x].start /\ Live(y) /\ dialog[y].start
    /\ calls[x].port \in Ports
    /\ ~crossed
    => ports[calls[x].port] = "used"

LeadsTo(entry, p) == entry # None /\ entry.recv /\ entry.port = p

\* When no call is left neither is an entry or a port (CCallMap, CRtpMap),
\* except for those that went astray or were forgotten.
NothingLeft ==
  Quiet /\ ~crossed /\ (\A x \in Calls : ~Exists(x)) =>
    /\ \A x \in CallIds : calls[x] # None => {x, calls[x].peer} \cap astray # {}
    /\ \A x \in CallIds : trans[x] # None => {x, trans[x].peer} \cap astray # {}
    /\ \A p \in Ports : ports[p] = "used" =>
         p \in forgotten \/ \E x \in CallIds : LeadsTo(calls[x], p) \/ LeadsTo(trans[x], p)

\* When the calls that came in have ended, so do in the end those that were
\* sent for them, but for two who were transferred to each other.
CalleesEnd ==
  (\A c \in scenario.incoming : dialog[c] = Over) ~>
    (\A d \in Outgoing : ~Exists(d) \/ Together(d) \/ Astray(d) \/ crossed)
=============================================================================
