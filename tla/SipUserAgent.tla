---------------------------- MODULE SipUserAgent ----------------------------
(***************************************************************************)
(* A call between two SIP user agents (SipUserAgent): the dialog each of   *)
(* them keeps, from StartCall to StopCall, BYE, CANCEL, rejection or       *)
(* timeout.  Calls share nothing but mutexes, so there is one call here.   *)
(*                                                                         *)
(* A method of CSipUserAgent works on the dialog under m_clsDialogMutex;   *)
(* what it does after that, without the mutex, is the thread's list of     *)
(* things to do: send messages, call the application back, delete the      *)
(* dialog.  Between two of them any other thread may run.                  *)
(*                                                                         *)
(* The stack below is what SipICTList, SipISTList and SipNonInvite show    *)
(* it to be: a request reaches the other user once at most, in any order,  *)
(* and an INVITE has a client and a server transaction.  Responses that    *)
(* were overtaken are lost.  Requests carry a valid Call-ID; responses to  *)
(* CANCEL, BYE, REFER and PRACK change no dialog and are left out, as are  *)
(* the media descriptions.  A time stamp of a dialog only tells whether it *)
(* was set.                                                                *)
(*                                                                         *)
(* An operator named F_Fault is F with a fault seeded in it: no action     *)
(* uses it, and the properties are shown to notice it.                     *)
(***************************************************************************)
EXTENDS Integers, Sequences

CONSTANTS
  Caller, Callee,  \* the two user agents
  Threads,         \* threads of each of them
  MaxSeq,          \* bound: highest CSeq of an INVITE
  Scenarios        \* what may happen besides; one of them in each behaviour

Ringing      == 180
SessionProgress == 183
Ok           == 200
Moved        == 302
Unauthorized == 401
RequestTimeout == 408
Terminated   == 487
NotAcceptable == 488
Decline      == 603
Statuses == {Ringing, SessionProgress, Ok, Moved, Unauthorized, RequestTimeout, Terminated,
             NotAcceptable, Decline}

Agents == {Caller, Callee}
Peer(a) == IF a = Caller THEN Callee ELSE Caller
Seqs == 1..MaxSeq

(* What an application or the stack may do in a scenario: "challenge" (a   *)
(* new INVITE is answered with a 401), "forward", "reinvite", "refer",     *)
(* "timeout", "prack" (m_b100rel: INVITEs require reliable 183s);          *)
(* "threads" if the threads of an agent run at the same time.              *)
Features == {"challenge", "forward", "reinvite", "refer", "timeout", "prack", "threads"}

ASSUME AgentAssumption ==
  /\ Caller # Callee
  /\ MaxSeq \in Nat \ {0} /\ Threads # {}
  /\ Scenarios \subseteq [features : SUBSET Features, seqs : Seqs]

VARIABLES
  scenario, \* the scenario of this behaviour: its features, its highest CSeq
  dialog,   \* m_clsDialogMap: the dialog of the call at each agent, or None
  todo,     \* what each thread of each agent has still to do
  ict,      \* client transaction of each INVITE an agent sent
  ist,      \* server transaction of each INVITE an agent received
  wire,     \* messages on their way
  told,     \* callbacks of each application: "call", "start", "end", "prack"
  stopped   \* history: applications whose StopCall returned true

vars == <<scenario, dialog, todo, ict, ist, wire, told, stopped>>

None == [none |-> TRUE]
Gone == [none |-> FALSE]    \* a transaction that was given up

\* CSipDialog: CSeq of m_pclsInvite (0 when NULL), m_iSeq, m_iNextSeq, the INVITE that
\* m_strViaBranch is from, whether there is an m_iRSeq and the time stamps are set.
Dialog == [invite : 0..MaxSeq, seq : 0..MaxSeq, next : 0..MaxSeq, branch : 0..MaxSeq,
           rel : BOOLEAN, start : BOOLEAN, end : BOOLEAN, cancel : BOOLEAN]

Sent(a) == {i \in Seqs : ict[a][i] \notin {None, Gone}}

NewDialog == [invite |-> 0, seq |-> 0, next |-> 0, branch |-> 0,
              rel |-> FALSE, start |-> FALSE, end |-> FALSE, cancel |-> FALSE]

Transaction == [status : Statuses \cup {0}, ack : BOOLEAN]
NewTransaction == [status |-> 0, ack |-> FALSE]

Message ==
  [kind : {"INVITE", "PRACK"}, to : Agents, seq : Seqs] \cup
  [kind : {"ACK"}, to : Agents, seq : 0..MaxSeq, branch : 0..MaxSeq] \cup
  [kind : {"CANCEL", "BYE"}, to : Agents] \cup
  [kind : {"response"}, to : Agents, seq : Seqs, status : Statuses]

Events == {"call", "start", "end", "prack"}
Step == [do : {"send"}, message : Message] \cup
        [do : {"tell"}, event : Events] \cup
        [do : {"insert", "answer"}, seq : Seqs] \cup
        [do : {"delete", "set end", "stop"}]

Send(m) == [do |-> "send", message |-> m]
Tell(e) == [do |-> "tell", event |-> e]
Delete  == [do |-> "delete"]

Response(a, i, s) == [kind |-> "response", to |-> Peer(a), seq |-> i, status |-> s]

Init ==
  /\ scenario \in Scenarios
  /\ dialog = [a \in Agents |-> None]
  /\ todo = [a \in Agents |-> [t \in Threads |-> <<>>]]
  /\ ict = [a \in Agents |-> [i \in Seqs |-> None]]
  /\ ist = [a \in Agents |-> [i \in Seqs |-> None]]
  /\ wire = {}
  /\ told = [a \in Agents |-> <<>>]
  /\ stopped = {}

May(feature) == feature \in scenario.features

Idle(a, t) == todo[a][t] = <<>>
Then(a, t, steps) == todo' = [todo EXCEPT ![a][t] = steps]
SetDialog(a, d) == dialog' = [dialog EXCEPT ![a] = d]

-----------------------------------------------------------------------------
(* CSipDialog: requests take the next CSeq, an ACK takes the last one.  A  *)
(* PRACK takes the next one but leaves m_iSeq to the ACK of its INVITE.    *)
NextSeq_PrackForgotten(d) == d.seq + 1
NextSeq(d) == IF d.next # 0 THEN d.next ELSE d.seq + 1
Numbered(d) == [d EXCEPT !.seq = NextSeq(d), !.next = 0]
NextInvite(d) == [Numbered(d) EXCEPT !.branch = NextSeq(d)]
Invite(a, d) == [kind |-> "INVITE", to |-> Peer(a), seq |-> d.seq]
CanInvite(d) == NextSeq(d) <= scenario.seqs

Ack(a, d, s) == [kind |-> "ACK", to |-> Peer(a), seq |-> d.seq,
                 branch |-> IF s \in 200..299 THEN 0 ELSE d.branch]

-----------------------------------------------------------------------------
(* What the application calls. *)

StartCall(t) ==
  /\ Idle(Caller, t)
  /\ dialog[Caller] = None /\ ict[Caller][1] = None
  /\ LET d == NextInvite(NewDialog)
     IN /\ SetDialog(Caller, d)
        /\ Then(Caller, t, <<Send(Invite(Caller, d))>>)
  /\ UNCHANGED <<ict, ist, wire, told, stopped>>

(* StopCall: BYE a connected call, reject an incoming one, cancel an       *)
(* outgoing one, or do nothing.                                            *)
StopConnected(a, t, rest) ==
  /\ dialog[a].start /\ ~dialog[a].end
  /\ SetDialog(a, None)
  /\ Then(a, t, <<Send([kind |-> "BYE", to |-> Peer(a)])>> \o rest)

StopIncoming(a, t, s) ==
  /\ ~dialog[a].start /\ dialog[a].invite # 0
  /\ SetDialog(a, None)
  /\ Then(a, t, <<Send(Response(a, dialog[a].invite, s))>>)

MayCancel(d) == ~d.start /\ d.invite = 0 /\ ~d.cancel /\ ~d.end

StopOutgoing(a, t) ==
  /\ MayCancel(dialog[a])
  /\ SetDialog(a, [dialog[a] EXCEPT !.cancel = TRUE])
  /\ Then(a, t, <<Send([kind |-> "CANCEL", to |-> Peer(a)])>>)

StopNothing(a) ==
  /\ IF dialog[a].start THEN dialog[a].end
     ELSE dialog[a].invite = 0 /\ ~MayCancel(dialog[a])
  /\ UNCHANGED <<dialog, todo>>

StopCall(a, t) ==
  /\ Idle(a, t)
  /\ dialog[a] # None
  /\ \/ StopConnected(a, t, <<>>)
     \/ StopIncoming(a, t, Decline)
     \/ StopOutgoing(a, t)
     \/ StopNothing(a)
  /\ stopped' = stopped \cup {a}
  /\ UNCHANGED <<ict, ist, wire, told>>

(* StopCall with a number to forward the call to; the caller's INVITE for  *)
(* that number comes to the same agent, as it is routed by the same proxy. *)
ForwardCall(a, t) ==
  /\ May("forward")
  /\ Idle(a, t)
  /\ dialog[a] # None /\ dialog[a].invite \in 1..scenario.seqs - 1
  /\ StopIncoming(a, t, Moved)
  /\ UNCHANGED <<ict, ist, wire, told, stopped>>

(* AcceptCall does not look at the time the call ended at.                 *)
AcceptCall_NotStarted(a, t) ==
  /\ Idle(a, t)
  /\ dialog[a] # None
  /\ ~dialog[a].start /\ dialog[a].invite # 0
  /\ Then(a, t, <<Send(Response(a, dialog[a].invite, Ok))>>)
  /\ UNCHANGED <<dialog, ict, ist, wire, told, stopped>>

AcceptCall(a, t) ==
  /\ Idle(a, t)
  /\ dialog[a] # None
  /\ ~dialog[a].start /\ dialog[a].invite # 0
  /\ SetDialog(a, [dialog[a] EXCEPT !.start = TRUE, !.invite = 0])
  /\ Then(a, t, <<Send(Response(a, dialog[a].invite, Ok))>>)
  /\ UNCHANGED <<ict, ist, wire, told, stopped>>

(* HoldCall, ResumeCall and SendReInvite look neither whether the call is  *)
(* connected nor whether an INVITE is still unanswered; the application    *)
(* here does.  Bound: only the caller's application uses them.             *)
ReInvite(a, t) ==
  /\ May("reinvite") /\ a = Caller
  /\ Idle(a, t)
  /\ dialog[a] # None /\ dialog[a].start /\ CanInvite(dialog[a])
  /\ \A i \in Sent(a) : ict[a][i].ack
  /\ LET d == NextInvite(dialog[a])
     IN /\ SetDialog(a, d)
        /\ Then(a, t, <<Send(Invite(a, d))>>)
  /\ UNCHANGED <<ict, ist, wire, told, stopped>>

(* TransferCall, TransferCallBlind, SendNotify, SendDtmf on a connected    *)
(* call: of these requests only the CSeq they take matters here.           *)
SendRequest(a, t) ==
  /\ May("refer")
  /\ Idle(a, t)
  /\ dialog[a] # None /\ dialog[a].start /\ CanInvite(dialog[a])
  /\ SetDialog(a, Numbered(dialog[a]))
  /\ UNCHANGED <<todo, ict, ist, wire, told, stopped>>

(* RingCall: a 183, with an RSeq if the INVITE requires it.                *)
RingCall(a, t) ==
  /\ May("prack")
  /\ Idle(a, t)
  /\ dialog[a] # None /\ ~dialog[a].start /\ dialog[a].invite # 0
  /\ Then(a, t, <<Send(Response(a, dialog[a].invite, SessionProgress))>>)
  /\ UNCHANGED <<dialog, ict, ist, wire, told, stopped>>

(* SendPrack does not look which INVITE the RSeq is from.  Bound: at most  *)
(* one PRACK for an INVITE.                                                *)
SendPrack(a, t) ==
  /\ May("prack")
  /\ Idle(a, t)
  /\ dialog[a] # None /\ ~dialog[a].start /\ dialog[a].invite = 0 /\ dialog[a].rel
  /\ dialog[a].next = 0 /\ dialog[a].seq + 2 <= scenario.seqs
  /\ SetDialog(a, [dialog[a] EXCEPT !.next = dialog[a].seq + 2])
  /\ Then(a, t, <<Send([kind |-> "PRACK", to |-> Peer(a), seq |-> dialog[a].seq + 1])>>)
  /\ UNCHANGED <<ict, ist, wire, told, stopped>>

-----------------------------------------------------------------------------
(* SendSipMessage: the transaction list decides, then the message is sent. *)
SendNext(a, t, m) ==
  /\ ~Idle(a, t)
  /\ Head(todo[a][t]) = Send(m)
  /\ Then(a, t, Tail(todo[a][t]))
  /\ UNCHANGED <<dialog, told, stopped>>

SendInvite(a, t, m) ==
  /\ m.kind = "INVITE"
  /\ SendNext(a, t, m)
  /\ ict' = [ict EXCEPT ![a][m.seq] = NewTransaction]
  /\ wire' = wire \cup {m}
  /\ UNCHANGED ist

(* An ACK found without the key ends the INVITE that was challenged.      *)
Acked(transaction, other) ==
  IF other /\ transaction.status = Unauthorized THEN Gone
  ELSE [transaction EXCEPT !.ack = TRUE]

(* CSipICTList::Insert: an ACK goes to the INVITE it has the key of, or to *)
(* any without an ACK; without either it is not sent.                      *)
SendAck(a, t, m) ==
  /\ m.kind = "ACK"
  /\ SendNext(a, t, m)
  /\ LET own == {i \in Sent(a) : m.seq = i /\ m.branch = i}
         candidates == IF own # {} THEN own ELSE {i \in Sent(a) : ~ict[a][i].ack}
     IN \/ /\ candidates = {}
           /\ UNCHANGED <<ict, wire>>
        \/ /\ \E i \in candidates :
                ict' = [ict EXCEPT ![a][i] = Acked(@, own = {})]
           /\ wire' = wire \cup {m}
  /\ UNCHANGED ist

(* CSipISTList::Insert: a response replaces one with a lower status only.  *)
SendResponse(a, t, m) ==
  /\ m.kind = "response"
  /\ SendNext(a, t, m)
  /\ IF ist[a][m.seq] \notin {None, Gone} /\ m.status > ist[a][m.seq].status
     THEN /\ ist' = [ist EXCEPT ![a][m.seq].status = m.status]
          /\ wire' = wire \cup {m}
     ELSE UNCHANGED <<ist, wire>>
  /\ UNCHANGED ict

SendOther(a, t, m) ==
  /\ m.kind \in {"CANCEL", "BYE", "PRACK"}
  /\ SendNext(a, t, m)
  /\ wire' = wire \cup {m}
  /\ UNCHANGED <<ict, ist>>

-----------------------------------------------------------------------------
(* The other things a thread does outside the mutex, or under it once more *)
Doing(a, t, do) == ~Idle(a, t) /\ Head(todo[a][t]).do = do

DoTell(a, t) ==
  /\ Doing(a, t, "tell")
  /\ told' = [told EXCEPT ![a] = Append(@, Head(todo[a][t]).event)]
  /\ Then(a, t, Tail(todo[a][t]))
  /\ UNCHANGED <<dialog, ict, ist, wire, stopped>>

DoDelete(a, t) ==
  /\ Doing(a, t, "delete")
  /\ SetDialog(a, None)
  /\ Then(a, t, Tail(todo[a][t]))
  /\ UNCHANGED <<ict, ist, wire, told, stopped>>

(* RecvByeRequest: SetCallEnd. *)
DoSetCallEnd(a, t) ==
  /\ Doing(a, t, "set end")
  /\ IF dialog[a] = None
     THEN /\ UNCHANGED dialog
          /\ Then(a, t, <<>>)
     ELSE /\ SetDialog(a, [dialog[a] EXCEPT !.end = TRUE])
          /\ Then(a, t, <<Tell("end"), Delete>>)
  /\ UNCHANGED <<ict, ist, wire, told, stopped>>

(* RecvInviteRequest, after it sent the 180. *)
DoInsert(a, t) ==
  /\ Doing(a, t, "insert")
  /\ IF dialog[a] = None
     THEN /\ SetDialog(a, [NewDialog EXCEPT !.invite = Head(todo[a][t]).seq])
          /\ Then(a, t, <<Tell("call")>>)
     ELSE /\ UNCHANGED dialog
          /\ Then(a, t, <<>>)
  /\ UNCHANGED <<ict, ist, wire, told, stopped>>

(* RecvInviteRequest, after it told the application of a re-INVITE. *)
DoAnswer(a, t) ==
  /\ Doing(a, t, "answer")
  /\ Then(a, t, IF dialog[a] = None THEN <<>>
                ELSE <<Send(Response(a, Head(todo[a][t]).seq, Ok))>>)
  /\ UNCHANGED <<dialog, ict, ist, wire, told, stopped>>

(* SetInviteResponse, when a call that was cancelled was accepted. *)
DoStop(a, t) ==
  /\ Doing(a, t, "stop")
  /\ \/ dialog[a] = None /\ Then(a, t, <<>>) /\ UNCHANGED dialog
     \/ dialog[a] # None /\ StopConnected(a, t, <<>>)
     \/ dialog[a] # None /\ dialog[a].end /\ Then(a, t, <<>>) /\ UNCHANGED dialog
  /\ UNCHANGED <<ict, ist, wire, told, stopped>>

-----------------------------------------------------------------------------
(* RecvInviteRequest: a re-INVITE if there is a dialog, or else a call,    *)
(* which the application may still challenge.  Without a media description *)
(* the INVITE is refused.                                                  *)
RecvInvite(a, t, m) ==
  /\ m.kind = "INVITE" /\ m.to = a
  /\ Idle(a, t)
  /\ wire' = wire \ {m}
  /\ ist' = [ist EXCEPT ![a][m.seq] = NewTransaction]
  /\ \/ Then(a, t, <<Send(Response(a, m.seq, NotAcceptable))>>)
     \/ /\ dialog[a] # None
        /\ Then(a, t, <<[do |-> "answer", seq |-> m.seq]>>)
     \/ /\ dialog[a] = None
        /\ Then(a, t, <<Send(Response(a, m.seq, Ringing)),
                        [do |-> "insert", seq |-> m.seq]>>)
     \/ /\ dialog[a] = None
        /\ May("challenge") /\ m.seq < scenario.seqs
        /\ Then(a, t, <<Send(Response(a, m.seq, Unauthorized))>>)
  /\ UNCHANGED <<dialog, ict, told, stopped>>

(* CSipISTList::Insert for an ACK: by key or by CSeq, so always by CSeq.   *)
RecvAck(a, m) ==
  /\ m.kind = "ACK" /\ m.to = a
  /\ wire' = wire \ {m}
  /\ IF m.seq \in Seqs /\ ist[a][m.seq] \notin {None, Gone}
     THEN ist' = [ist EXCEPT ![a][m.seq].ack = TRUE]
     ELSE UNCHANGED ist
  /\ UNCHANGED <<dialog, todo, ict, told, stopped>>

(* RecvCancelRequest: an unconnected dialog is ended, but stays in the map *)
(* until the 487 was sent and the application was told.                    *)
RecvCancel(a, t, m) ==
  /\ m.kind = "CANCEL" /\ m.to = a
  /\ Idle(a, t)
  /\ wire' = wire \ {m}
  /\ IF dialog[a] # None /\ ~dialog[a].start
     THEN /\ SetDialog(a, [dialog[a] EXCEPT !.end = TRUE])
          /\ Then(a, t, <<Send(Response(a, dialog[a].invite, Terminated)),
                          Tell("end"), Delete>>)
     ELSE UNCHANGED <<dialog, todo>>
  /\ UNCHANGED <<ict, ist, told, stopped>>

RecvBye(a, t, m) ==
  /\ m.kind = "BYE" /\ m.to = a
  /\ Idle(a, t)
  /\ wire' = wire \ {m}
  /\ Then(a, t, <<[do |-> "set end"]>>)
  /\ UNCHANGED <<dialog, ict, ist, told, stopped>>

(* RecvPrackRequest tells the application even if there is no dialog.      *)
RecvPrack(a, t, m) ==
  /\ m.kind = "PRACK" /\ m.to = a
  /\ Idle(a, t)
  /\ wire' = wire \ {m}
  /\ Then(a, t, <<Tell("prack")>>)
  /\ UNCHANGED <<dialog, ict, ist, told, stopped>>

-----------------------------------------------------------------------------
(* RecvInviteResponse and SetInviteResponse.  What they do with a response *)
(* s is one of these; the ACK, if there is one, is sent first.             *)
Connected_NotStopped(a, t, d, s) ==
  /\ s \in 200..299
  /\ SetDialog(a, [d EXCEPT !.start = TRUE])
  /\ Then(a, t, <<Send(Ack(a, d, s))>> \o
       (IF d.start \/ d.cancel THEN <<>> ELSE <<Tell("start")>>))

Connected(a, t, d, s) ==
  /\ s \in 200..299
  /\ SetDialog(a, [d EXCEPT !.start = TRUE])
  /\ Then(a, t, <<Send(Ack(a, d, s))>> \o
       (IF d.cancel THEN <<[do |-> "stop"]>>
        ELSE IF d.start THEN <<>> ELSE <<Tell("start")>>))

Retried_AckLast(a, t, d, ended, s) ==
  /\ ~d.cancel
  /\ CanInvite(d)
  /\ LET e == NextInvite([d EXCEPT !.end = @ \/ ended])
     IN /\ SetDialog(a, e)
        /\ Then(a, t, <<Send(Ack(a, e, s)), Send(Invite(a, e))>>)

Retried(a, t, d, ended, s) ==
  /\ ~d.cancel
  /\ CanInvite(d)
  /\ LET e == NextInvite([d EXCEPT !.end = @ \/ ended])
     IN /\ SetDialog(a, e)
        /\ Then(a, t, <<Send(Ack(a, d, s)), Send(Invite(a, e))>>)

Challenged(a, t, d, s) == s = Unauthorized /\ Retried(a, t, d, FALSE, s)

Redirected(a, t, d, s) == s = Moved /\ ~d.start /\ Retried(a, t, d, TRUE, s)

(* The dialog of a refused re-INVITE lives on.                             *)
Refused(a, t, d, s) ==
  /\ s >= 300
  /\ s \in {Unauthorized, Moved} => d.cancel \/ (s = Moved /\ d.start)
  /\ IF s # Unauthorized /\ d.start
     THEN /\ UNCHANGED dialog
          /\ Then(a, t, <<Send(Ack(a, d, s))>>)
     ELSE /\ SetDialog(a, [d EXCEPT !.end = @ \/ s # Unauthorized])
          /\ Then(a, t, <<Send(Ack(a, d, s)), Tell("end"), Delete>>)

(* A provisional response may have an RSeq, which is kept.                 *)
Provisional(a, d, s) ==
  /\ s < 200
  /\ UNCHANGED todo
  /\ SetDialog(a, [d EXCEPT !.rel = @ \/ s = SessionProgress])

SetInviteResponse_Unfound(a, t, s) ==
  LET d == dialog[a]
  IN \/ d = None /\ s >= 200 /\ Then(a, t, <<Tell("start")>>) /\ UNCHANGED dialog
     \/ d = None /\ UNCHANGED <<dialog, todo>>
     \/ d # None /\ Provisional(a, d, s)
     \/ d # None /\ Connected(a, t, d, s)
     \/ d # None /\ Challenged(a, t, d, s)
     \/ d # None /\ Redirected(a, t, d, s)
     \/ d # None /\ Refused(a, t, d, s)

SetInviteResponse(a, t, s) ==
  LET d == dialog[a]
  IN \/ d = None /\ UNCHANGED <<dialog, todo>>
     \/ d # None /\ Provisional(a, d, s)
     \/ d # None /\ Connected(a, t, d, s)
     \/ d # None /\ Challenged(a, t, d, s)
     \/ d # None /\ Redirected(a, t, d, s)
     \/ d # None /\ Refused(a, t, d, s)

(* CSipICTList::Insert passes a response up if its status is a new one.    *)
RecvResponse(a, t, m) ==
  /\ m.kind = "response" /\ m.to = a
  /\ Idle(a, t)
  /\ wire' = {n \in wire : ~(/\ n.kind = "response" /\ n.to = a /\ n.seq = m.seq
                             /\ n.status <= m.status)}
  /\ IF m.seq \in Sent(a) /\ ict[a][m.seq].status # m.status
     THEN /\ ict' = [ict EXCEPT ![a][m.seq].status = m.status]
          /\ SetInviteResponse(a, t, m.status)
     ELSE UNCHANGED <<dialog, todo, ict>>
  /\ UNCHANGED <<ist, told, stopped>>

(* CSipICTList::Execute answers an INVITE that stayed without an answer,   *)
(* or rang too long; CSipISTList::Execute gives up a 200 without an ACK.   *)
TimeOut(a, t, i) ==
  /\ May("timeout")
  /\ Idle(a, t)
  /\ i \in Sent(a) /\ ~ict[a][i].ack /\ ict[a][i].status < 200
  /\ ict' = [ict EXCEPT ![a][i] = Gone]
  /\ SetInviteResponse(a, t, RequestTimeout)
  /\ UNCHANGED <<ist, wire, told, stopped>>

SendTimeout(a, t, i) ==
  /\ May("timeout")
  /\ Idle(a, t)
  /\ ist[a][i] = [status |-> Ok, ack |-> FALSE]
  /\ ist' = [ist EXCEPT ![a][i] = Gone]
  /\ Then(a, t, <<Tell("end"), Delete>>)
  /\ UNCHANGED <<dialog, ict, wire, told, stopped>>

-----------------------------------------------------------------------------
Application(a, t) ==
  \/ a = Caller /\ StartCall(t)
  \/ StopCall(a, t)
  \/ ForwardCall(a, t)
  \/ AcceptCall(a, t)
  \/ ReInvite(a, t)
  \/ SendRequest(a, t)
  \/ RingCall(a, t)
  \/ SendPrack(a, t)

Proceed(a, t) ==
  \/ ~Idle(a, t) /\ Head(todo[a][t]).do = "send"
     /\ LET m == Head(todo[a][t]).message
        IN \/ SendInvite(a, t, m)
           \/ SendAck(a, t, m)
           \/ SendResponse(a, t, m)
           \/ SendOther(a, t, m)
  \/ DoTell(a, t)
  \/ DoDelete(a, t)
  \/ DoSetCallEnd(a, t)
  \/ DoInsert(a, t)
  \/ DoAnswer(a, t)
  \/ DoStop(a, t)

Receive(a, t) ==
  \E m \in wire :
    \/ RecvInvite(a, t, m)
    \/ RecvAck(a, m)
    \/ RecvCancel(a, t, m)
    \/ RecvBye(a, t, m)
    \/ RecvPrack(a, t, m)
    \/ RecvResponse(a, t, m)

Expire(a, t) == \E i \in Seqs : TimeOut(a, t, i) \/ SendTimeout(a, t, i)

Workers == IF May("threads") THEN Threads ELSE {CHOOSE t \in Threads : TRUE}

Progress == \E a \in Agents, t \in Workers :
  (Proceed(a, t) \/ Receive(a, t) \/ Expire(a, t)) /\ UNCHANGED scenario

Next ==
  \/ \E a \in Agents, t \in Workers : Application(a, t) /\ UNCHANGED scenario
  \/ Progress

(* As long as a thread has something to do, a message is under way or a    *)
(* timer runs, some of it is done; the applications need not do anything.  *)
(* Liveness is claimed, and fairness assumed, where there are timers.      *)
Spec == Init /\ [][Next]_vars
FairSpec == Spec /\ WF_vars(May("timeout") /\ Progress)

-----------------------------------------------------------------------------
(* Every variable has its type (data of CSipDialog, CSipINVITETransaction  *)
(* and the messages).                                                      *)
TypeOK ==
  /\ scenario \in Scenarios
  /\ dialog \in [Agents -> Dialog \cup {None}]
  /\ todo \in [Agents -> [Threads -> Seq(Step)]]
  /\ ict \in [Agents -> [Seqs -> Transaction \cup {None, Gone}]]
  /\ ist \in [Agents -> [Seqs -> Transaction \cup {None, Gone}]]
  /\ wire \subseteq Message
  /\ told \in [Agents -> Seq(Events)]
  /\ stopped \subseteq Agents

Quiet == wire = {} /\ \A a \in Agents, t \in Threads : Idle(a, t)

(* When nothing is under way any more, both users have the call or neither *)
(* has, and both think that it is connected or neither does                *)
(* (StopCall, AcceptCall, RecvByeRequest, RecvCancelRequest and            *)
(* SetInviteResponse at both ends).  Not so after a timeout, of which the  *)
(* other user is not told, nor if a re-INVITE crosses a BYE.               *)
Agreement ==
  Quiet /\ ~May("timeout") /\ ~May("reinvite") =>
    \/ \A a \in Agents : dialog[a] = None
    \/ /\ \A a \in Agents : dialog[a] # None
       /\ dialog[Caller].start = dialog[Callee].start

(* No request takes the CSeq a PRACK was sent with, although a PRACK does  *)
(* not count in m_iSeq (CSipDialog::CreateMessage).                        *)
PrackHasItsNumber ==
  \A m \in wire : m.kind = "PRACK" =>
    LET a == Peer(m.to)
    IN ict[a][m.seq] = None /\ (dialog[a] # None => dialog[a].seq # m.seq)

(* Every variable has its type, the two users agree, and every request has *)
(* a number of its own.                                                    *)
Consistent == TypeOK /\ Agreement /\ PrackHasItsNumber

TimedOut(a) == \E i \in Seqs : Gone \in {ict[a][i], ist[a][i]}

\* An agent has one thread, and one INVITE at a time.
OneInvite == ~May("threads") /\ ~May("reinvite")

(* Once EventCallEnd told the application of the end of the call, no      *)
(* other callback for the call comes (SetInviteResponse, RecvByeRequest    *)
(* and RecvCancelRequest), but for EventPrack, which is called whether     *)
(* there is a call or not, and the one of a transaction that timed out.    *)
(* Not so if a re-INVITE is overtaken by a BYE: it is a new call then.     *)
NothingAfterEnd ==
  \A a \in Agents : OneInvite /\ ~TimedOut(a) =>
    \A k, l \in DOMAIN told[a] : k < l /\ told[a][k] = "end" => told[a][l] = "prack"

(* An ACK that is sent bears the CSeq of an INVITE its sender has a final  *)
(* response to, and the branch of that INVITE unless it is for a 2xx       *)
(* (CSipDialog::CreateAck, called before CreateInvite makes the next one). *)
AckNamesItsInvite ==
  \A m \in wire : OneInvite /\ m.kind = "ACK" =>
    /\ m.seq \in Sent(Peer(m.to))
    /\ ict[Peer(m.to)][m.seq].status >= 200
    /\ m.branch \in {0, m.seq}

\* No other request takes the CSeq before the ACK is made that is to bear it.
NumberKept == ~May("reinvite") /\ (May("threads") => ~May("refer"))

(* When nothing is under way and both users have the call, no answer to an *)
(* INVITE waits for its ACK: the stack would give the answer up, and       *)
(* SendTimeout end a call that is alive (CreateAck, CSipISTList::Insert).  *)
(* Not so where a mid-call request of another thread, or a re-INVITE,      *)
(* takes the CSeq of the ACK.                                              *)
AnswersAcked ==
  Quiet /\ (\A a \in Agents : dialog[a] # None) /\ NumberKept =>
    \A a \in Agents, i \in Seqs :
      ist[a][i] \notin {None, Gone} /\ ist[a][i].status >= 200 => ist[a][i].ack

(* Every ACK is for an INVITE that was answered, and every answer gets one. *)
AcksMatch == AckNamesItsInvite /\ AnswersAcked

(* An INVITE is not given another final response once it has one: neither  *)
(* a CANCEL nor the application's AcceptCall or StopCall change the answer *)
(* that was sent (CSipDialog::m_pclsInvite, m_sttStartTime, m_sttEndTime). *)
AnsweredOnce ==
  [][\A a \in Agents, i \in Seqs :
       OneInvite /\ ist[a][i] \notin {None, Gone} /\ ist[a][i].status >= 200 =>
         ist'[a][i] = Gone \/ ist'[a][i].status = ist[a][i].status]_vars

(* A call the application stopped ends, whatever the other user does: it   *)
(* need not answer, as the ring timer of the INVITE runs out (if there is  *)
(* one: without the feature "timeout" a callee may ring for ever).         *)
StoppedCallEnds ==
  \A a \in Agents : a \in stopped /\ May("timeout") ~> dialog[a] = None
=============================================================================
