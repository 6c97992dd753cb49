----------------------------- MODULE SipISTList -----------------------------
(***************************************************************************)
(* The INVITE server transactions of the SIP stack                         *)
(* (SipStack/SipISTList.cpp), the threads that use them and the callers.   *)
(*                                                                         *)
(*  - Receive threads take INVITEs and ACKs from the network, insert them  *)
(*    under the mutex of the list and call the TU back without it.         *)
(*  - The TU answers from any thread: the response is inserted under the   *)
(*    mutex and sent after the mutex is released.                          *)
(*  - The stack thread executes the list: it retransmits final responses   *)
(*    until their ACK arrives, and reports the 200s nobody acknowledged.   *)
(*                                                                         *)
(* An INVITE is identified by its key (branch, CSeq, method); it has a     *)
(* Call-ID and a CSeq number.  The network may deliver it several times.   *)
(* Time stamps are ages in ticks, as in SipICTList.  The 100 the list      *)
(* answers an INVITE with when m_bSendTrying is set leaves m_iStatusCode   *)
(* at 0, so that any response of the TU replaces it: it is left out.       *)
(*                                                                         *)
(* An operator named F_Fault is F with a fault seeded in it: no action     *)
(* uses it, and the properties are shown to notice it.                     *)
(***************************************************************************)
EXTENDS Integers, Sequences

CONSTANTS
  Keys,         \* transaction keys of the INVITEs callers may send
  Calls,        \* Call-IDs
  RequestOf,    \* <<Call-ID, CSeq>> of each INVITE
  Threads,      \* receive threads and threads of the TU
  Provisional,  \* 1xx status codes the TU answers with
  Final,        \* final status codes the TU answers with
  ReSendTime,   \* m_arrICTReSendTime, in ticks
  DeleteTime,   \* the 5000 ms a stopped transaction is kept, in ticks
  MaxAge,       \* ages saturate here
  MaxCopies     \* bound: how often the network delivers each INVITE

MaxReSend == Len(ReSendTime)      \* MAX_ICT_RESEND_COUNT
Ok           == 200
Unauthorized == 401
NoTime == -1

ASSUME StatusAssumption == Provisional \subseteq 100..199 /\ Final \subseteq 200..699
ASSUME TimeAssumption ==
  /\ ReSendTime \in Seq(Nat) /\ Len(ReSendTime) > 0
  /\ DeleteTime \in Nat /\ MaxAge \in Nat /\ MaxCopies \in [Keys -> Nat]
  /\ \A i \in 1..Len(ReSendTime) : ReSendTime[i] <= MaxAge
  /\ DeleteTime <= MaxAge
ASSUME RequestAssumption == RequestOf \in [Keys -> Calls \X Nat]

VARIABLES
  trans,    \* m_clsMap: the transaction of each key, or None
  hand,     \* what each thread is in the middle of, or None
  timeouts, \* keys whose SendTimeout the stack thread has still to call
  copies,   \* how often each INVITE may still be delivered
  sent,     \* final statuses sent to the caller of each INVITE
  asked,    \* INVITEs the TU knows of
  answer,   \* history: the last final status accepted for a transaction, or 0
  acked,    \* history: transactions whose ACK was received
  failed,   \* history: transactions whose timeout was reported to the TU
  running   \* FALSE once the stack was stopped

vars == <<trans, hand, timeouts, copies, sent, asked, answer, acked, failed, running>>

None == [none |-> TRUE]
Statuses == Provisional \cup Final
Ages == NoTime .. MaxAge

\* CSipInviteTransaction: m_iStatusCode, the INVITE m_pclsAck belongs to (as a
\* set, empty when NULL), m_iReSendCount, m_sttStartTime, m_sttStopTime.
Transaction == [status : Statuses \cup {0}, ack : SUBSET Keys, resend : 0 .. MaxReSend,
                start : Ages, stop : Ages]

NewTransaction ==
  [status |-> 0, ack |-> {}, resend |-> 0, start |-> 0, stop |-> NoTime]

Task == [step : {"report"}, key : Keys] \cup
        [step : {"send"}, key : Keys, status : Statuses]

Live == {k \in Keys : trans[k] # None}

Init ==
  /\ trans = [k \in Keys |-> None]
  /\ hand = [t \in Threads |-> None]
  /\ timeouts = {}
  /\ copies = MaxCopies
  /\ sent = [k \in Keys |-> {}]
  /\ asked = {}
  /\ answer = [k \in Keys |-> 0]
  /\ acked = {}
  /\ failed = {}
  /\ running = TRUE

-----------------------------------------------------------------------------
Sent(k, s) == [sent EXCEPT ![k] = @ \cup ({s} \cap Final)]

(* A copy of an INVITE arrives.  If its transaction exists, the last       *)
(* response is sent again and the TU does not hear of it.                  *)
InsertInvite(t, k) ==
  /\ running
  /\ hand[t] = None
  /\ copies[k] > 0
  /\ copies' = [copies EXCEPT ![k] = @ - 1]
  /\ IF k \in Live
     THEN /\ sent' = Sent(k, trans[k].status)
          /\ UNCHANGED <<trans, hand, answer, acked, failed>>
     ELSE /\ trans' = [trans EXCEPT ![k] = NewTransaction]
          /\ hand' = [hand EXCEPT ![t] = [step |-> "report", key |-> k]]
          /\ answer' = [answer EXCEPT ![k] = 0]
          /\ acked' = acked \ {k}
          /\ failed' = failed \ {k}
          /\ UNCHANGED sent
  /\ UNCHANGED <<timeouts, asked, running>>

(* The transactions an ACK finds by IsEqualCallIdSeq when its own key is   *)
(* not in the map; those that have an ACK already are passed over.         *)
AckCandidates_AnySeq(k) ==
  {j \in Live : RequestOf[j][1] = RequestOf[k][1] /\ trans[j].ack = {}}

AckCandidates(k) == {j \in Live : RequestOf[j] = RequestOf[k] /\ trans[j].ack = {}}

(* The ACK of a 401 deletes the transaction at once.                       *)
AttachAck(j, k) ==
  [trans EXCEPT ![j] = IF @.status = Unauthorized THEN None
                       ELSE [@ EXCEPT !.ack = {k}, !.stop = 0]]

(* The caller acknowledges final response s to INVITE k: with the branch   *)
(* of the INVITE, unless it is a 2xx.                                      *)
InsertAck(t, k, s) ==
  /\ running
  /\ hand[t] = None
  /\ s \in sent[k]
  /\ LET keyFound == k \in Live /\ s \notin 200..299
     IN \/ /\ keyFound
           /\ trans' = IF trans[k].status = Unauthorized \/ trans[k].ack = {}
                       THEN AttachAck(k, k) ELSE trans
        \/ /\ ~keyFound
           /\ \E j \in AckCandidates(k) : trans' = AttachAck(j, k)
        \/ /\ ~keyFound
           /\ AckCandidates(k) = {}
           /\ UNCHANGED trans
  /\ acked' = acked \cup {k}
  /\ UNCHANGED <<hand, timeouts, copies, sent, asked, answer, failed, running>>

(* RecvRequest: the TU learns of an INVITE.                                *)
Report(t) ==
  /\ hand[t] # None /\ hand[t].step = "report"
  /\ asked' = asked \cup {hand[t].key}
  /\ hand' = [hand EXCEPT ![t] = None]
  /\ UNCHANGED <<trans, timeouts, copies, sent, answer, acked, failed, running>>

-----------------------------------------------------------------------------
(* The TU answers INVITE k with status s.  A response replaces one with a  *)
(* lower status, or else it is thrown away.                                *)
Store(x, s) == [x EXCEPT !.status = s, !.start = IF s >= 200 THEN 0 ELSE @]

InsertResponse(t, k, s) ==
  /\ running
  /\ hand[t] = None
  /\ k \in asked
  /\ k \in Live /\ s > trans[k].status
  /\ trans' = [trans EXCEPT ![k] = Store(@, s)]
  /\ hand' = [hand EXCEPT ![t] = [step |-> "send", key |-> k, status |-> s]]
  /\ answer' = [answer EXCEPT ![k] = IF s >= 200 THEN s ELSE @]
  /\ UNCHANGED <<timeouts, copies, sent, asked, acked, failed, running>>

(* CSipStack::Send, after the mutex was released.                          *)
Send(t) ==
  /\ hand[t] # None /\ hand[t].step = "send"
  /\ sent' = Sent(hand[t].key, hand[t].status)
  /\ hand' = [hand EXCEPT ![t] = None]
  /\ UNCHANGED <<trans, timeouts, copies, asked, answer, acked, failed, running>>

-----------------------------------------------------------------------------
(* CSipISTList::Execute: one pass of the stack thread under the mutex.     *)
Stopped(x) == x.stop # NoTime

Expired_Unacked(x) == Stopped(x) /\ x.ack # {} /\ x.stop >= DeleteTime

Expired(x) == Stopped(x) /\ x.stop >= DeleteTime

Due(x) ==
  /\ ~Stopped(x)
  /\ x.status >= 200 /\ x.ack = {}
  /\ x.start >= ReSendTime[x.resend + 1]

GivenUp(x) == Due(x) /\ x.resend + 1 = MaxReSend

ReSend(x) ==
  [x EXCEPT !.resend = @ + 1, !.stop = IF GivenUp(x) THEN 0 ELSE @]

(* A response may be sent again before the thread that inserted it sends   *)
(* it for the first time.                                                  *)
Execute ==
  /\ running
  /\ timeouts = {}
  /\ timeouts' = {k \in Live : GivenUp(trans[k]) /\ trans[k].status = Ok}
  /\ trans' = [k \in Keys |->
       IF k \notin Live \/ Expired(trans[k]) THEN None
       ELSE IF Due(trans[k]) THEN ReSend(trans[k])
       ELSE trans[k]]
  /\ sent' = [k \in Keys |->
       IF k \in Live /\ Due(trans[k]) /\ ~GivenUp(trans[k])
       THEN sent[k] \cup {trans[k].status} ELSE sent[k]]
  /\ UNCHANGED <<hand, copies, asked, answer, acked, failed, running>>

(* After the pass, without the mutex: one SendTimeout per unanswered 200.  *)
ReportTimeout(k) ==
  /\ k \in timeouts
  /\ timeouts' = timeouts \ {k}
  /\ failed' = failed \cup {k}
  /\ UNCHANGED <<trans, hand, copies, sent, asked, answer, acked, running>>

Older(a) == IF a = NoTime \/ a = MaxAge THEN a ELSE a + 1

Tick ==
  /\ running
  /\ trans' = [k \in Keys |->
       IF k \notin Live THEN None
       ELSE [trans[k] EXCEPT !.start = Older(@), !.stop = Older(@)]]
  /\ UNCHANGED <<hand, timeouts, copies, sent, asked, answer, acked, failed, running>>

(* CSipStack::Stop, once every thread has ended: DeleteAll. *)
Stop ==
  /\ running
  /\ timeouts = {} /\ \A t \in Threads : hand[t] = None
  /\ running' = FALSE
  /\ trans' = [k \in Keys |-> None]
  /\ UNCHANGED <<hand, timeouts, copies, sent, asked, answer, acked, failed>>

Next ==
  \/ \E t \in Threads, k \in Keys : InsertInvite(t, k)
  \/ \E t \in Threads, k \in Keys, s \in Final : InsertAck(t, k, s)
  \/ \E t \in Threads : Report(t)
  \/ \E t \in Threads, k \in Keys, s \in Statuses : InsertResponse(t, k, s)
  \/ \E t \in Threads : Send(t)
  \/ Execute
  \/ \E k \in Keys : ReportTimeout(k)
  \/ Tick
  \/ Stop

(* Time passes, the stack thread runs and no thread is blocked for ever.   *)
(* Nothing makes an ACK arrive or the TU answer.                           *)
Fairness ==
  /\ WF_vars(Tick) /\ WF_vars(Execute)
  /\ \A k \in Keys : WF_vars(ReportTimeout(k))
  /\ \A t \in Threads : WF_vars(Report(t)) /\ WF_vars(Send(t))

Spec == Init /\ [][Next]_vars
FairSpec == Spec /\ Fairness
-----------------------------------------------------------------------------
(* Types.  A transaction that is still retransmitted has an m_iReSendCount *)
(* that is an index of m_arrICTReSendTime, although no response of the TU, *)
(* however late, resets the count.                                         *)
TypeOK ==
  /\ trans \in [Keys -> Transaction \cup {None}]
  /\ \A k \in Live : trans[k].resend = MaxReSend => Stopped(trans[k])
  /\ hand \in [Threads -> Task \cup {None}]
  /\ timeouts \subseteq Keys /\ asked \subseteq Keys
  /\ acked \subseteq Keys /\ failed \subseteq Keys
  /\ copies \in [Keys -> Nat]
  /\ sent \in [Keys -> SUBSET Final]
  /\ answer \in [Keys -> Final \cup {0}]
  /\ running \in BOOLEAN

(* What became of the last final response the TU gave: its transaction is  *)
(* in the list, its ACK arrived, or its timeout is on its way to the TU.   *)
Accounted(k) ==
  k \in Live \/ k \in acked \/ k \in timeouts \/ k \in failed

(* The TU, which put a call through with a 200, is never left without both *)
(* the ACK and the timeout: no ACK of another INVITE of the call ends the  *)
(* retransmission of its 200.                                              *)
CallAccounted ==
  \A k \in Keys : running /\ answer[k] = Ok => Accounted(k)

(* Every variable has its type, the retransmission count that of an index, *)
(* and no 200 is lost sight of.                                            *)
Consistent == TypeOK /\ CallAccounted

(* A transaction the TU gave a final answer to leaves the list.            *)
AnsweredTransactionsEnd ==
  \A k \in Keys : k \in Live /\ answer[k] # 0 ~> k \notin Live
=============================================================================
