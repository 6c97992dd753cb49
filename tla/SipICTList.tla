----------------------------- MODULE SipICTList -----------------------------
(***************************************************************************)
(* The INVITE client transactions of the SIP stack                         *)
(* (SipStack/SipICTList.cpp), the threads that use them and the server at  *)
(* the other end.                                                          *)
(*                                                                         *)
(*  - An application thread inserts an INVITE.                             *)
(*  - Receive threads take responses from the network, insert them in the  *)
(*    list under its mutex and call the transaction user (TU) back after   *)
(*    the mutex is released: between the two any other thread may run.     *)
(*  - The stack thread executes the list: retransmits, deletes, and        *)
(*    collects the timeouts, which it reports after releasing the mutex.   *)
(*  - The TU answers a final response with an ACK, which has the branch of *)
(*    the INVITE when the response is not a 2xx and a new one otherwise.   *)
(*                                                                         *)
(* A time stamp is represented by its age in ticks, which saturates at     *)
(* MaxAge, beyond every threshold; NoTime is a stamp that was never set    *)
(* (tv_sec = 0).  A key (branch, CSeq, method) is used by one INVITE only, *)
(* as branches are unique.  What is sent to the server is not kept, but    *)
(* for the ACKs: the server may answer any INVITE that was inserted.       *)
(*                                                                         *)
(* An operator named F_Fault is F with a fault seeded in it: no action     *)
(* uses it, and the properties are shown to notice it.                     *)
(***************************************************************************)
EXTENDS Integers, Sequences, SequencesExt

CONSTANTS
  Keys,         \* transaction keys of the INVITEs the application may send
  Calls,        \* Call-IDs
  CallOf,       \* the Call-ID of each INVITE
  Threads,      \* receive threads (UDP, TCP, TLS and connecting threads)
  Provisional,  \* 1xx status codes the server may send
  Final,        \* final status codes the server may send
  ReSendTime,   \* m_arrICTReSendTime, in ticks
  TimerD,       \* m_iTimerD, in ticks
  RingTimeout,  \* SIP_RING_TIMEOUT, in ticks
  MaxAge,       \* ages saturate here
  MaxResponses, \* bound: messages the server sends for each INVITE
  Reordering    \* whether the network reorders responses

MaxReSend == Len(ReSendTime)      \* MAX_ICT_RESEND_COUNT
Unauthorized   == 401
RequestTimeout == 408             \* made by Execute only, see StatusAssumption
ConnectError   == 660             \* made by a thread that could not connect
NoTime == -1

ASSUME CallAssumption == CallOf \in [Keys -> Calls]
ASSUME StatusAssumption ==
  /\ Provisional \subseteq 100..199
  /\ Final \subseteq 200..659 \ {RequestTimeout}
ASSUME TimeAssumption ==
  /\ ReSendTime \in Seq(Nat) /\ Len(ReSendTime) > 0
  /\ TimerD \in Nat /\ RingTimeout \in Nat /\ MaxAge \in Nat
  /\ \A i \in 1..Len(ReSendTime) : ReSendTime[i] <= MaxAge
  /\ TimerD <= MaxAge /\ RingTimeout <= MaxAge
  /\ MaxResponses \in [Keys -> Nat] /\ Reordering \in BOOLEAN

VARIABLES
  trans,    \* m_clsMap: the transaction of each key, or None
  hand,     \* the response each receive thread is working on, or None
  timeouts, \* keys whose 408 the stack thread has still to report
  used,     \* keys of the INVITEs sent so far
  net,      \* responses on their way, per key, oldest first
  server,   \* the last status the server sent for each INVITE, 0 at first
  quota,    \* responses the server may still send, per key
  told,     \* status codes reported to the TU, per key, oldest first
  toAck,    \* <<INVITE, final status>> the TU still has to acknowledge
  acked,    \* history: INVITEs an ACK was sent for
  gaveUp,   \* history: INVITEs Execute gave up without any response
  running   \* FALSE once the stack was stopped

vars == <<trans, hand, timeouts, used, net, server, quota, told, toAck, acked,
          gaveUp, running>>
peer == <<net, server, quota>>
user == <<used, told, toAck, acked, gaveUp>>

None == [none |-> TRUE]
Statuses == Provisional \cup Final \cup {RequestTimeout, ConnectError}
Ages == NoTime .. MaxAge

\* CSipInviteTransaction; the status is 0 as long as m_pclsResponse is NULL,
\* ack is the set with the INVITE m_pclsAck was made for, empty when NULL.
Transaction == [status : Statuses \cup {0}, ack : SUBSET Keys, resend : 0 .. MaxReSend - 1,
                start : Ages, stop : Ages, ring : Ages]

NewTransaction == [status |-> 0, ack |-> {}, resend |-> 0,
                   start |-> 0, stop |-> NoTime, ring |-> NoTime]

Task == [step : {"insert", "report"}, key : Keys, status : Statuses]

Live == {k \in Keys : trans[k] # None}

Init ==
  /\ trans = [k \in Keys |-> None]
  /\ hand = [t \in Threads |-> None]
  /\ timeouts = {}
  /\ used = {}
  /\ net = [k \in Keys |-> <<>>]
  /\ server = [k \in Keys |-> 0]
  /\ quota = MaxResponses
  /\ told = [k \in Keys |-> <<>>]
  /\ toAck = {}
  /\ acked = {}
  /\ gaveUp = {}
  /\ running = TRUE

-----------------------------------------------------------------------------
(* The application sends an INVITE. *)
InsertInvite(k) ==
  /\ running
  /\ k \notin used
  /\ used' = used \cup {k}
  /\ trans' = [trans EXCEPT ![k] = NewTransaction]
  /\ UNCHANGED <<hand, timeouts, peer, told, toAck, acked, gaveUp, running>>

(* The map entries an ACK finds by its Call-ID when its key is not in the  *)
(* map.  Which of them is first depends on the random branches.            *)
AckCandidates_AnyCall(k) == {j \in Live : trans[j].ack = {}}

AckCandidates(k) ==
  {j \in Live : CallOf[j] = CallOf[k] /\ trans[j].ack = {}}

AttachAck_StopUnset(j, k) == [trans EXCEPT ![j].ack = {k}]

AttachAck(j, k) == [trans EXCEPT ![j].ack = {k}, ![j].stop = 0]

(* The TU sends the ACK it owes for response s to INVITE k: only a 2xx is  *)
(* acknowledged with a branch of its own.                                  *)
InsertAck(k, s) ==
  /\ running
  /\ <<k, s>> \in toAck
  /\ toAck' = toAck \ {<<k, s>>}
  /\ LET keyFound == k \in Live /\ s \notin 200..299
     IN \/ /\ keyFound
           /\ trans' = AttachAck(k, k)
           /\ acked' = acked \cup {k}
        \/ /\ ~keyFound
           /\ \E j \in AckCandidates(k) :
                /\ trans' = IF trans[j].status = Unauthorized
                            THEN [trans EXCEPT ![j] = None]
                            ELSE AttachAck(j, k)
                /\ acked' = acked \cup {k}
        \/ /\ ~keyFound
           /\ AckCandidates(k) = {}
           /\ UNCHANGED <<trans, acked>>
  /\ UNCHANGED <<hand, timeouts, used, peer, told, gaveUp, running>>

-----------------------------------------------------------------------------
(* The server sends a provisional response, its one final response, or     *)
(* that final response again.                                              *)
Respond(k, s) ==
  /\ running
  /\ k \in used /\ quota[k] > 0
  /\ server[k] < 200 \/ server[k] = s
  /\ net' = [net EXCEPT ![k] = Append(@, s)]
  /\ server' = [server EXCEPT ![k] = s]
  /\ quota' = [quota EXCEPT ![k] = @ - 1]
  /\ UNCHANGED <<trans, hand, timeouts, user, running>>

(* A receive thread takes the i-th response on its way; without reordering *)
(* the responses before it are lost.                                       *)
Receive(t, k, i) ==
  /\ running
  /\ hand[t] = None
  /\ hand' = [hand EXCEPT ![t] = [step |-> "insert", key |-> k, status |-> net[k][i]]]
  /\ net' = [net EXCEPT ![k] = IF Reordering THEN RemoveAt(@, i)
                                             ELSE SubSeq(@, i + 1, Len(@))]
  /\ UNCHANGED <<trans, timeouts, server, quota, user, running>>

(* A thread that fails to connect for INVITE k makes up a response.  The   *)
(* server never hears of that INVITE.                                      *)
ConnectFailed(t, k) ==
  /\ running
  /\ hand[t] = None
  /\ k \in used /\ server[k] = 0
  /\ server' = [server EXCEPT ![k] = ConnectError]
  /\ quota' = [quota EXCEPT ![k] = 0]
  /\ hand' = [hand EXCEPT ![t] =
                [step |-> "insert", key |-> k, status |-> ConnectError]]
  /\ UNCHANGED <<trans, timeouts, net, user, running>>

(* CSipICTList::Insert for a response: a thread holds the mutex.           *)
Ring(x) == IF x.ring = NoTime THEN [x EXCEPT !.ring = 0] ELSE x

Store(x, s) ==
  Ring([x EXCEPT !.status = s,
                 !.stop = IF x.status = 0 /\ s = ConnectError THEN 0 ELSE @])

IsNew_Always(x, s) == TRUE

IsNew(x, s) == x.status # s

InsertResponse(t) ==
  /\ hand[t] # None /\ hand[t].step = "insert"
  /\ LET k == hand[t].key
         s == hand[t].status
         isNew == k \in Live /\ IsNew(trans[k], s)
     IN /\ trans' = IF isNew THEN [trans EXCEPT ![k] = Store(@, s)] ELSE trans
        /\ hand' = [hand EXCEPT ![t] = IF isNew THEN [@ EXCEPT !.step = "report"]
                                                ELSE None]
        /\ acked' = acked \cup (IF k \in Live THEN trans[k].ack ELSE {})
  /\ UNCHANGED <<timeouts, used, peer, told, toAck, gaveUp, running>>

(* RecvResponse: the TU learns of a response, and owes an ACK for a final  *)
(* one that came from the network or from the stack's timers.              *)
Tell(k, s) ==
  /\ told' = [told EXCEPT ![k] = Append(@, s)]
  /\ toAck' = IF s >= 200 /\ s # ConnectError THEN toAck \cup {<<k, s>>}
                                              ELSE toAck

Report(t) ==
  /\ hand[t] # None /\ hand[t].step = "report"
  /\ Tell(hand[t].key, hand[t].status)
  /\ hand' = [hand EXCEPT ![t] = None]
  /\ UNCHANGED <<trans, timeouts, used, peer, acked, gaveUp, running>>

-----------------------------------------------------------------------------
(* CSipICTList::Execute: one pass of the stack thread under the mutex.     *)
(* The pass either deletes a transaction (silently, or with a timeout to   *)
(* report), counts a retransmission or leaves it alone.                    *)
Stopped(x) == x.stop # NoTime
Expired(x) == Stopped(x) /\ x.stop >= TimerD

ReSendDue_AnyStatus(x) == ~Stopped(x) /\ x.start >= ReSendTime[x.resend + 1]

ReSendDue(x) ==
  ~Stopped(x) /\ x.status = 0 /\ x.start >= ReSendTime[x.resend + 1]

GivenUp(x) == ReSendDue(x) /\ x.resend + 1 = MaxReSend

RungOut_Ringing(x) ==
  ~Stopped(x) /\ x.status \in 1..199 /\ x.ring # NoTime /\ x.ring >= RingTimeout

RungOut(x) ==
  ~Stopped(x) /\ x.status # 0 /\ x.ring # NoTime /\ x.ring >= RingTimeout

Execute ==
  /\ running
  /\ timeouts = {}
  /\ timeouts' = {k \in Live : GivenUp(trans[k]) \/ RungOut(trans[k])}
  /\ trans' = [k \in Keys |->
       IF k \notin Live THEN None
       ELSE IF Expired(trans[k]) \/ k \in timeouts' THEN None
       ELSE IF ReSendDue(trans[k]) THEN [trans[k] EXCEPT !.resend = @ + 1]
       ELSE trans[k]]
  /\ gaveUp' = gaveUp \cup {k \in Live : GivenUp(trans[k])}
  /\ UNCHANGED <<hand, used, told, toAck, acked, peer, running>>

(* After the pass, without the mutex: one RecvResponse(408) per timeout.   *)
ReportTimeout(k) ==
  /\ k \in timeouts
  /\ timeouts' = timeouts \ {k}
  /\ Tell(k, RequestTimeout)
  /\ UNCHANGED <<trans, hand, used, peer, acked, gaveUp, running>>

Older(a) == IF a = NoTime \/ a = MaxAge THEN a ELSE a + 1

Tick ==
  /\ running
  /\ trans' = [k \in Keys |->
       IF k \notin Live THEN None
       ELSE [trans[k] EXCEPT !.start = Older(@), !.stop = Older(@), !.ring = Older(@)]]
  /\ UNCHANGED <<hand, timeouts, peer, user, running>>

(* CSipStack::Stop, once every thread has ended: DeleteAll. *)
Stop ==
  /\ running
  /\ timeouts = {} /\ \A t \in Threads : hand[t] = None
  /\ running' = FALSE
  /\ trans' = [k \in Keys |-> None]
  /\ UNCHANGED <<hand, timeouts, peer, user>>

Next ==
  \/ \E k \in Keys : InsertInvite(k)
  \/ \E k \in Keys, s \in Statuses : InsertAck(k, s)
  \/ \E k \in Keys, s \in Provisional \cup Final : Respond(k, s)
  \/ \E t \in Threads, k \in Keys : \E i \in 1..Len(net[k]) : Receive(t, k, i)
  \/ \E t \in Threads, k \in Keys : ConnectFailed(t, k)
  \/ \E t \in Threads : InsertResponse(t)
  \/ \E t \in Threads : Report(t)
  \/ Execute
  \/ \E k \in Keys : ReportTimeout(k)
  \/ Tick
  \/ Stop

(* The threads are never blocked for ever, and time passes.  Nothing makes *)
(* the application, the TU or the server act, or a response arrive.        *)
Fairness ==
  /\ WF_vars(Tick) /\ WF_vars(Execute)
  /\ \A k \in Keys : WF_vars(ReportTimeout(k))
  /\ \A t \in Threads : WF_vars(InsertResponse(t)) /\ WF_vars(Report(t))

Spec == Init /\ [][Next]_vars
FairSpec == Spec /\ Fairness
-----------------------------------------------------------------------------
(* Types.  That resend stays below MaxReSend is what keeps the index into  *)
(* m_arrICTReSendTime in range in every pass of Execute, however late.     *)
TypeOK ==
  /\ trans \in [Keys -> Transaction \cup {None}]
  /\ hand \in [Threads -> Task \cup {None}]
  /\ timeouts \subseteq Keys /\ used \subseteq Keys
  /\ acked \subseteq Keys /\ gaveUp \subseteq Keys
  /\ net \in [Keys -> Seq(Provisional \cup Final)]
  /\ server \in [Keys -> Provisional \cup Final \cup {0, ConnectError}]
  /\ quota \in [Keys -> Nat]
  /\ told \in [Keys -> Seq(Statuses)]
  /\ toAck \subseteq Keys \X Statuses
  /\ running \in BOOLEAN

Reporting(k) ==
  \E t \in Threads : hand[t] # None /\ hand[t].step = "report" /\ hand[t].key = k

(* Timer B and a response exclude each other.  Although the timeout is     *)
(* reported after the mutex was released, the TU is told of nothing but    *)
(* the timeout: no thread holds a response of that INVITE, none will.      *)
TimeoutExclusive ==
  \A k \in gaveUp : ~Reporting(k) /\ told[k] \in {<<>>, <<RequestTimeout>>}

(* Once the ACK of an INVITE was sent the TU is never told that the INVITE *)
(* timed out (the ring timer runs on after a 2xx until the ACK is stored). *)
AckedNeverTimesOut ==
  [][\A k \in acked : k \notin timeouts' \ timeouts]_vars

(* m_pclsAck holds the ACK of the transaction's own INVITE, so what is     *)
(* sent again for a repeated final response acknowledges that response.    *)
AckIsOwn == \A k \in Live : trans[k].ack \subseteq {k}

(* Every variable has its type, and an ACK that is kept for a transaction  *)
(* is that of its INVITE (CSipICTList::Insert).                            *)
Consistent == TypeOK /\ AckIsOwn

(* The list filters repeated responses: the TU learns of one final         *)
(* response at most, of nothing from the server after it, and of one       *)
(* timeout at most.                                                        *)
TUSeesServerOrder ==
  \A k \in Keys : \A i, j \in 1..Len(told[k]) :
    /\ i < j /\ told[k][i] >= 200 /\ told[k][i] # RequestTimeout
         => told[k][j] = RequestTimeout
    /\ i # j /\ told[k][i] = RequestTimeout => told[k][j] # RequestTimeout

Answered(k) == \E i \in 1..Len(told[k]) : told[k][i] >= 200

(* Every INVITE ends for the TU: with a final response, a connect error or *)
(* a timeout, unless the stack is stopped.                                 *)
EveryInviteAnswered == \A k \in Keys : k \in used ~> Answered(k) \/ ~running

(* Every INVITE ends: the TU is told how, unless the stack is stopped, and *)
(* its transaction leaves the list (Execute, DeleteAll).                   *)
InvitesEnd ==
  \A k \in Keys : k \in used ~> k \notin Live /\ (Answered(k) \/ ~running)
=============================================================================
