----------------------------- MODULE SipNICTList ----------------------------
(***************************************************************************)
(* The non-INVITE client transactions of the SIP stack                     *)
(* (SipStack/SipNICTList.cpp): REGISTER, BYE, CANCEL, OPTIONS ...          *)
(*                                                                         *)
(* Any thread inserts a request.  Receive threads insert responses under   *)
(* the mutex of the list and report them to the TU without it; when the    *)
(* final response to an INVITE arrives they delete its CANCEL.  The stack  *)
(* thread retransmits and gives up.                                        *)
(*                                                                         *)
(* The network keeps a message for MaxDelay ticks at most, in which it     *)
(* delivers it any number of times, in any order, or not at all.  Sending  *)
(* is part of the step that decides to send: a slow sender is a slow       *)
(* network.  Time stamps are ages in ticks, as in SipICTList.              *)
(*                                                                         *)
(* An operator named F_Fault is F with a fault seeded in it: no action     *)
(* uses it, and the properties are shown to notice it.                     *)
(***************************************************************************)
EXTENDS Integers, Sequences

CONSTANTS
  Keys,         \* transaction keys of the requests the TU may send
  Cancels,      \* those that are the CANCEL of an INVITE
  Threads,      \* receive threads and connecting threads
  Provisional,  \* 1xx status codes the server may send
  Final,        \* final status codes the server may send
  ReSendTime,   \* m_arrICTReSendTime, in ticks
  DeleteTime,   \* the 5000 ms an answered transaction is kept, in ticks
  MaxAge,       \* ages saturate here
  MaxDelay      \* how long the network keeps a message, in ticks

MaxReSend == Len(ReSendTime)      \* MAX_ICT_RESEND_COUNT
RequestTimeout == 408             \* made by Execute only, see StatusAssumption
ConnectError   == 660             \* made by a thread that could not connect
NoTime == -1

ASSUME StatusAssumption ==
  /\ Provisional \subseteq 100..199
  /\ Final \subseteq 200..659 \ {RequestTimeout}
ASSUME TimeAssumption ==
  /\ ReSendTime \in Seq(Nat) /\ Len(ReSendTime) > 0
  /\ DeleteTime \in Nat /\ MaxAge \in Nat /\ MaxDelay \in Nat
  /\ \A i \in 1..Len(ReSendTime) : ReSendTime[i] <= MaxAge
  /\ DeleteTime <= MaxAge
ASSUME CancelAssumption == Cancels \subseteq Keys

VARIABLES
  trans,    \* m_clsMap: the transaction of each key, or None
  hand,     \* the response each thread is about to report, or None
  timeouts, \* keys whose 408 the stack thread has still to report
  used,     \* keys of the requests sent so far
  told,     \* the status codes reported to the TU for each request
  dropped,  \* CANCELs deleted because their INVITE was answered
  running,  \* FALSE once the stack was stopped
  server,   \* the last status the server sent for each request, 0 at first
  wire      \* messages in the network

vars == <<trans, hand, timeouts, used, told, dropped, running, server, wire>>

None == [none |-> TRUE]
Statuses == Provisional \cup Final \cup {RequestTimeout, ConnectError}
Ages == NoTime .. MaxAge

\* CSipNonInviteTransaction; the status is 0 as long as m_pclsResponse is NULL.
Transaction == [status : Statuses \cup {0}, resend : 0 .. MaxReSend - 1,
                start : Ages, stop : Ages]

NewTransaction == [status |-> 0, resend |-> 0, start |-> 0, stop |-> NoTime]

Request(k)     == [key |-> k, status |-> 0, age |-> 0]
Response(k, s) == [key |-> k, status |-> s, age |-> 0]
Message == [key : Keys, status : Provisional \cup Final \cup {0}, age : 0..MaxDelay]

Live == {k \in Keys : trans[k] # None}

Init ==
  /\ trans = [k \in Keys |-> None]
  /\ hand = [t \in Threads |-> None]
  /\ timeouts = {}
  /\ used = {}
  /\ told = [k \in Keys |-> {}]
  /\ dropped = {}
  /\ running = TRUE
  /\ server = [k \in Keys |-> 0]
  /\ wire = {}

-----------------------------------------------------------------------------
InsertRequest(k) ==
  /\ running
  /\ k \notin used
  /\ used' = used \cup {k}
  /\ trans' = [trans EXCEPT ![k] = NewTransaction]
  /\ wire' = wire \cup {Request(k)}
  /\ UNCHANGED <<hand, timeouts, told, dropped, running, server>>

Store(x, s) == [x EXCEPT !.status = s, !.stop = IF s >= 200 THEN 0 ELSE @]

(* A response is stored unless it has the status of the one before it.     *)
Insert(t, k, s) ==
  IF k \in Live /\ trans[k].status # s
  THEN /\ trans' = [trans EXCEPT ![k] = Store(@, s)]
       /\ hand' = [hand EXCEPT ![t] = [key |-> k, status |-> s]]
  ELSE UNCHANGED <<trans, hand>>

InsertResponse(t, m) ==
  /\ running
  /\ hand[t] = None
  /\ m.status # 0
  /\ Insert(t, m.key, m.status)
  /\ UNCHANGED <<timeouts, used, told, dropped, running, server, wire>>

(* A thread that fails to connect for request k makes up a response.  The  *)
(* server never hears of that request.                                     *)
ConnectFailed(t, k) ==
  /\ running
  /\ hand[t] = None
  /\ k \in used /\ server[k] = 0
  /\ server' = [server EXCEPT ![k] = ConnectError]
  /\ Insert(t, k, ConnectError)
  /\ UNCHANGED <<timeouts, used, told, dropped, running, wire>>

(* DeleteCancel: the final response to the INVITE of CANCEL k arrived.     *)
DeleteCancel(k) ==
  /\ running
  /\ k \in Live
  /\ trans' = [trans EXCEPT ![k] = None]
  /\ dropped' = dropped \cup {k}
  /\ UNCHANGED <<hand, timeouts, used, told, running, server, wire>>

(* RecvResponse: the TU learns of a response. *)
Tell(k, s) == told' = [told EXCEPT ![k] = @ \cup {s}]

Report(t) ==
  /\ hand[t] # None
  /\ Tell(hand[t].key, hand[t].status)
  /\ hand' = [hand EXCEPT ![t] = None]
  /\ UNCHANGED <<trans, timeouts, used, dropped, running, server, wire>>

-----------------------------------------------------------------------------
(* CSipNICTList::Execute: one pass of the stack thread under the mutex.    *)
Stopped(x) == x.stop # NoTime

Expired(x) == Stopped(x) /\ x.stop >= DeleteTime

ReSendDue_OnlyUnanswered(x) ==
  ~Stopped(x) /\ x.status = 0 /\ x.start >= ReSendTime[x.resend + 1]

ReSendDue(x) == ~Stopped(x) /\ x.start >= ReSendTime[x.resend + 1]

GivenUp(x) == ReSendDue(x) /\ x.resend + 1 = MaxReSend

TimedOut_AnyStatus(x) == GivenUp(x)

(* Given up without any response: a 408 is made up for the TU. *)
TimedOut(x) == GivenUp(x) /\ x.status = 0

Execute ==
  /\ running
  /\ timeouts = {}
  /\ timeouts' = {k \in Live : TimedOut(trans[k])}
  /\ trans' = [k \in Keys |->
       IF k \notin Live \/ Expired(trans[k]) \/ GivenUp(trans[k]) THEN None
       ELSE IF ReSendDue(trans[k]) THEN [trans[k] EXCEPT !.resend = @ + 1]
       ELSE trans[k]]
  /\ wire' = wire \cup
       {Request(k) : k \in {j \in Live : ReSendDue(trans[j]) /\ ~GivenUp(trans[j])}}
  /\ UNCHANGED <<hand, used, told, dropped, running, server>>

ReportTimeout(k) ==
  /\ k \in timeouts
  /\ timeouts' = timeouts \ {k}
  /\ Tell(k, RequestTimeout)
  /\ UNCHANGED <<trans, hand, used, dropped, running, server, wire>>

Older(a) == IF a = NoTime \/ a = MaxAge THEN a ELSE a + 1

TransactionsAge ==
  trans' = [k \in Keys |->
    IF k \notin Live THEN None
    ELSE [trans[k] EXCEPT !.start = Older(@), !.stop = Older(@)]]

WireAges ==
  wire' = {[m EXCEPT !.age = @ + 1] : m \in {n \in wire : n.age < MaxDelay}}

Tick ==
  /\ running
  /\ TransactionsAge /\ WireAges
  /\ UNCHANGED <<hand, timeouts, used, told, dropped, running, server>>

(* CSipStack::Stop, once every thread has ended: DeleteAll. *)
Stop ==
  /\ running
  /\ timeouts = {} /\ \A t \in Threads : hand[t] = None
  /\ running' = FALSE
  /\ trans' = [k \in Keys |-> None]
  /\ UNCHANGED <<hand, timeouts, used, told, dropped, server, wire>>

(* The server sends a provisional response, its one final response, or     *)
(* that final response again.                                              *)
Respond(k, s) ==
  /\ running
  /\ k \in used
  /\ server[k] < 200 \/ server[k] = s
  /\ server' = [server EXCEPT ![k] = s]
  /\ wire' = wire \cup {Response(k, s)}
  /\ UNCHANGED <<trans, hand, timeouts, used, told, dropped, running>>

Step ==
  \/ \E k \in Keys : InsertRequest(k)
  \/ \E t \in Threads, m \in wire : InsertResponse(t, m)
  \/ \E k \in Cancels : DeleteCancel(k)
  \/ \E t \in Threads : Report(t)
  \/ Execute
  \/ \E k \in Keys : ReportTimeout(k)

Next ==
  \/ Step
  \/ \E t \in Threads, k \in Keys : ConnectFailed(t, k)
  \/ Tick
  \/ Stop
  \/ \E k \in Keys, s \in Provisional \cup Final : Respond(k, s)

(* Time passes and no thread of the stack is blocked for ever. *)
Fairness ==
  /\ WF_vars(Tick) /\ WF_vars(Execute)
  /\ \A k \in Keys : WF_vars(ReportTimeout(k))
  /\ \A t \in Threads : WF_vars(Report(t))

Spec == Init /\ [][Next]_vars
FairSpec == Spec /\ Fairness
-----------------------------------------------------------------------------
(* Types.  That resend stays below MaxReSend is what keeps the index into  *)
(* m_arrICTReSendTime in range in every pass of Execute.                   *)
TypeOK ==
  /\ trans \in [Keys -> Transaction \cup {None}]
  /\ hand \in [Threads -> [key : Keys, status : Statuses] \cup {None}]
  /\ timeouts \subseteq Keys /\ used \subseteq Keys /\ dropped \subseteq Keys
  /\ told \in [Keys -> SUBSET Statuses]
  /\ running \in BOOLEAN
  /\ server \in [Keys -> Provisional \cup Final \cup {0, ConnectError}]
  /\ wire \subseteq Message

(* The TU is told that a request timed out only if it is told of nothing   *)
(* else: no thread holds a response when Execute gives the request up.     *)
TimeoutExclusive ==
  \A k \in Keys : RequestTimeout \in told[k] \/ k \in timeouts =>
    /\ told[k] \subseteq {RequestTimeout}
    /\ \A t \in Threads : hand[t] # None => hand[t].key # k

Answered(k) == \E s \in told[k] : s >= 200

(* Every request ends: its transaction leaves the list, although a late    *)
(* provisional makes it store the final response, and the time to stop at, *)
(* once more; and the TU is told of a final response, a connect error or a *)
(* timeout, unless the stack is stopped, it was a CANCEL whose INVITE was  *)
(* answered, or there was a provisional response: Execute then gives the   *)
(* request up without a word (m_pclsResponse is set).                      *)
RequestsEnd ==
  \A k \in Keys : k \in used ~>
    /\ k \notin Live
    /\ Answered(k) \/ told[k] # {} \/ k \in dropped \/ ~running

(* Every variable has its type, the retransmission count that of an index, *)
(* and of a timeout the TU is told alone.                                  *)
Consistent == TypeOK /\ TimeoutExclusive
=============================================================================
