-------------------------- MODULE SipInviteProofs ----------------------------
(***************************************************************************)
(* Proofs about the INVITE transactions, for every set of INVITEs, calls   *)
(* and threads, every retransmission table and every timer: first about    *)
(* those of clients, then about those of servers (IST).                    *)
(***************************************************************************)
EXTENDS SipICTList, TLAPS

(* A status is never 0, the value that stands for "no response". *)
LEMMA StatusNotZero == ASSUME NEW s \in Statuses PROVE s # 0 /\ s \in Nat
  BY StatusAssumption DEF Statuses, RequestTimeout, ConnectError

(* Taking a response off the wire leaves a sequence of responses. *)
LEMMA RestOfSeq ==
  ASSUME NEW S, NEW q \in Seq(S), NEW i \in 1..Len(q)
  PROVE  RemoveAt(q, i) \in Seq(S) /\ SubSeq(q, i + 1, Len(q)) \in Seq(S)
                                   /\ q[i] \in S
  BY DEF RemoveAt

LEMMA OlderType == ASSUME NEW a \in Ages PROVE Older(a) \in Ages
  BY TimeAssumption DEF Ages, Older, NoTime

LEMMA OlderSet == ASSUME NEW a \in Ages, a # NoTime PROVE Older(a) # NoTime
  BY TimeAssumption DEF Ages, Older, NoTime

LEMMA ZeroAge == 0 \in Ages
  BY TimeAssumption DEF Ages, NoTime

LEMMA NewType == NewTransaction \in Transaction
  BY TimeAssumption DEF NewTransaction, Transaction, Ages, NoTime, MaxReSend

LEMMA StoreType ==
  ASSUME NEW x \in Transaction, NEW s \in Statuses
  PROVE  /\ Store(x, s) \in Transaction
         /\ Store(x, s).status = s
         /\ Store(x, s).ack = x.ack
         /\ x.stop # NoTime => Store(x, s).stop # NoTime
  <1> DEFINE z == IF x.status = 0 /\ s = ConnectError THEN 0 ELSE x.stop
             y == [x EXCEPT !.status = s, !.stop = z]
  <1>1. 0 \in Ages
    BY ZeroAge
  <1>2. z \in Ages /\ (x.stop # NoTime => z # NoTime)
    BY <1>1 DEF Transaction, NoTime
  <1>3. Store(x, s) = Ring(y)
    BY DEF Store
  <1> HIDE DEF z
  <1>4. /\ y \in Transaction /\ y.status = s /\ y.ack = x.ack /\ y.stop = z
    BY <1>2 DEF Transaction
  <1> HIDE DEF y
  <1>5. /\ Ring(y) \in Transaction /\ Ring(y).status = y.status
        /\ Ring(y).ack = y.ack /\ Ring(y).stop = y.stop
    BY <1>1, <1>4 DEF Ring, Transaction
  <1> QED
    BY <1>2, <1>3, <1>4, <1>5

LEMMA NotNone == None \notin Transaction /\ None \notin Task
  BY DEF None, Transaction, Task

(* A transaction whose next retransmission is not the last one can count it. *)
LEMMA ReSendType ==
  ASSUME NEW x \in Transaction, ReSendDue(x), ~GivenUp(x)
  PROVE  [x EXCEPT !.resend = @ + 1] \in Transaction
  <1>1. MaxReSend \in Nat
    BY TimeAssumption DEF MaxReSend
  <1>2. x.resend \in 0 .. MaxReSend - 1 /\ x.resend + 1 # MaxReSend
    BY DEF GivenUp, Transaction
  <1>3. x.resend + 1 \in 0 .. MaxReSend - 1
    BY <1>1, <1>2
  <1> QED
    BY <1>3 DEF Transaction

-----------------------------------------------------------------------------
LEMMA InitType == Init => TypeOK
  BY TimeAssumption DEF Init, TypeOK

LEMMA AttachType ==
  ASSUME TypeOK, NEW j \in Live, NEW k \in Keys
  PROVE  AttachAck(j, k) \in [Keys -> Transaction \cup {None}]
  <1>1. trans[j] \in Transaction
    BY DEF TypeOK, Live
  <1>2. [trans[j] EXCEPT !.ack = {k}, !.stop = 0] \in Transaction
    BY <1>1, ZeroAge DEF Transaction
  <1>3. AttachAck(j, k) = [trans EXCEPT ![j] = [trans[j] EXCEPT !.ack = {k}, !.stop = 0]]
    BY <1>1 DEF AttachAck, TypeOK, Live
  <1> QED
    BY <1>2, <1>3 DEF TypeOK, Live

LEMMA StepType == TypeOK /\ [Next]_vars => TypeOK'
  <1> SUFFICES ASSUME TypeOK, [Next]_vars PROVE TypeOK'
    OBVIOUS
  <1> USE DEF TypeOK, peer, user
  <1>1. CASE \E k \in Keys : InsertInvite(k)
    BY <1>1, NewType DEF InsertInvite
  <1>2. CASE \E k \in Keys, s \in Statuses : InsertAck(k, s)
    <2> SUFFICES ASSUME NEW k \in Keys, NEW s \in Statuses, InsertAck(k, s)
                 PROVE  TypeOK'
      BY <1>2
    <2>1. \A j \in Live : AttachAck(j, k) \in [Keys -> Transaction \cup {None}]
      BY AttachType
    <2>2. /\ toAck' = toAck \ {<<k, s>>} /\ acked' \in {acked, acked \cup {k}}
          /\ UNCHANGED <<hand, timeouts, used, net, server, quota, told, gaveUp, running>>
      BY DEF InsertAck
    <2>3. \/ UNCHANGED trans
          \/ \E j \in Live : trans' \in {AttachAck(j, k), [trans EXCEPT ![j] = None]}
      BY DEF InsertAck, AckCandidates
    <2>4. trans' \in [Keys -> Transaction \cup {None}]
      BY <2>1, <2>3
    <2> QED
      BY <2>2, <2>4
  <1>3. CASE \E k \in Keys, s \in Provisional \cup Final : Respond(k, s)
    <2> SUFFICES ASSUME NEW k \in Keys, NEW s \in Provisional \cup Final, Respond(k, s)
                 PROVE  TypeOK'
      BY <1>3
    <2>1. net' \in [Keys -> Seq(Provisional \cup Final)]
      BY DEF Respond
    <2>2. quota' \in [Keys -> Nat]
      BY DEF Respond
    <2> QED
      BY <2>1, <2>2 DEF Respond
  <1>4. CASE \E t \in Threads, k \in Keys : \E i \in 1..Len(net[k]) : Receive(t, k, i)
    <2> SUFFICES ASSUME NEW t \in Threads, NEW k \in Keys,
                        NEW i \in 1..Len(net[k]), Receive(t, k, i)
                 PROVE  TypeOK'
      BY <1>4
    <2>1. net' \in [Keys -> Seq(Provisional \cup Final)]
      BY RestOfSeq DEF Receive
    <2>2. net[k][i] \in Statuses
      BY RestOfSeq DEF Statuses
    <2>3. hand' \in [Threads -> Task \cup {None}]
      BY <2>2 DEF Receive, Task
    <2> QED
      BY <2>1, <2>3 DEF Receive
  <1>5. CASE \E t \in Threads, k \in Keys : ConnectFailed(t, k)
    BY <1>5 DEF ConnectFailed, Task, Statuses
  <1>6. CASE \E t \in Threads : InsertResponse(t)
    <2> SUFFICES ASSUME NEW t \in Threads, InsertResponse(t) PROVE TypeOK'
      BY <1>6
    <2>1. hand[t] \in Task
      BY DEF InsertResponse
    <2>2. trans' \in [Keys -> Transaction \cup {None}]
      BY <2>1, StoreType DEF InsertResponse, Task, Live
    <2>3. hand' \in [Threads -> Task \cup {None}]
      BY <2>1 DEF InsertResponse, Task
    <2>4. acked' \subseteq Keys
      BY <2>1 DEF InsertResponse, Task, Live, Transaction
    <2> QED
      BY <2>2, <2>3, <2>4 DEF InsertResponse
  <1>7. CASE \E t \in Threads : Report(t)
    BY <1>7 DEF Report, Tell, Task
  <1>8. CASE Execute
    <2>1. trans' \in [Keys -> Transaction \cup {None}]
      BY <1>8, ReSendType DEF Execute, Live
    <2> QED
      BY <1>8, <2>1 DEF Execute, Live
  <1>9. CASE \E k \in Keys : ReportTimeout(k)
    BY <1>9 DEF ReportTimeout, Tell, Statuses
  <1>10. CASE Tick
    <2>1. ASSUME NEW x \in Transaction
          PROVE  [x EXCEPT !.start = Older(@), !.stop = Older(@), !.ring = Older(@)]
                   \in Transaction
      BY OlderType DEF Transaction
    <2> QED
      BY <1>10, <2>1 DEF Tick, Live
  <1>11. CASE Stop
    BY <1>11 DEF Stop
  <1>12. CASE UNCHANGED vars
    BY <1>12 DEF vars
  <1> QED
    BY <1>1, <1>2, <1>3, <1>4, <1>5, <1>6, <1>7, <1>8, <1>9, <1>10, <1>11,
       <1>12 DEF Next

(* Every value has its type; in particular Execute never reads the         *)
(* retransmission table (m_arrICTReSendTime) beyond its last entry.        *)
THEOREM TypeCorrect == Spec => []TypeOK
  BY InitType, StepType, PTL DEF Spec

-----------------------------------------------------------------------------
(***************************************************************************)
(* Timer B.  The report of a response or a timeout is a later step than    *)
(* the one that takes it out of the list, so TimeoutExclusive is not       *)
(* inductive: what makes it true is that nothing is told, or about to be   *)
(* told, of a transaction whose status is still 0.                         *)
(***************************************************************************)
Unheard(k) == told[k] = <<>> /\ ~Reporting(k) /\ k \notin timeouts

SilentInv ==
  \A k \in Keys :
    k \notin used \/ (k \in Live /\ trans[k].status = 0) => Unheard(k)

GaveUpInv ==
  \A k \in gaveUp :
    /\ k \in used /\ ~Reporting(k)
    /\ \/ told[k] = <<>> /\ k \in timeouts
       \/ told[k] = <<RequestTimeout>> /\ k \notin timeouts

TimeoutInv ==
  /\ TypeOK
  /\ \A k \in Live : k \in used /\ k \notin gaveUp
  /\ SilentInv
  /\ GaveUpInv

LEMMA InitTimeoutInv == Init => TimeoutInv
  BY InitType DEF Init, TimeoutInv, SilentInv, GaveUpInv, Live, Unheard, Reporting

LEMMA TimeoutInvGives == TimeoutInv => TimeoutExclusive
  BY DEF TimeoutInv, GaveUpInv, TimeoutExclusive

(* A step that leaves the reports alone and gives no transaction status 0. *)
LEMMA SameReports ==
  ASSUME TimeoutInv, TypeOK',
         UNCHANGED <<told, timeouts, gaveUp>>, used \subseteq used',
         \A k \in Keys : Reporting(k)' => Reporting(k),
         \A k \in Live' : \/ k \in used' \ used
                          \/ /\ k \in Live
                             /\ trans'[k].status = 0 => trans[k].status = 0
  PROVE  TimeoutInv'
  BY DEF TimeoutInv, SilentInv, GaveUpInv, Unheard, TypeOK, Live

LEMMA AttachKeeps ==
  ASSUME TypeOK, NEW j \in Live, NEW k \in Keys, NEW i \in Keys
  PROVE  /\ AttachAck(j, k)[i] # None <=> i \in Live
         /\ i \in Live => AttachAck(j, k)[i].status = trans[i].status
  <1>1. trans[j] \in Transaction
    BY DEF TypeOK, Live
  <1>2. AttachAck(j, k) = [trans EXCEPT ![j] = [trans[j] EXCEPT !.ack = {k}, !.stop = 0]]
    BY <1>1 DEF AttachAck, TypeOK, Live
  <1>3. [trans[j] EXCEPT !.ack = {k}, !.stop = 0] # None
    BY <1>1 DEF Transaction, None
  <1> QED
    BY <1>1, <1>2, <1>3 DEF TypeOK, Live, Transaction

LEMMA StepTimeoutInv == TimeoutInv /\ [Next]_vars => TimeoutInv'
  <1> SUFFICES ASSUME TimeoutInv, [Next]_vars PROVE TimeoutInv'
    OBVIOUS
  <1> TypeOK /\ TypeOK'
    BY StepType DEF TimeoutInv
  <1> USE DEF peer, user
  <1>1. CASE \E k \in Keys : InsertInvite(k)
    BY <1>1, SameReports DEF InsertInvite, Live, Reporting, TypeOK
  <1>2. CASE \E k \in Keys, s \in Statuses : InsertAck(k, s)
    <2> SUFFICES ASSUME NEW k \in Keys, NEW s \in Statuses, InsertAck(k, s)
                 PROVE  TimeoutInv'
      BY <1>2
    <2>1. UNCHANGED <<told, timeouts, gaveUp, hand, used>>
      BY DEF InsertAck
    <2>2. \/ UNCHANGED trans
          \/ \E j \in Live : trans' \in {AttachAck(j, k), [trans EXCEPT ![j] = None]}
      BY DEF InsertAck, AckCandidates
    <2>3. ASSUME NEW j \in Live, NEW i \in Keys
          PROVE  /\ AttachAck(j, k)[i] # None <=> i \in Live
                 /\ i \in Live => AttachAck(j, k)[i].status = trans[i].status
      BY AttachKeeps
    <2>4. CASE UNCHANGED trans
      BY <2>1, <2>4, SameReports DEF Reporting, Live
    <2>5. CASE \E j \in Live : trans' = AttachAck(j, k)
      <3>1. \A i \in Live' : i \in Live /\ trans'[i].status = trans[i].status
        BY <2>3, <2>5 DEF Live
      <3> QED
        BY <2>1, <3>1, SameReports DEF Reporting
    <2>6. CASE \E j \in Live : trans' = [trans EXCEPT ![j] = None]
      <3>1. \A i \in Live' : i \in Live /\ trans'[i] = trans[i]
        BY <2>6 DEF Live, TypeOK
      <3> QED
        BY <2>1, <3>1, SameReports DEF Reporting
    <2> QED
      BY <2>2, <2>4, <2>5, <2>6
  <1>3. CASE \E k \in Keys, s \in Provisional \cup Final : Respond(k, s)
    BY <1>3, SameReports DEF Respond, Live, Reporting
  <1>4. CASE \E t \in Threads, k \in Keys : \E i \in 1..Len(net[k]) : Receive(t, k, i)
    <2>1. \A k \in Keys : Reporting(k)' => Reporting(k)
      BY <1>4 DEF Receive, Reporting, TypeOK
    <2> QED
      BY <1>4, <2>1, SameReports DEF Receive, Live
  <1>5. CASE \E t \in Threads, k \in Keys : ConnectFailed(t, k)
    <2>1. \A k \in Keys : Reporting(k)' => Reporting(k)
      BY <1>5 DEF ConnectFailed, Reporting, TypeOK
    <2> QED
      BY <1>5, <2>1, SameReports DEF ConnectFailed, Live
  <1>6. CASE \E t \in Threads : InsertResponse(t)
    <2> SUFFICES ASSUME NEW t \in Threads, InsertResponse(t) PROVE TimeoutInv'
      BY <1>6
    <2> DEFINE k == hand[t].key
               s == hand[t].status
    <2>1. hand[t] \in Task /\ k \in Keys /\ s \in Statuses /\ s # 0
      BY StatusNotZero DEF InsertResponse, TypeOK, Task
    <2>2. UNCHANGED <<told, timeouts, gaveUp, used>>
      BY DEF InsertResponse
    <2>3. CASE ~(k \in Live /\ IsNew(trans[k], s))
      <3>1. trans' = trans /\ hand' = [hand EXCEPT ![t] = None]
        BY <2>3 DEF InsertResponse
      <3>2. \A i \in Keys : Reporting(i)' => Reporting(i)
        BY <3>1 DEF Reporting, TypeOK
      <3> QED
        BY <2>2, <3>1, <3>2, SameReports DEF Live
    <2>4. CASE k \in Live /\ IsNew(trans[k], s)
      <3>1. /\ trans' = [trans EXCEPT ![k] = Store(trans[k], s)]
            /\ hand' = [hand EXCEPT ![t] = [hand[t] EXCEPT !.step = "report"]]
        BY <2>4 DEF InsertResponse
      <3>2. Store(trans[k], s) \in Transaction /\ Store(trans[k], s).status = s
        BY <2>1, <2>4, StoreType DEF Live, TypeOK
      <3>3. Live' = Live /\ trans'[k].status = s
        BY <2>1, <2>4, <3>1, <3>2, NotNone DEF Live, TypeOK
      <3>4. \A i \in Keys \ {k} : (Reporting(i)' => Reporting(i)) /\ trans'[i] = trans[i]
        BY <2>1, <3>1 DEF Reporting, TypeOK, Task
      <3> QED
        BY <2>1, <2>2, <2>4, <3>3, <3>4
        DEF TimeoutInv, SilentInv, GaveUpInv, Unheard, Live, TypeOK
    <2> QED
      BY <2>3, <2>4
  <1>7. CASE \E t \in Threads : Report(t)
    <2> SUFFICES ASSUME NEW t \in Threads, Report(t) PROVE TimeoutInv'
      BY <1>7
    <2> DEFINE k == hand[t].key
    <2>1. hand[t] \in Task /\ k \in Keys /\ Reporting(k)
      BY DEF Report, TypeOK, Task, Reporting
    <2>2. \A i \in Keys : Reporting(i)' => Reporting(i)
      BY DEF Report, Reporting, TypeOK
    <2>3. /\ UNCHANGED <<trans, timeouts, used, gaveUp>>
          /\ \A i \in Keys \ {k} : told'[i] = told[i]
      BY DEF Report, Tell, TypeOK
    <2> HIDE DEF k
    <2> QED
      BY <2>1, <2>2, <2>3 DEF TimeoutInv, SilentInv, GaveUpInv, Unheard, Live, TypeOK
  <1>8. CASE Execute
    <2>1. /\ timeouts = {} /\ UNCHANGED <<hand, used, told>>
          /\ timeouts' = {k \in Live : GivenUp(trans[k]) \/ RungOut(trans[k])}
          /\ gaveUp' = gaveUp \cup {k \in Live : GivenUp(trans[k])}
      BY <1>8 DEF Execute
    <2>2. \A k \in Live' : /\ k \in Live /\ k \notin timeouts'
                           /\ trans'[k].status = trans[k].status
      <3> SUFFICES ASSUME NEW k \in Live'
                   PROVE  /\ k \in Live /\ k \notin timeouts'
                          /\ trans'[k].status = trans[k].status
        OBVIOUS
      <3>1. /\ k \in Live /\ k \notin timeouts'
            /\ \/ trans'[k] = [trans[k] EXCEPT !.resend = @ + 1]
               \/ trans'[k] = trans[k]
        BY <1>8 DEF Execute, Live
      <3>2. trans[k] \in Transaction
        BY <3>1 DEF Live, TypeOK
      <3> QED
        BY <3>1, <3>2 DEF Transaction
    <2>3. \A k \in Live : GivenUp(trans[k]) => trans[k].status = 0
      BY DEF GivenUp, ReSendDue
    <2>4. \A k \in Keys : Reporting(k)' <=> Reporting(k)
      BY <2>1 DEF Reporting
    <2> QED
      BY <2>1, <2>2, <2>3, <2>4
      DEF TimeoutInv, SilentInv, GaveUpInv, Unheard, Live, TypeOK
  <1>9. CASE \E k \in Keys : ReportTimeout(k)
    <2> SUFFICES ASSUME NEW k \in Keys, ReportTimeout(k) PROVE TimeoutInv'
      BY <1>9
    <2>1. /\ k \in timeouts /\ timeouts' = timeouts \ {k}
          /\ UNCHANGED <<trans, hand, used, gaveUp>>
          /\ told' = [told EXCEPT ![k] = Append(told[k], RequestTimeout)]
      BY DEF ReportTimeout, Tell
    <2>2. told[k] = <<>> => told'[k] = <<RequestTimeout>>
      BY <2>1 DEF TypeOK
    <2>3. \A i \in Keys : Reporting(i)' <=> Reporting(i)
      BY <2>1 DEF Reporting
    <2> QED
      BY <2>1, <2>2, <2>3 DEF TimeoutInv, SilentInv, GaveUpInv, Unheard, Live, TypeOK
  <1>10. CASE Tick
    <2>1. \A k \in Live' : k \in Live /\ trans'[k].status = trans[k].status
      BY <1>10 DEF Tick, Live, TypeOK, Transaction
    <2> QED
      BY <1>10, <2>1, SameReports DEF Tick, Reporting
  <1>11. CASE Stop
    BY <1>11, SameReports DEF Stop, Live, Reporting
  <1>12. CASE UNCHANGED vars
    BY <1>12, SameReports DEF vars, Live, Reporting
  <1> QED
    BY <1>1, <1>2, <1>3, <1>4, <1>5, <1>6, <1>7, <1>8, <1>9, <1>10, <1>11,
       <1>12 DEF Next

(* When Execute gives up an INVITE for want of a response, the TU is told  *)
(* of the timeout once and never of a response to it, whatever the receive *)
(* threads do before, between or after the pass and its report.            *)
THEOREM TimerBExclusive == Spec => []TimeoutExclusive
  BY InitTimeoutInv, StepTimeoutInv, TimeoutInvGives, PTL DEF Spec

-----------------------------------------------------------------------------
(***************************************************************************)
(* ACKs.  As long as a call has one INVITE at a time, the search by        *)
(* Call-ID finds the right transaction.                                    *)
(***************************************************************************)
OneInvitePerCall == \A j, k \in Keys : CallOf[j] = CallOf[k] => j = k

AckInv ==
  /\ TypeOK
  /\ acked \subseteq used
  /\ \A k \in Live : /\ k \in used
                     /\ trans[k].ack \subseteq {k}
                     /\ trans[k].ack # {} \/ k \in acked => Stopped(trans[k])

LEMMA InitAckInv == Init => AckInv
  BY InitType DEF Init, AckInv, Live

(* A step that leaves the ACKs alone and stops no stopped transaction.     *)
LEMMA SameAcks ==
  ASSUME AckInv, TypeOK', UNCHANGED acked, used \subseteq used',
         \A k \in Live' :
            \/ k \in used' \ used /\ trans'[k].ack = {}
            \/ /\ k \in Live /\ trans'[k].ack = trans[k].ack
               /\ Stopped(trans[k]) => Stopped(trans'[k])
  PROVE  AckInv'
  BY DEF AckInv

LEMMA StepAckInv ==
  ASSUME OneInvitePerCall, AckInv, [Next]_vars
  PROVE  AckInv' /\ (\A k \in acked : k \notin timeouts' \ timeouts)
  <1> TypeOK /\ TypeOK'
    BY StepType DEF AckInv
  <1> USE DEF peer, user
  <1>1. CASE \E k \in Keys : InsertInvite(k)
    <2> SUFFICES ASSUME NEW k \in Keys, InsertInvite(k) PROVE AckInv'
      BY <1>1 DEF InsertInvite
    <2>1. trans' = [trans EXCEPT ![k] = NewTransaction] /\ k \in used' \ used
      BY DEF InsertInvite
    <2>2. trans'[k].ack = {}
      BY <2>1 DEF TypeOK, NewTransaction
    <2>3. \A i \in Live' : i = k \/ (i \in Live /\ trans'[i] = trans[i])
      BY <2>1 DEF Live, TypeOK
    <2> QED
      BY <2>1, <2>2, <2>3, SameAcks DEF InsertInvite
  <1>2. CASE \E k \in Keys, s \in Statuses : InsertAck(k, s)
    <2> SUFFICES ASSUME NEW k \in Keys, NEW s \in Statuses, InsertAck(k, s)
                 PROVE  AckInv'
      BY <1>2 DEF InsertAck
    <2>1. UNCHANGED <<timeouts, used>>
      BY DEF InsertAck
    <2>2. \/ UNCHANGED <<trans, acked>>
          \/ /\ k \in Live /\ acked' = acked \cup {k}
             /\ trans' \in {AttachAck(k, k), [trans EXCEPT ![k] = None]}
      BY DEF InsertAck, AckCandidates, OneInvitePerCall, Live
    <2>3. CASE UNCHANGED <<trans, acked>>
      BY <2>1, <2>3, SameAcks DEF Live
    <2>4. CASE k \in Live /\ acked' = acked \cup {k} /\ trans' = AttachAck(k, k)
      <3>1. trans[k] \in Transaction
        BY <2>4 DEF Live, TypeOK
      <3>2. trans' = [trans EXCEPT ![k] = [trans[k] EXCEPT !.ack = {k}, !.stop = 0]]
        BY <2>4, <3>1 DEF AttachAck, TypeOK
      <3>3. trans'[k].ack = {k} /\ Stopped(trans'[k])
        BY <3>1, <3>2 DEF TypeOK, Transaction, Stopped, NoTime
      <3>4. \A i \in Keys \ {k} : trans'[i] = trans[i]
        BY <3>2 DEF TypeOK
      <3>5. \A i \in Live' : i = k \/ (i \in Live /\ trans'[i] = trans[i])
        BY <3>4 DEF Live
      <3> QED
        BY <2>1, <2>4, <3>3, <3>5 DEF AckInv
    <2>5. CASE /\ k \in Live /\ acked' = acked \cup {k}
               /\ trans' = [trans EXCEPT ![k] = None]
      <3>1. \A i \in Live' : i # k /\ i \in Live /\ trans'[i] = trans[i]
        BY <2>5 DEF Live, TypeOK
      <3> QED
        BY <2>1, <2>5, <3>1 DEF AckInv
    <2> QED
      BY <2>2, <2>3, <2>4, <2>5
  <1>3. CASE \E k \in Keys, s \in Provisional \cup Final : Respond(k, s)
    BY <1>3, SameAcks DEF Respond, Live
  <1>4. CASE \E t \in Threads, k \in Keys : \E i \in 1..Len(net[k]) : Receive(t, k, i)
    BY <1>4, SameAcks DEF Receive, Live
  <1>5. CASE \E t \in Threads, k \in Keys : ConnectFailed(t, k)
    BY <1>5, SameAcks DEF ConnectFailed, Live
  <1>6. CASE \E t \in Threads : InsertResponse(t)
    <2> SUFFICES ASSUME NEW t \in Threads, InsertResponse(t) PROVE AckInv'
      BY <1>6 DEF InsertResponse
    <2> DEFINE k == hand[t].key
               s == hand[t].status
    <2>1. k \in Keys /\ s \in Statuses
      BY DEF InsertResponse, TypeOK, Task
    <2>2. /\ UNCHANGED used
          /\ acked' = acked \cup (IF k \in Live THEN trans[k].ack ELSE {})
          /\ \/ trans' = trans
             \/ k \in Live /\ trans' = [trans EXCEPT ![k] = Store(trans[k], s)]
      BY DEF InsertResponse
    <2>3. k \in Live =>
            /\ Store(trans[k], s).ack = trans[k].ack
            /\ Stopped(trans[k]) => Stopped(Store(trans[k], s))
      BY <2>1, StoreType DEF Live, TypeOK, Stopped
    <2> HIDE DEF k, s
    <2>4. \A i \in Live' : /\ i \in Live /\ trans'[i].ack = trans[i].ack
                           /\ Stopped(trans[i]) => Stopped(trans'[i])
      BY <2>1, <2>2, <2>3 DEF Live, TypeOK
    <2>5. acked' \ acked \subseteq {i \in Live : i = k /\ trans[i].ack # {}}
      BY <2>2 DEF AckInv
    <2>6. \A i \in acked' : i \in acked \/ (i \in Live /\ trans[i].ack # {})
      BY <2>5
    <2> QED
      BY <2>2, <2>4, <2>6 DEF AckInv, Stopped
  <1>7. CASE \E t \in Threads : Report(t)
    BY <1>7, SameAcks DEF Report, Live
  <1>8. CASE Execute
    <2>1. \A k \in Live' : k \in Live /\ trans'[k].ack = trans[k].ack
                                     /\ trans'[k].stop = trans[k].stop
      <3> SUFFICES ASSUME NEW k \in Live'
                   PROVE  k \in Live /\ trans'[k].ack = trans[k].ack
                                     /\ trans'[k].stop = trans[k].stop
        OBVIOUS
      <3>1. k \in Live /\ trans'[k] \in {trans[k], [trans[k] EXCEPT !.resend = @ + 1]}
        BY <1>8 DEF Execute, Live
      <3>2. trans[k] \in Transaction
        BY <3>1 DEF Live, TypeOK
      <3> QED
        BY <3>1, <3>2 DEF Transaction
    <2>2. AckInv'
      BY <1>8, <2>1, SameAcks DEF Execute, Stopped
    <2>3. \A k \in timeouts' : k \in Live /\ ~Stopped(trans[k])
      BY <1>8 DEF Execute, GivenUp, ReSendDue, RungOut
    <2> QED
      BY <2>2, <2>3 DEF AckInv
  <1>9. CASE \E k \in Keys : ReportTimeout(k)
    BY <1>9, SameAcks DEF ReportTimeout, Live
  <1>10. CASE Tick
    <2>1. \A k \in Live' : /\ k \in Live /\ trans'[k].ack = trans[k].ack
                           /\ Stopped(trans[k]) => Stopped(trans'[k])
      <3> SUFFICES ASSUME NEW k \in Live'
                   PROVE  /\ k \in Live /\ trans'[k].ack = trans[k].ack
                          /\ Stopped(trans[k]) => Stopped(trans'[k])
        OBVIOUS
      <3>1. k \in Live /\ trans'[k] = [trans[k] EXCEPT !.start = Older(@),
                                    !.stop = Older(@), !.ring = Older(@)]
        BY <1>10 DEF Tick, Live
      <3>2. trans[k] \in Transaction
        BY <3>1 DEF Live, TypeOK
      <3> QED
        BY <3>1, <3>2, OlderSet DEF Transaction, Stopped
    <2>2. UNCHANGED <<acked, used, timeouts>>
      BY <1>10 DEF Tick
    <2> QED
      BY <2>1, <2>2 DEF AckInv, Stopped
  <1>11. CASE Stop
    BY <1>11, SameAcks DEF Stop, Live
  <1>12. CASE UNCHANGED vars
    BY <1>12, SameAcks DEF vars, Live
  <1> QED
    BY <1>1, <1>2, <1>3, <1>4, <1>5, <1>6, <1>7, <1>8, <1>9, <1>10, <1>11,
       <1>12 DEF Next

(* With one INVITE per Call-ID every ACK is stored in the transaction of   *)
(* the INVITE it acknowledges, and every variable keeps its type.          *)
THEOREM AckStaysHome ==
  ASSUME OneInvitePerCall PROVE Spec => []Consistent
  <1>1. AckInv /\ [Next]_vars => AckInv'
    BY StepAckInv
  <1>2. AckInv => Consistent
    BY DEF AckInv, AckIsOwn, Consistent
  <1> QED
    BY InitAckInv, <1>1, <1>2, PTL DEF Spec

(* With one INVITE per Call-ID an acknowledged INVITE never times out.     *)
THEOREM AckEndsTimers ==
  ASSUME OneInvitePerCall PROVE Spec => AckedNeverTimesOut
  <1>1. AckInv /\ [Next]_vars
          => AckInv' /\ [\A k \in acked : k \notin timeouts' \ timeouts]_vars
    BY StepAckInv
  <1> QED
    BY InitAckInv, <1>1, PTL DEF Spec, AckedNeverTimesOut

-----------------------------------------------------------------------------
(***************************************************************************)
(* The order of what the TU is told.  When the responses of the server     *)
(* come one after the other, in order and through one receive thread, a    *)
(* final response drives everything else out: what is still on its way,    *)
(* in the thread's hand or in the list has the status of that response.    *)
(***************************************************************************)
InOrder == ~Reordering /\ \A t, u \in Threads : t = u

Held(t, k) == hand[t] # None /\ hand[t].key = k
HasFinal(k) == \E i \in 1..Len(told[k]) : told[k][i] >= 200 /\ told[k][i] # RequestTimeout
HasTimeout(k) == \E i \in 1..Len(told[k]) : told[k][i] = RequestTimeout
StoredFinal(k) == k \in Live /\ trans[k].status >= 200
Settled(k) == \/ HasFinal(k) \/ StoredFinal(k)
              \/ \E t \in Threads : Held(t, k) /\ hand[t].status >= 200

NetInv(k) ==
  /\ server[k] = 0 => net[k] = <<>>
  /\ \A i \in 1..Len(net[k]) : net[k][i] >= 200 \/ Settled(k) => net[k][i] = server[k]
  /\ \A i, j \in 1..Len(net[k]) : i < j /\ net[k][i] >= 200 => net[k][j] = server[k]

HandInv(k) ==
  \A t \in Threads : Held(t, k) =>
    /\ k \in used /\ hand[t].status # RequestTimeout
    /\ hand[t].status >= 200 \/ HasFinal(k) \/ StoredFinal(k) => hand[t].status = server[k]
    /\ hand[t].step = "report" =>
         ~HasFinal(k) /\ (k \in Live => trans[k].status = hand[t].status)

ListInv(k) ==
  /\ k \notin used => server[k] = 0 /\ told[k] = <<>> /\ k \notin Live
  /\ StoredFinal(k) \/ (HasFinal(k) /\ k \in Live) => trans[k].status = server[k]
  /\ k \in timeouts => ~HasTimeout(k)
  /\ k \in timeouts \/ HasTimeout(k) => k \in used /\ k \notin Live

ToldInv(k) ==
  /\ \A i \in 1..Len(told[k]) :
       told[k][i] >= 200 /\ told[k][i] # RequestTimeout => told[k][i] = server[k]
  /\ \A i, j \in 1..Len(told[k]) :
       /\ i < j /\ told[k][i] >= 200 /\ told[k][i] # RequestTimeout
            => told[k][j] = RequestTimeout
       /\ i # j /\ told[k][i] = RequestTimeout => told[k][j] # RequestTimeout

OrderInv(k) == NetInv(k) /\ HandInv(k) /\ ListInv(k) /\ ToldInv(k)
ServerOrderInv == TypeOK /\ \A k \in Keys : OrderInv(k)

LEMMA AppendedSeq ==
  ASSUME NEW S, NEW q \in Seq(S), NEW e
  PROVE  /\ Len(q) \in Nat /\ Len(Append(q, e)) = Len(q) + 1
         /\ \A i \in 1..Len(q) : Append(q, e)[i] = q[i]
         /\ Append(q, e)[Len(q) + 1] = e
  OBVIOUS

LEMMA StatusRange ==
  /\ \A s \in Provisional : s \in Nat /\ 0 < s /\ s < 200
  /\ \A s \in Final : s \in Nat /\ s >= 200 /\ s # RequestTimeout
  /\ RequestTimeout >= 200 /\ ConnectError >= 200 /\ ConnectError # RequestTimeout
  BY StatusAssumption DEF RequestTimeout, ConnectError

LEMMA InitOrder == Init => ServerOrderInv
  BY InitType DEF Init, ServerOrderInv, OrderInv, NetInv, HandInv, ListInv, ToldInv, Settled,
     Held, HasFinal, HasTimeout, StoredFinal, Live

LEMMA OrderGives == ServerOrderInv => TUSeesServerOrder
  BY DEF ServerOrderInv, OrderInv, ToldInv, TUSeesServerOrder

(* A step that neither sends, receives nor tells anything of the INVITE.   *)
LEMMA SameOrder ==
  ASSUME NEW k \in Keys, OrderInv(k),
         net'[k] = net[k], server'[k] = server[k], told'[k] = told[k],
         k \in used => k \in used',
         \A t \in Threads : Held(t, k)' => Held(t, k) /\ hand'[t] = hand[t],
         k \in Live' => k \in Live /\ trans'[k].status = trans[k].status,
         k \in timeouts' => k \in timeouts \/ (k \in Live /\ k \notin Live')
  PROVE  OrderInv(k)'
  <1>1. /\ HasFinal(k)' <=> HasFinal(k)
        /\ HasTimeout(k)' <=> HasTimeout(k)
        /\ StoredFinal(k)' => StoredFinal(k)
        /\ Settled(k)' => Settled(k)
    BY DEF HasFinal, HasTimeout, StoredFinal, Settled
  <1>2. NetInv(k)'
    BY <1>1 DEF OrderInv, NetInv
  <1>3. HandInv(k)'
    BY <1>1 DEF OrderInv, HandInv
  <1>4. ListInv(k)'
    BY <1>1 DEF OrderInv, ListInv, StoredFinal
  <1>5. ToldInv(k)'
    BY DEF OrderInv, ToldInv
  <1> QED
    BY <1>2, <1>3, <1>4, <1>5 DEF OrderInv

LEMMA InviteOrder ==
  ASSUME ServerOrderInv, NEW j \in Keys, InsertInvite(j), NEW k \in Keys
  PROVE  OrderInv(k)'
  <1>0. OrderInv(k) /\ TypeOK
    BY DEF ServerOrderInv
  <1>1. CASE k # j
    BY <1>0, <1>1, SameOrder DEF InsertInvite, Live, TypeOK, Held, peer
  <1>2. CASE k = j
    <2>1. /\ UNCHANGED <<net, server, told, hand, timeouts>> /\ k \notin used /\ k \in used'
          /\ trans'[k] = NewTransaction
      BY <1>0, <1>2 DEF InsertInvite, TypeOK, peer
    <2>2. server[k] = 0 /\ told[k] = <<>> /\ net[k] = <<>> /\ k \notin timeouts
          /\ \A t \in Threads : ~Held(t, k)
      BY <1>0, <2>1 DEF OrderInv, ListInv, NetInv, HandInv
    <2>3. ~HasFinal(k)' /\ ~HasTimeout(k)' /\ ~StoredFinal(k)' /\ \A t \in Threads : ~Held(t, k)'
      BY <2>1, <2>2 DEF HasFinal, HasTimeout, StoredFinal, NewTransaction, Held
    <2> QED
      BY <2>1, <2>2, <2>3 DEF OrderInv, NetInv, HandInv, ListInv, ToldInv
  <1> QED
    BY <1>1, <1>2

LEMMA AckOrder ==
  ASSUME ServerOrderInv, NEW j \in Keys, NEW s \in Statuses, InsertAck(j, s), NEW k \in Keys
  PROVE  OrderInv(k)'
  <1>0. OrderInv(k) /\ TypeOK
    BY DEF ServerOrderInv
  <1>1. UNCHANGED <<net, server, told, timeouts, hand, used>>
    BY DEF InsertAck, peer
  <1>2. \/ UNCHANGED trans
        \/ \E i \in Live : trans' \in {AttachAck(i, j), [trans EXCEPT ![i] = None]}
    BY DEF InsertAck, AckCandidates
  <1>3. k \in Live' => k \in Live /\ trans'[k].status = trans[k].status
    <2>1. CASE UNCHANGED trans
      BY <2>1 DEF Live
    <2>2. ASSUME NEW i \in Live, trans' = AttachAck(i, j)
          PROVE  k \in Live' => k \in Live /\ trans'[k].status = trans[k].status
      BY <1>0, <2>2, AttachKeeps DEF Live
    <2>3. ASSUME NEW i \in Live, trans' = [trans EXCEPT ![i] = None]
          PROVE  k \in Live' => k \in Live /\ trans'[k].status = trans[k].status
      BY <1>0, <2>3 DEF Live, TypeOK
    <2> QED
      BY <1>2, <2>1, <2>2, <2>3
  <1> QED
    BY <1>0, <1>1, <1>3, SameOrder DEF Held

LEMMA RespondOrder ==
  ASSUME ServerOrderInv, NEW j \in Keys, NEW s \in Provisional \cup Final, Respond(j, s),
         NEW k \in Keys
  PROVE  OrderInv(k)'
  <1>0. OrderInv(k) /\ TypeOK
    BY DEF ServerOrderInv
  <1>1. CASE k # j
    BY <1>0, <1>1, SameOrder DEF Respond, Live, TypeOK, Held, user
  <1>2. CASE k = j
    <2>1. /\ UNCHANGED <<trans, hand, timeouts, used, told>> /\ k \in used
          /\ server[k] < 200 \/ server[k] = s
          /\ net'[k] = Append(net[k], s) /\ server'[k] = s
      BY <1>0, <1>2 DEF Respond, TypeOK, user
    <2>2. /\ HasFinal(k)' <=> HasFinal(k)
          /\ HasTimeout(k)' <=> HasTimeout(k)
          /\ StoredFinal(k)' <=> StoredFinal(k)
          /\ Settled(k)' <=> Settled(k)
      BY <2>1 DEF HasFinal, HasTimeout, StoredFinal, Settled, Live, Held
    <2>3. server[k] < 200 =>
            /\ ~HasFinal(k) /\ ~StoredFinal(k)
            /\ \A t \in Threads : Held(t, k) => ~(hand[t].status >= 200)
            /\ \A i \in 1..Len(net[k]) : ~(net[k][i] >= 200)
      <3>1. server[k] \in Nat
        <4>1. server[k] \in Provisional \cup Final \cup {0, ConnectError}
          BY <1>0 DEF TypeOK
        <4>2. \A x \in Provisional \cup Final : x \in Nat
          BY StatusRange
        <4> QED
          BY <4>1, <4>2 DEF ConnectError
      <3>2. ~HasFinal(k) \/ ~(server[k] < 200)
        BY <1>0, <3>1 DEF OrderInv, ToldInv, HasFinal
      <3>3. ~StoredFinal(k) \/ ~(server[k] < 200)
        BY <1>0, <3>1 DEF OrderInv, ListInv, StoredFinal
      <3>4. \A t \in Threads : Held(t, k) /\ hand[t].status >= 200 => ~(server[k] < 200)
        BY <1>0, <3>1 DEF OrderInv, HandInv
      <3>5. \A i \in 1..Len(net[k]) : net[k][i] >= 200 => ~(server[k] < 200)
        BY <1>0, <3>1 DEF OrderInv, NetInv
      <3> QED
        BY <3>2, <3>3, <3>4, <3>5
    <2>4. Settled(k) \/ (\E i \in 1..Len(net[k]) : net[k][i] >= 200) => server[k] = s
      BY <2>1, <2>3 DEF Settled
    <2>5. NetInv(k)'
      <3>1. s # 0
        BY StatusRange
      <3>2. /\ net[k] \in Seq(Provisional \cup Final) /\ Len(net[k]) \in Nat
            /\ Len(net'[k]) = Len(net[k]) + 1 /\ net'[k][Len(net[k]) + 1] = s
            /\ \A i \in 1..Len(net[k]) : net'[k][i] = net[k][i]
        BY <1>0, <2>1, AppendedSeq DEF TypeOK
      <3>3. \A i \in 1..Len(net'[k]) : i = Len(net[k]) + 1 \/ i \in 1..Len(net[k])
        BY <3>2
      <3>4. \A i, j2 \in 1..Len(net'[k]) : i < j2 => i \in 1..Len(net[k])
        BY <3>2
      <3>5. \A i \in 1..Len(net'[k]) : net'[k][i] >= 200 \/ Settled(k) => net'[k][i] = s
        BY <1>0, <2>4, <3>2, <3>3 DEF OrderInv, NetInv
      <3>6. \A i, j2 \in 1..Len(net'[k]) : i < j2 /\ net'[k][i] >= 200 => net'[k][j2] = s
        BY <1>0, <2>4, <3>2, <3>3, <3>4 DEF OrderInv, NetInv
      <3> QED
        BY <2>1, <2>2, <3>1, <3>5, <3>6 DEF NetInv
    <2>6. HandInv(k)'
      <3>1. \A t \in Threads : Held(t, k)' <=> Held(t, k)
        BY <2>1 DEF Held
      <3>2. \A t \in Threads : Held(t, k) /\ (hand[t].status >= 200 \/ HasFinal(k) \/ StoredFinal(k))
              => hand[t].status = s
        BY <1>0, <2>4 DEF OrderInv, HandInv, Settled
      <3> QED
        BY <1>0, <2>1, <2>2, <3>1, <3>2 DEF OrderInv, HandInv, Live
    <2>7. ListInv(k)'
      BY <1>0, <2>1, <2>2, <2>4 DEF OrderInv, ListInv, Settled, Live
    <2>8. ToldInv(k)'
      <3>1. \A i \in 1..Len(told[k]) :
              told[k][i] >= 200 /\ told[k][i] # RequestTimeout => told[k][i] = s
        BY <1>0, <2>4 DEF OrderInv, ToldInv, Settled, HasFinal
      <3> QED
        BY <1>0, <2>1, <3>1 DEF OrderInv, ToldInv
    <2> QED
      BY <2>5, <2>6, <2>7, <2>8 DEF OrderInv
  <1> QED
    BY <1>1, <1>2

LEMMA ReceiveOrder ==
  ASSUME InOrder, ServerOrderInv, NEW u \in Threads, NEW j \in Keys, NEW n \in 1..Len(net[j]),
         Receive(u, j, n), NEW k \in Keys
  PROVE  OrderInv(k)'
  <1>0. OrderInv(k) /\ TypeOK
    BY DEF ServerOrderInv
  <1> DEFINE s == net[j][n]
             h == [step |-> "insert", key |-> j, status |-> s]
  <1>1. /\ hand' = [hand EXCEPT ![u] = h] /\ hand[u] = None
        /\ net' = [net EXCEPT ![j] = SubSeq(net[j], n + 1, Len(net[j]))]
        /\ UNCHANGED <<trans, timeouts, server, used, told>>
    BY DEF Receive, InOrder, user
  <1>2. hand'[u] = h /\ \A t \in Threads : t = u
    BY <1>0, <1>1 DEF TypeOK, InOrder
  <1>3. h # None /\ h.key = j /\ h.status = s /\ h.step = "insert"
    BY DEF None
  <1>4. CASE k # j
    <2>1. \A t \in Threads : ~Held(t, k)'
      BY <1>2, <1>3, <1>4 DEF Held
    <2>2. net'[k] = net[k]
      BY <1>0, <1>1, <1>4 DEF TypeOK
    <2> QED
      BY <1>0, <1>1, <2>1, <2>2, SameOrder DEF Live
  <1>5. CASE k = j
    <2> DEFINE q == net[k]
               r == SubSeq(q, n + 1, Len(q))
    <2>1. q \in Seq(Provisional \cup Final) /\ Len(q) \in Nat /\ n \in 1..Len(q) /\ s = q[n]
          /\ s \in Provisional \cup Final /\ net'[k] = r
      BY <1>0, <1>1, <1>5 DEF TypeOK
    <2>2. Len(r) = Len(q) - n /\ \A i \in 1..Len(r) : r[i] = q[n + i]
      BY <2>1
    <2> HIDE DEF q, r
    <2>3. \A i \in 1..Len(r) : n + i \in 1..Len(q) /\ n < n + i
      BY <2>1, <2>2
    <2>4. server[k] # 0 /\ k \in used
      BY <1>0, <2>1 DEF OrderInv, NetInv, ListInv, q
    <2>5. s # RequestTimeout
      BY <2>1, StatusRange
    <2> HIDE DEF h, s
    <2>6. /\ HasFinal(k)' <=> HasFinal(k)
          /\ HasTimeout(k)' <=> HasTimeout(k)
          /\ StoredFinal(k)' <=> StoredFinal(k)
      BY <1>1 DEF HasFinal, HasTimeout, StoredFinal, Live
    <2>7. Settled(k)' => Settled(k) \/ s >= 200
      BY <1>2, <1>3, <2>6 DEF Settled, Held
    <2>8. Settled(k) \/ s >= 200 => s = server[k] /\ \A i \in 1..Len(r) : r[i] = server[k]
      BY <1>0, <2>1, <2>2, <2>3 DEF OrderInv, NetInv, q
    <2>9. NetInv(k)'
      <3>1. \A i \in 1..Len(r) : r[i] >= 200 \/ Settled(k)' => r[i] = server[k]
        BY <1>0, <2>2, <2>3, <2>7, <2>8 DEF OrderInv, NetInv, q
      <3>2. \A i, i2 \in 1..Len(r) : i < i2 /\ r[i] >= 200 => r[i2] = server[k]
        <4> SUFFICES ASSUME NEW i \in 1..Len(r), NEW i2 \in 1..Len(r), i < i2, r[i] >= 200
                     PROVE  r[i2] = server[k]
          OBVIOUS
        <4>1. n + i < n + i2 /\ r[i] = q[n + i] /\ r[i2] = q[n + i2]
              /\ n + i \in 1..Len(q) /\ n + i2 \in 1..Len(q)
          BY <2>1, <2>2, <2>3
        <4> QED
          BY <1>0, <4>1 DEF OrderInv, NetInv, q
      <3> QED
        BY <1>1, <2>1, <2>4, <3>1, <3>2 DEF NetInv
    <2>10. HandInv(k)'
      <3>1. s >= 200 \/ HasFinal(k) \/ StoredFinal(k) => s = server[k]
        BY <2>8 DEF Settled
      <3> QED
        BY <1>1, <1>2, <1>3, <2>4, <2>5, <2>6, <3>1 DEF HandInv, Held
    <2>11. ListInv(k)' /\ ToldInv(k)'
      BY <1>0, <1>1, <2>6 DEF OrderInv, ListInv, ToldInv, Live
    <2> QED
      BY <2>9, <2>10, <2>11 DEF OrderInv
  <1> QED
    BY <1>4, <1>5

LEMMA ConnectOrder ==
  ASSUME InOrder, ServerOrderInv, NEW u \in Threads, NEW j \in Keys, ConnectFailed(u, j),
         NEW k \in Keys
  PROVE  OrderInv(k)'
  <1>0. OrderInv(k) /\ TypeOK
    BY DEF ServerOrderInv
  <1> DEFINE h == [step |-> "insert", key |-> j, status |-> ConnectError]
  <1>1. /\ hand' = [hand EXCEPT ![u] = h] /\ j \in used /\ server[j] = 0
        /\ server' = [server EXCEPT ![j] = ConnectError]
        /\ UNCHANGED <<trans, timeouts, net, used, told>>
    BY DEF ConnectFailed, user
  <1>2. hand'[u] = h /\ \A t \in Threads : t = u
    BY <1>0, <1>1 DEF TypeOK, InOrder
  <1>3. h # None /\ h.key = j /\ h.status = ConnectError /\ h.step = "insert"
    BY DEF None
  <1> HIDE DEF h
  <1>4. CASE k # j
    <2>1. \A t \in Threads : ~Held(t, k)'
      BY <1>2, <1>3, <1>4 DEF Held
    <2>2. server'[k] = server[k]
      BY <1>0, <1>1, <1>4 DEF TypeOK
    <2> QED
      BY <1>0, <1>1, <2>1, <2>2, SameOrder DEF Live
  <1>5. CASE k = j
    <2>1. server[k] = 0 /\ net[k] = <<>> /\ server'[k] = ConnectError /\ k \in used
      BY <1>0, <1>1, <1>5 DEF OrderInv, NetInv, TypeOK
    <2>2. /\ HasFinal(k)' <=> HasFinal(k)
          /\ HasTimeout(k)' <=> HasTimeout(k)
          /\ StoredFinal(k)' <=> StoredFinal(k)
      BY <1>1 DEF HasFinal, HasTimeout, StoredFinal, Live
    <2>3. ~HasFinal(k)
      BY <1>0, <2>1 DEF OrderInv, ToldInv, HasFinal
    <2>4. ~StoredFinal(k)
      BY <1>0, <2>1 DEF OrderInv, ListInv, StoredFinal
    <2>5. NetInv(k)'
      BY <1>1, <2>1, StatusRange DEF NetInv
    <2>6. HandInv(k)'
      BY <1>1, <1>2, <1>3, <2>1, StatusRange DEF HandInv, Held
    <2>7. ListInv(k)'
      BY <1>0, <1>1, <2>1, <2>2, <2>3, <2>4 DEF OrderInv, ListInv, Live
    <2>8. ToldInv(k)'
      BY <1>0, <1>1, <2>3 DEF OrderInv, ToldInv, HasFinal
    <2> QED
      BY <2>5, <2>6, <2>7, <2>8 DEF OrderInv
  <1> QED
    BY <1>4, <1>5

LEMMA StoreOrder ==
  ASSUME InOrder, ServerOrderInv, NEW u \in Threads, InsertResponse(u), NEW k \in Keys
  PROVE  OrderInv(k)'
  <1>0. OrderInv(k) /\ TypeOK
    BY DEF ServerOrderInv
  <1> DEFINE j == hand[u].key
             s == hand[u].status
  <1>1. hand[u] \in Task /\ hand[u] # None /\ j \in Keys /\ s \in Statuses /\ s \in Nat /\ s # 0
        /\ hand[u].step = "insert" /\ \A t \in Threads : t = u
    BY <1>0, StatusNotZero DEF InsertResponse, TypeOK, Task, InOrder
  <1>2. UNCHANGED <<net, server, told, timeouts, used>>
    BY DEF InsertResponse, peer
  <1>3. CASE ~(j \in Live /\ IsNew(trans[j], s))
    <2>1. trans' = trans /\ hand' = [hand EXCEPT ![u] = None]
      BY <1>3 DEF InsertResponse
    <2>2. \A t \in Threads : ~Held(t, k)'
      BY <1>0, <1>1, <2>1 DEF TypeOK, Held
    <2> QED
      BY <1>0, <1>2, <2>1, <2>2, SameOrder DEF Live
  <1>4. CASE j \in Live /\ IsNew(trans[j], s)
    <2>1. /\ trans' = [trans EXCEPT ![j] = Store(trans[j], s)]
          /\ hand' = [hand EXCEPT ![u] = [hand[u] EXCEPT !.step = "report"]]
      BY <1>4 DEF InsertResponse
    <2>2. Store(trans[j], s) \in Transaction /\ Store(trans[j], s).status = s
      BY <1>0, <1>1, <1>4, StoreType DEF Live, TypeOK
    <2>3. /\ hand'[u] # None /\ hand'[u].key = j /\ hand'[u].status = s
          /\ hand'[u].step = "report"
      BY <1>0, <1>1, <2>1, NotNone DEF TypeOK, Task
    <2>4. CASE k # j
      <3>1. \A t \in Threads : ~Held(t, k)'
        BY <1>1, <2>3, <2>4 DEF Held
      <3>2. trans'[k] = trans[k]
        BY <1>0, <2>1, <2>4 DEF TypeOK
      <3> QED
        BY <1>0, <1>2, <3>1, <3>2, SameOrder DEF Live
    <2>5. CASE k = j
      <3>1. Live' = Live /\ k \in Live /\ trans'[k].status = s
        BY <1>0, <1>1, <1>4, <2>1, <2>2, <2>5, NotNone DEF Live, TypeOK
      <3>2. /\ s # RequestTimeout /\ k \in used
            /\ s >= 200 \/ HasFinal(k) \/ StoredFinal(k) => s = server[k]
        BY <1>0, <1>1, <2>5 DEF OrderInv, HandInv, Held
      <3>3. trans[k].status # s
        BY <1>4, <2>5 DEF IsNew
      <3>4. ~HasFinal(k)
        BY <1>0, <3>1, <3>2, <3>3 DEF OrderInv, ListInv
      <3>5. /\ ~HasFinal(k)'
            /\ HasTimeout(k)' <=> HasTimeout(k)
            /\ StoredFinal(k)' <=> s >= 200
        BY <1>2, <3>1, <3>4 DEF HasFinal, HasTimeout, StoredFinal
      <3>6. Settled(k)' => Settled(k)
        <4>1. s >= 200 => Settled(k)
          BY <1>1, <2>5 DEF Settled, Held
        <4> QED
          BY <1>1, <2>3, <3>5, <4>1 DEF Settled
      <3>7. NetInv(k)'
        BY <1>0, <1>2, <3>6 DEF OrderInv, NetInv
      <3>8. HandInv(k)'
        BY <1>1, <1>2, <2>3, <3>1, <3>2, <3>5 DEF HandInv, Held
      <3>9. ListInv(k)'
        BY <1>0, <1>2, <3>1, <3>2, <3>5 DEF OrderInv, ListInv
      <3>10. ToldInv(k)'
        BY <1>0, <1>2 DEF OrderInv, ToldInv
      <3> QED
        BY <3>7, <3>8, <3>9, <3>10 DEF OrderInv
    <2> QED
      BY <2>4, <2>5
  <1> QED
    BY <1>3, <1>4

(* What a status more that is told means for the two facts about told.     *)
LEMMA ToldMore ==
  ASSUME TypeOK, NEW k \in Keys, NEW s \in Statuses, told'[k] = Append(told[k], s)
  PROVE  /\ HasFinal(k)' <=> HasFinal(k) \/ (s >= 200 /\ s # RequestTimeout)
         /\ HasTimeout(k)' <=> HasTimeout(k) \/ s = RequestTimeout
         /\ \A i \in 1..Len(told'[k]) :
              i = Len(told[k]) + 1 \/ (i \in 1..Len(told[k]) /\ told'[k][i] = told[k][i])
         /\ told'[k][Len(told[k]) + 1] = s /\ Len(told[k]) \in Nat
  <1>1. /\ Len(told[k]) \in Nat /\ Len(told'[k]) = Len(told[k]) + 1
        /\ \A i \in 1..Len(told[k]) : told'[k][i] = told[k][i]
        /\ told'[k][Len(told[k]) + 1] = s
    <2>1. told[k] \in Seq(Statuses)
      BY DEF TypeOK
    <2> QED
      BY <2>1, AppendedSeq
  <1>2. /\ Len(told[k]) + 1 \in 1..Len(told'[k]) /\ 1..Len(told[k]) \subseteq 1..Len(told'[k])
        /\ \A i \in 1..Len(told'[k]) : i = Len(told[k]) + 1 \/ i \in 1..Len(told[k])
    BY <1>1
  <1> QED
    BY <1>1, <1>2 DEF HasFinal, HasTimeout

LEMMA ReportOrder ==
  ASSUME InOrder, ServerOrderInv, NEW u \in Threads, Report(u), NEW k \in Keys
  PROVE  OrderInv(k)'
  <1>0. OrderInv(k) /\ TypeOK
    BY DEF ServerOrderInv
  <1> DEFINE j == hand[u].key
             s == hand[u].status
  <1>1. hand[u] \in Task /\ hand[u] # None /\ j \in Keys /\ s \in Statuses
        /\ hand[u].step = "report" /\ \A t \in Threads : t = u
    BY <1>0 DEF Report, TypeOK, Task, InOrder
  <1>2. /\ UNCHANGED <<trans, net, server, timeouts, used>>
        /\ hand' = [hand EXCEPT ![u] = None]
        /\ told' = [told EXCEPT ![j] = Append(told[j], s)]
    BY DEF Report, Tell, peer
  <1>3. \A t \in Threads : ~Held(t, k)'
    BY <1>0, <1>1, <1>2 DEF TypeOK, Held
  <1>4. CASE k # j
    <2>1. told'[k] = told[k]
      BY <1>0, <1>2, <1>4 DEF TypeOK
    <2> QED
      BY <1>0, <1>2, <1>3, <2>1, SameOrder DEF Live
  <1>5. CASE k = j
    <2>1. told'[k] = Append(told[k], s)
      BY <1>0, <1>1, <1>2, <1>5 DEF TypeOK
    <2>2. /\ s # RequestTimeout /\ k \in used /\ ~HasFinal(k)
          /\ s >= 200 => s = server[k]
          /\ k \in Live => trans[k].status = s
      BY <1>0, <1>1, <1>5 DEF OrderInv, HandInv, Held
    <2>3. s >= 200 => Settled(k)
      BY <1>1, <1>5 DEF Settled, Held
    <2>4. Held(u, k)
      BY <1>1, <1>5 DEF Held
    <2> HIDE DEF s, j
    <2>5. /\ HasFinal(k)' <=> s >= 200
          /\ HasTimeout(k)' <=> HasTimeout(k)
          /\ StoredFinal(k)' <=> StoredFinal(k)
          /\ Settled(k)' => Settled(k)
      <3>1. /\ HasFinal(k)' <=> s >= 200
            /\ HasTimeout(k)' <=> HasTimeout(k)
        BY <1>0, <1>1, <2>1, <2>2, ToldMore
      <3>2. StoredFinal(k)' <=> StoredFinal(k)
        BY <1>2 DEF StoredFinal, Live
      <3> QED
        BY <1>3, <2>3, <3>1, <3>2 DEF Settled
    <2>6. NetInv(k)'
      BY <1>0, <1>2, <2>5 DEF OrderInv, NetInv
    <2>7. HandInv(k)'
      BY <1>3 DEF HandInv
    <2>8. ListInv(k)'
      BY <1>0, <1>2, <2>2, <2>5 DEF OrderInv, ListInv, Live
    <2>9. ToldInv(k)'
      <3>1. \A i \in 1..Len(told[k]) : told[k][i] >= 200 => told[k][i] = RequestTimeout
        BY <2>2 DEF HasFinal
      <3>2. \A i \in 1..Len(told'[k]) :
              \/ i = Len(told[k]) + 1 /\ told'[k][i] = s
              \/ i \in 1..Len(told[k]) /\ told'[k][i] = told[k][i]
        BY <1>0, <1>1, <2>1, ToldMore
      <3>3. Len(told[k]) \in Nat /\ Len(told'[k]) = Len(told[k]) + 1
        BY <1>0, <2>1, AppendedSeq DEF TypeOK
      <3>4. \A i, i2 \in 1..Len(told'[k]) : i < i2 => i \in 1..Len(told[k])
        BY <3>3
      <3>5. \A i, i2 \in 1..Len(told'[k]) :
              ~(i < i2 /\ told'[k][i] >= 200 /\ told'[k][i] # RequestTimeout)
        BY <3>1, <3>2, <3>4, <3>3
      <3>6. \A i, i2 \in 1..Len(told'[k]) :
              i # i2 /\ told'[k][i] = RequestTimeout => told'[k][i2] # RequestTimeout
        BY <1>0, <2>2, <3>2 DEF OrderInv, ToldInv
      <3>7. \A i \in 1..Len(told'[k]) :
              told'[k][i] >= 200 /\ told'[k][i] # RequestTimeout => told'[k][i] = server[k]
        BY <2>2, <3>1, <3>2
      <3> QED
        BY <1>2, <3>5, <3>6, <3>7 DEF ToldInv
    <2> QED
      BY <2>6, <2>7, <2>8, <2>9 DEF OrderInv
  <1> QED
    BY <1>4, <1>5

LEMMA ExecuteOrder ==
  ASSUME ServerOrderInv, Execute, NEW k \in Keys
  PROVE  OrderInv(k)'
  <1>0. OrderInv(k) /\ TypeOK
    BY DEF ServerOrderInv
  <1>1. UNCHANGED <<net, server, told, hand, used>>
        /\ timeouts' = {i \in Live : GivenUp(trans[i]) \/ RungOut(trans[i])}
    BY DEF Execute, peer
  <1>2. k \in Live' => /\ k \in Live /\ k \notin timeouts'
                       /\ trans'[k] \in {trans[k], [trans[k] EXCEPT !.resend = @ + 1]}
    BY DEF Execute, Live
  <1>3. k \in Live' => trans'[k].status = trans[k].status
    <2> SUFFICES ASSUME k \in Live' PROVE trans'[k].status = trans[k].status
      OBVIOUS
    <2>1. trans[k] \in Transaction
      BY <1>0, <1>2 DEF TypeOK, Live
    <2> QED
      BY <1>2, <2>1 DEF Transaction
  <1> QED
    BY <1>0, <1>1, <1>2, <1>3, SameOrder DEF Held

LEMMA TimeoutOrder ==
  ASSUME ServerOrderInv, NEW j \in Keys, ReportTimeout(j), NEW k \in Keys
  PROVE  OrderInv(k)'
  <1>0. OrderInv(k) /\ TypeOK
    BY DEF ServerOrderInv
  <1>1. /\ UNCHANGED <<trans, net, server, hand, used>>
        /\ j \in timeouts /\ timeouts' = timeouts \ {j}
        /\ told' = [told EXCEPT ![j] = Append(told[j], RequestTimeout)]
    BY DEF ReportTimeout, Tell, peer
  <1>2. CASE k # j
    <2>1. told'[k] = told[k]
      BY <1>0, <1>1, <1>2 DEF TypeOK
    <2> QED
      BY <1>0, <1>1, <2>1, SameOrder DEF Live, Held
  <1>3. CASE k = j
    <2>1. told'[k] = Append(told[k], RequestTimeout) /\ RequestTimeout \in Statuses
      BY <1>0, <1>1, <1>3 DEF TypeOK, Statuses
    <2>2. ~HasTimeout(k) /\ k \in used /\ k \notin Live /\ k \notin timeouts'
      BY <1>0, <1>1, <1>3 DEF OrderInv, ListInv
    <2>3. /\ HasFinal(k)' <=> HasFinal(k)
          /\ StoredFinal(k)' <=> StoredFinal(k)
          /\ Settled(k)' <=> Settled(k)
      <3>1. HasFinal(k)' <=> HasFinal(k)
        BY <1>0, <2>1, ToldMore
      <3>2. StoredFinal(k)' <=> StoredFinal(k)
        BY <1>1 DEF StoredFinal, Live
      <3> QED
        BY <1>1, <3>1, <3>2 DEF Settled, Held
    <2>4. NetInv(k)'
      BY <1>0, <1>1, <2>3 DEF OrderInv, NetInv
    <2>5. HandInv(k)'
      BY <1>0, <1>1, <2>3 DEF OrderInv, HandInv, Held, Live
    <2>6. ListInv(k)'
      BY <1>0, <1>1, <2>2, <2>3 DEF OrderInv, ListInv, StoredFinal, Live
    <2>7. ToldInv(k)'
      <3>1. \A i \in 1..Len(told[k]) : told[k][i] # RequestTimeout
        BY <2>2 DEF HasTimeout
      <3>2. \A i \in 1..Len(told'[k]) :
              \/ i = Len(told[k]) + 1 /\ told'[k][i] = RequestTimeout
              \/ i \in 1..Len(told[k]) /\ told'[k][i] = told[k][i]
        BY <1>0, <2>1, ToldMore
      <3> QED
        BY <1>0, <1>1, <3>1, <3>2 DEF OrderInv, ToldInv
    <2> QED
      BY <2>4, <2>5, <2>6, <2>7 DEF OrderInv
  <1> QED
    BY <1>2, <1>3

Aged(x) == [x EXCEPT !.start = Older(@), !.stop = Older(@), !.ring = Older(@)]

LEMMA StepOrder ==
  ASSUME InOrder, ServerOrderInv, [Next]_vars
  PROVE  ServerOrderInv'
  <1>1. TypeOK /\ TypeOK'
    BY StepType DEF ServerOrderInv
  <1> SUFFICES ASSUME NEW k \in Keys PROVE OrderInv(k)'
    BY <1>1 DEF ServerOrderInv
  <1>2. OrderInv(k)
    BY DEF ServerOrderInv
  <1>3. CASE Tick
    <2>1. k \in Live' => k \in Live /\ trans'[k].status = trans[k].status
      <3>1. trans' = [i \in Keys |-> IF i \notin Live THEN None ELSE Aged(trans[i])]
        BY <1>3 DEF Tick, Aged
      <3>2. k \in Live' => k \in Live /\ trans'[k] = Aged(trans[k])
        BY <3>1 DEF Live
      <3>3. k \in Live => trans[k] \in Transaction
        BY <1>1 DEF Live, TypeOK
      <3> QED
        BY <3>2, <3>3 DEF Aged, Transaction
    <2> QED
      BY <1>2, <1>3, <2>1, SameOrder DEF Tick, Held, peer, user
  <1>4. CASE Stop
    <2>1. k \notin Live'
      BY <1>4 DEF Stop, Live
    <2> QED
      BY <1>2, <1>4, <2>1, SameOrder DEF Stop, Held, peer, user
  <1>5. CASE UNCHANGED vars
    BY <1>2, <1>5, SameOrder DEF vars, Held, Live
  <1> QED
    BY <1>3, <1>4, <1>5, InviteOrder, AckOrder, RespondOrder, ReceiveOrder, ConnectOrder,
       StoreOrder, ReportOrder, ExecuteOrder, TimeoutOrder DEF Next

(* When responses reach the list in the order in which the server sent     *)
(* them, the TU learns of one final response at most and of nothing from   *)
(* the server after it, and of one timeout at most, though the server      *)
(* repeats its final response, the list forgets a transaction while a      *)
(* response to it is being reported, and the stack thread's timeouts are   *)
(* reported between any two reports of the receive thread.                 *)
THEOREM ServerOrderKept ==
  ASSUME InOrder PROVE Spec => []TUSeesServerOrder
  <1>1. ServerOrderInv /\ [Next]_vars => ServerOrderInv'
    BY StepOrder
  <1> QED
    BY InitOrder, <1>1, OrderGives, PTL DEF Spec
-----------------------------------------------------------------------------
(* The server transactions.  ServerAssumption is what SipISTList assumes   *)
(* of the constants that SipICTList does not have.                         *)
CONSTANTS RequestOf, ServerFinal, DeleteTime, MaxCopies
VARIABLES ist, serverHand, serverTimeouts, copies, sent, asked, answer,
          serverAcked, failed, serverRunning

IST == INSTANCE SipISTList WITH
  Final <- ServerFinal, trans <- ist, hand <- serverHand,
  timeouts <- serverTimeouts, acked <- serverAcked, running <- serverRunning

ServerAssumption ==
  /\ ServerFinal \subseteq 200..699
  /\ DeleteTime \in 0..MaxAge /\ MaxCopies \in [Keys -> Nat]
  /\ RequestOf \in [Keys -> Calls \X Nat]

LEMMA ServerStatusNotZero ==
  ASSUME ServerAssumption, NEW s \in IST!Statuses
  PROVE  s # 0 /\ s \in Nat /\ (s >= 200 <=> s \in ServerFinal)
  BY StatusAssumption, TimeAssumption DEF ServerAssumption, IST!Statuses

LEMMA ServerLowestFinal == ASSUME ServerAssumption,
         NEW s \in ServerFinal, s <= IST!Ok PROVE s = IST!Ok
  BY StatusAssumption, TimeAssumption DEF ServerAssumption, IST!Ok

LEMMA ServerOlderType ==
  ASSUME ServerAssumption, NEW a \in IST!Ages
  PROVE  IST!Older(a) \in IST!Ages /\ (IST!Older(a) = IST!NoTime <=> a = IST!NoTime)
  BY StatusAssumption, TimeAssumption
     DEF ServerAssumption, IST!Ages, IST!Older, IST!NoTime

LEMMA ServerZeroAge ==
  ASSUME ServerAssumption
  PROVE 0 \in IST!Ages /\ IST!NoTime \in IST!Ages /\ IST!NoTime # 0
  BY StatusAssumption, TimeAssumption DEF ServerAssumption, IST!Ages, IST!NoTime

LEMMA ServerNewType ==
  ASSUME ServerAssumption
  PROVE
  /\ IST!NewTransaction \in IST!Transaction
  /\ IST!NewTransaction.status = 0 /\ IST!NewTransaction.resend # IST!MaxReSend
  /\ ~IST!Stopped(IST!NewTransaction)
  BY ServerZeroAge, TimeAssumption
     DEF IST!NewTransaction, IST!Transaction, IST!MaxReSend, IST!Stopped

LEMMA ServerNotNone ==
  ASSUME ServerAssumption
  PROVE IST!None \notin IST!Transaction /\ IST!None \notin IST!Task
  BY DEF IST!None, IST!Transaction, IST!Task

LEMMA ServerSentType ==
  ASSUME ServerAssumption, sent \in [Keys -> SUBSET ServerFinal], NEW k \in Keys, NEW s
  PROVE  IST!Sent(k, s) \in [Keys -> SUBSET ServerFinal]
  BY DEF IST!Sent

(* What the operations make of a transaction. *)
Same(x, y) == y.status = x.status /\ (IST!Stopped(y) <=> IST!Stopped(x))

LEMMA ServerStoreType ==
  ASSUME ServerAssumption, NEW x \in IST!Transaction, NEW s \in IST!Statuses
  PROVE  /\ IST!Store(x, s) \in IST!Transaction /\ IST!Store(x, s).status = s
         /\ IST!Store(x, s).resend = x.resend /\ (IST!Stopped(IST!Store(x,
                  s)) <=> IST!Stopped(x))
  BY ServerZeroAge DEF IST!Store, IST!Transaction, IST!Stopped

LEMMA ServerReSendType ==
  ASSUME ServerAssumption,
           NEW x \in IST!Transaction, IST!Due(x),
                    x.resend = IST!MaxReSend => IST!Stopped(x)
  PROVE  /\ IST!ReSend(x) \in IST!Transaction /\ IST!ReSend(x).status = x.status
         /\ IST!ReSend(x).resend = IST!MaxReSend => IST!Stopped(IST!ReSend(x))
         /\ IST!Stopped(IST!ReSend(x)) => IST!GivenUp(x)
         /\ x.status \in ServerFinal
  <1>1. IST!MaxReSend \in Nat
    BY StatusAssumption, TimeAssumption DEF ServerAssumption, IST!MaxReSend
  <1>2. x.resend \in 0 .. IST!MaxReSend /\ x.resend # IST!MaxReSend /\ x.stop = IST!NoTime
    BY DEF IST!Due, IST!Transaction, IST!Stopped
  <1>3. x.resend + 1 \in 0 .. IST!MaxReSend
    BY <1>1, <1>2
  <1> DEFINE z == IF IST!GivenUp(x) THEN 0 ELSE x.stop
  <1>4. z \in IST!Ages /\ (IST!GivenUp(x) <=> z # IST!NoTime)
    BY <1>2, ServerZeroAge
  <1>5. x.resend + 1 = IST!MaxReSend => IST!GivenUp(x)
    BY DEF IST!GivenUp
  <1>6. IST!ReSend(x) = [x EXCEPT !.resend = x.resend + 1, !.stop = z]
    BY DEF IST!ReSend
  <1> HIDE DEF z
  <1>7. /\ IST!ReSend(x) \in IST!Transaction /\ IST!ReSend(x).status = x.status
        /\ IST!ReSend(x).resend = x.resend + 1 /\ IST!ReSend(x).stop = z
    BY <1>3, <1>4, <1>6 DEF IST!Transaction
  <1>8. x.status \in ServerFinal
    BY ServerStatusNotZero DEF IST!Due, IST!Transaction
  <1> QED
    BY <1>4, <1>5, <1>7, <1>8 DEF IST!Stopped

LEMMA ServerAgeType ==
  ASSUME ServerAssumption, NEW x \in IST!Transaction
  PROVE  LET y == [x EXCEPT !.start = IST!Older(@), !.stop = IST!Older(@)]
         IN  y \in IST!Transaction /\ y.resend = x.resend /\ Same(x, y)
  BY ServerOlderType DEF IST!Transaction, Same, IST!Stopped

LEMMA ServerAckType ==
  ASSUME ServerAssumption, NEW x \in IST!Transaction, NEW k \in Keys
  PROVE  LET y == [x EXCEPT !.ack = {k}, !.stop = 0]
         IN  y \in IST!Transaction /\ y.status = x.status /\ IST!Stopped(y)
  BY ServerZeroAge DEF IST!Transaction, IST!Stopped

-----------------------------------------------------------------------------
(* Which transaction an ACK ends.                                          *)
LEMMA ServerAckEnds ==
  ASSUME ServerAssumption, IST!TypeOK, NEW t \in Threads, NEW k \in Keys,
           NEW s \in ServerFinal, IST!InsertAck(t, k, s)
  PROVE  \/ ist' = ist
         \/ \E j \in IST!Live : ist' = IST!AttachAck(j,
                  k) /\ (j = k \/ RequestOf[j] = RequestOf[k])
  <1>1. CASE k \in IST!Live /\ s \notin 200..299
    BY <1>1 DEF IST!InsertAck
  <1>2. CASE ~(k \in IST!Live /\ s \notin 200..299)
    <2>1. CASE \E j \in IST!AckCandidates(k) : ist' = IST!AttachAck(j, k)
      BY <2>1 DEF IST!AckCandidates
    <2> QED
      BY <1>2, <2>1 DEF IST!InsertAck
  <1> QED
    BY <1>1, <1>2

LEMMA ServerAttachType ==
  ASSUME ServerAssumption, IST!TypeOK, NEW j \in IST!Live,
           NEW k \in Keys, ist' = IST!AttachAck(j, k)
  PROVE  /\ ist' \in [Keys -> IST!Transaction \cup {IST!None}]
         /\ \A i \in Keys : i # j => ist'[i] = ist[i]
         /\ IF ist[j].status = IST!Unauthorized THEN ist'[j] = IST!None
            ELSE ist'[j] # IST!None /\ ist'[j].status = ist[j].status /\ IST!Stopped(ist'[j])
  <1> DEFINE y == [ist[j] EXCEPT !.ack = {k}, !.stop = 0]
  <1>1. j \in Keys /\ ist[j] \in IST!Transaction
    BY DEF IST!Live, IST!TypeOK
  <1>2. y \in IST!Transaction /\ y.status = ist[j].status /\ IST!Stopped(y) /\ y # IST!None
    BY <1>1, ServerAckType, ServerNotNone
  <1>3. ist' = [ist EXCEPT ![j] = IF ist[j].status = IST!Unauthorized THEN IST!None ELSE y]
    BY DEF IST!AttachAck
  <1> HIDE DEF y
  <1> QED
    BY <1>1, <1>2, <1>3 DEF IST!TypeOK

-----------------------------------------------------------------------------
LEMMA ServerInitType ==
  ASSUME ServerAssumption PROVE IST!Init => IST!TypeOK
  BY StatusAssumption, TimeAssumption
     DEF ServerAssumption, IST!Init, IST!TypeOK, IST!Live

LEMMA ServerStepType ==
  ASSUME ServerAssumption
  PROVE IST!TypeOK /\ [IST!Next]_(IST!vars) => IST!TypeOK'
  <1> SUFFICES ASSUME IST!TypeOK, [IST!Next]_(IST!vars) PROVE IST!TypeOK'
    OBVIOUS
  <1>1. ASSUME NEW t \in Threads, NEW k \in Keys, IST!InsertInvite(t, k)
  PROVE IST!TypeOK'
    <2>1. copies' \in [Keys -> Nat]
      BY <1>1 DEF IST!InsertInvite, IST!TypeOK
    <2>2. CASE k \in IST!Live
      <3>1. sent' \in [Keys -> SUBSET ServerFinal]
        BY <1>1, <2>2, ServerSentType DEF IST!InsertInvite, IST!TypeOK
      <3> QED
        BY <1>1, <2>1, <2>2, <3>1 DEF IST!InsertInvite, IST!TypeOK, IST!Live
    <2>3. CASE k \notin IST!Live
      <3>1. /\ ist' = [ist EXCEPT ![k] = IST!NewTransaction]
            /\ serverHand' = [serverHand EXCEPT ![t] = [step |-> "report", key |-> k]]
            /\ answer' = [answer EXCEPT ![k] = 0]
            /\ serverAcked' = serverAcked \ {k} /\ failed' = failed \ {k}
            /\ UNCHANGED <<sent, serverTimeouts, asked, serverRunning>>
        BY <1>1, <2>3 DEF IST!InsertInvite
      <3>2. ist' \in [Keys -> IST!Transaction \cup {IST!None}]
        BY <3>1, ServerNewType DEF IST!TypeOK
      <3>3. \A j \in IST!Live' : ist'[j].resend = IST!MaxReSend => IST!Stopped(ist'[j])
        BY <3>1, ServerNewType DEF IST!TypeOK, IST!Live
      <3>4. [step |-> "report", key |-> k] \in IST!Task
        BY DEF IST!Task
      <3> QED
        BY <2>1, <3>1, <3>2, <3>3, <3>4 DEF IST!TypeOK
    <2> QED
      BY <2>2, <2>3
  <1>2. ASSUME NEW t \in Threads, NEW k \in Keys, NEW s \in ServerFinal,
           IST!InsertAck(t, k, s)
        PROVE  IST!TypeOK'
    <2>1. /\ UNCHANGED <<serverHand, serverTimeouts, copies, sent, asked, answer, failed,
             serverRunning>>
          /\ serverAcked' = serverAcked \cup {k}
      BY <1>2 DEF IST!InsertAck
    <2>2. CASE ist' = ist
      BY <2>1, <2>2 DEF IST!TypeOK, IST!Live
    <2>3. ASSUME NEW j \in IST!Live, ist' = IST!AttachAck(j, k)
    PROVE IST!TypeOK'
      <3>1. \A i \in IST!Live' : ist'[i].resend = IST!MaxReSend => IST!Stopped(ist'[i])
        BY <2>3, ServerAttachType DEF IST!TypeOK, IST!Live
      <3>2. ist' \in [Keys -> IST!Transaction \cup {IST!None}]
        BY <2>3, ServerAttachType
      <3> QED
        BY <2>1, <3>1, <3>2 DEF IST!TypeOK
    <2> QED
      BY <1>2, <2>2, <2>3, ServerAckEnds
  <1>3. ASSUME NEW t \in Threads, IST!Report(t) PROVE IST!TypeOK'
    <2>1. serverHand[t].key \in Keys
      BY <1>3 DEF IST!Report, IST!TypeOK, IST!Task
    <2> QED
      BY <1>3, <2>1 DEF IST!Report, IST!TypeOK, IST!Live
  <1>4. ASSUME NEW t \in Threads, NEW k \in Keys,
           NEW s \in IST!Statuses, IST!InsertResponse(t, k, s)
        PROVE  IST!TypeOK'
    <2>1. ist[k] \in IST!Transaction /\ k \in IST!Live
      BY <1>4 DEF IST!InsertResponse, IST!TypeOK, IST!Live
    <2>2. ist' = [ist EXCEPT ![k] = IST!Store(ist[k], s)]
      BY <1>4 DEF IST!InsertResponse
    <2>3. ist' \in [Keys -> IST!Transaction \cup {IST!None}]
      BY <2>1, <2>2, ServerStoreType DEF IST!TypeOK
    <2>4. \A j \in IST!Live' : ist'[j].resend = IST!MaxReSend => IST!Stopped(ist'[j])
      <3>1. \A j \in Keys : j # k => ist'[j] = ist[j]
        BY <2>2 DEF IST!TypeOK
      <3>2. ist'[k] = IST!Store(ist[k], s)
        BY <2>2 DEF IST!TypeOK
      <3> QED
        BY <2>1, <3>1, <3>2, ServerStoreType DEF IST!TypeOK, IST!Live
    <2>5. [step |-> "send", key |-> k, status |-> s] \in IST!Task
      BY DEF IST!Task
    <2>6. answer' \in [Keys -> ServerFinal \cup {0}]
      BY <1>4, ServerStatusNotZero DEF IST!InsertResponse, IST!TypeOK
    <2> QED
      BY <1>4, <2>3, <2>4, <2>5, <2>6 DEF IST!InsertResponse, IST!TypeOK
  <1>5. ASSUME NEW t \in Threads, IST!Send(t) PROVE IST!TypeOK'
    <2>1. serverHand[t].key \in Keys
      BY <1>5 DEF IST!Send, IST!TypeOK, IST!Task
    <2>2. sent' \in [Keys -> SUBSET ServerFinal]
      BY <1>5, <2>1, ServerSentType DEF IST!Send, IST!TypeOK
    <2> QED
      BY <1>5, <2>2 DEF IST!Send, IST!TypeOK, IST!Live
  <1>6. CASE IST!Execute
    <2>1. ASSUME NEW k \in IST!Live, IST!Due(ist[k])
          PROVE  /\ IST!ReSend(ist[k]) \in IST!Transaction
                 /\ IST!ReSend(ist[k]).resend = IST!MaxReSend => IST!Stopped(IST!ReSend(ist[k]))
                 /\ ist[k].status \in ServerFinal
      BY <2>1, ServerReSendType DEF IST!TypeOK, IST!Live
    <2>2. ist' \in [Keys -> IST!Transaction \cup {IST!None}]
      BY <1>6, <2>1 DEF IST!Execute, IST!TypeOK
    <2>3. \A k \in IST!Live' : ist'[k].resend = IST!MaxReSend => IST!Stopped(ist'[k])
      BY <1>6, <2>1 DEF IST!Execute, IST!TypeOK, IST!Live
    <2>4. sent' \in [Keys -> SUBSET ServerFinal]
      BY <1>6, <2>1 DEF IST!Execute, IST!TypeOK
    <2> QED
      BY <1>6, <2>2, <2>3, <2>4 DEF IST!Execute, IST!TypeOK, IST!Live
  <1>7. ASSUME NEW k \in Keys, IST!ReportTimeout(k) PROVE IST!TypeOK'
    BY <1>7 DEF IST!ReportTimeout, IST!TypeOK, IST!Live
  <1>8. CASE IST!Tick
    <2> DEFINE aged(x) == [x EXCEPT !.start = IST!Older(@), !.stop = IST!Older(@)]
    <2>1. ASSUME NEW k \in IST!Live
          PROVE  /\ aged(ist[k]) \in IST!Transaction
                 /\ aged(ist[k]).resend = IST!MaxReSend => IST!Stopped(aged(ist[k]))
      <3>1. ist[k] \in IST!Transaction /\ (ist[k].resend = IST!MaxReSend => IST!Stopped(ist[k]))
        BY DEF IST!TypeOK, IST!Live
      <3> QED
        BY <3>1, ServerAgeType DEF Same
    <2>2. ist' = [k \in Keys |-> IF k \notin IST!Live THEN IST!None ELSE aged(ist[k])]
      BY <1>8 DEF IST!Tick
    <2> HIDE DEF aged
    <2>3. ist' \in [Keys -> IST!Transaction \cup {IST!None}]
      BY <2>1, <2>2
    <2>4. \A k \in IST!Live' : ist'[k].resend = IST!MaxReSend => IST!Stopped(ist'[k])
      BY <2>1, <2>2 DEF IST!Live
    <2> QED
      BY <1>8, <2>3, <2>4 DEF IST!Tick, IST!TypeOK
  <1>9. CASE IST!Stop
    BY <1>9 DEF IST!Stop, IST!TypeOK, IST!Live
  <1>10. CASE UNCHANGED IST!vars
    BY <1>10 DEF IST!vars, IST!TypeOK, IST!Live
  <1> QED
    BY <1>1, <1>2, <1>3, <1>4, <1>5, <1>6, <1>7, <1>8, <1>9, <1>10 DEF IST!Next

(* Every variable of the list has its type in every state: in particular   *)
(* the index into m_arrICTReSendTime that Execute reads is in range,       *)
(* whichever of 1xx, 2xx and later responses the TU gives, and when.       *)
THEOREM ServerTypeCorrect ==
  ASSUME ServerAssumption PROVE IST!Spec => []IST!TypeOK
  BY ServerInitType, ServerStepType, PTL DEF IST!Spec

-----------------------------------------------------------------------------
(* IsEqualCallIdSeq finds the INVITE that is acknowledged.                 *)
OneInvitePerSeq == \A j, k \in Keys : RequestOf[j] = RequestOf[k] => j = k

Known(k) == k \in serverAcked \cup serverTimeouts \cup failed

(* CallAccounted is not inductive: a transaction that is to be deleted may *)
(* belong to a 200 only if that has been accounted for.                    *)
CallInv ==
  /\ IST!TypeOK
  /\ \A k \in IST!Live : answer[k] = IST!Ok => ist[k].status = IST!Ok
  /\ \A k \in IST!Live : IST!Stopped(ist[k]) /\ ist[k].status <= IST!Ok => Known(k)
  /\ IST!CallAccounted

LEMMA ServerInitCall ==
  ASSUME ServerAssumption PROVE IST!Init => CallInv
  BY ServerInitType DEF IST!Init, CallInv, IST!CallAccounted, IST!Live, IST!Ok

LEMMA ServerStepCall ==
  ASSUME ServerAssumption, OneInvitePerSeq, CallInv, [IST!Next]_(IST!vars)
  PROVE  CallInv'
  <1>0. IST!TypeOK /\ IST!TypeOK'
    BY ServerStepType DEF CallInv
  <1>a. ASSUME IST!Live' \subseteq IST!Live, answer' = answer,
           serverRunning' => serverRunning,
               \A j \in Keys : Known(j) => Known(j)',
               \A j \in IST!Live : answer[j] = IST!Ok /\ j \notin IST!Live' => Known(j)' \/ ~serverRunning',
               \A j \in IST!Live' :
                 /\ ist'[j].status = ist[j].status
                 /\ IST!Stopped(ist'[j]) /\ ist[j].status <= IST!Ok =>
                      IST!Stopped(ist[j]) \/ Known(j)'
        PROVE  CallInv'
    BY <1>0, <1>a DEF CallInv, IST!CallAccounted, IST!Accounted, Known, IST!Live
  <1>1. ASSUME NEW t \in Threads, NEW k \in Keys, IST!InsertInvite(t, k) PROVE CallInv'
    <2>1. CASE k \in IST!Live
      BY <1>0, <1>1, <2>1
         DEF IST!InsertInvite, CallInv, IST!CallAccounted, IST!Accounted, Known,
                  IST!Live
    <2>2. CASE k \notin IST!Live
      <3>1. /\ ist' = [ist EXCEPT ![k] = IST!NewTransaction]
            /\ answer' = [answer EXCEPT ![k] = 0]
            /\ serverAcked' = serverAcked \ {k} /\ failed' = failed \ {k}
            /\ UNCHANGED <<serverTimeouts, serverRunning>>
        BY <1>1, <2>2 DEF IST!InsertInvite
      <3>2. /\ ist'[k] = IST!NewTransaction /\ answer'[k] = 0
            /\ \A j \in Keys : j # k => ist'[j] = ist[j] /\ answer'[j] = answer[j]
        BY <1>0, <3>1 DEF IST!TypeOK
      <3>3. \A j \in Keys : j # k => (Known(j)' <=> Known(j)) /\ (j \in IST!Live' <=> j \in IST!Live)
        BY <3>1, <3>2 DEF Known, IST!Live
      <3>4. \A j \in IST!Live' : answer'[j] = IST!Ok => ist'[j].status = IST!Ok
        BY <3>2, <3>3 DEF CallInv, IST!Live, IST!Ok
      <3>5. \A j \in IST!Live' : IST!Stopped(ist'[j]) /\ ist'[j].status <= IST!Ok => Known(j)'
        BY <3>2, <3>3, ServerNewType DEF CallInv, IST!Live
      <3>6. IST!CallAccounted'
        BY <3>1, <3>2, <3>3
           DEF CallInv, IST!CallAccounted, IST!Accounted, Known, IST!Ok
      <3> QED
        BY <1>0, <3>4, <3>5, <3>6 DEF CallInv
    <2> QED
      BY <2>1, <2>2
  <1>2. ASSUME NEW t \in Threads, NEW k \in Keys, NEW s \in ServerFinal,
           IST!InsertAck(t, k, s)
        PROVE  CallInv'
    <2>1. /\ UNCHANGED <<serverTimeouts, answer, failed, serverRunning>>
          /\ serverAcked' = serverAcked \cup {k}
      BY <1>2 DEF IST!InsertAck
    <2>2. \A j \in Keys : Known(j) => Known(j)'
      BY <2>1 DEF Known
    <2>3. Known(k)'
      BY <2>1 DEF Known
    <2>4. CASE ist' = ist
      BY <1>a, <2>1, <2>2, <2>4 DEF IST!Live
    <2>5. CASE k \in IST!Live /\ ist' = IST!AttachAck(k, k)
      <3>1. /\ \A i \in Keys : i # k => ist'[i] = ist[i]
            /\ \/ ist'[k] = IST!None
               \/ ist'[k] # IST!None /\ ist'[k].status = ist[k].status
        BY <1>0, <2>5, ServerAttachType
      <3>2. IST!Live' \subseteq IST!Live /\ (\A j \in IST!Live : j \notin IST!Live' => j = k)
        BY <2>5, <3>1 DEF IST!Live
      <3>3. \A j \in IST!Live' : ist'[j].status = ist[j].status /\ (j # k => ist'[j] = ist[j])
        BY <3>1 DEF IST!Live
      <3> QED
        BY <1>a, <2>1, <2>2, <2>3, <3>2, <3>3 DEF IST!Live
    <2> QED
      BY <1>0, <1>2, <2>4, <2>5, ServerAckEnds DEF OneInvitePerSeq, IST!Live
  <1>3. ASSUME NEW t \in Threads, IST!Report(t) \/ IST!Send(t) PROVE CallInv'
    <2>1. UNCHANGED <<ist, serverTimeouts, answer, serverAcked, failed,
             serverRunning>>
      BY <1>3 DEF IST!Report, IST!Send
    <2> QED
      BY <1>a, <2>1 DEF IST!Live, Known
  <1>4. ASSUME NEW t \in Threads, NEW k \in Keys,
           NEW s \in IST!Statuses, IST!InsertResponse(t, k, s)
        PROVE  CallInv'
    <2>1. k \in IST!Live /\ s > ist[k].status /\ ist[k] \in IST!Transaction
      BY <1>0, <1>4 DEF IST!InsertResponse, IST!TypeOK, IST!Live
    <2>2. /\ ist' = [ist EXCEPT ![k] = IST!Store(ist[k], s)]
          /\ answer' = [answer EXCEPT ![k] = IF s >= 200 THEN s ELSE @]
          /\ UNCHANGED <<serverTimeouts, serverAcked, failed, serverRunning>>
      BY <1>4 DEF IST!InsertResponse
    <2>3. /\ ist'[k] = IST!Store(ist[k], s)
          /\ answer'[k] = IF s >= 200 THEN s ELSE answer[k]
          /\ \A j \in Keys : j # k => ist'[j] = ist[j] /\ answer'[j] = answer[j]
      BY <1>0, <2>1, <2>2 DEF IST!TypeOK, IST!Live
    <2>4. ist'[k].status = s /\ (IST!Stopped(ist'[k]) <=> IST!Stopped(ist[k])) /\ ist'[k] # IST!None
      BY <2>1, <2>3, ServerStoreType, ServerNotNone
    <2>5. IST!Live' = IST!Live
      BY <2>1, <2>3, <2>4 DEF IST!Live
    <2>6. s \in Nat /\ ist[k].status \in Nat
      BY <2>1, ServerStatusNotZero DEF IST!Transaction
    <2>7. \A j \in Keys : Known(j)' <=> Known(j)
      BY <2>2 DEF Known
    <2>8. \A j \in IST!Live' : answer'[j] = IST!Ok => ist'[j].status = IST!Ok
      <3>1. answer[k] = IST!Ok => ist[k].status = IST!Ok
        BY <2>1 DEF CallInv
      <3>2. answer'[k] = IST!Ok => s = IST!Ok
        BY <2>1, <2>3, <2>6, <3>1 DEF IST!Ok
      <3>3. \A j \in IST!Live : j # k /\ answer'[j] = IST!Ok => ist'[j].status = IST!Ok
        BY <2>3 DEF CallInv, IST!Live
      <3> QED
        BY <2>4, <2>5, <3>2, <3>3
    <2>9. \A j \in IST!Live' : IST!Stopped(ist'[j]) /\ ist'[j].status <= IST!Ok => Known(j)'
      <3>1. IST!Stopped(ist'[k]) /\ ist'[k].status <= IST!Ok => Known(k)'
        BY <2>1, <2>4, <2>6, <2>7 DEF CallInv, IST!Ok, IST!Live
      <3> QED
        BY <2>3, <2>5, <2>7, <3>1 DEF CallInv, IST!Live
    <2>10. IST!CallAccounted'
      BY <2>1, <2>2, <2>3, <2>5 DEF CallInv, IST!CallAccounted, IST!Accounted
    <2> QED
      BY <1>0, <2>8, <2>9, <2>10 DEF CallInv
  <1>5. CASE IST!Execute
    <2>1. ASSUME NEW j \in IST!Live'
          PROVE  /\ j \in IST!Live /\ ~IST!Expired(ist[j])
                 /\ ist'[j] = IF IST!Due(ist[j]) THEN IST!ReSend(ist[j]) ELSE ist[j]
      BY <1>5 DEF IST!Execute, IST!Live
    <2>2. ASSUME NEW j \in IST!Live, IST!Due(ist[j])
          PROVE  /\ ist[j] \in IST!Transaction /\ IST!ReSend(ist[j]) \in IST!Transaction
                 /\ IST!ReSend(ist[j]).status = ist[j].status
                 /\ IST!Stopped(IST!ReSend(ist[j])) => IST!GivenUp(ist[j])
                 /\ ist[j].status \in ServerFinal
      BY <1>0, <2>2, ServerReSendType DEF IST!TypeOK, IST!Live
    <2>3. \A j \in IST!Live : j \notin IST!Live' => IST!Expired(ist[j])
      <3>1. ASSUME NEW j \in IST!Live, ~IST!Expired(ist[j])
      PROVE j \in IST!Live'
        <4>1. ist'[j] = IF IST!Due(ist[j]) THEN IST!ReSend(ist[j]) ELSE ist[j]
          BY <1>5, <3>1 DEF IST!Execute, IST!Live
        <4> QED
          BY <2>2, <4>1, ServerNotNone DEF IST!Live
      <3> QED
        BY <3>1
    <2>4. UNCHANGED <<answer, serverAcked, failed, serverRunning>> /\ serverTimeouts = {}
          /\ serverTimeouts' = {j \in IST!Live : IST!GivenUp(ist[j]) /\ ist[j].status = IST!Ok}
      BY <1>5 DEF IST!Execute
    <2>5. \A j \in Keys : Known(j) => Known(j)'
      BY <2>4 DEF Known
    <2>6. ASSUME NEW j \in IST!Live, answer[j] = IST!Ok, j \notin IST!Live'
    PROVE Known(j)'
      <3>1. IST!Stopped(ist[j]) /\ ist[j].status = IST!Ok
        BY <2>3, <2>6 DEF IST!Expired, CallInv
      <3> QED
        BY <2>5, <3>1 DEF CallInv, IST!Ok, IST!Live
    <2>7. ASSUME NEW j \in IST!Live', IST!Stopped(ist'[j]),
             ist[j].status <= IST!Ok
          PROVE  IST!Stopped(ist[j]) \/ Known(j)'
      <3>1. CASE IST!Due(ist[j])
        <4>1. IST!GivenUp(ist[j]) /\ ist[j].status \in ServerFinal
          BY <2>1, <2>2, <2>7, <3>1
        <4>2. ist[j].status = IST!Ok
          BY <2>7, <4>1, ServerLowestFinal
        <4> QED
          BY <2>1, <2>4, <4>1, <4>2 DEF Known
      <3>2. CASE ~IST!Due(ist[j])
        BY <2>1, <2>7, <3>2
      <3> QED
        BY <3>1, <3>2
    <2>8. \A j \in IST!Live' : ist'[j].status = ist[j].status
      BY <2>1, <2>2
    <2> QED
      BY <1>a, <2>1, <2>4, <2>5, <2>6, <2>7, <2>8
  <1>6. ASSUME NEW k \in Keys, IST!ReportTimeout(k) PROVE CallInv'
    <2>1. UNCHANGED <<ist, answer, serverAcked, serverRunning>>
      BY <1>6 DEF IST!ReportTimeout
    <2>2. \A j \in Keys : Known(j) => Known(j)'
      BY <1>6 DEF IST!ReportTimeout, Known
    <2> QED
      BY <1>a, <2>1, <2>2 DEF IST!Live
  <1>7. CASE IST!Tick
    <2>1. ASSUME NEW j \in IST!Live
          PROVE  j \in IST!Live' /\ Same(ist[j], ist'[j])
      <3>1. j \in Keys /\ ist[j] \in IST!Transaction
        BY <1>0 DEF IST!TypeOK, IST!Live
      <3>2. ist'[j] = [ist[j] EXCEPT !.start = IST!Older(@),
               !.stop = IST!Older(@)]
        BY <1>7, <3>1 DEF IST!Tick, IST!Live
      <3> QED
        BY <3>1, <3>2, ServerAgeType, ServerNotNone DEF IST!Live
    <2>2. IST!Live' \subseteq IST!Live
      BY <1>7 DEF IST!Tick, IST!Live
    <2>3. UNCHANGED <<answer, serverTimeouts, serverAcked, failed, serverRunning>>
      BY <1>7 DEF IST!Tick
    <2> QED
      BY <1>a, <2>1, <2>2, <2>3 DEF Same, Known
  <1>8. CASE IST!Stop
    <2>1. IST!Live' = {} /\ ~serverRunning'
      BY <1>8 DEF IST!Stop, IST!Live
    <2> QED
      BY <1>0, <2>1 DEF CallInv, IST!CallAccounted
  <1>9. CASE UNCHANGED IST!vars
    BY <1>a, <1>9 DEF IST!vars, IST!Live, Known
  <1> QED
    BY <1>1, <1>2, <1>3, <1>4, <1>5, <1>6, <1>7, <1>8, <1>9 DEF IST!Next

(* If no two INVITEs of a call have the same CSeq, a 200 of the TU stays   *)
(* in the list until its ACK arrives or SendTimeout reports it, however    *)
(* many INVITEs the call has, whatever else the TU answers and whatever    *)
(* the network repeats or loses.                                           *)
THEOREM NoCallLost ==
  ASSUME ServerAssumption, OneInvitePerSeq
  PROVE  IST!Spec => []IST!Consistent
  <1>1. CallInv => IST!Consistent
    BY DEF CallInv, IST!Consistent
  <1>2. CallInv /\ [IST!Next]_(IST!vars) => CallInv'
    BY ServerStepCall
  <1> QED
    BY <1>1, <1>2, ServerInitCall, PTL DEF IST!Spec
=============================================================================
