------------------------- MODULE SipNonInviteProofs ------------------------
(***************************************************************************)
(* Proofs about non-INVITE transactions, for every set of requests and     *)
(* threads and every timer: about the client's list alone, about the       *)
(* server's list, and that the two, with the network between them,         *)
(* implement SipRequest.                                                   *)
(***************************************************************************)
EXTENDS SipNonInvite, TLAPS

LEMMA ClientStatusNotZero == ASSUME NEW s \in Statuses PROVE s # 0 /\ s \in Nat
  BY StatusAssumption DEF Statuses, RequestTimeout, ConnectError

(* What a server or a connecting thread says is not a timeout. *)
Heard == Provisional \cup Final \cup {ConnectError}

LEMMA ClientHeardStatus ==
  ASSUME NEW s \in Heard PROVE s \in Statuses /\ s # RequestTimeout /\ s # 0
  BY StatusAssumption DEF Heard, Statuses, RequestTimeout, ConnectError

LEMMA ClientOlderType == ASSUME NEW a \in Ages PROVE Older(a) \in Ages
  BY TimeAssumption DEF Ages, Older, NoTime

LEMMA ClientZeroAge == 0 \in Ages
  BY TimeAssumption DEF Ages, NoTime

LEMMA ClientNewType == NewTransaction \in Transaction
  BY TimeAssumption DEF NewTransaction, Transaction, Ages, NoTime, MaxReSend

LEMMA ClientStoreType ==
  ASSUME NEW x \in Transaction, NEW s \in Statuses
  PROVE  Store(x, s) \in Transaction /\ Store(x, s).status = s
  BY ClientZeroAge DEF Store, Transaction

LEMMA ClientNotNone ==
  /\ None \notin Transaction
  /\ \A k, s : [key |-> k, status |-> s] # None
  BY DEF None, Transaction

(* A transaction whose next retransmission is not the last one can count it. *)
LEMMA ClientReSendType ==
  ASSUME NEW x \in Transaction, ReSendDue(x), ~GivenUp(x)
  PROVE  [x EXCEPT !.resend = @ + 1] \in Transaction
  <1>1. MaxReSend \in Nat
    BY TimeAssumption DEF MaxReSend
  <1>2. x.resend \in 0 .. MaxReSend - 1 /\ x.resend + 1 # MaxReSend
    BY DEF GivenUp, Transaction
  <1>3. x.resend + 1 \in 0 .. MaxReSend - 1
    BY <1>1, <1>2
  <1> QED
    BY <1>3 DEF Transaction

(* A transaction a tick later. *)
ClientAged(x) == [x EXCEPT !.start = Older(@), !.stop = Older(@)]

LEMMA ClientAgedType ==
  ASSUME NEW x \in Transaction
  PROVE  /\ ClientAged(x) \in Transaction
         /\ ClientAged(x).status = x.status /\ ClientAged(x).resend = x.resend
         /\ ClientAged(x).start = Older(x.start)
         /\ ClientAged(x).stop = Older(x.stop)
  BY ClientOlderType DEF ClientAged, Transaction

LEMMA ClientMessageType ==
  /\ \A k \in Keys : Request(k) \in Message
  /\ \A k \in Keys, s \in Provisional \cup Final : Response(k, s) \in Message
  BY TimeAssumption DEF Request, Response, Message

LEMMA ClientAgedMessageType ==
  ASSUME NEW m \in Message, m.age < MaxDelay
  PROVE  [m EXCEPT !.age = @ + 1] \in Message
  <1>1. m.age + 1 \in 0 .. MaxDelay
    BY TimeAssumption DEF Message
  <1> QED
    BY <1>1 DEF Message

-----------------------------------------------------------------------------
(* What Insert does, whoever calls it. *)
LEMMA ClientInsertKeeps ==
  ASSUME TypeOK, NEW t \in Threads, NEW k \in Keys, NEW s \in Heard,
         Insert(t, k, s)
  PROVE  /\ trans' \in [Keys -> Transaction \cup {None}]
         /\ hand' \in [Threads ->
                [key : Keys, status : Statuses] \cup {None}]
         /\ Live' = Live
         /\ \A j \in Live :
              trans'[j] = trans[j] \/ trans'[j].status = s
         /\ \A u \in Threads : \/ hand'[u] = hand[u]
                               \/ /\ u = t /\ hand'[u] = [key |-> k, status |-> s]
                                  /\ k \in Live /\ trans'[k].status = s
  <1>1. CASE UNCHANGED <<trans, hand>>
    BY <1>1 DEF TypeOK, Live
  <1>2. CASE k \in Live /\ trans[k].status # s
    <2>1. trans[k] \in Transaction
      BY <1>2 DEF TypeOK, Live
    <2>2. /\ trans' = [trans EXCEPT ![k] = Store(trans[k], s)]
          /\ hand' = [hand EXCEPT ![t] = [key |-> k, status |-> s]]
      BY <1>2 DEF Insert
    <2>3. /\ Store(trans[k], s) \in Transaction
          /\ Store(trans[k], s).status = s
      BY <2>1, ClientHeardStatus, ClientStoreType
    <2>4. Store(trans[k], s) # None
      BY <2>3, ClientNotNone
    <2>5. Live' = Live
      BY <1>2, <2>2, <2>4 DEF TypeOK, Live
    <2> QED
      BY <1>2, <2>2, <2>3, <2>5, ClientHeardStatus DEF TypeOK, Live
  <1> QED
    BY <1>1, <1>2 DEF Insert

LEMMA ClientInitType == Init => TypeOK
  BY TimeAssumption DEF Init, TypeOK

(* A tick, of the client's list alone or of both. *)
LEMMA ClientAgesType ==
  ASSUME TypeOK, TransactionsAge, WireAges,
         UNCHANGED <<hand, timeouts, used, told, dropped, running, server>>
  PROVE  /\ TypeOK' /\ Live' = Live
         /\ \A k \in Live : trans'[k] = ClientAged(trans[k])
  <1>1. ASSUME NEW k \in Keys, k \in Live
        PROVE  /\ ClientAged(trans[k]) \in Transaction
               /\ ClientAged(trans[k]) # None
    BY <1>1, ClientAgedType, ClientNotNone DEF TypeOK, Live
  <1>2. trans' = [k \in Keys |->
          IF k \notin Live THEN None ELSE ClientAged(trans[k])]
    BY DEF TransactionsAge, ClientAged
  <1>3. trans' \in [Keys -> Transaction \cup {None}]
    BY <1>1, <1>2
  <1>4. wire' \subseteq Message
    BY ClientAgedMessageType DEF WireAges, TypeOK
  <1>5. Live' = Live
    BY <1>1, <1>2 DEF Live
  <1> QED
    BY <1>2, <1>3, <1>4, <1>5 DEF TypeOK, Live

LEMMA ClientStepType == TypeOK /\ [Next]_vars => TypeOK'
  <1> SUFFICES ASSUME TypeOK, [Next]_vars PROVE TypeOK'
    OBVIOUS
  <1>1. ASSUME NEW k \in Keys, InsertRequest(k) PROVE TypeOK'
    BY <1>1, ClientNewType, ClientMessageType DEF InsertRequest, TypeOK
  <1>2. ASSUME NEW t \in Threads, NEW m \in wire, InsertResponse(t, m)
        PROVE  TypeOK'
    <2>1. m.key \in Keys /\ m.status \in Heard
      BY <1>2 DEF InsertResponse, TypeOK, Message, Heard
    <2>2. Insert(t, m.key, m.status)
      BY <1>2 DEF InsertResponse
    <2> QED
      BY <1>2, <2>1, <2>2, ClientInsertKeeps DEF InsertResponse, TypeOK
  <1>3. ASSUME NEW t \in Threads, NEW k \in Keys, ConnectFailed(t, k)
        PROVE  TypeOK'
    <2>1. Insert(t, k, ConnectError) /\ ConnectError \in Heard
      BY <1>3 DEF ConnectFailed, Heard
    <2> QED
      BY <1>3, <2>1, ClientInsertKeeps DEF ConnectFailed, TypeOK
  <1>4. ASSUME NEW k \in Cancels, DeleteCancel(k) PROVE TypeOK'
    BY <1>4, CancelAssumption DEF DeleteCancel, TypeOK
  <1>5. ASSUME NEW t \in Threads, Report(t) PROVE TypeOK'
    BY <1>5 DEF Report, Tell, TypeOK
  <1>6. CASE Execute
    <2>1. trans' \in [Keys -> Transaction \cup {None}]
      <3>1. ASSUME NEW k \in Keys, k \in Live,
                   ~GivenUp(trans[k]), ReSendDue(trans[k])
            PROVE  [trans[k] EXCEPT !.resend = @ + 1] \in Transaction
        BY <3>1, ClientReSendType DEF TypeOK, Live
      <3> QED
        BY <1>6, <3>1 DEF Execute, TypeOK
    <2> QED
      BY <1>6, <2>1, ClientMessageType DEF Execute, TypeOK, Live
  <1>7. ASSUME NEW k \in Keys, ReportTimeout(k) PROVE TypeOK'
    BY <1>7 DEF ReportTimeout, Tell, TypeOK, Statuses
  <1>8. CASE Tick
    BY <1>8, ClientAgesType DEF Tick
  <1>9. CASE Stop
    BY <1>9 DEF Stop, TypeOK
  <1>10. ASSUME NEW k \in Keys, NEW s \in Provisional \cup Final, Respond(k, s)
         PROVE  TypeOK'
    BY <1>10, ClientMessageType DEF Respond, TypeOK
  <1>11. CASE UNCHANGED vars
    BY <1>11 DEF vars, TypeOK
  <1> QED
    BY <1>1, <1>2, <1>3, <1>4, <1>5, <1>6, <1>7, <1>8, <1>9, <1>10, <1>11
       DEF Next, Step

(* Every variable of the list has its type in every state: in particular   *)
(* the index into m_arrICTReSendTime that Execute reads is in range.       *)
THEOREM ClientTypeCorrect == Spec => []TypeOK
  BY ClientInitType, ClientStepType, PTL DEF Spec

-----------------------------------------------------------------------------
(* A request that nobody has said anything about. *)
Silent(k) == k \notin used \/ (k \in Live /\ trans[k].status = 0)
InHand(k) == \E t \in Threads : hand[t] # None /\ hand[t].key = k

(* TimeoutExclusive is not inductive: that Execute finds no response in a  *)
(* transaction has to mean that no thread has taken one from it.           *)
TimeoutInv ==
  /\ TypeOK
  /\ \A t \in Threads : hand[t] # None => hand[t].status \in Heard
  /\ \A k \in Live :
       k \in used /\ k \notin timeouts /\ RequestTimeout \notin told[k]
  /\ \A k \in Keys : Silent(k) => told[k] = {} /\ k \notin timeouts /\ ~InHand(k)
  /\ TimeoutExclusive

LEMMA ClientInitTimeout == Init => TimeoutInv
  BY ClientInitType DEF Init, TimeoutInv, TimeoutExclusive, Silent, InHand, Live

(* Taking a response from the list, from the network or from a connection  *)
(* that failed, keeps the invariant.                                       *)
LEMMA ClientInsertTimeout ==
  ASSUME TimeoutInv, TypeOK', NEW t \in Threads, NEW k \in Keys, NEW s \in Heard,
         hand[t] = None, Insert(t, k, s), UNCHANGED <<timeouts, used, told>>
  PROVE  TimeoutInv'
  <1>1. /\ Live' = Live
        /\ \A j \in Live : trans'[j] = trans[j] \/ trans'[j].status = s
        /\ \A u \in Threads : \/ hand'[u] = hand[u]
                              \/ /\ u = t /\ hand'[u] = [key |-> k, status |-> s]
                                 /\ k \in Live /\ trans'[k].status = s
    BY ClientInsertKeeps DEF TimeoutInv
  <1>2. \A u \in Threads : hand'[u] # None => hand'[u].status \in Heard
    BY <1>1 DEF TimeoutInv
  <1>3. \A j \in Live' :
          j \in used' /\ j \notin timeouts' /\ RequestTimeout \notin told'[j]
    BY <1>1 DEF TimeoutInv
  <1>4. ASSUME NEW j \in Keys, Silent(j)'
        PROVE  told'[j] = {} /\ j \notin timeouts' /\ ~InHand(j)'
    <2>1. Silent(j)
      BY <1>1, <1>4, ClientHeardStatus DEF Silent
    <2>2. ~InHand(j)'
      <3>1. ASSUME j = k, k \in Live, trans'[k].status = s PROVE FALSE
        BY <1>1, <1>3, <1>4, <3>1, ClientHeardStatus DEF Silent
      <3> QED
        BY <1>1, <2>1, <3>1 DEF InHand, TimeoutInv
    <2> QED
      BY <2>1, <2>2 DEF TimeoutInv
  <1>5. TimeoutExclusive'
    BY <1>1 DEF TimeoutInv, TimeoutExclusive
  <1> QED
    BY <1>2, <1>3, <1>4, <1>5 DEF TimeoutInv

LEMMA ClientAgesTimeout ==
  ASSUME TimeoutInv, TransactionsAge, WireAges,
         UNCHANGED <<hand, timeouts, used, told, dropped, running, server>>
  PROVE  TimeoutInv'
  <1>1. /\ TypeOK' /\ Live' = Live
        /\ \A k \in Live : trans'[k] = ClientAged(trans[k])
    BY ClientAgesType DEF TimeoutInv
  <1>2. \A k \in Live : trans'[k].status = trans[k].status
    BY <1>1, ClientAgedType DEF TimeoutInv, TypeOK, Live
  <1> QED
    BY <1>1, <1>2 DEF TimeoutInv, Silent, InHand, TimeoutExclusive

LEMMA ClientStepTimeout == TimeoutInv /\ [Next]_vars => TimeoutInv'
  <1> SUFFICES ASSUME TimeoutInv, [Next]_vars PROVE TimeoutInv'
    OBVIOUS
  <1> USE DEF TimeoutInv
  <1>0. TypeOK /\ TypeOK'
    BY ClientStepType
  <1>1. ASSUME NEW k \in Keys, InsertRequest(k) PROVE TimeoutInv'
    <2>1. /\ trans' = [trans EXCEPT ![k] = NewTransaction]
          /\ NewTransaction # None /\ NewTransaction.status = 0
      BY <1>1, ClientNewType, ClientNotNone DEF InsertRequest, NewTransaction
    <2>2. Live' = Live \cup {k}
      BY <1>0, <2>1 DEF Live, TypeOK
    <2>3. told[k] = {} /\ k \notin timeouts /\ ~InHand(k)
      BY <1>1 DEF InsertRequest, Silent
    <2>4. \A j \in Keys : Silent(j)' => Silent(j)
      BY <1>0, <1>1, <2>1, <2>2 DEF InsertRequest, Silent, TypeOK
    <2> QED
      BY <1>0, <1>1, <2>2, <2>3, <2>4 DEF InsertRequest, InHand, TimeoutExclusive
  <1>2. ASSUME NEW t \in Threads, NEW m \in wire, InsertResponse(t, m)
        PROVE  TimeoutInv'
    <2>1. m.key \in Keys /\ m.status \in Heard
      BY <1>0, <1>2 DEF InsertResponse, TypeOK, Message, Heard
    <2> QED
      BY <1>0, <1>2, <2>1, ClientInsertTimeout DEF InsertResponse
  <1>3. ASSUME NEW t \in Threads, NEW k \in Keys, ConnectFailed(t, k)
        PROVE  TimeoutInv'
    <2>1. ConnectError \in Heard
      BY DEF Heard
    <2> QED
      BY <1>0, <1>3, <2>1, ClientInsertTimeout DEF ConnectFailed
  <1>4. ASSUME NEW k \in Cancels, DeleteCancel(k) PROVE TimeoutInv'
    <2>1. /\ Live' = Live \ {k}
          /\ \A j \in Live' : trans'[j] = trans[j]
      BY <1>0, <1>4, CancelAssumption DEF DeleteCancel, Live, TypeOK
    <2> QED
      BY <1>0, <1>4, <2>1 DEF DeleteCancel, Silent, InHand, TimeoutExclusive
  <1>5. ASSUME NEW t \in Threads, Report(t) PROVE TimeoutInv'
    <2> DEFINE k == hand[t].key
               s == hand[t].status
    <2>1. k \in Keys /\ s \in Heard /\ InHand(k)
      BY <1>0, <1>5 DEF Report, TypeOK, InHand
    <2>2. s # RequestTimeout /\ ~Silent(k)
      BY <2>1, ClientHeardStatus
    <2>3. told' = [told EXCEPT ![k] = @ \cup {s}]
      BY <1>5 DEF Report, Tell
    <2>4. \A j \in Keys : told'[j] = IF j = k THEN told[j] \cup {s} ELSE told[j]
      BY <1>0, <2>3 DEF TypeOK
    <2>5. /\ hand' = [hand EXCEPT ![t] = None]
          /\ UNCHANGED <<trans, timeouts, used>>
      BY <1>5 DEF Report
    <2>6. \A u \in Threads :
            hand'[u] = None \/ hand'[u] = hand[u]
      BY <1>0, <2>5 DEF TypeOK
    <2>7. Live' = Live /\ \A j \in Keys : Silent(j)' <=> Silent(j)
      BY <2>5 DEF Live, Silent
    <2>8. ~(RequestTimeout \in told[k] \/ k \in timeouts)
      BY <2>1 DEF InHand, TimeoutExclusive
    <2> HIDE DEF k, s
    <2>9. \A j \in Live' :
            j \in used' /\ j \notin timeouts' /\ RequestTimeout \notin told'[j]
      BY <2>2, <2>4, <2>5, <2>7 DEF Live
    <2>10. ASSUME NEW j \in Keys
           PROVE  InHand(j)' => InHand(j)
      BY <2>6 DEF InHand
    <2>11. ASSUME NEW j \in Keys, Silent(j)'
           PROVE  told'[j] = {} /\ j \notin timeouts' /\ ~InHand(j)'
      <3>1. Silent(j) /\ j # k
        BY <2>2, <2>7, <2>11
      <3> QED
        BY <2>4, <2>5, <2>10, <3>1
    <2>12. ASSUME NEW j \in Keys, RequestTimeout \in told'[j] \/ j \in timeouts'
           PROVE  told'[j] \subseteq {RequestTimeout} /\ ~InHand(j)'
      <3>1. RequestTimeout \in told[j] \/ j \in timeouts
        BY <2>2, <2>4, <2>5, <2>12
      <3>2. j # k /\ told'[j] = told[j]
        BY <2>4, <2>8, <3>1
      <3>3. told[j] \subseteq {RequestTimeout} /\ ~InHand(j)
        BY <3>1 DEF TimeoutExclusive, InHand
      <3> QED
        BY <2>10, <3>2, <3>3
    <2>13. TimeoutExclusive'
      BY <2>12 DEF TimeoutExclusive, InHand
    <2> QED
      BY <1>0, <2>6, <2>9, <2>11, <2>13
  <1>6. CASE Execute
    <2>1. \A j \in Live' :
            /\ j \in Live /\ ~TimedOut(trans[j])
            /\ trans'[j].status = trans[j].status
      <3>1. ASSUME NEW j \in Keys, j \in Live, trans[j] \in Transaction
            PROVE  [trans[j] EXCEPT !.resend = @ + 1].status = trans[j].status
        BY <3>1 DEF Transaction
      <3> QED
        BY <1>0, <1>6, <3>1 DEF Execute, Live, TypeOK, TimedOut
    <2>2. \A j \in timeouts' :
            j \in Keys /\ Silent(j) /\ j \in Live /\ j \notin Live'
      BY <1>6, <2>1 DEF Execute, Silent, TimedOut, Live
    <2>3. \A j \in Keys : Silent(j)' => Silent(j)
      BY <1>6, <2>1 DEF Execute, Silent
    <2>4. UNCHANGED <<hand, used, told>>
      BY <1>6 DEF Execute
    <2>5. \A j \in Keys : Silent(j)' => j \notin timeouts'
      BY <2>2, <2>4 DEF Silent
    <2>6. TimeoutExclusive'
      BY <2>2, <2>4 DEF TimeoutExclusive, InHand
    <2> QED
      BY <1>0, <2>1, <2>2, <2>3, <2>4, <2>5, <2>6 DEF InHand
  <1>7. ASSUME NEW k \in Keys, ReportTimeout(k) PROVE TimeoutInv'
    <2>1. \A j \in Keys :
            told'[j] = IF j = k THEN told[j] \cup {RequestTimeout} ELSE told[j]
      BY <1>0, <1>7 DEF ReportTimeout, Tell, TypeOK
    <2>2. /\ k \notin Live
          /\ ~Silent(k)
          /\ ~InHand(k)
          /\ told[k] \subseteq {RequestTimeout}
      BY <1>7 DEF ReportTimeout, TimeoutExclusive, InHand
    <2>3. UNCHANGED <<trans, hand, used>> /\ timeouts' \subseteq timeouts
      BY <1>7 DEF ReportTimeout
    <2>4. /\ Live' = Live
          /\ \A j \in Keys : (Silent(j)' <=> Silent(j)) /\ (InHand(j)' <=> InHand(j))
      BY <2>3 DEF Live, Silent, InHand
    <2>5. ASSUME NEW j \in Keys, RequestTimeout \in told'[j] \/ j \in timeouts'
          PROVE  told'[j] \subseteq {RequestTimeout} /\ ~InHand(j)'
      <3>1. CASE j = k
        BY <2>1, <2>2, <2>4, <3>1
      <3>2. CASE j # k
        <4>1. told'[j] = told[j] /\ (RequestTimeout \in told[j] \/ j \in timeouts)
          BY <2>1, <2>3, <2>5, <3>2
        <4> QED
          BY <2>4, <4>1 DEF TimeoutExclusive, InHand
      <3> QED
        BY <3>1, <3>2
    <2>6. TimeoutExclusive'
      BY <2>5 DEF TimeoutExclusive, InHand
    <2> QED
      BY <1>0, <2>1, <2>2, <2>3, <2>4, <2>6 DEF Live
  <1>8. CASE Tick
    BY <1>8, ClientAgesTimeout DEF Tick
  <1>9. CASE Stop
    <2>1. Live' = {}
      BY <1>9 DEF Stop, Live
    <2> QED
      BY <1>0, <1>9, <2>1 DEF Stop, Silent, InHand, TimeoutExclusive
  <1>10. ASSUME NEW k \in Keys, NEW s \in Provisional \cup Final, Respond(k, s)
         PROVE  TimeoutInv'
    BY <1>0, <1>10 DEF Respond, Live, Silent, InHand, TimeoutExclusive
  <1>11. CASE UNCHANGED vars
    BY <1>0, <1>11 DEF vars, Live, Silent, InHand, TimeoutExclusive
  <1> QED
    BY <1>1, <1>2, <1>3, <1>4, <1>5, <1>6, <1>7, <1>8, <1>9, <1>10, <1>11
       DEF Next, Step

(* In every state of the list the types are right, and a 408 that Execute  *)
(* makes up is all the TU ever hears of the request: no receive thread has *)
(* taken a response out of the transaction before.                         *)
THEOREM TimeoutAlone == Spec => []Consistent
  <1>1. TimeoutInv => Consistent
    BY DEF TimeoutInv, Consistent
  <1> QED
    BY <1>1, ClientInitTimeout, ClientStepTimeout, PTL DEF Spec

-----------------------------------------------------------------------------
LEMMA ServerStatusNotZero ==
  ASSUME NEW s \in Server!Statuses
  PROVE  s # 0 /\ (s >= 200 <=> s \in Final)
  BY StatusAssumption DEF Server!Statuses

LEMMA ServerOlderType ==
  ASSUME NEW a \in Server!Ages
  PROVE  /\ Server!Older(a) \in Server!Ages
         /\ Server!Older(a) # Server!NoTime <=> a # Server!NoTime
  BY TimeAssumption DEF Server!Ages, Server!Older, Server!NoTime

LEMMA ServerZeroAge == 0 \in Server!Ages /\ Server!NoTime \in Server!Ages /\ Server!NoTime # 0
  BY TimeAssumption DEF Server!Ages, Server!NoTime

(* The requests of the client are messages the server understands. *)
LEMMA ServerMessageType ==
  /\ \A k \in Keys : Request(k) \in Server!Message
  /\ \A k \in Keys, s \in Server!Statuses : Server!Response(k, s) \in Server!Message
  BY TimeAssumption DEF Request, Server!Response, Server!Message

LEMMA ServerNotNone == Server!None \notin Server!Transaction
  BY DEF Server!None, Server!Transaction

LEMMA ServerStoreType ==
  ASSUME NEW x \in Server!Transaction, NEW s \in Server!Statuses
  PROVE  /\ Server!Store(x, s) \in Server!Transaction
         /\ s \in Final => Server!Store(x, s).stop # Server!NoTime
         /\ s \notin Final => Server!Store(x, s).stop = x.stop
  BY ServerZeroAge, ServerStatusNotZero DEF Server!Store, Server!Transaction

LEMMA ServerAgedMessageType ==
  ASSUME NEW m \in Server!Message, m.age < MaxDelay
  PROVE  [m EXCEPT !.age = @ + 1] \in Server!Message
  <1>1. m.age + 1 \in 0 .. MaxDelay
    BY TimeAssumption DEF Server!Message
  <1> QED
    BY <1>1 DEF Server!Message

LEMMA ServerWireType ==
  ASSUME wire \subseteq Server!Message, WireAges
  PROVE  wire' \subseteq Server!Message
  BY ServerAgedMessageType DEF WireAges

-----------------------------------------------------------------------------
LEMMA ServerInitType == ExchangeInit => Server!TypeOK
  BY DEF ExchangeInit, Server!Init, Server!TypeOK, Server!Live

(* The steps of the client only add requests to the network. *)
LEMMA ClientStepServerType ==
  ASSUME Server!TypeOK, Step, UNCHANGED serverVars
  PROVE  Server!TypeOK'
  <1>1. wire' \subseteq Server!Message /\ running' = running
    BY ServerMessageType DEF Server!TypeOK, Step, InsertRequest,
       InsertResponse, DeleteCancel, Report, Execute,
       ReportTimeout, Live
  <1> QED
    BY <1>1 DEF Server!TypeOK, Server!Live, serverVars

LEMMA ServerStepServerType ==
  ASSUME Server!TypeOK, Server!Step
  PROVE  Server!TypeOK'
  <1> USE DEF Server!Live
  <1>1. ASSUME NEW t \in ServerThreads, NEW m \in wire, Server!InsertRequest(t, m)
        PROVE  Server!TypeOK'
    <2>1. m.key \in Keys
      BY DEF Server!TypeOK, Server!Message
    <2>2. CASE m.key \notin Server!Live
      <3> DEFINE x == [status |-> 0, stop |-> Server!NoTime]
      <3>1. x \in Server!Transaction
        BY ServerZeroAge DEF Server!Transaction
      <3>2. /\ serverTrans' = [serverTrans EXCEPT ![m.key] = x]
            /\ serverHand' = [serverHand EXCEPT ![t] = [key |-> m.key]]
            /\ chosen' = [chosen EXCEPT ![m.key] = 0]
            /\ UNCHANGED <<reports, answers, running, wire>>
        BY <1>1, <2>2 DEF Server!InsertRequest
      <3> QED
        BY <2>1, <3>1, <3>2 DEF Server!TypeOK
    <2>3. CASE m.key \in Server!Live
      <3>1. serverTrans[m.key] \in Server!Transaction
        BY <2>1, <2>3 DEF Server!TypeOK
      <3>2. serverTrans[m.key].status = 0 \/ serverTrans[m.key].status \in Server!Statuses
        BY <3>1 DEF Server!Transaction
      <3>3. wire' \subseteq Server!Message
        BY <1>1, <2>1, <2>3, <3>2, ServerMessageType DEF Server!InsertRequest, Server!TypeOK
      <3> QED
        BY <1>1, <2>3, <3>3 DEF Server!InsertRequest, Server!TypeOK
    <2> QED
      BY <2>2, <2>3
  <1>2. ASSUME NEW t \in ServerThreads, Server!Report(t) PROVE Server!TypeOK'
    BY <1>2 DEF Server!Report, Server!TypeOK
  <1>3. ASSUME NEW k \in Keys, NEW s \in Server!Statuses, Server!InsertResponse(k, s)
        PROVE  Server!TypeOK'
    <2>1. answers' \in [Keys -> SUBSET Final]
      BY <1>3 DEF Server!InsertResponse, Server!TypeOK
    <2>2. CASE UNCHANGED <<serverTrans, chosen, wire>>
      BY <1>3, <2>1, <2>2 DEF Server!InsertResponse, Server!TypeOK
    <2>3. CASE k \in Server!Live /\ serverTrans[k].status # s
      <3>1. serverTrans[k] \in Server!Transaction
        BY <2>3 DEF Server!TypeOK
      <3>2. /\ serverTrans' = [serverTrans EXCEPT ![k] = Server!Store(serverTrans[k], s)]
            /\ chosen' = [chosen EXCEPT ![k] = IF s >= 200 /\ @ = 0 THEN s ELSE @]
            /\ wire' = wire \cup {Server!Response(k, s)}
            /\ UNCHANGED <<serverHand, reports, running>>
        BY <1>3, <2>3 DEF Server!InsertResponse
      <3>3. chosen' \in [Keys -> Final \cup {0}]
        BY <3>2, ServerStatusNotZero DEF Server!TypeOK
      <3>4. serverTrans' \in [Keys -> Server!Transaction \cup {Server!None}]
        BY <3>1, <3>2, ServerStoreType DEF Server!TypeOK
      <3>5. serverTrans'[k].stop # Server!NoTime <=> chosen'[k] # 0
        <4>1. serverTrans'[k] = Server!Store(serverTrans[k], s)
          BY <3>2 DEF Server!TypeOK
        <4>2. chosen'[k] = IF s >= 200 /\ chosen[k] = 0 THEN s ELSE chosen[k]
          BY <3>2 DEF Server!TypeOK
        <4>3. serverTrans[k].stop # Server!NoTime <=> chosen[k] # 0
          BY <2>3 DEF Server!TypeOK
        <4> QED
          BY <3>1, <4>1, <4>2, <4>3, ServerStoreType, ServerStatusNotZero
      <3>6. \A j \in Keys : j # k => serverTrans'[j] = serverTrans[j] /\ chosen'[j] = chosen[j]
        BY <3>2 DEF Server!TypeOK
      <3>7. wire' \subseteq Server!Message
        BY <3>2, ServerMessageType DEF Server!TypeOK
      <3> QED
        BY <2>1, <3>2, <3>3, <3>4, <3>5, <3>6, <3>7 DEF Server!TypeOK
    <2> QED
      BY <1>3, <2>2, <2>3 DEF Server!InsertResponse
  <1>4. CASE Server!Execute
    BY <1>4 DEF Server!Execute, Server!TypeOK
  <1> QED
    BY <1>1, <1>2, <1>3, <1>4 DEF Server!Step

LEMMA TickServerType ==
  ASSUME Server!TypeOK, ExchangeTick
  PROVE  Server!TypeOK'
  <1>1. ASSUME NEW k \in Keys, k \in Server!Live
        PROVE  LET x == [serverTrans[k] EXCEPT !.stop = Server!Older(@)]
               IN  /\ x \in Server!Transaction
                   /\ x.stop # Server!NoTime <=> serverTrans[k].stop # Server!NoTime
    <2>1. serverTrans[k] \in Server!Transaction
      BY <1>1 DEF Server!TypeOK, Server!Live
    <2> QED
      BY <2>1, ServerOlderType DEF Server!Transaction
  <1>2. serverTrans' = [k \in Keys |->
          IF k \notin Server!Live THEN Server!None
          ELSE [serverTrans[k] EXCEPT !.stop = Server!Older(@)]]
    BY DEF ExchangeTick, Server!TransactionsAge
  <1>3. serverTrans' \in [Keys -> Server!Transaction \cup {Server!None}]
    BY <1>1, <1>2
  <1>4. \A k \in Keys : serverTrans'[k] # Server!None =>
          (serverTrans'[k].stop # Server!NoTime <=> chosen[k] # 0)
    BY <1>1, <1>2 DEF Server!TypeOK, Server!Live
  <1>5. wire' \subseteq Server!Message
    BY ServerWireType DEF ExchangeTick, Server!TypeOK
  <1> QED
    BY <1>3, <1>4, <1>5 DEF ExchangeTick, Server!TypeOK, Server!Live

LEMMA ServerStepType == Server!TypeOK /\ [ExchangeNext]_exchangeVars => Server!TypeOK'
  <1> SUFFICES ASSUME Server!TypeOK, [ExchangeNext]_exchangeVars PROVE Server!TypeOK'
    OBVIOUS
  <1>1. CASE ExchangeStop
    BY <1>1 DEF ExchangeStop, Server!Stop, Server!TypeOK, Server!Live
  <1>2. CASE UNCHANGED exchangeVars
    BY <1>2 DEF exchangeVars, serverVars, Server!TypeOK, Server!Live
  <1> QED
    BY <1>1, <1>2, ClientStepServerType, ServerStepServerType, TickServerType
       DEF ExchangeNext

(* Whatever the client and the network do, the variables of the server's   *)
(* list keep their types, and m_sttStopTime of a transaction is set if and *)
(* only if a final response was accepted: an answered transaction cannot   *)
(* lose the time at which Execute has to delete it, nor an unanswered one  *)
(* get one (CSipNISTList::Insert).                                         *)
THEOREM StoppedIffAnswered == Exchange => []Server!TypeOK
  BY ServerInitType, ServerStepType, PTL DEF Exchange

-----------------------------------------------------------------------------
(* Timer J outlasts every request the client sends: with the timers of the *)
(* code, as long as the network keeps a message for less than half a       *)
(* second: the last request is sent 500 ms before Timer J can end.         *)
InTime ==
  /\ MaxDelay < TimerJ
  /\ \A i \in 1 .. MaxReSend - 1 : ReSendTime[i] + MaxDelay < TimerJ

(* The client is not going to send request k again. *)
SentOut(k) ==
  \/ k \notin Live
  \/ Stopped(trans[k])
  \/ trans[k].resend + 1 = MaxReSend

Asks(m, k) == m.key = k /\ m.status = 0
Holds(t, k) == serverHand[t] # Server!None /\ serverHand[t].key = k
InServerHand(k) == \E t \in ServerThreads : Holds(t, k)

(* A client transaction that may send again is not older than one of the   *)
(* retransmission times it has reached; and neither it nor a request it    *)
(* sent is younger than the answer of the server.                          *)
ClientClock(k) ==
  k \in Live =>
    /\ trans[k].start >= 0
    /\ ~Stopped(trans[k]) =>
         \E i \in 1 .. trans[k].resend + 1 : trans[k].start <= ReSendTime[i]
    /\ k \in Server!Live => serverTrans[k].stop <= trans[k].start

Outlived(stop, m) ==
  \/ stop <= m.age
  \/ \E i \in 1 .. MaxReSend - 1 : stop <= m.age + ReSendTime[i]

WireClock(k) ==
  k \in Server!Live => \A m \in wire : Asks(m, k) => Outlived(serverTrans[k].stop, m)

(* Nobody knows of a request that was not sent. *)
Unsent(k) ==
  k \notin used =>
    /\ k \notin Live /\ k \notin Server!Live
    /\ reports[k] = 0 /\ \A m \in wire : ~Asks(m, k)

(* One thread tells the TU of the server once; and a request it was told   *)
(* of does not come back when its transaction was deleted.                 *)
Once(k) ==
  /\ reports[k] \in {0, 1}
  /\ \A t, u \in ServerThreads : Holds(t, k) /\ Holds(u, k) => t = u
  /\ InServerHand(k) =>
       /\ reports[k] = 0 /\ k \in Server!Live
       /\ serverTrans[k].stop = Server!NoTime
  /\ k \in Server!Live => InServerHand(k) \/ reports[k] = 1
  /\ running /\ reports[k] = 1 /\ k \notin Server!Live =>
       SentOut(k) /\ \A m \in wire : ~Asks(m, k)

(* Every final status there is of a request is the one its TU chose. *)
Given(k) == Provisional \cup answers[k]
OneAnswer(k) ==
  /\ answers[k] # {} => reports[k] = 1 /\ \E s \in Final : answers[k] = {s}
  /\ k \in Server!Live => serverTrans[k].status \in Given(k) \cup {0}
  /\ \A m \in wire : m.key = k => m.status \in Given(k) \cup {0}
  /\ \A t \in Threads :
       hand[t] # None /\ hand[t].key = k => hand[t].status \in Given(k)
  /\ told[k] \subseteq Given(k) \cup {RequestTimeout}

KeyInv(k) ==
  ClientClock(k) /\ WireClock(k) /\ Unsent(k) /\ Once(k) /\ OneAnswer(k)

RequestInv ==
  /\ TimeoutInv
  /\ Server!TypeOK
  /\ \A k \in Keys : KeyInv(k)
LEMMA MaxReSendType ==
  /\ MaxReSend \in Nat /\ MaxReSend > 0
  /\ \A i \in 1 .. MaxReSend : ReSendTime[i] \in Nat
  BY TimeAssumption DEF MaxReSend

(* Two ages keep their order, and none grows by more than a tick. *)
LEMMA OlderOrder ==
  ASSUME NEW a \in Server!Ages, NEW b \in Ages, a <= b
  PROVE  Server!Older(a) <= Older(b)
  BY TimeAssumption DEF Server!Ages, Ages, Server!Older, Older,
     Server!NoTime, NoTime

LEMMA OlderByOne ==
  /\ \A a \in Ages : Older(a) <= a + 1 /\ (a >= 0 => Older(a) >= 0)
  /\ \A a \in Server!Ages : Server!Older(a) <= a + 1
  /\ \A a \in Ages : Older(a) = NoTime <=> a = NoTime
  BY TimeAssumption DEF Server!Ages, Ages, Server!Older, Older,
     Server!NoTime, NoTime

(* Whatever the two stacks do, the client's list keeps its invariant. *)
LEMMA StepTimeout == TimeoutInv /\ Server!TypeOK /\ [ExchangeNext]_exchangeVars => TimeoutInv'
  <1> SUFFICES ASSUME TimeoutInv, Server!TypeOK, [ExchangeNext]_exchangeVars PROVE TimeoutInv'
    OBVIOUS
  <1>1. CASE Step
    BY <1>1, ClientStepTimeout DEF Next
  <1>2. CASE Server!Step /\ UNCHANGED clientVars
    <2>1. wire' \subseteq Message /\ UNCHANGED <<clientVars, running>>
      <3>1. \A k \in Server!Live : serverTrans[k].status \in Server!Statuses \cup {0}
        BY DEF Server!TypeOK, Server!Live, Server!Transaction
      <3>2. \A k \in Keys, s \in Server!Statuses : Server!Response(k, s) \in Message
        BY ServerMessageType DEF Server!Message, Message, Server!Statuses
      <3>3. wire \subseteq Message /\ \A m \in wire : m.key \in Keys
        BY DEF TimeoutInv, TypeOK, Message
      <3> QED
        BY <1>2, <3>1, <3>2, <3>3 DEF Server!Step, Server!InsertRequest, Server!Report,
           Server!InsertResponse, Server!Execute
    <2>2. UNCHANGED <<trans, hand, timeouts, used, told, dropped, server, running>>
      BY <2>1 DEF clientVars
    <2> QED
      BY <2>1, <2>2 DEF TimeoutInv, TypeOK, TimeoutExclusive, Silent, InHand,
         Live
  <1>3. CASE ExchangeTick
    BY <1>3, ClientAgesTimeout DEF ExchangeTick
  <1>4. CASE ExchangeStop
    BY <1>4, ClientStepTimeout DEF ExchangeStop, Next
  <1>5. CASE UNCHANGED exchangeVars
    BY <1>5, ClientStepTimeout DEF exchangeVars, clientVars, vars
  <1> QED
    BY <1>1, <1>2, <1>3, <1>4, <1>5 DEF ExchangeNext

LEMMA InitRequest == ExchangeInit => RequestInv
  <1> SUFFICES ASSUME ExchangeInit PROVE RequestInv
    OBVIOUS
  <1>1. TimeoutInv /\ Server!TypeOK
    BY ClientInitTimeout, ServerInitType DEF ExchangeInit
  <1>2. \A k \in Keys : KeyInv(k)
    BY DEF ExchangeInit, Init, Server!Init, KeyInv, ClientClock, WireClock, Unsent, Once,
       OneAnswer, Live, Server!Live, InServerHand, Holds, SentOut
  <1> QED
    BY <1>1, <1>2 DEF RequestInv

(* What RequestInv says of the variables' types, as the steps need it. *)
LEMMA RequestTypes ==
  ASSUME RequestInv
  PROVE  /\ \A k \in Live : k \in Keys /\ trans[k] \in Transaction
         /\ \A k \in Server!Live : k \in Keys /\ serverTrans[k] \in Server!Transaction
         /\ \A m \in wire : m \in Message /\ m \in Server!Message /\ m.key \in Keys
         /\ DOMAIN trans = Keys /\ DOMAIN serverTrans = Keys
         /\ DOMAIN hand = Threads /\ DOMAIN serverHand = ServerThreads
  BY DEF RequestInv, TimeoutInv, TypeOK, Server!TypeOK, Live, Server!Live,
     Message

-----------------------------------------------------------------------------
(* The steps of the client. *)
LEMMA SendKeeps ==
  ASSUME RequestInv, NEW k \in Keys, InsertRequest(k), UNCHANGED serverVars, NEW j \in Keys
  PROVE  KeyInv(j)'
  <1>1. /\ KeyInv(j) /\ KeyInv(k) /\ k \notin used /\ running' = running
        /\ trans' = [trans EXCEPT ![k] = NewTransaction]
        /\ wire' = wire \cup {Request(k)} /\ used' = used \cup {k}
        /\ UNCHANGED <<hand, told>>
        /\ UNCHANGED <<serverTrans, serverHand, reports, answers>>
    BY DEF RequestInv, InsertRequest, serverVars
  <1>2. /\ k \notin Server!Live /\ k \notin Live /\ reports[k] = 0
        /\ \A m \in wire : ~Asks(m, k)
    BY <1>1 DEF KeyInv, Unsent
  <1>3. NewTransaction # None
    BY ClientNewType, ClientNotNone
  <1>4. Live' = Live \cup {k} /\ Server!Live' = Server!Live
    BY <1>1, <1>3, RequestTypes DEF Live, Server!Live
  <1>5. trans'[k] = NewTransaction /\ (j # k => trans'[j] = trans[j])
    BY <1>1, RequestTypes
  <1>6. /\ Asks(Request(k), k) /\ Request(k).key = k
        /\ Request(k).status = 0
    BY DEF Asks, Request
  <1>7. ClientClock(j)'
    <2>1. CASE j = k
      <3>1. NewTransaction.start = 0 /\ NewTransaction.resend = 0
        BY DEF NewTransaction
      <3>2. 1 \in 1 .. 0 + 1 /\ 0 <= ReSendTime[1]
        BY MaxReSendType
      <3> QED
        BY <1>2, <1>4, <1>5, <2>1, <3>1, <3>2 DEF ClientClock
    <2>2. CASE j # k
      BY <1>1, <1>4, <1>5, <2>2 DEF KeyInv, ClientClock, Stopped
    <2> QED
      BY <2>1, <2>2
  <1>8. WireClock(j)'
    BY <1>1, <1>2, <1>4, <1>6 DEF KeyInv, WireClock, Asks, Outlived
  <1>9. Unsent(j)'
    BY <1>1, <1>2, <1>4, <1>6 DEF KeyInv, Unsent, Asks
  <1>10. Once(j)'
    <2>1. j # k => (SentOut(j)' <=> SentOut(j)) /\ ~Asks(Request(k), j)
      BY <1>4, <1>5, <1>6 DEF SentOut, Asks, Stopped
    <2>2. (InServerHand(j)' <=> InServerHand(j)) /\ \A t : Holds(t, j)' <=> Holds(t, j)
      BY <1>1 DEF InServerHand, Holds
    <2> QED
      BY <1>1, <1>2, <1>4, <2>1, <2>2 DEF KeyInv, Once, Asks
  <1>11. OneAnswer(j)'
    BY <1>1, <1>4, <1>6 DEF KeyInv, OneAnswer, Given
  <1> QED
    BY <1>7, <1>8, <1>9, <1>10, <1>11 DEF KeyInv

(* Taking a response neither starts a transaction again nor undoes that    *)
(* it was answered.                                                        *)
LEMMA InsertClock ==
  ASSUME RequestInv, NEW t \in Threads, NEW k \in Keys, NEW s \in Heard,
         Insert(t, k, s)
  PROVE  /\ Live' = Live
         /\ \A j \in Live :
              /\ trans'[j].start = trans[j].start
              /\ trans'[j].resend = trans[j].resend
              /\ Stopped(trans[j]) => Stopped(trans'[j])
  <1>1. Live' = Live
    BY ClientInsertKeeps DEF RequestInv, TimeoutInv
  <1>2. CASE UNCHANGED <<trans, hand>>
    BY <1>1, <1>2
  <1>3. CASE k \in Live /\ trans' = [trans EXCEPT ![k] = Store(@, s)]
    <2> DEFINE x == trans[k]
    <2>1. x \in Transaction
      BY <1>3, RequestTypes
    <2>2. /\ Store(x, s).start = x.start /\ Store(x, s).resend = x.resend
          /\ Store(x, s).stop \in {0, x.stop}
      BY <2>1 DEF Store, Transaction
    <2>3. Stopped(x) => Stopped(Store(x, s))
      BY <2>2, ClientZeroAge DEF Stopped, NoTime
    <2> QED
      BY <1>1, <1>3, <2>2, <2>3, RequestTypes
  <1> QED
    BY <1>2, <1>3 DEF Insert

LEMMA ClientRecvKeeps ==
  ASSUME RequestInv, NEW t \in Threads, NEW m \in wire, InsertResponse(t, m),
         UNCHANGED serverVars, NEW j \in Keys
  PROVE  KeyInv(j)'
  <1>1. /\ KeyInv(j) /\ KeyInv(m.key) /\ m.key \in Keys /\ Insert(t, m.key, m.status)
        /\ m.status # 0 /\ UNCHANGED <<wire, used, told, running>>
        /\ UNCHANGED <<serverTrans, serverHand, reports, answers>>
    BY RequestTypes DEF RequestInv, InsertResponse, serverVars
  <1>2. m.status \in Heard
    BY <1>1, RequestTypes DEF Message, Heard
  <1>3. /\ Live' = Live
        /\ \A i \in Live :
             /\ trans'[i].start = trans[i].start
             /\ trans'[i].resend = trans[i].resend
             /\ Stopped(trans[i]) => Stopped(trans'[i])
    BY <1>1, <1>2, InsertClock
  <1>4. \A u \in Threads :
          hand'[u] = hand[u] \/ hand'[u] = [key |-> m.key, status |-> m.status]
    BY <1>1, <1>2, ClientInsertKeeps DEF RequestInv, TimeoutInv
  <1>5. Server!Live' = Server!Live
    BY <1>1 DEF Server!Live
  <1>6. ClientClock(j)' /\ WireClock(j)' /\ Unsent(j)'
    BY <1>1, <1>3, <1>5 DEF KeyInv, ClientClock, WireClock, Unsent, Outlived
  <1>7. Once(j)'
    <2>1. SentOut(j) => SentOut(j)'
      BY <1>3 DEF SentOut
    <2>2. (InServerHand(j)' <=> InServerHand(j)) /\ \A u : Holds(u, j)' <=> Holds(u, j)
      BY <1>1 DEF InServerHand, Holds
    <2> QED
      BY <1>1, <1>5, <2>1, <2>2 DEF KeyInv, Once
  <1>8. OneAnswer(j)'
    <2>1. m.status \in Given(m.key)
      BY <1>1 DEF KeyInv, OneAnswer
    <2> QED
      BY <1>1, <1>4, <1>5, <2>1 DEF KeyInv, OneAnswer, Given
  <1> QED
    BY <1>6, <1>7, <1>8 DEF KeyInv

LEMMA CancelKeeps ==
  ASSUME RequestInv, NEW k \in Cancels, DeleteCancel(k), UNCHANGED serverVars,
         NEW j \in Keys
  PROVE  KeyInv(j)'
  <1>1. /\ KeyInv(j) /\ trans' = [trans EXCEPT ![k] = None] /\ k \in Keys
        /\ UNCHANGED <<wire, used, told, running, hand>>
        /\ UNCHANGED <<serverTrans, serverHand, reports, answers>>
    BY CancelAssumption DEF RequestInv, DeleteCancel, serverVars
  <1>2. /\ Live' = Live \ {k} /\ Server!Live' = Server!Live
        /\ \A i \in Live' : trans'[i] = trans[i]
    BY <1>1, RequestTypes DEF Live, Server!Live
  <1>3. ClientClock(j)' /\ WireClock(j)' /\ Unsent(j)' /\ OneAnswer(j)'
    BY <1>1, <1>2 DEF KeyInv, ClientClock, WireClock, Unsent, Outlived, OneAnswer, Given
  <1>4. Once(j)'
    <2>1. SentOut(j) => SentOut(j)'
      BY <1>2 DEF SentOut
    <2>2. (InServerHand(j)' <=> InServerHand(j)) /\ \A u : Holds(u, j)' <=> Holds(u, j)
      BY <1>1 DEF InServerHand, Holds
    <2> QED
      BY <1>1, <1>2, <2>1, <2>2 DEF KeyInv, Once
  <1> QED
    BY <1>3, <1>4 DEF KeyInv

(* Telling the TU of a response, or of a timeout. *)
LEMMA TellKeeps ==
  ASSUME RequestInv, UNCHANGED <<serverVars, trans, used, running, wire>>, NEW j \in Keys,
         \A t \in Threads : hand'[t] \in {hand[t], None},
         told'[j] \subseteq Given(j) \cup {RequestTimeout}
  PROVE  KeyInv(j)'
  <1>1. KeyInv(j) /\ UNCHANGED <<serverTrans, serverHand, reports, answers>>
    BY DEF RequestInv, serverVars
  <1>2. Live' = Live /\ Server!Live' = Server!Live
    BY <1>1 DEF Live, Server!Live
  <1>3. OneAnswer(j)'
    BY <1>1, <1>2 DEF KeyInv, OneAnswer, Given
  <1>4. (InServerHand(j)' <=> InServerHand(j)) /\ \A u : Holds(u, j)' <=> Holds(u, j)
    BY <1>1 DEF InServerHand, Holds
  <1>5. SentOut(j)' <=> SentOut(j)
    BY <1>2 DEF SentOut
  <1> QED
    BY <1>1, <1>2, <1>3, <1>4, <1>5
       DEF KeyInv, ClientClock, WireClock, Unsent, Outlived, Once

LEMMA ClientReportKeeps ==
  ASSUME RequestInv, NEW t \in Threads, Report(t), UNCHANGED serverVars,
         NEW j \in Keys
  PROVE  KeyInv(j)'
  <1>1. KeyInv(j) /\ hand[t].key \in Keys /\ TypeOK
    BY DEF RequestInv, TimeoutInv, TypeOK, Report
  <1>2. told'[j] \subseteq Given(j) \cup {RequestTimeout}
    BY <1>1 DEF Report, Tell, KeyInv, OneAnswer, TypeOK
  <1>3. \A u \in Threads : hand'[u] \in {hand[u], None}
    BY RequestTypes DEF Report
  <1> QED
    BY <1>2, <1>3, TellKeeps DEF Report

LEMMA ReportTimeoutKeeps ==
  ASSUME RequestInv, NEW k \in Keys, ReportTimeout(k), UNCHANGED serverVars, NEW j \in Keys
  PROVE  KeyInv(j)'
  <1>1. KeyInv(j) /\ TypeOK
    BY DEF RequestInv, TimeoutInv
  <1>2. told'[j] \subseteq Given(j) \cup {RequestTimeout}
    BY <1>1 DEF ReportTimeout, Tell, KeyInv, OneAnswer, TypeOK
  <1> QED
    BY <1>2, TellKeeps DEF ReportTimeout

(* One pass of the client's stack thread. *)
LEMMA ClientExecuteKeeps ==
  ASSUME RequestInv, Execute, UNCHANGED serverVars, NEW j \in Keys
  PROVE  KeyInv(j)'
  <1>1. /\ KeyInv(j) /\ UNCHANGED <<used, told, running, hand>>
        /\ UNCHANGED <<serverTrans, serverHand, reports, answers>>
    BY DEF RequestInv, Execute, serverVars
  <1>2. /\ Live' \subseteq Live /\ Server!Live' = Server!Live
    BY <1>1 DEF Execute, Live, Server!Live
  <1>3. ASSUME j \in Live'
        PROVE  /\ trans'[j].start = trans[j].start
               /\ trans'[j].stop = trans[j].stop
               /\ trans[j].resend \in Nat
               /\ trans'[j].resend \in {trans[j].resend, trans[j].resend + 1}
               /\ trans[j].resend + 1 = MaxReSend =>
                    trans'[j].resend = trans[j].resend
    <2>1. trans[j] \in Transaction
      BY <1>2, <1>3, RequestTypes
    <2>2. trans'[j] # None
      BY <1>3 DEF Live
    <2>3. trans[j].resend \in Nat
      BY <2>1 DEF Transaction
    <2> QED
      BY <1>2, <1>3, <2>1, <2>2, <2>3 DEF Execute, GivenUp, Transaction
  (* What is sent again is sent in time. *)
  <1>4. ASSUME NEW m \in wire', m \notin wire, Asks(m, j)
        PROVE  /\ ~SentOut(j) /\ m.age = 0 /\ j \in used
               /\ j \in Server!Live => Outlived(serverTrans[j].stop, m)
    <2>1. /\ m = Request(j) /\ j \in Live
          /\ ReSendDue(trans[j]) /\ ~GivenUp(trans[j])
      BY <1>4 DEF Execute, Asks, Request
    <2> DEFINE x == trans[j]
    <2>2. x \in Transaction
      BY <2>1, RequestTypes
    <2>3. ~Stopped(x) /\ x.resend + 1 # MaxReSend
      BY <2>1 DEF ReSendDue, GivenUp
    <2>4. ~SentOut(j) /\ m.age = 0 /\ j \in used
      BY <1>1, <2>1, <2>3 DEF SentOut, Request, KeyInv, Unsent
    <2>5. ASSUME j \in Server!Live PROVE Outlived(serverTrans[j].stop, m)
      <3>1. PICK i \in 1 .. x.resend + 1 : x.start <= ReSendTime[i]
        BY <1>1, <2>1, <2>3 DEF KeyInv, ClientClock
      <3>2. i \in 1 .. MaxReSend - 1
        <4>1. x.resend \in 0 .. MaxReSend - 1
          BY <2>2 DEF Transaction
        <4> QED
          BY <2>3, <3>1, <4>1, MaxReSendType
      <3>3. serverTrans[j].stop <= x.start
        BY <1>1, <2>1, <2>5 DEF KeyInv, ClientClock
      <3>4. serverTrans[j].stop \in Int /\ x.start \in Int /\ ReSendTime[i] \in Int
        <4>1. serverTrans[j].stop \in Server!Ages /\ x.start \in Ages
          BY <2>2, <2>5, RequestTypes DEF Server!Transaction, Transaction
        <4> QED
          BY <3>2, <4>1, MaxReSendType, TimeAssumption
             DEF Server!Ages, Ages, Server!NoTime, NoTime
      <3>5. serverTrans[j].stop <= m.age + ReSendTime[i]
        BY <2>4, <3>1, <3>3, <3>4
      <3> QED
        BY <3>2, <3>5 DEF Outlived
    <2> QED
      BY <2>4, <2>5
  <1>5. ClientClock(j)'
    <2> SUFFICES ASSUME j \in Live' PROVE ClientClock(j)'
      BY DEF ClientClock
    <2>1. Stopped(trans'[j]) <=> Stopped(trans[j])
      BY <1>3 DEF Stopped
    <2>2. \A i \in 1 .. trans[j].resend + 1 : i \in 1 .. trans'[j].resend + 1
      BY <1>3
    <2> QED
      BY <1>1, <1>2, <1>3, <2>1, <2>2 DEF KeyInv, ClientClock
  <1>6. WireClock(j)'
    BY <1>1, <1>2, <1>4 DEF KeyInv, WireClock, Outlived, Asks
  <1>7. Unsent(j)'
    BY <1>1, <1>2, <1>4 DEF KeyInv, Unsent, Asks
  <1>8. Once(j)'
    <2>1. SentOut(j) => SentOut(j)'
      BY <1>2, <1>3 DEF SentOut, Stopped
    <2>2. (InServerHand(j)' <=> InServerHand(j)) /\ \A u : Holds(u, j)' <=> Holds(u, j)
      BY <1>1 DEF InServerHand, Holds
    <2>3. ASSUME running', reports'[j] = 1, j \notin Server!Live'
          PROVE  SentOut(j)' /\ \A m \in wire' : ~Asks(m, j)'
      <3>1. SentOut(j) /\ \A m \in wire : ~Asks(m, j)
        BY <1>1, <1>2, <2>3 DEF KeyInv, Once
      <3> QED
        BY <1>4, <2>1, <3>1 DEF Asks
    <2> QED
      BY <1>1, <1>2, <2>2, <2>3 DEF KeyInv, Once
  <1>9. OneAnswer(j)'
    <2>1. \A m \in wire' : m \in wire \/ m.status = 0
      BY DEF Execute, Request
    <2> QED
      BY <1>1, <1>2, <2>1 DEF KeyInv, OneAnswer, Given
  <1> QED
    BY <1>5, <1>6, <1>7, <1>8, <1>9 DEF KeyInv

-----------------------------------------------------------------------------
(* The steps of the server.  A request of a transaction it deleted does    *)
(* not arrive: with the transaction gone, none is left in the network.     *)
LEMMA ArrivingRequest ==
  ASSUME RequestInv, NEW m \in wire, m.status = 0, running
  PROVE  /\ m.key \in Keys /\ m.key \in used
         /\ m.key \notin Server!Live =>
              reports[m.key] = 0 /\ \A t \in ServerThreads : ~Holds(t, m.key)
  <1>1. m.key \in Keys /\ KeyInv(m.key) /\ Asks(m, m.key)
    BY RequestTypes DEF RequestInv, Asks
  <1>2. m.key \in used
    BY <1>1 DEF KeyInv, Unsent
  <1>3. ASSUME m.key \notin Server!Live
        PROVE  reports[m.key] = 0 /\ \A t \in ServerThreads : ~Holds(t, m.key)
    BY <1>1, <1>3 DEF KeyInv, Once, InServerHand
  <1> QED
    BY <1>1, <1>2, <1>3

LEMMA ServerRecvKeeps ==
  ASSUME RequestInv, NEW t \in ServerThreads, NEW m \in wire, Server!InsertRequest(t, m),
         UNCHANGED clientVars, NEW j \in Keys
  PROVE  KeyInv(j)'
  <1> DEFINE k == m.key
  <1>1. /\ KeyInv(j) /\ k \in Keys /\ m.status = 0 /\ running /\ k \in used
        /\ UNCHANGED <<trans, hand, used, told, running, reports, answers>>
        /\ Live' = Live
    BY RequestTypes, ArrivingRequest DEF RequestInv, Server!InsertRequest, clientVars, Live
  <1>2. SentOut(j)' <=> SentOut(j)
    BY <1>1 DEF SentOut
  <1>3. CASE k \notin Server!Live
    <2> DEFINE x == [status |-> 0, stop |-> Server!NoTime]
    <2>1. /\ serverTrans' = [serverTrans EXCEPT ![k] = x] /\ wire' = wire
          /\ serverHand' = [serverHand EXCEPT ![t] = [key |-> k]]
          /\ serverHand[t] = Server!None
      BY <1>3 DEF Server!InsertRequest
    <2>2. x \in Server!Transaction /\ x # Server!None /\ [key |-> k] # Server!None
      BY ServerZeroAge, ServerNotNone DEF Server!Transaction, Server!None
    <2>3. /\ Server!Live' = Server!Live \cup {k} /\ serverTrans'[k] = x
          /\ j # k => serverTrans'[j] = serverTrans[j]
      BY <1>1, <2>1, <2>2, RequestTypes DEF Server!Live
    <2>4. reports[k] = 0 /\ \A u \in ServerThreads : ~Holds(u, k)
      BY <1>1, <1>3, ArrivingRequest
    <2>5. /\ \A u \in ServerThreads : Holds(u, k)' <=> u = t
          /\ j # k => \A u \in ServerThreads : Holds(u, j)' <=> Holds(u, j)
      BY <2>1, <2>2, <2>4, RequestTypes DEF Holds
    <2>6. x.status = 0 /\ x.stop = -1 /\ x.stop = Server!NoTime
      BY DEF Server!NoTime
    <2> HIDE DEF x
    <2>7. ClientClock(j)'
      <3>1. CASE j = k
        <4>1. k \in Live => trans[k].start \in Int /\ trans[k].start >= 0
          BY <1>1, <3>1, RequestTypes, TimeAssumption
             DEF KeyInv, ClientClock, Transaction, Ages, NoTime
        <4>2. k \in Live => x.stop <= trans[k].start
          BY <2>6, <4>1
        <4> QED
          BY <1>1, <2>3, <3>1, <4>2 DEF KeyInv, ClientClock
      <3>2. CASE j # k
        BY <1>1, <2>3, <3>2 DEF KeyInv, ClientClock
      <3> QED
        BY <3>1, <3>2
    <2>8. WireClock(j)'
      <3>1. \A n \in wire : Outlived(x.stop, n)
        <4>1. \A n \in wire : n.age \in Nat
          BY RequestTypes DEF Message
        <4>2. \A n \in wire : x.stop <= n.age
          BY <2>6, <4>1
        <4> QED
          BY <4>2 DEF Outlived
      <3> QED
        BY <1>1, <2>1, <2>3, <3>1 DEF KeyInv, WireClock, Outlived, Asks
    <2>9. Unsent(j)'
      BY <1>1, <2>1, <2>3 DEF KeyInv, Unsent, Asks
    <2>10. Once(j)'
      <3>1. CASE j = k
        BY <1>1, <2>3, <2>4, <2>5, <2>6, <3>1 DEF KeyInv, Once, InServerHand
      <3>2. CASE j # k
        BY <1>1, <1>2, <2>1, <2>3, <2>5, <3>2 DEF KeyInv, Once, InServerHand, Asks
      <3> QED
        BY <3>1, <3>2
    <2>11. OneAnswer(j)'
      BY <1>1, <2>1, <2>3, <2>6 DEF KeyInv, OneAnswer, Given
    <2> QED
      BY <2>7, <2>8, <2>9, <2>10, <2>11 DEF KeyInv
  <1>4. CASE k \in Server!Live
    <2> DEFINE s == serverTrans[k].status
    <2>1. /\ UNCHANGED <<serverTrans, serverHand>> /\ Server!Live' = Server!Live
          /\ wire' = IF s = 0 THEN wire ELSE wire \cup {Server!Response(k, s)}
      BY <1>4 DEF Server!InsertRequest, Server!Live
    <2>2. \A n \in wire' : n \in wire \/ (n.key = k /\ n.status = s /\ s # 0)
      BY <2>1 DEF Server!Response
    <2>3. \A n \in wire' : n.status = 0 => n \in wire
      BY <2>2
    <2>4. s \in Given(k) \cup {0}
      BY <1>1, <1>4 DEF RequestInv, KeyInv, OneAnswer
    <2>5. /\ InServerHand(j)' <=> InServerHand(j)
          /\ \A u \in ServerThreads : Holds(u, j)' <=> Holds(u, j)
      BY <2>1 DEF InServerHand, Holds
    <2>6. ClientClock(j)' /\ WireClock(j)' /\ Unsent(j)'
      BY <1>1, <2>1, <2>3 DEF KeyInv, ClientClock, WireClock, Unsent, Outlived, Asks
    <2>7. Once(j)'
      BY <1>1, <1>2, <2>1, <2>3, <2>5 DEF KeyInv, Once, Asks
    <2>8. OneAnswer(j)'
      BY <1>1, <2>1, <2>2, <2>4 DEF KeyInv, OneAnswer, Given
    <2> QED
      BY <2>6, <2>7, <2>8 DEF KeyInv
  <1> QED
    BY <1>3, <1>4

LEMMA ServerReportKeeps ==
  ASSUME RequestInv, NEW t \in ServerThreads, Server!Report(t), UNCHANGED clientVars,
         NEW j \in Keys
  PROVE  KeyInv(j)'
  <1>0. PICK k \in Keys : Holds(t, k) /\ k = serverHand[t].key
    BY DEF RequestInv, Server!TypeOK, Server!Report, Holds
  <1>1. /\ KeyInv(j) /\ KeyInv(k) /\ Holds(t, k)
        /\ reports' = [reports EXCEPT ![k] = @ + 1]
        /\ serverHand' = [serverHand EXCEPT ![t] = Server!None]
        /\ UNCHANGED <<trans, hand, used, told, running, answers, serverTrans, wire>>
        /\ Live' = Live /\ Server!Live' = Server!Live
    BY <1>0 DEF RequestInv, Server!Report, clientVars, Live, Server!Live
  <1>2. reports[k] = 0 /\ k \in Server!Live /\ \A u \in ServerThreads : Holds(u, k) => u = t
    BY <1>1 DEF KeyInv, Once, InServerHand
  <1>3. reports'[k] = 1 /\ (j # k => reports'[j] = reports[j])
    BY <1>1, <1>2 DEF RequestInv, Server!TypeOK
  <1>4. /\ \A u \in ServerThreads : ~Holds(u, k)'
        /\ j # k => \A u \in ServerThreads : Holds(u, j)' <=> Holds(u, j)
    <2>1. /\ serverHand'[t] = Server!None
          /\ \A u \in ServerThreads \ {t} : serverHand'[u] = serverHand[u]
      BY <1>1, RequestTypes
    <2> QED
      BY <1>1, <1>2, <2>1 DEF Holds
  <1>5. SentOut(j)' <=> SentOut(j)
    BY <1>1 DEF SentOut
  <1>6. k \in used
    BY <1>1, <1>2 DEF KeyInv, Unsent
  <1>7. ClientClock(j)' /\ WireClock(j)' /\ Unsent(j)'
    BY <1>1, <1>3, <1>6 DEF KeyInv, ClientClock, WireClock, Unsent, Outlived, Asks
  <1>8. Once(j)'
    <2>1. CASE j = k
      BY <1>1, <1>2, <1>3, <1>4, <2>1 DEF KeyInv, Once, InServerHand
    <2>2. CASE j # k
      BY <1>1, <1>3, <1>4, <1>5, <2>2 DEF KeyInv, Once, InServerHand, Asks
    <2> QED
      BY <2>1, <2>2
  <1>9. OneAnswer(j)'
    BY <1>1, <1>2, <1>3 DEF KeyInv, OneAnswer, Given
  <1> QED
    BY <1>7, <1>8, <1>9 DEF KeyInv

(* The TU answers: with the first final answer Timer J starts, and every   *)
(* request that is still in the network is older than that.                *)
LEMMA AnswerKeeps ==
  ASSUME RequestInv, NEW k \in Keys, NEW s \in Server!Statuses, Server!InsertResponse(k, s),
         UNCHANGED clientVars, NEW j \in Keys
  PROVE  KeyInv(j)'
  <1>1. /\ KeyInv(j) /\ KeyInv(k) /\ reports[k] > 0
        /\ answers[k] \subseteq {s} /\ (answers[k] # {} => s \in Final)
        /\ answers' = [answers EXCEPT ![k] = @ \cup ({s} \cap Final)]
        /\ UNCHANGED <<trans, hand, used, told, running, reports, serverHand>>
        /\ Live' = Live
    BY DEF RequestInv, Server!InsertResponse, clientVars, Live
  <1>2. /\ (SentOut(j)' <=> SentOut(j)) /\ (InServerHand(j)' <=> InServerHand(j))
        /\ \A u : Holds(u, j)' <=> Holds(u, j)
    BY <1>1 DEF SentOut, InServerHand, Holds
  <1>3. reports[k] = 1 /\ ~InServerHand(k)
    BY <1>1 DEF KeyInv, Once
  <1>4. /\ answers'[k] = answers[k] \cup ({s} \cap Final)
        /\ j # k => answers'[j] = answers[j]
    BY <1>1 DEF RequestInv, Server!TypeOK
  <1>5. answers'[k] # {} => \E f \in Final : answers'[k] = {f}
    BY <1>1, <1>4
  <1>6. s \in Provisional \cup answers'[k]
    BY <1>4 DEF Server!Statuses
  <1>7. answers[j] \subseteq answers'[j]
    BY <1>4
  <1>8. CASE UNCHANGED <<serverTrans, wire>>
    <2>1. Server!Live' = Server!Live
      BY <1>8 DEF Server!Live
    <2>2. ClientClock(j)' /\ WireClock(j)' /\ Unsent(j)' /\ Once(j)'
      BY <1>1, <1>2, <1>8, <2>1
         DEF KeyInv, ClientClock, WireClock, Unsent, Outlived, Asks, Once
    <2>3. answers'[j] # {} => reports'[j] = 1 /\ \E f \in Final : answers'[j] = {f}
      BY <1>1, <1>3, <1>4, <1>5 DEF KeyInv, OneAnswer
    <2>4. OneAnswer(j)'
      BY <1>1, <1>7, <1>8, <2>1, <2>3 DEF KeyInv, OneAnswer, Given
    <2> QED
      BY <2>2, <2>4 DEF KeyInv
  <1>9. CASE /\ k \in Server!Live
             /\ serverTrans' = [serverTrans EXCEPT ![k] = Server!Store(@, s)]
             /\ wire' = wire \cup {Server!Response(k, s)}
    <2> DEFINE x == serverTrans[k]
               y == Server!Store(x, s)
    <2>1. x \in Server!Transaction /\ y \in Server!Transaction
      BY <1>9, RequestTypes, ServerStoreType
    <2>2. y.status = s /\ y.stop \in {0, x.stop} /\ y # Server!None
      BY <2>1, ServerNotNone DEF Server!Store, Server!Transaction
    <2>3. /\ Server!Live' = Server!Live /\ serverTrans'[k] = y
          /\ j # k => serverTrans'[j] = serverTrans[j]
      BY <1>9, <2>2, RequestTypes DEF Server!Live
    <2>4. \A n \in wire' : n \in wire \/ (n.key = k /\ n.status = s /\ s # 0)
      BY <1>9, ServerStatusNotZero DEF Server!Response
    <2>5. \A n \in wire' : n.status = 0 => n \in wire
      BY <2>4
    <2> HIDE DEF x, y
    <2>6. ClientClock(j)'
      <3>1. CASE j = k
        BY <1>1, <1>9, <2>2, <2>3, <3>1 DEF KeyInv, ClientClock, x
      <3>2. CASE j # k
        BY <1>1, <2>3, <3>2 DEF KeyInv, ClientClock
      <3> QED
        BY <3>1, <3>2
    <2>7. WireClock(j)'
      <3>1. CASE j = k
        <4>1. \A n \in wire : 0 <= n.age
          BY RequestTypes DEF Message
        <4>2. \A n \in wire : Asks(n, k) => Outlived(y.stop, n)
          BY <1>1, <1>9, <2>2, <4>1 DEF KeyInv, WireClock, Outlived, x
        <4> QED
          BY <2>3, <2>5, <3>1, <4>2 DEF WireClock, Outlived, Asks
      <3>2. CASE j # k
        BY <1>1, <2>3, <2>5, <3>2 DEF KeyInv, WireClock, Outlived, Asks
      <3> QED
        BY <3>1, <3>2
    <2>8. Unsent(j)'
      BY <1>1, <2>3, <2>5 DEF KeyInv, Unsent, Asks
    <2>9. Once(j)'
      BY <1>1, <1>2, <1>3, <2>3, <2>5 DEF KeyInv, Once, Asks
    <2>10. OneAnswer(j)'
      <3>1. answers'[j] # {} => reports'[j] = 1 /\ \E f \in Final : answers'[j] = {f}
        BY <1>1, <1>3, <1>4, <1>5 DEF KeyInv, OneAnswer
      <3>2. j \in Server!Live' => serverTrans'[j].status \in Provisional \cup answers'[j] \cup {0}
        BY <1>1, <1>6, <1>7, <2>2, <2>3 DEF KeyInv, OneAnswer, Given
      <3>3. \A n \in wire' : n.key = j => n.status \in Provisional \cup answers'[j] \cup {0}
        BY <1>1, <1>6, <1>7, <2>4 DEF KeyInv, OneAnswer, Given
      <3> QED
        BY <1>1, <1>7, <3>1, <3>2, <3>3 DEF KeyInv, OneAnswer, Given
    <2> QED
      BY <2>6, <2>7, <2>8, <2>9, <2>10 DEF KeyInv
  <1> QED
    BY <1>8, <1>9 DEF Server!InsertResponse

(* One pass of the server's stack thread: a transaction that Timer J ends  *)
(* is one whose client sends no more, with no request left on its way.     *)
LEMMA NothingLeftToArrive ==
  ASSUME RequestInv, InTime, NEW k \in Server!Live, Server!Expired(serverTrans[k])
  PROVE  SentOut(k) /\ \A m \in wire : ~Asks(m, k)
  <1> DEFINE stop == serverTrans[k].stop
  <1>1. KeyInv(k) /\ k \in Keys
    BY RequestTypes DEF RequestInv
  <1>2. stop \in Int /\ TimerJ \in Int /\ stop >= TimerJ
    BY RequestTypes, TimeAssumption, TimerAssumption
       DEF Server!Expired, Server!Transaction, Server!Ages, Server!NoTime
  <1>3. \A i \in 1 .. MaxReSend - 1 : ReSendTime[i] \in Nat /\ ReSendTime[i] + MaxDelay < TimerJ
    BY MaxReSendType DEF InTime
  <1>4. MaxDelay \in Nat /\ MaxDelay < TimerJ
    BY TimeAssumption DEF InTime
  <1> HIDE DEF stop
  <1>5. ASSUME NEW m \in wire, Asks(m, k) PROVE FALSE
    <2>1. m.age \in Int /\ m.age <= MaxDelay
      BY RequestTypes, TimeAssumption DEF Message
    <2>2. Outlived(stop, m)
      BY <1>1, <1>5 DEF KeyInv, WireClock, stop
    <2>3. ~(stop <= m.age)
      BY <1>2, <1>4, <2>1
    <2>4. ASSUME NEW i \in 1 .. MaxReSend - 1 PROVE ~(stop <= m.age + ReSendTime[i])
      BY <1>2, <1>3, <1>4, <2>1
    <2> QED
      BY <2>2, <2>3, <2>4 DEF Outlived
  <1>6. ASSUME k \in Live, ~Stopped(trans[k])
        PROVE  trans[k].resend + 1 = MaxReSend
    <2> DEFINE x == trans[k]
    <2>1. x.resend \in 0 .. MaxReSend - 1 /\ x.start \in Int
      BY <1>6, RequestTypes, TimeAssumption DEF Transaction, Ages, NoTime
    <2>2. stop <= x.start
      BY <1>1, <1>6 DEF KeyInv, ClientClock, stop
    <2>3. PICK i \in 1 .. x.resend + 1 : x.start <= ReSendTime[i]
      BY <1>1, <1>6 DEF KeyInv, ClientClock
    <2> HIDE DEF x
    <2>4. i \notin 1 .. MaxReSend - 1
      <3>1. ASSUME i \in 1 .. MaxReSend - 1 PROVE FALSE
        BY <1>2, <1>3, <1>4, <2>1, <2>2, <2>3, <3>1
      <3> QED
        BY <3>1
    <2>5. x.resend + 1 = MaxReSend
      BY <2>1, <2>3, <2>4, MaxReSendType
    <2> QED
      BY <2>5 DEF x
  <1> QED
    BY <1>5, <1>6 DEF SentOut

LEMMA ServerExecuteKeeps ==
  ASSUME RequestInv, InTime, Server!Execute, UNCHANGED clientVars, NEW j \in Keys
  PROVE  KeyInv(j)'
  <1>1. /\ KeyInv(j) /\ UNCHANGED <<trans, hand, used, told>>
        /\ UNCHANGED <<running, reports, answers, serverHand, wire>>
        /\ Live' = Live
    BY DEF RequestInv, Server!Execute, clientVars, Live
  <1>2. /\ Server!Live' \subseteq Server!Live
        /\ \A k \in Server!Live' : serverTrans'[k] = serverTrans[k]
        /\ j \in Server!Live /\ j \notin Server!Live' => Server!Expired(serverTrans[j])
    BY DEF Server!Execute, Server!Live
  <1>3. /\ (SentOut(j)' <=> SentOut(j)) /\ (InServerHand(j)' <=> InServerHand(j))
        /\ \A u : Holds(u, j)' <=> Holds(u, j)
    BY <1>1 DEF SentOut, InServerHand, Holds
  <1>4. ClientClock(j)' /\ WireClock(j)' /\ Unsent(j)' /\ OneAnswer(j)'
    BY <1>1, <1>2
       DEF KeyInv, ClientClock, WireClock, Unsent, Outlived, Asks, OneAnswer, Given
  <1>5. Once(j)'
    <2>1. ASSUME InServerHand(j)
          PROVE  reports[j] = 0 /\ j \in Server!Live' /\ serverTrans'[j].stop = Server!NoTime
      BY <1>1, <1>2, <2>1 DEF KeyInv, Once, Server!Expired
    <2>2. ASSUME running, reports[j] = 1, j \notin Server!Live'
          PROVE  SentOut(j) /\ \A m \in wire : ~Asks(m, j)
      <3>1. CASE j \in Server!Live
        BY <1>2, <2>2, <3>1, NothingLeftToArrive
      <3>2. CASE j \notin Server!Live
        BY <1>1, <2>2, <3>2 DEF KeyInv, Once
      <3> QED
        BY <3>1, <3>2
    <2> QED
      BY <1>1, <1>2, <1>3, <2>1, <2>2 DEF KeyInv, Once, Asks
  <1> QED
    BY <1>4, <1>5 DEF KeyInv

-----------------------------------------------------------------------------
(* A tick, which both lists have made way for.                             *)
LEMMA TickKeeps ==
  ASSUME RequestInv, ExchangeTick, NEW j \in Keys
  PROVE  KeyInv(j)'
  <1>1. /\ KeyInv(j) /\ UNCHANGED <<hand, used, told>>
        /\ UNCHANGED <<running, reports, answers, serverHand>>
    BY DEF RequestInv, ExchangeTick
  <1>2. /\ Live' = Live
        /\ \A k \in Live : trans'[k] = ClientAged(trans[k])
    BY ClientAgesType DEF RequestInv, TimeoutInv, ExchangeTick
  <1>3. /\ Server!Live' = Server!Live
        /\ \A k \in Server!Live : /\ serverTrans'[k].status = serverTrans[k].status
                                 /\ 
                                 /\ serverTrans'[k].stop = Server!Older(serverTrans[k].stop)
    <2>1. ASSUME NEW k \in Server!Live
          PROVE  LET y == [serverTrans[k] EXCEPT !.stop = Server!Older(@)]
                 IN  /\ y # Server!None /\ y.status = serverTrans[k].status
                     /\ y.stop = Server!Older(serverTrans[k].stop)
      <3>1. /\ serverTrans[k] \in Server!Transaction
            /\ Server!Older(serverTrans[k].stop) \in Server!Ages
        BY RequestTypes, ServerOlderType DEF Server!Transaction
      <3>2. [serverTrans[k] EXCEPT !.stop = Server!Older(@)] \in Server!Transaction
        BY <3>1 DEF Server!Transaction
      <3> QED
        BY <3>1, <3>2, ServerNotNone DEF Server!Transaction
    <2> QED
      BY <2>1 DEF ExchangeTick, Server!TransactionsAge, Server!Live
  <1>4. \A m \in wire' : \E n \in wire : /\ m.key = n.key /\ m.status = n.status
                                         /\ m.age = n.age + 1
    BY RequestTypes DEF ExchangeTick, WireAges, Message
  <1>5. ASSUME j \in Live
        PROVE  /\ trans'[j].start = Older(trans[j].start)
               /\ trans[j].start \in Ages
               /\ trans'[j].resend = trans[j].resend
               /\ Stopped(trans'[j]) <=> Stopped(trans[j])
    <2>1. trans[j] \in Transaction /\ trans'[j] = ClientAged(trans[j])
      BY <1>2, <1>5, RequestTypes
    <2> QED
      BY <2>1, ClientAgedType, OlderByOne DEF Transaction, Stopped
  <1>6. ASSUME j \in Server!Live PROVE serverTrans[j].stop \in Server!Ages
    BY <1>6, RequestTypes DEF Server!Transaction
  <1>7. ClientClock(j)'
    <2> SUFFICES ASSUME j \in Live PROVE ClientClock(j)'
      BY <1>2 DEF ClientClock
    <2> DEFINE a == trans[j].start
    <2>1. a \in Ages /\ a >= 0 /\ Older(a) >= 0 /\ Older(a) <= a + 1
      BY <1>1, <1>5, OlderByOne DEF KeyInv, ClientClock
    <2>2. ASSUME ~Stopped(trans[j])
          PROVE  \E i \in 1 .. trans[j].resend + 1 : Older(a) <= ReSendTime[i]
      <3> DEFINE n == trans[j].resend
      <3>1. n \in 0 .. MaxReSend - 1
        BY RequestTypes DEF Transaction
      <3>2. ~(a >= ReSendTime[n + 1])
        BY <2>2 DEF ExchangeTick, Punctual, ReSendDue
      <3> HIDE DEF n, a
      <3>3. n + 1 \in 1 .. n + 1 /\ ReSendTime[n + 1] \in Nat
        BY <3>1, MaxReSendType
      <3>4. Older(a) \in Ages /\ Older(a) \in Int /\ a \in Int
        BY <2>1, ClientOlderType, TimeAssumption DEF Ages, NoTime
      <3>5. Older(a) <= ReSendTime[n + 1]
        BY <2>1, <3>2, <3>3, <3>4
      <3> QED
        BY <3>3, <3>5 DEF n
    <2>3. ASSUME j \in Server!Live
          PROVE  Server!Older(serverTrans[j].stop) <= Older(a)
      BY <1>1, <1>6, <2>1, <2>3, OlderOrder DEF KeyInv, ClientClock
    <2> QED
      BY <1>2, <1>3, <1>5, <2>1, <2>2, <2>3 DEF ClientClock
  <1>8. WireClock(j)'
    <2> SUFFICES ASSUME j \in Server!Live, NEW m \in wire', Asks(m, j)
                 PROVE  Outlived(serverTrans'[j].stop, m)
      BY <1>3 DEF WireClock, Outlived, Asks
    <2> DEFINE stop == serverTrans[j].stop
    <2>1. PICK n \in wire : m.key = n.key /\ m.status = n.status /\ m.age = n.age + 1
      BY <1>4
    <2>2. Outlived(stop, n)
      BY <1>1, <2>1 DEF KeyInv, WireClock, Asks
    <2>3. n.age \in Int /\ stop \in Int /\ Server!Older(stop) \in Int
      <3>1. stop \in Server!Ages /\ Server!Older(stop) \in Server!Ages /\ n \in Message
        BY <1>6, ServerOlderType, RequestTypes
      <3> QED
        BY <3>1, TimeAssumption DEF Server!Ages, Server!NoTime, Message
    <2>4. Server!Older(stop) <= stop + 1
      BY <1>6, OlderByOne
    <2>5. serverTrans'[j].stop = Server!Older(stop)
      BY <1>3
    <2> HIDE DEF stop
    <2>6. ASSUME stop <= n.age PROVE Server!Older(stop) <= m.age
      BY <2>1, <2>3, <2>4, <2>6
    <2>7. ASSUME NEW i \in 1 .. MaxReSend - 1, stop <= n.age + ReSendTime[i]
          PROVE  Server!Older(stop) <= m.age + ReSendTime[i]
      <3>1. ReSendTime[i] \in Int
        BY MaxReSendType
      <3> QED
        BY <2>1, <2>3, <2>4, <2>7, <3>1
    <2> QED
      BY <2>2, <2>5, <2>6, <2>7 DEF Outlived
  <1>9. Unsent(j)'
    BY <1>1, <1>2, <1>3, <1>4 DEF KeyInv, Unsent, Asks
  <1>10. Once(j)'
    <2>1. SentOut(j)' <=> SentOut(j)
      BY <1>2, <1>5 DEF SentOut
    <2>2. (InServerHand(j)' <=> InServerHand(j)) /\ \A u : Holds(u, j)' <=> Holds(u, j)
      BY <1>1 DEF InServerHand, Holds
    <2>3. j \in Server!Live /\ serverTrans[j].stop = Server!NoTime => serverTrans'[j].stop = Server!NoTime
      BY <1>3 DEF Server!Older
    <2> QED
      BY <1>1, <1>3, <1>4, <2>1, <2>2, <2>3 DEF KeyInv, Once, Asks
  <1>11. OneAnswer(j)'
    BY <1>1, <1>3, <1>4 DEF KeyInv, OneAnswer, Given
  <1> QED
    BY <1>7, <1>8, <1>9, <1>10, <1>11 DEF KeyInv

LEMMA StopKeeps ==
  ASSUME RequestInv, ExchangeStop, NEW j \in Keys
  PROVE  KeyInv(j)'
  <1>1. /\ KeyInv(j) /\ Live' = {} /\ Server!Live' = {} /\ ~running'
        /\ UNCHANGED <<hand, used, told, reports, answers, serverHand, wire>>
        /\ ~InServerHand(j)'
    BY DEF RequestInv, ExchangeStop, Stop, Server!Stop, Live, Server!Live, InServerHand, Holds
  <1>2. \A u : Holds(u, j)' <=> Holds(u, j)
    BY <1>1 DEF Holds
  <1> QED
    BY <1>1, <1>2 DEF KeyInv, ClientClock, WireClock, Unsent, Once, OneAnswer, Given, Asks

LEMMA StepRequest ==
  ASSUME InTime
  PROVE  RequestInv /\ [ExchangeNext]_exchangeVars => RequestInv'
  <1> SUFFICES ASSUME RequestInv, [ExchangeNext]_exchangeVars PROVE RequestInv'
    OBVIOUS
  <1>1. TimeoutInv' /\ Server!TypeOK'
    BY StepTimeout, ServerStepType DEF RequestInv
  <1>2. ASSUME NEW j \in Keys PROVE KeyInv(j)'
    <2>1. CASE Step /\ UNCHANGED serverVars
      BY <2>1, SendKeeps, ClientRecvKeeps, CancelKeeps, ClientReportKeeps, ClientExecuteKeeps,
         ReportTimeoutKeeps DEF Step
    <2>2. CASE Server!Step /\ UNCHANGED clientVars
      BY <2>2, ServerRecvKeeps, ServerReportKeeps, AnswerKeeps, ServerExecuteKeeps
         DEF Server!Step
    <2>3. CASE ExchangeTick \/ ExchangeStop
      BY <2>3, TickKeeps, StopKeeps
    <2>4. CASE UNCHANGED exchangeVars
      BY <2>4
         DEF exchangeVars, clientVars, serverVars, RequestInv, KeyInv, ClientClock,
         WireClock, Unsent,
         Once, OneAnswer, Given, Asks, Outlived, SentOut, InServerHand, Holds, Live,
         Server!Live
    <2> QED
      BY <2>1, <2>2, <2>3, <2>4 DEF ExchangeNext
  <1> QED
    BY <1>1, <1>2 DEF RequestInv

-----------------------------------------------------------------------------
(* SipRequest: what the users at both ends learn of a request. *)
Outcome == [k \in Keys |-> told[k] \ Provisional]

LEMMA InitRefines == ExchangeInit => Promise!Init
  BY DEF ExchangeInit, Init, Server!Init, Promise!Init

LEMMA RequestStutters ==
  ASSUME UNCHANGED <<used, reports, answers>>, Outcome' = Outcome
  PROVE  UNCHANGED Promise!vars
  BY DEF Promise!vars, Outcome

(* The client's thread that took a final response tells of that response,  *)
(* the only final one there is, and no timeout was or will be told.        *)
LEMMA ReportRefines ==
  ASSUME RequestInv, NEW t \in Threads, Report(t), UNCHANGED serverVars
  PROVE  [Promise!Next]_(Promise!vars)
  <1>1. PICK k \in Keys : hand[t] # None /\ hand[t].key = k
    BY DEF Report, RequestInv, TimeoutInv, TypeOK
  <1>2. PICK s \in Given(k) : hand[t].status = s
    BY <1>1 DEF RequestInv, KeyInv, OneAnswer
  <1>3. /\ told' = [told EXCEPT ![k] = @ \cup {s}]
        /\ UNCHANGED <<used, reports, answers>>
    BY <1>1, <1>2 DEF Report, Tell, serverVars
  <1>4. /\ told'[k] = told[k] \cup {s}
        /\ \A j \in Keys \ {k} : told'[j] = told[j]
    BY <1>3 DEF RequestInv, TimeoutInv, TypeOK
  <1>5. CASE s \in Provisional
    <2>1. Outcome' = Outcome
      BY <1>4, <1>5 DEF Outcome
    <2> QED
      BY <1>3, <2>1, RequestStutters
  <1>6. CASE s \in answers[k] /\ s \notin Provisional
    <2>1. answers[k] = {s}
      BY <1>6 DEF RequestInv, KeyInv, OneAnswer
    <2>2. told[k] \subseteq Provisional \cup {s}
      <3>1. RequestTimeout \notin told[k]
        BY <1>1 DEF RequestInv, TimeoutInv, TimeoutExclusive
      <3> QED
        BY <2>1, <3>1 DEF RequestInv, KeyInv, OneAnswer, Given
    <2>3. CASE s \in told[k]
      <3>1. Outcome' = Outcome
        BY <1>4, <2>3 DEF Outcome
      <3> QED
        BY <1>3, <3>1, RequestStutters
    <2>4. CASE s \notin told[k]
      <3>1. Outcome[k] = {}
        BY <2>2, <2>4 DEF Outcome
      <3>2. Outcome' = [Outcome EXCEPT ![k] = answers[k]]
        BY <1>4, <1>6, <2>1, <2>2, <2>4 DEF Outcome
      <3>3. Promise!Learn(k)
        BY <1>3, <2>1, <3>1, <3>2 DEF Promise!Learn, Outcome
      <3> QED
        BY <3>3 DEF Promise!Next
    <2> QED
      BY <2>3, <2>4
  <1> QED
    BY <1>2, <1>5, <1>6 DEF Given

(* A timeout is told once at most, and of a request nothing else was told of. *)
LEMMA TimeoutRefines ==
  ASSUME RequestInv, NEW k \in Keys, ReportTimeout(k), UNCHANGED serverVars
  PROVE  [Promise!Next]_(Promise!vars)
  <1>1. /\ told' = [told EXCEPT ![k] = @ \cup {RequestTimeout}]
        /\ UNCHANGED <<used, reports, answers>> /\ k \in timeouts
    BY DEF ReportTimeout, Tell, serverVars
  <1>2. /\ told'[k] = told[k] \cup {RequestTimeout}
        /\ \A j \in Keys \ {k} : told'[j] = told[j]
    BY <1>1 DEF RequestInv, TimeoutInv, TypeOK
  <1>3. told[k] \subseteq {RequestTimeout} /\ k \in used
    BY <1>1 DEF RequestInv, TimeoutInv, TimeoutExclusive, Silent
  <1>4. RequestTimeout \notin Provisional
    BY StatusAssumption DEF RequestTimeout
  <1>5. CASE RequestTimeout \in told[k]
    <2>1. Outcome' = Outcome
      BY <1>2, <1>5 DEF Outcome
    <2> QED
      BY <1>1, <2>1, RequestStutters
  <1>6. CASE RequestTimeout \notin told[k]
    <2>1. told[k] = {} /\ Outcome[k] = {}
      BY <1>3, <1>6 DEF Outcome
    <2>2. Outcome' = [Outcome EXCEPT ![k] = {RequestTimeout}]
      BY <1>2, <1>4, <2>1 DEF Outcome
    <2>3. Promise!Expire(k)
      BY <1>1, <1>3, <2>1, <2>2 DEF Promise!Expire, Outcome
    <2> QED
      BY <2>3 DEF Promise!Next
  <1> QED
    BY <1>5, <1>6

(* The server's TU is told of a request that was sent, for the first time. *)
LEMMA ServerReportRefines ==
  ASSUME RequestInv, NEW t \in ServerThreads, Server!Report(t), UNCHANGED clientVars
  PROVE  [Promise!Next]_(Promise!vars)
  <1>1. PICK k \in Keys : Holds(t, k) /\ serverHand[t].key = k
    BY DEF Server!Report, RequestInv, Server!TypeOK, Holds
  <1>2. KeyInv(k) /\ InServerHand(k)
    BY <1>1 DEF RequestInv, InServerHand
  <1>3. reports[k] = 0 /\ k \in used
    BY <1>2 DEF KeyInv, Once, Unsent
  <1>4. reports' = [reports EXCEPT ![k] = 1] /\ UNCHANGED <<used, answers, told>>
    BY <1>1, <1>3 DEF Server!Report, clientVars
  <1>5. Promise!Execute(k)
    BY <1>3, <1>4 DEF Promise!Execute
  <1> QED
    BY <1>5 DEF Promise!Next

LEMMA AnswerRefines ==
  ASSUME RequestInv, NEW k \in Keys, NEW s \in Server!Statuses, Server!InsertResponse(k, s),
         UNCHANGED clientVars
  PROVE  [Promise!Next]_(Promise!vars)
  <1>1. /\ reports[k] > 0 /\ answers[k] \subseteq {s}
        /\ answers' = [answers EXCEPT ![k] = @ \cup ({s} \cap Final)]
        /\ UNCHANGED <<used, reports, told>>
    BY DEF Server!InsertResponse, clientVars
  <1>2. reports[k] = 1
    BY <1>1 DEF RequestInv, KeyInv, Once
  <1>3. CASE s \in Final /\ s \notin answers[k]
    <2>1. answers[k] = {} /\ answers' = [answers EXCEPT ![k] = {s}]
      BY <1>1, <1>3
    <2>2. Promise!Answer(k, s)
      BY <1>1, <1>2, <2>1 DEF Promise!Answer
    <2> QED
      BY <1>3, <2>2 DEF Promise!Next
  <1>4. CASE s \notin Final \/ s \in answers[k]
    <2>1. answers' = answers
      BY <1>1, <1>4 DEF RequestInv, Server!TypeOK
    <2> QED
      BY <1>1, <2>1, RequestStutters DEF Outcome
  <1> QED
    BY <1>3, <1>4

LEMMA StepRefines == RequestInv /\ [ExchangeNext]_exchangeVars => [Promise!Next]_(Promise!vars)
  <1> SUFFICES ASSUME RequestInv, [ExchangeNext]_exchangeVars PROVE [Promise!Next]_(Promise!vars)
    OBVIOUS
  <1>1. CASE Step /\ UNCHANGED serverVars
    <2>1. ASSUME NEW k \in Keys, InsertRequest(k) PROVE Promise!Next
      <3>1. Promise!Send(k)
        BY <1>1, <2>1 DEF InsertRequest, Promise!Send, serverVars
      <3> QED
        BY <3>1 DEF Promise!Next
    <2>2. ASSUME \/ \E t \in Threads, m \in wire : InsertResponse(t, m)
                 \/ \E k \in Cancels : DeleteCancel(k)
                 \/ Execute
          PROVE  UNCHANGED Promise!vars
      BY <1>1, <2>2, RequestStutters DEF InsertResponse, DeleteCancel,
         Execute, serverVars, Outcome
    <2> QED
      BY <1>1, <2>1, <2>2, ReportRefines, TimeoutRefines DEF Step
  <1>2. CASE Server!Step /\ UNCHANGED clientVars
    <2>1. ASSUME (\E t \in ServerThreads, m \in wire : Server!InsertRequest(t, m)) \/ Server!Execute
          PROVE  UNCHANGED Promise!vars
      BY <1>2, <2>1, RequestStutters
         DEF Server!InsertRequest, Server!Execute, clientVars, Outcome
    <2> QED
      BY <1>2, <2>1, ServerReportRefines, AnswerRefines DEF Server!Step
  <1>3. CASE ExchangeTick \/ ExchangeStop \/ UNCHANGED exchangeVars
    BY <1>3, RequestStutters
       DEF ExchangeTick, ExchangeStop, Stop, Server!Stop, exchangeVars, clientVars,
       serverVars,
       Outcome
  <1> QED
    BY <1>1, <1>2, <1>3 DEF ExchangeNext

(* The two lists, and the network between them, implement SipRequest: the  *)
(* server's TU is told of a request at most once, however often the client *)
(* sends it and the network repeats it, because CSipNISTList keeps the     *)
(* transaction for TimerJ, longer than a request can still arrive; and the *)
(* client's TU learns the one final response the server's gave, or a       *)
(* timeout, and never both.                                                *)
THEOREM RequestRefined ==
  ASSUME InTime
  PROVE  Exchange => ImplementsRequest
  BY InitRequest, StepRequest, InitRefines, StepRefines, PTL
     DEF Exchange, ImplementsRequest, Promise!Spec

=============================================================================
