----------------------------- MODULE SipNISTList ----------------------------
(***************************************************************************)
(* The non-INVITE server transactions of the SIP stack                     *)
(* (SipStack/SipNISTList.cpp).                                             *)
(*                                                                         *)
(* Receive threads insert requests under the mutex of the list and report  *)
(* the new ones to the TU without it; a request that is in the list only   *)
(* has its last response sent again.  The TU answers from any thread.  The *)
(* stack thread deletes what was answered TimerJ ago.                      *)
(*                                                                         *)
(* SipNonInvite adds the clients, the network and time.                    *)
(*                                                                         *)
(* An operator named F_Fault is F with a fault seeded in it: no action     *)
(* uses it, and the properties are shown to notice it.                     *)
(***************************************************************************)
EXTENDS Integers

CONSTANTS
  Keys,         \* transaction keys of the requests clients may send
  Threads,      \* receive threads
  Provisional,  \* 1xx status codes the TU answers with
  Final,        \* final status codes the TU answers with
  TimerJ,       \* m_iTimerJ, in ticks
  MaxAge,       \* ages saturate here
  MaxDelay,     \* how long the network keeps a message, in ticks
  MaxReports    \* bound: how often the TU is told of one request

NoTime == -1

VARIABLES
  trans,    \* m_clsMap: the transaction of each key, or None
  hand,     \* the request each thread is about to report, or None
  reports,  \* how often the TU was told of each request
  answers,  \* final statuses the TU answered each request with
  chosen,   \* history: the final status of each transaction, or 0
  running,  \* FALSE once the stack was stopped
  wire      \* messages in the network

vars == <<trans, hand, reports, answers, chosen, running, wire>>

None == [none |-> TRUE]
Statuses == Provisional \cup Final
Ages == NoTime .. MaxAge

\* CSipNonInviteTransaction; the status is 0 as long as m_pclsResponse is NULL.
Transaction == [status : Statuses \cup {0}, stop : Ages]

Response(k, s) == [key |-> k, status |-> s, age |-> 0]
Message == [key : Keys, status : Statuses \cup {0}, age : 0..MaxDelay]

Live == {k \in Keys : trans[k] # None}

Init ==
  /\ trans = [k \in Keys |-> None]
  /\ hand = [t \in Threads |-> None]
  /\ reports = [k \in Keys |-> 0]
  /\ answers = [k \in Keys |-> {}]
  /\ chosen = [k \in Keys |-> 0]
  /\ running = TRUE
  /\ wire = {}

-----------------------------------------------------------------------------
(* A request arrives: a new one, or one the client sent again, which is    *)
(* answered with the last response, if there is one.                       *)
InsertRequest(t, m) ==
  /\ running
  /\ hand[t] = None
  /\ m.status = 0
  /\ IF m.key \notin Live
     THEN /\ reports[m.key] < MaxReports
          /\ trans' = [trans EXCEPT ![m.key] = [status |-> 0, stop |-> NoTime]]
          /\ hand' = [hand EXCEPT ![t] = [key |-> m.key]]
          /\ chosen' = [chosen EXCEPT ![m.key] = 0]
          /\ UNCHANGED wire
     ELSE /\ wire' = IF trans[m.key].status = 0 THEN wire
                     ELSE wire \cup {Response(m.key, trans[m.key].status)}
          /\ UNCHANGED <<trans, hand, chosen>>
  /\ UNCHANGED <<reports, answers, running>>

(* RecvRequest: the TU learns of a request. *)
Report(t) ==
  /\ hand[t] # None
  /\ reports' = [reports EXCEPT ![hand[t].key] = @ + 1]
  /\ hand' = [hand EXCEPT ![t] = None]
  /\ UNCHANGED <<trans, answers, chosen, running, wire>>

Store_StopAtFirst(x, s) ==
  [x EXCEPT !.status = s, !.stop = IF x.status = 0 /\ s >= 200 THEN 0 ELSE @]

Store(x, s) == [x EXCEPT !.status = s, !.stop = IF s >= 200 THEN 0 ELSE @]

(* The TU answers a request it was told of, with one final status.  The    *)
(* response is stored and sent unless it has the status of the one before. *)
InsertResponse(k, s) ==
  /\ running
  /\ reports[k] > 0
  /\ answers[k] \subseteq {s} /\ (answers[k] # {} => s \in Final)
  /\ answers' = [answers EXCEPT ![k] = @ \cup ({s} \cap Final)]
  /\ IF k \in Live /\ trans[k].status # s
     THEN /\ trans' = [trans EXCEPT ![k] = Store(@, s)]
          /\ chosen' = [chosen EXCEPT ![k] = IF s >= 200 /\ @ = 0 THEN s ELSE @]
          /\ wire' = wire \cup {Response(k, s)}
     ELSE UNCHANGED <<trans, chosen, wire>>
  /\ UNCHANGED <<hand, reports, running>>

-----------------------------------------------------------------------------
(* CSipNISTList::Execute: one pass of the stack thread under the mutex.    *)
Expired_Early(x) == x.stop # NoTime /\ x.stop + 1 >= TimerJ

Expired(x) == x.stop # NoTime /\ x.stop >= TimerJ

Execute ==
  /\ running
  /\ trans' = [k \in Keys |->
       IF k \notin Live \/ Expired(trans[k]) THEN None ELSE trans[k]]
  /\ UNCHANGED <<hand, reports, answers, chosen, running, wire>>

Older(a) == IF a = NoTime \/ a = MaxAge THEN a ELSE a + 1

TransactionsAge ==
  trans' = [k \in Keys |->
    IF k \notin Live THEN None ELSE [trans[k] EXCEPT !.stop = Older(@)]]

(* CSipStack::Stop, once every thread has ended: DeleteAll. *)
Stop ==
  /\ running
  /\ \A t \in Threads : hand[t] = None
  /\ running' = FALSE
  /\ trans' = [k \in Keys |-> None]
  /\ UNCHANGED <<hand, reports, answers, chosen, wire>>

Step ==
  \/ \E t \in Threads, m \in wire : InsertRequest(t, m)
  \/ \E t \in Threads : Report(t)
  \/ \E k \in Keys, s \in Statuses : InsertResponse(k, s)
  \/ Execute

-----------------------------------------------------------------------------
(* Types.  Timer J runs exactly when a final response was accepted.        *)
TypeOK ==
  /\ trans \in [Keys -> Transaction \cup {None}]
  /\ \A k \in Live : trans[k].stop # NoTime <=> chosen[k] # 0
  /\ hand \in [Threads -> [key : Keys] \cup {None}]
  /\ reports \in [Keys -> Nat]
  /\ answers \in [Keys -> SUBSET Final]
  /\ chosen \in [Keys -> Final \cup {0}]
  /\ running \in BOOLEAN
  /\ wire \subseteq Message

(* A transaction that was answered leaves the list, even if its client     *)
(* never stops retransmitting.                                             *)
AnsweredTransactionsEnd ==
  \A k \in Keys : k \in Live /\ chosen[k] # 0 ~> k \notin Live
=============================================================================
