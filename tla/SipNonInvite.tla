---------------------------- MODULE SipNonInvite ----------------------------
(***************************************************************************)
(* Two SIP stacks that exchange non-INVITE requests over UDP: the client   *)
(* transactions of one (SipNICTList, extended here), the server            *)
(* transactions of the other (SipNISTList) in place of the external server *)
(* of SipNICTList, and the network between them, which keeps a message for *)
(* MaxDelay ticks at most.                                                 *)
(*                                                                         *)
(* CSipStack::Execute runs every 20 ms in both stacks, a tick is 250 ms:   *)
(* no tick passes before both lists have done what they are due to do.     *)
(***************************************************************************)
EXTENDS SipNICTList

CONSTANTS
  ServerThreads,  \* receive threads of the server; Threads are the client's
  TimerJ          \* m_iTimerJ of the server, in ticks

ASSUME TimerAssumption == TimerJ \in 0..MaxAge

VARIABLES serverTrans, serverHand, reports, answers, chosen  \* of SipNISTList

\* running and wire belong to both; running is TRUE: the stacks are not stopped.
clientVars == <<trans, hand, timeouts, used, told, dropped, server>>
serverVars == <<serverTrans, serverHand, reports, answers, chosen>>
exchangeVars == <<clientVars, serverVars, running, wire>>

Server == INSTANCE SipNISTList WITH
  Threads <- ServerThreads, MaxReports <- 2, trans <- serverTrans, hand <- serverHand

ExchangeInit == Init /\ Server!Init

Punctual ==
  /\ \A k \in Live : ~Expired(trans[k]) /\ ~ReSendDue(trans[k])
  /\ \A k \in Server!Live : ~Server!Expired(serverTrans[k])

ExchangeTick ==
  /\ Punctual
  /\ TransactionsAge /\ Server!TransactionsAge /\ WireAges
  /\ UNCHANGED <<hand, timeouts, used, told, dropped, server,
                 serverHand, reports, answers, chosen, running>>

(* Both stacks are stopped, once their threads have ended. *)
ExchangeStop == Stop /\ Server!Stop

ExchangeNext ==
  \/ Step /\ UNCHANGED serverVars
  \/ Server!Step /\ UNCHANGED clientVars
  \/ ExchangeTick
  \/ ExchangeStop

(* Time passes and no thread of the stacks is blocked for ever. *)
StackThread ==
  \/ Execute /\ UNCHANGED serverVars
  \/ \E k \in Keys : ReportTimeout(k) /\ UNCHANGED serverVars
  \/ Server!Execute /\ UNCHANGED clientVars

Exchange == ExchangeInit /\ [][ExchangeNext]_exchangeVars
FairExchange ==
  Exchange /\ WF_exchangeVars(ExchangeTick) /\ WF_exchangeVars(StackThread)
-----------------------------------------------------------------------------
Promise == INSTANCE SipRequest WITH
  Timeout <- RequestTimeout, sent <- used, executed <- reports,
  outcome <- [k \in Keys |-> told[k] \ Provisional]

(* The two lists implement what SipRequest promises.  In particular the    *)
(* server's user is not told of a request twice: TimerJ outlasts the       *)
(* client's last retransmission by more than the network may delay it.     *)
ImplementsRequest == Promise!Spec

(* A transaction that was answered leaves the server's list, even if its   *)
(* client goes on retransmitting (CSipNISTList::Execute).                  *)
AnsweredTransactionsEnd == Server!AnsweredTransactionsEnd
=============================================================================
