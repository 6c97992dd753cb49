--------------------------- MODULE SipStackThreads --------------------------
(***************************************************************************)
(* The threads of a SIP stack from CSipStack::Start to CSipStack::Stop     *)
(* (SipStack/SipStack.cpp) and the queue between them (SipQueue.cpp).      *)
(*                                                                         *)
(*  - Receivers (UDP, TCP, TLS and listen threads, and the stack thread)   *)
(*    poll with a timeout.  What they receive they handle themselves, or,  *)
(*    if there are workers, put in the queue.                              *)
(*  - Workers (SipQueueThread) wait for the queue without a timeout.       *)
(*  - The application starts and stops the stack from one thread.  A       *)
(*    thread counts itself when it begins to run, and Stop waits until     *)
(*    the count is zero.                                                   *)
(*                                                                         *)
(* The three counts _Stop waits for (m_iUdpThreadRunCount,                 *)
(* m_iTcpThreadRunCount, m_bStackThreadRun) are one here; the connecting   *)
(* threads it waits for as well are left out.  A section under the mutex   *)
(* of the queue is one step, and so is its release by wait().              *)
(*                                                                         *)
(* An operator named F_Fault is F with a fault seeded in it: no action     *)
(* uses it, and the properties are shown to notice it.                     *)
(***************************************************************************)
EXTENDS Naturals, Sequences, FiniteSets

CONSTANTS
  Workers,      \* SipQueueThread, m_iTcpCallBackThreadCount of them
  Receivers,    \* the other threads
  MaxMessages,  \* bound: messages received in all
  MaxStarts,    \* bound: how often the stack is started
  Settled       \* whether Start never fails, and Stop is not called before
                \* every thread runs

Threads == Workers \cup Receivers

ASSUME ThreadAssumption ==
  /\ Workers \cap Receivers = {}
  /\ IsFiniteSet(Workers) /\ IsFiniteSet(Receivers)
  /\ MaxMessages \in Nat /\ MaxStarts \in Nat /\ Settled \in BOOLEAN

VARIABLES
  main,       \* where the application is in Start, Stop and _Stop
  stopEvent,  \* m_bStopEvent
  open,       \* whether the sockets are open
  starts,     \* how often Start was called
  count,      \* the threads that counted themselves
  pc,         \* where each thread is
  queue,      \* gclsSipQueue
  received,   \* the messages received so far are 1 .. received
  handled     \* those that RecvSipMessage was called with

vars == <<main, stopEvent, open, starts, count, pc, queue, received, handled>>
application == <<main, stopEvent, open, starts>>
messages == <<queue, received, handled>>

In(state) == {t \in Threads : pc[t] = state}

Gone == In("none") \cup In("dead")

Init ==
  /\ main = "stopped"
  /\ stopEvent = FALSE
  /\ open = FALSE
  /\ starts = 0
  /\ count = 0
  /\ pc = [t \in Threads |-> "none"]
  /\ queue = <<>>
  /\ received = 0
  /\ handled = {}

-----------------------------------------------------------------------------
(* Start opens the sockets and creates threads S.  If these are not all of *)
(* them, the next one could not be created, and Start calls _Stop.         *)
Start(S) ==
  /\ main = "stopped" /\ ~stopEvent
  /\ starts < MaxStarts
  /\ Gone = Threads
  /\ S = Threads \/ ~Settled
  /\ main' = IF S = Threads THEN "running" ELSE "failed"
  /\ starts' = starts + 1
  /\ open' = TRUE
  /\ pc' = [t \in Threads |-> IF t \in S THEN "new" ELSE "none"]
  /\ UNCHANGED <<stopEvent, count, messages>>

(* _Stop, in three steps: it sets the stop event and sends an empty packet *)
(* to every UDP thread, wakes the workers, and waits for all threads.      *)
SetStopEvent ==
  /\ main \in {"running", "failed"}
  /\ Settled => In("new") = {}
  /\ main' = "broadcast"
  /\ stopEvent' = TRUE
  /\ UNCHANGED <<open, starts, count, pc, messages>>

BroadCast ==
  /\ main = "broadcast"
  /\ main' = "wait"
  /\ pc' = [t \in Threads |-> IF pc[t] = "waiting" THEN "woken" ELSE pc[t]]
  /\ UNCHANGED <<stopEvent, open, starts, count, messages>>

AllEnded == count = 0

Close ==
  /\ main = "wait"
  /\ AllEnded
  /\ main' = "stopped"
  /\ stopEvent' = FALSE
  /\ open' = FALSE
  /\ UNCHANGED <<starts, count, pc, messages>>

-----------------------------------------------------------------------------
(* A thread begins to run and counts itself, under CSipStack's mutex.      *)
Begin(t) ==
  /\ pc[t] = "new"
  /\ pc' = [pc EXCEPT ![t] = "loop"]
  /\ count' = count + 1
  /\ UNCHANGED <<application, messages>>

(* The condition of the thread's loop, read without any mutex.             *)
Loop(t) ==
  /\ pc[t] = "loop"
  /\ pc' = [pc EXCEPT ![t] = IF stopEvent THEN "ending"
                             ELSE IF t \in Workers THEN "select" ELSE "poll"]
  /\ UNCHANGED <<application, count, messages>>

End_Uncounted(t) ==
  /\ pc[t] = "ending"
  /\ pc' = [pc EXCEPT ![t] = "dead"]
  /\ UNCHANGED <<application, count, messages>>

(* ThreadEnd, and the count. *)
End(t) ==
  /\ pc[t] = "ending"
  /\ pc' = [pc EXCEPT ![t] = "dead"]
  /\ count' = count - 1
  /\ UNCHANGED <<application, messages>>

PollTimeout(t) ==
  /\ pc[t] = "poll"
  /\ pc' = [pc EXCEPT ![t] = "loop"]
  /\ UNCHANGED <<application, count, messages>>

Signalled_OnlyFirst == IF queue = <<>> THEN In("waiting") ELSE {}

Signalled_Nobody == {}

(* The workers signal() may wake. *)
Signalled == In("waiting")

(* A receiver gets a message: CSipQueue::Insert, if there are workers.     *)
Insert(t) ==
  /\ pc[t] = "poll"
  /\ received < MaxMessages
  /\ received' = received + 1
  /\ IF Workers = {}
     THEN /\ handled' = handled \cup {received'}
          /\ pc' = [pc EXCEPT ![t] = "loop"]
          /\ UNCHANGED queue
     ELSE /\ queue' = Append(queue, received')
          /\ \/ \E w \in Signalled : pc' = [pc EXCEPT ![t] = "loop", ![w] = "woken"]
             \/ Signalled = {} /\ pc' = [pc EXCEPT ![t] = "loop"]
          /\ UNCHANGED handled
  /\ UNCHANGED <<application, count>>

(* CSipQueue::Select up to its wait(), or past it: with a message the      *)
(* worker handles it and comes back to its loop.                           *)
Take(t) ==
  /\ queue # <<>>
  /\ queue' = Tail(queue)
  /\ handled' = handled \cup {Head(queue)}
  /\ pc' = [pc EXCEPT ![t] = "loop"]
  /\ UNCHANGED received

Select(t) ==
  /\ pc[t] = "select"
  /\ \/ Take(t)
     \/ /\ queue = <<>>
        /\ pc' = [pc EXCEPT ![t] = "waiting"]
        /\ UNCHANGED messages
  /\ UNCHANGED <<application, count>>

Wake(t) ==
  /\ pc[t] = "woken"
  /\ \/ Take(t)
     \/ /\ queue = <<>>
        /\ pc' = [pc EXCEPT ![t] = "loop"]
        /\ UNCHANGED messages
  /\ UNCHANGED <<application, count>>

(* pthread_cond_wait may return without a signal. *)
WakeSpuriously(t) ==
  /\ pc[t] = "waiting"
  /\ pc' = [pc EXCEPT ![t] = "woken"]
  /\ UNCHANGED <<application, count, messages>>

Next ==
  \/ \E S \in SUBSET Threads : Start(S)
  \/ SetStopEvent
  \/ BroadCast
  \/ Close
  \/ \E t \in Threads :
       \/ Begin(t) \/ Loop(t) \/ End(t) \/ PollTimeout(t) \/ Insert(t)
       \/ Select(t) \/ Wake(t) \/ WakeSpuriously(t)

(* Every thread that can run does, poll times out, and _Stop goes on.      *)
(* Nobody has to call Start or Stop, no message has to arrive, and no      *)
(* thread has to wake without a signal.                                    *)
Fairness ==
  /\ WF_vars(BroadCast) /\ WF_vars(Close)
  /\ \A t \in Threads :
       /\ WF_vars(Begin(t)) /\ WF_vars(Loop(t)) /\ WF_vars(End(t))
       /\ WF_vars(PollTimeout(t)) /\ WF_vars(Select(t)) /\ WF_vars(Wake(t))

Spec == Init /\ [][Next]_vars
FairSpec == Spec /\ Fairness
-----------------------------------------------------------------------------
TypeOK ==
  /\ main \in {"stopped", "running", "failed", "broadcast", "wait"}
  /\ stopEvent \in BOOLEAN /\ open \in BOOLEAN
  /\ starts \in Nat
  /\ count \in Nat
  /\ pc \in [Threads -> {"none", "new", "loop", "select", "poll", "waiting",
                         "woken", "ending", "dead"}]
  /\ In("select") \cup In("waiting") \cup In("woken") \subseteq Workers
  /\ queue \in Seq(Nat)
  /\ received \in Nat /\ handled \subseteq Nat

(* No message is overlooked: although signal() wakes one worker only and   *)
(* any worker may take the message it was meant for, a worker waits only   *)
(* if each message in the queue has a worker that is about to look at it.  *)
NoMessageOverlooked ==
  In("waiting") # {} => Len(queue) <= Cardinality(In("woken"))

(* _Stop waits for the end of all threads before it closes the sockets.    *)
NoThreadOnClosedSockets == ~open => Threads = Gone

(* Every variable has its type, no message is overlooked and no thread     *)
(* outlives the sockets.                                                   *)
Consistent == TypeOK /\ NoMessageOverlooked /\ NoThreadOnClosedSockets

(* A message that was received is handled, unless the stack is stopped.    *)
MessagesHandled ==
  \A m \in 1..MaxMessages : received >= m ~> m \in handled \/ main # "running"

(* Whatever keeps Stop from coming to its end, it is a worker that waits   *)
(* for the queue and is not signalled any more.                            *)
OnlyWaitersHoldStop ==
  stopEvent ~> ~stopEvent \/ [](In("waiting") # {})

=============================================================================
