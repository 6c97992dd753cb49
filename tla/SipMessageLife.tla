--------------------------- MODULE SipMessageLife ---------------------------
(***************************************************************************)
(* The life of the SIP messages of a stack that keeps transactions         *)
(* (m_bStateful): who holds a message, what its m_iUseCount counts and who *)
(* deletes it (SipStackComm.hpp, SipDeleteQueue.cpp, the lists'            *)
(* transactions, TcpConnectMap.cpp and the client threads).                *)
(*                                                                         *)
(* A message is allocated by the thread that sends or receives it, which   *)
(* counts its own use, inserts it into a transaction list, uses it without *)
(* the list's mutex and counts the use down.  A transaction owns the       *)
(* messages it stores; when it lets go of one the delete queue frees it,   *)
(* at once or, while it is in use, later.  A thread that makes a           *)
(* connection counts its use too, as does the list of messages that wait   *)
(* for the connection.                                                     *)
(*                                                                         *)
(* m_iUseCount is a plain int8_t that no lock protects: counting down      *)
(* reads it and writes it back, and what another thread counted between    *)
(* the two is lost.                                                        *)
(*                                                                         *)
(* One transaction: an INVITE server transaction or a non-INVITE client    *)
(* transaction.  SipISTList and SipNICTList have their timers; here a      *)
(* timer may run out any time.  One peer; SipTcp has its connections: a    *)
(* send finds one or not.                                                  *)
(*                                                                         *)
(* An operator named F_Fault is F with a fault seeded in it: no action     *)
(* uses it, and the properties are shown to notice it.                     *)
(***************************************************************************)
EXTENDS Integers, Sequences, FiniteSets, SequencesExt

CONSTANTS
  Messages,   \* the messages of a behaviour
  Status,     \* m_iStatusCode of each response, 0 of an INVITE, -1 of an ACK
  Nil,        \* NULL
  Connectors, \* threads that make a connection
  Roles,      \* "IST", "NICT"; one of them in each behaviour
  Transports  \* "udp", "tcp", "tls"; one of them in each behaviour

ASSUME MessageAssumption ==
  /\ Status \in [Messages -> {-1, 0} \cup 100..699]
  /\ Nil \notin Messages /\ Nil \notin Seq(Messages)
  /\ IsFiniteSet(Connectors)
  /\ Roles \subseteq {"IST", "NICT"} /\ Transports \subseteq {"udp", "tcp", "tls"}

Ok           == 200
Unauthorized == 401
ConnectError == 660   \* SIP_CONNECT_ERROR

Ack(m)      == Status[m] = -1
Request(m)  == Status[m] = 0
Response(m) == Status[m] >= 100

VARIABLES
  role, transport,
  obj,     \* "none", "live" or "freed": the memory of each message
  count,   \* m_iUseCount
  place,   \* how far the thread that allocated the message has got
  seen,    \* the count that thread has read and will write back, less one
  trans,   \* the transaction, or None
  queue,   \* gclsSipDeleteQueue
  waiting, \* entry of the peer in m_clsTcpConnectMap, or Nil
  maker,   \* what each connecting thread is doing, or None
  late,    \* the response SendTimeout will be called with, or Nil: a use nobody counts
  twice,   \* history: messages deleted twice
  spoilt,  \* history: messages of which the beginning of a use was lost or not counted
  stuck,   \* history: messages of which the end of a use was lost
  run      \* "up", "stopping", "stopped"

historyVars == <<twice, spoilt, stuck>>
connectVars == <<waiting, maker>>
ownerVars == <<place, seen>>
vars == <<role, transport, obj, count, ownerVars, trans, queue, connectVars, late,
          historyVars, run>>

None == [none |-> TRUE]
NewTransaction(m) == [request |-> m, response |-> Nil, ack |-> Nil, over |-> FALSE]
Held == (IF trans = None THEN {} ELSE {trans.request, trans.response, trans.ack}) \ {Nil}

Init ==
  /\ role \in Roles /\ transport \in Transports
  /\ obj = [m \in Messages |-> "none"] /\ count = [m \in Messages |-> 0]
  /\ place = [m \in Messages |-> "none"] /\ seen = count
  /\ trans = None /\ queue = <<>> /\ waiting = Nil
  /\ maker = [c \in Connectors |-> None]
  /\ late = Nil /\ twice = {} /\ spoilt = {} /\ stuck = {} /\ run = "up"

-----------------------------------------------------------------------------
(* Deleting.  Freeing is the effect of delete on a set of messages.        *)

Freed(s) == [m \in Messages |-> IF m \in s THEN "freed" ELSE obj[m]]
FreedAndNew(s, new) == [Freed(s) EXCEPT ![new] = "live"]
TwiceFreed(s) == twice \cup {m \in s : obj[m] = "freed"}

\* CSipDeleteQueue::Insert, of each message of s: an unused one is deleted at once.
Unused_Any(s) == s

Unused(s) == {m \in s : count[m] = 0}

Retire(s) ==
  /\ twice' = TwiceFreed(Unused(s))
  /\ queue' = queue \o SetToSeq(s \ Unused(s))

\* A message that DeleteTimeout may delete once it is due.
Deletable(m) == count[m] <= 0

\* CSipDeleteQueue::DeleteTimeout: from the front, up to one that is not due (the
\* first after n of them) or in use.  The stack thread calls it after Execute.
DeleteTimeout ==
  /\ run = "up" /\ late = Nil
  /\ \E n \in 1 .. Len(queue) :
       LET due == {queue[i] : i \in 1..n} IN
       /\ \A m \in due : Deletable(m)
       /\ obj' = Freed(due) /\ twice' = TwiceFreed(due)
       /\ queue' = SubSeq(queue, n + 1, Len(queue))
  /\ UNCHANGED <<role, transport, count, ownerVars, trans, connectVars, late, spoilt, stuck, run>>

-----------------------------------------------------------------------------
(* The transaction lists.  Insert, and Send of what a list sends again,    *)
(* happen under the list's mutex.                                          *)

\* CSipStack::Send of m: over a connection there is, nothing remains to be done; else
\* a thread starts to make one (StartSipTcpClientThread), or m waits for the one that
\* is being made (CTcpConnectMap::Insert).  Both count a use of m.
Counted_Not(m) == count

Counted(m) == [count EXCEPT ![m] = @ + 1]

Connecting(m) == [step |-> "connect", first |-> m, batch |-> <<>>, seen |-> 0]

Send(m) ==
  \/ UNCHANGED <<count, connectVars>>
  \/ /\ transport # "udp" /\ waiting = Nil
     /\ \E c \in Connectors :
          maker[c] = None /\ maker' = [maker EXCEPT ![c] = Connecting(m)]
     /\ waiting' = <<>> /\ count' = Counted(m)
  \/ /\ transport # "udp" /\ waiting # Nil
     /\ waiting' = Append(waiting, m) /\ count' = Counted(m)
     /\ UNCHANGED maker

Answered == trans # None /\ trans.response # Nil

\* The list takes a message: the INVITE or request of a new transaction, the first ACK
\* of another response than a 401, a response that may replace the stored one.
Accepts(m) ==
  \/ Request(m) /\ trans = None
  \/ Ack(m) /\ trans # None /\ trans.ack = Nil
     /\ (Answered => Status[trans.response] # Unauthorized)
  \/ Response(m) /\ trans # None
     /\ (Answered => IF role = "IST" THEN Status[m] > Status[trans.response]
                                     ELSE Status[m] # Status[trans.response])

\* What becomes of the transaction, and what it lets go of.
Storing(m) ==
  CASE Request(m)  -> NewTransaction(m)
    [] Ack(m)      -> [trans EXCEPT !.ack = m, !.over = TRUE]
    [] Response(m) -> [trans EXCEPT !.response = m,
                         !.over = @ \/ (role = "NICT" /\ Status[m] >= 200)]

Replaced_Forgotten(m) == {}

Replaced(m) == IF Response(m) THEN {trans.response} \ {Nil} ELSE {}

\* A response is received after the request was sent; an application answers, and the
\* peer acknowledges, what it has received.  A 660 is what a failed connection makes of
\* the request.  Bounds: a repetition comes while there is a transaction (later it would
\* begin another one), and the INVITE named First is the first.
Sends(m) == IF role = "IST" THEN Response(m) ELSE Request(m)
Started(Kind(_)) == \E m \in Messages : Kind(m) /\ place[m] # "none"
Refusing(c) == maker[c] # None /\ maker[c].step = "failed" /\ Request(maker[c].first)
First == CHOOSE m \in Messages : Request(m)
Due(m) ==
  \/ Request(m) /\ (Started(Request) => role = "IST" /\ trans # None)
                /\ (m = First \/ place[First] # "none")
  \/ Ack(m) /\ role = "IST" /\ Started(Response)
  \/ Response(m) /\ Status[m] # ConnectError /\ Started(Request)
  \/ Status[m] = ConnectError /\ \E c \in Connectors : Refusing(c)

\* A message is allocated, its use is counted, and Insert is called: until then only its
\* thread knows it.
Begins(m) ==
  /\ run = "up" \/ Status[m] = ConnectError
  /\ place[m] = "none" /\ Due(m)
  /\ UNCHANGED <<role, transport, seen, late, stuck, run>>

\* SendSipMessage, RecvSipMessage: Insert takes the message.  A response it replaces may
\* be the one the stack thread is about to call SendTimeout with; if nobody else uses
\* that, it is deleted at once.
Insert(m) ==
  /\ Begins(m) /\ Accepts(m)
  /\ trans' = Storing(m) /\ Retire(Replaced(m))
  /\ obj' = FreedAndNew(Unused(Replaced(m)), m)
  /\ spoilt' = spoilt \cup (Unused(Replaced(m)) \cap {late})
  /\ count' = [count EXCEPT ![m] = 1]
  /\ place' = [place EXCEPT ![m] = "kept"]
  /\ UNCHANGED connectVars

\* Insert does not take it, and the caller deletes it.
Discard(m) ==
  /\ Begins(m) /\ ~Accepts(m)
  /\ place' = [place EXCEPT ![m] = "gone"]
  /\ UNCHANGED spoilt

EndsRefusal(m) == Ack(m) /\ Answered /\ Status[trans.response] = Unauthorized
Repeats(m) == Request(m) /\ role = "IST" /\ Answered

\* The ACK of a 401 deletes the transaction, not kept itself.
DiscardAckOfRefusal(m) ==
  /\ EndsRefusal(m) /\ Discard(m)
  /\ trans' = None /\ Retire(Held) /\ obj' = Freed(Unused(Held) \cup {m})
  /\ UNCHANGED <<count, connectVars>>

\* A repeated INVITE has the stored response sent again, under the mutex.
DiscardRepeated(m) ==
  /\ Repeats(m) /\ Discard(m)
  /\ Send(trans.response)
  /\ obj' = Freed({m}) /\ UNCHANGED <<twice, queue, trans>>

DiscardOther(m) ==
  /\ ~EndsRefusal(m) /\ ~Repeats(m) /\ Discard(m)
  /\ obj' = Freed({m}) /\ UNCHANGED <<count, connectVars, twice, queue, trans>>

-----------------------------------------------------------------------------
(* The thread that sends or receives a message.                            *)

\* After Insert: SendSipMessage sends the message; RecvSipMessage has called the
\* application back with it.
Use(m) ==
  /\ place[m] = "kept" /\ Sends(m) /\ Send(m)
  /\ place' = [place EXCEPT ![m] = "used"]
  /\ UNCHANGED <<role, transport, obj, seen, trans, queue, late, historyVars, run>>

\* --m_iUseCount of a received message: nobody else counts it.
CountDown_Not(m) ==
  /\ place[m] = "kept" /\ ~Sends(m)
  /\ place' = [place EXCEPT ![m] = "gone"]
  /\ UNCHANGED <<role, transport, obj, count, seen, trans, queue, connectVars, late,
                 historyVars, run>>

CountDown(m) ==
  /\ place[m] = "kept" /\ ~Sends(m)
  /\ count' = [count EXCEPT ![m] = @ - 1]
  /\ place' = [place EXCEPT ![m] = "gone"]
  /\ UNCHANGED <<role, transport, obj, seen, trans, queue, connectVars, late, historyVars, run>>

\* --m_iUseCount of one that was sent: read, and written back whatever happened since.
Lost(m, read) ==
  /\ spoilt' = IF count[m] > read THEN spoilt \cup {m} ELSE spoilt
  /\ stuck'  = IF count[m] < read THEN stuck \cup {m} ELSE stuck

ReadCount(m) ==
  /\ place[m] = "used"
  /\ seen' = [seen EXCEPT ![m] = count[m]]
  /\ place' = [place EXCEPT ![m] = "read"]
  /\ UNCHANGED <<role, transport, obj, count, trans, queue, connectVars, late, historyVars, run>>

WriteCount(m) ==
  /\ place[m] = "read"
  /\ count' = [count EXCEPT ![m] = seen[m] - 1]
  /\ seen' = [seen EXCEPT ![m] = 0]
  /\ place' = [place EXCEPT ![m] = "gone"]
  /\ Lost(m, seen[m])
  /\ UNCHANGED <<role, transport, obj, trans, queue, connectVars, late, twice, run>>

-----------------------------------------------------------------------------
(* SipTcpClientThread, SipTlsClientThread.                                 *)

Step(c, to) == maker' = [maker EXCEPT ![c] = to]
Writing(c) ==
  [maker[c] EXCEPT !.step = "write", !.batch = IF waiting = Nil THEN <<>> ELSE waiting]

\* The connection is made and the first message written: what waits is taken.
Connect(c) ==
  /\ maker[c] # None /\ maker[c].step = "connect"
  /\ Step(c, Writing(c))
  /\ waiting' = Nil
  /\ UNCHANGED <<role, transport, obj, count, ownerVars, trans, queue, late, historyVars, run>>

\* It is not: a request is answered with a 660, which this thread handles; a response
\* has none (CreateResponse).  What waited is taken after that; only responses wait here.
FailConnect(c) ==
  /\ maker[c] # None /\ maker[c].step = "connect"
  /\ Step(c, [maker[c] EXCEPT !.step = "failed"])
  /\ UNCHANGED <<role, transport, obj, count, ownerVars, waiting, trans, queue, late,
                 historyVars, run>>

TakeAfterFailure(c) ==
  /\ maker[c] # None /\ maker[c].step = "failed"
  /\ Refusing(c) => \A e \in Messages : Status[e] = ConnectError => place[e] = "gone"
  /\ Step(c, Writing(c))
  /\ waiting' = Nil
  /\ UNCHANGED <<role, transport, obj, count, ownerVars, trans, queue, late, historyVars, run>>

\* The message whose use the thread is about to count down: those that waited, then
\* the first.
Current(c) == IF maker[c].batch # <<>> THEN Head(maker[c].batch) ELSE maker[c].first

ReadMakerCount(c) ==
  /\ maker[c] # None /\ maker[c].step = "write"
  /\ Step(c, [maker[c] EXCEPT !.step = "read", !.seen = count[Current(c)]])
  /\ UNCHANGED <<role, transport, obj, count, ownerVars, trans, queue, waiting, late,
                 historyVars, run>>

WriteMakerCount(c) ==
  /\ maker[c] # None /\ maker[c].step = "read"
  /\ count' = [count EXCEPT ![Current(c)] = maker[c].seen - 1]
  /\ Lost(Current(c), maker[c].seen)
  /\ Step(c, IF maker[c].batch = <<>> THEN None
             ELSE [maker[c] EXCEPT !.step = "write", !.seen = 0, !.batch = Tail(@)])
  /\ UNCHANGED <<role, transport, obj, ownerVars, trans, queue, waiting, late, twice, run>>

\* SipTlsClientThread: one of the messages that waited cannot be written; it and those
\* after it are deleted, whoever uses them.
Abandon(c) ==
  /\ transport = "tls" /\ maker[c] # None /\ maker[c].step = "write" /\ maker[c].batch # <<>>
  /\ LET rest == ToSet(maker[c].batch) IN
     /\ obj' = Freed(rest) /\ twice' = TwiceFreed(rest) /\ spoilt' = spoilt \cup rest
     /\ stuck' = stuck \cup rest
  /\ Step(c, [maker[c] EXCEPT !.batch = <<>>])
  /\ UNCHANGED <<role, transport, count, ownerVars, trans, queue, waiting, late, run>>

-----------------------------------------------------------------------------
(* The stack thread, and Stop.                                             *)

\* The transaction is deleted: it is over, or nobody answered the request.
Delete ==
  /\ run = "up" /\ late = Nil /\ trans # None
  /\ trans.over \/ (role = "NICT" /\ ~Answered)
  /\ trans' = None /\ Retire(Held) /\ obj' = Freed(Unused(Held))
  /\ UNCHANGED <<role, transport, count, ownerVars, connectVars, late, spoilt, stuck, run>>

\* CSipISTList::Execute gives up on the ACK; a 200 is remembered for SendTimeout.
GiveUp ==
  /\ run = "up" /\ late = Nil /\ role = "IST" /\ Answered /\ ~trans.over
  /\ Status[trans.response] >= 200
  /\ trans' = [trans EXCEPT !.over = TRUE]
  /\ late' = IF Status[trans.response] = Ok THEN trans.response ELSE Nil
  /\ UNCHANGED <<role, transport, obj, count, ownerVars, queue, connectVars, historyVars, run>>

\* After the mutex was released: SendTimeout is called with that response.
SendTimeout ==
  /\ late # Nil /\ late' = Nil
  /\ UNCHANGED <<role, transport, obj, count, ownerVars, trans, queue, connectVars,
                 historyVars, run>>

Stop ==
  /\ run = "up" /\ run' = "stopping"
  /\ UNCHANGED <<role, transport, obj, count, ownerVars, trans, queue, connectVars, late,
                 historyVars>>

\* _Stop, when its threads have ended and no connection is being made:
\* DeleteAllTransaction deletes all that is left, in use or not.
ThreadsEnded ==
  /\ late = Nil /\ waiting = Nil /\ \A c \in Connectors : maker[c] = None
  /\ \A m \in Messages : Sends(m) \/ place[m] \in {"none", "gone"}

DeleteAll ==
  /\ run = "stopping" /\ ThreadsEnded /\ run' = "stopped"
  /\ LET all == Held \cup ToSet(queue) IN obj' = Freed(all) /\ twice' = TwiceFreed(all)
  /\ trans' = None /\ queue' = <<>>
  /\ UNCHANGED <<role, transport, count, ownerVars, connectVars, late, spoilt, stuck>>

Handle(m) ==
  Insert(m) \/ DiscardAckOfRefusal(m) \/ DiscardRepeated(m) \/ DiscardOther(m)

Finish(m) ==
  \/ CountDown(m) \/ Use(m) \/ ReadCount(m) \/ WriteCount(m)

Make(c) ==
  \/ Connect(c) \/ FailConnect(c) \/ TakeAfterFailure(c)
  \/ ReadMakerCount(c) \/ WriteMakerCount(c) \/ Abandon(c)

\* What a program does with memory that was deleted is undefined.  Once a message is
\* deleted in use, or counted too low, the behaviour is not followed any further.
Defined == spoilt = {}

Progress ==
  /\ Defined
  /\ \/ \E m \in Messages : Finish(m) \/ (Status[m] = ConnectError /\ Handle(m))
     \/ \E c \in Connectors : Make(c)
     \/ SendTimeout \/ DeleteTimeout \/ DeleteAll

Next ==
  \/ Defined /\ ((\E m \in Messages : Handle(m)) \/ Delete \/ GiveUp \/ Stop)
  \/ Progress

Spec == Init /\ [][Next]_vars

\* Every thread goes on: each has only finitely many steps to do.
FairSpec == Spec /\ WF_vars(Progress)

-----------------------------------------------------------------------------
(* Properties.                                                             *)

\* Who uses a message: the thread that allocated it, threads that make a connection and
\* the list of those that wait for one, once for each place it has in a list.
Owner(m) == {<<"owner", Nil, 0>> : p \in {place[m]} \cap {"kept", "used", "read"}}
Waits(m) == {<<"waits", Nil, i>> : i \in {j \in DOMAIN waiting : waiting[j] = m}}
Makers(m, c) ==
  {<<"first", c, 0>> : f \in {maker[c].first} \cap {m}} \cup
  {<<"batch", c, i>> : i \in {j \in DOMAIN maker[c].batch : maker[c].batch[j] = m}}
Users(m) ==
  Owner(m) \cup (IF waiting = Nil THEN {} ELSE Waits(m))
           \cup UNION {Makers(m, c) : c \in {d \in Connectors : maker[d] # None}}
Uses(m) == Cardinality(Users(m))

\* The shape of the state: a message waits once to be deleted, and is not in a
\* transaction any more.
TypeOK ==
  /\ role \in Roles /\ transport \in Transports
  /\ obj \in [Messages -> {"none", "live", "freed"}]
  /\ count \in [Messages -> Int] /\ seen \in [Messages -> Int]
  /\ place \in [Messages -> {"none", "kept", "used", "read", "gone"}]
  /\ trans = None \/ trans \in [request : Messages, response : Messages \cup {Nil},
                                ack : Messages \cup {Nil}, over : BOOLEAN]
  /\ queue \in Seq(Messages) /\ IsInjective(queue) /\ ToSet(queue) \cap Held = {}
  /\ (waiting = Nil \/ waiting \in Seq(Messages))
  /\ late \in Messages \cup {Nil}
  /\ twice \cup spoilt \cup stuck \subseteq Messages
  /\ run \in {"up", "stopping", "stopped"}

\* "The number of uses of the object" (SipMessage.h): m_iUseCount counts the threads and
\* lists that use a message, unless two threads counted it at the same time or a TLS
\* thread gave up on it.
CountIsUses ==
  \A m \in Messages \ (spoilt \cup stuck) : obj[m] = "live" => count[m] = Uses(m)

\* Every variable has its type, and a message's count is that of its uses.
Consistent == TypeOK /\ CountIsUses

\* Whoever has a message, a thread, a list, the transaction, the delete queue or the
\* stack thread on its way to SendTimeout, has one that was not deleted, until the stack
\* is stopped; and none is deleted twice.  Three things break that, and nothing else: two
\* threads that count an INVITE server's response at once, a TLS thread that gives up on
\* one, and a response that nobody else uses being replaced on the stack thread's way to
\* SendTimeout (Insert).  A non-INVITE client's count can only be too high, so
\* that it needs no exception.
UsedIsLive ==
  \A m \in Messages : (role = "IST" => m \notin spoilt) =>
    /\ m \notin twice
    /\ run # "stopped" /\ (Uses(m) > 0 \/ m = late \/ m \in Held \cup ToSet(queue))
         => obj[m] = "live"

\* When the stack is stopped nothing is left of the messages it handled, but what an
\* application was still sending.
StopFreesAll ==
  run = "stopped" =>
    \A m \in Messages : obj[m] = "live" => place[m] # "gone" \/ m \in Held

\* A message that is waiting to be deleted is deleted, unless the count of one stays too
\* high: the queue is then never deleted past it.
QueueDrains == (queue # <<>>) ~> (queue = <<>> \/ spoilt \cup stuck # {})
=============================================================================
