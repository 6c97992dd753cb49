------------------------------- MODULE SipTcp -------------------------------
(***************************************************************************)
(* The TCP and TLS connections of the SIP stack: who owns a socket, from   *)
(* accept or connect to close, and what becomes of the messages that are   *)
(* sent while a connection is being made (SipTcpThread.cpp,                *)
(* SipTlsThread.cpp, SipTcpClientThread.cpp, SipTlsClientThread.cpp and    *)
(* the lists and maps they use).                                           *)
(*                                                                         *)
(* The listening thread and the connecting threads hand a socket to a      *)
(* worker thread through the worker's pipe; the worker keeps it in its     *)
(* session list, serves it and closes it.  Anybody who sends a message     *)
(* looks its peer up in the socket map, which is shared, or else starts a  *)
(* connecting thread; who finds one at work leaves his message in the      *)
(* connect map.                                                            *)
(*                                                                         *)
(* A descriptor is closed and opened again under the same number: as the   *)
(* kernel does, the lowest free number is taken.  A peer stands for an     *)
(* address and port; it may connect to the stack, or reconnect, any time.  *)
(*                                                                         *)
(* An operator named F_Fault is F with a fault seeded in it: no action     *)
(* uses it, and the properties are shown to notice it.                     *)
(***************************************************************************)
EXTENDS Integers, Sequences, FiniteSets, FiniteSetsExt

CONSTANTS
  Peers,       \* addresses the stack has connections with
  Workers,     \* SipTcpThread or SipTlsThread, by their index in m_clsList
  Messages,    \* messages to be sent, each by a thread of its own
  Dest,        \* the peer of each message
  MaxSocket,   \* m_iTcpMaxSocketPerThread
  Fds,         \* descriptors the process may have
  Transports   \* "tcp", "tls"; one of them in each behaviour

None == [none |-> TRUE]
NoFd == -1

ASSUME ConnectionAssumption ==
  /\ None \notin Peers
  /\ Dest \in [Messages -> Peers]
  /\ MaxSocket \in Nat \ {0}
  /\ Fds \cup Workers \subseteq Nat /\ IsFiniteSet(Fds \cup Workers)
  /\ Transports \subseteq {"tcp", "tls"}

VARIABLES
  transport, \* E_SIP_TCP or E_SIP_TLS
  peer,      \* kernel: whom each open descriptor is connected to, or None
  pipe,      \* commands on their way to each worker
  sessions,  \* m_clsList of each worker
  ending,    \* the session a worker is about to close, or None
  count,     \* m_iSocketCount of each worker
  map,       \* m_clsTcpSocketMap or m_clsTlsSocketMap
  connects,  \* m_clsTcpConnectMap: messages to send after connecting, or None
  place,     \* how far each message has got
  sock,      \* the socket its sender or connecting thread holds
  batch,     \* what a connecting thread took from the connect map
  fate,      \* what became of each message
  astray,    \* messages that were written to another peer
  leaked,    \* descriptors that were forgotten
  run        \* "up"; "stopping", until the listening thread knows; "deaf"; "stopped"

workerVars == <<pipe, sessions, ending, count>>
senderVars == <<connects, place, sock, batch, fate>>
vars == <<transport, peer, workerVars, map, senderVars, astray, leaked, run>>

(* CTcpComm; whether the socket was accepted (m_psttSsl is NULL then).     *)
Command(f, p, accepted) == [fd |-> f, peer |-> p, accepted |-> accepted]
Commands == [fd : Fds, peer : Peers, accepted : BOOLEAN]

Places == {"new", "write", "dial", "enqueue", "queued", "connect", "flush", "done"}

Init ==
  /\ transport \in Transports
  /\ peer = [f \in Fds |-> None]
  /\ pipe = [w \in Workers |-> <<>>]
  /\ sessions = [w \in Workers |-> {}]
  /\ ending = [w \in Workers |-> None]
  /\ count = [w \in Workers |-> 0]
  /\ map = [p \in Peers |-> NoFd]
  /\ connects = [p \in Peers |-> None]
  /\ place = [m \in Messages |-> "new"]
  /\ sock = [m \in Messages |-> NoFd]
  /\ batch = [m \in Messages |-> <<>>]
  /\ fate = [m \in Messages |-> {}]
  /\ astray = {} /\ leaked = {}
  /\ run = "up"

Free == {f \in Fds : peer[f] = None}
Open(f, p) == f \in Free /\ f = Min(Free) /\ peer' = [peer EXCEPT ![f] = p]
Close(fs) == peer' = [f \in Fds |-> IF f \in fs THEN None ELSE peer[f]]

-----------------------------------------------------------------------------
(* CThreadList::SendCommand: the first worker with the fewest sockets gets *)
(* one more, unless it has enough, or has ended and closed its pipe.  An   *)
(* ended worker has counted its pipe, too: see DeleteAll.  SipStack starts *)
(* all threads at once, so AddThread never adds one.                       *)
Ended(w) == count[w] < Len(pipe[w]) + Cardinality(sessions[w])
Fewest == {w \in Workers : \A v \in Workers : count[w] <= count[v]}
Room == {w \in Fewest : w = Min(Fewest) /\ count[w] < MaxSocket /\ ~Ended(w)}

SendCommand(w, command) ==
  /\ pipe' = [pipe EXCEPT ![w] = Append(@, command)]
  /\ count' = [count EXCEPT ![w] = @ + 1]
  /\ UNCHANGED <<sessions, ending>>

(* SipTcpListenThread: a socket nobody has room for is closed at once.  It *)
(* looks at m_bStopEvent before it polls, so that one more may be accepted *)
(* when the stack is being stopped already.                                *)
Accept(p) ==
  /\ run \in {"up", "stopping"}
  /\ run' = IF run = "up" THEN "up" ELSE "deaf"
  /\ \E w \in Room, f \in Free : Open(f, p) /\ SendCommand(w, Command(f, p, TRUE))
  /\ UNCHANGED <<transport, map, senderVars, astray, leaked>>

ListenEnds ==
  /\ run = "stopping"
  /\ run' = "deaf"
  /\ UNCHANGED <<transport, peer, workerVars, map, senderVars, astray, leaked>>

-----------------------------------------------------------------------------
(* The worker takes a command.  The TLS handshake with a client that       *)
(* connected may fail.                                                     *)
Register(p, f) == map' = [map EXCEPT ![p] = IF @ = NoFd THEN f ELSE @]

Insert(w, c) ==
  /\ sessions' = [sessions EXCEPT ![w] = @ \cup {[fd |-> c.fd, peer |-> c.peer]}]
  /\ Register(c.peer, c.fd)
  /\ UNCHANGED <<count, peer>>

Refuse(w, c) ==
  /\ Close({c.fd})
  /\ count' = [count EXCEPT ![w] = @ - 1]
  /\ UNCHANGED <<sessions, map>>

Serves(w) == ending[w] = None /\ ~Ended(w)

Take(w) ==
  /\ Serves(w)
  /\ pipe[w] # <<>>
  /\ pipe' = [pipe EXCEPT ![w] = Tail(@)]
  /\ LET c == Head(pipe[w])
     IN \/ IF Cardinality(sessions[w]) < MaxSocket THEN Insert(w, c) ELSE Refuse(w, c)
        \/ transport = "tls" /\ c.accepted /\ Refuse(w, c)
  /\ UNCHANGED <<transport, ending, senderVars, astray, leaked, run>>

(* A session ends: its peer closed it, sent what is no SIP message or      *)
(* nothing at all for m_iTcpRecvTimeout.  It leaves the map first, by the  *)
(* address of the peer, and is closed next.                                *)
EndSession(w, s) ==
  /\ Serves(w)
  /\ ending' = [ending EXCEPT ![w] = s]
  /\ map' = [map EXCEPT ![s.peer] = NoFd]
  /\ UNCHANGED <<transport, peer, pipe, sessions, count, senderVars, astray, leaked, run>>

(* CTcpSessionList::Delete, after it told the callbacks.                   *)
Delete_Uncounted(w) ==
  /\ ending[w] # None
  /\ Close({ending[w].fd})
  /\ sessions' = [sessions EXCEPT ![w] = @ \ {ending[w]}]
  /\ ending' = [ending EXCEPT ![w] = None]
  /\ UNCHANGED <<transport, pipe, count, map, senderVars, astray, leaked, run>>

Delete(w) ==
  /\ ending[w] # None
  /\ Close({ending[w].fd})
  /\ sessions' = [sessions EXCEPT ![w] = @ \ {ending[w]}]
  /\ count' = [count EXCEPT ![w] = @ - 1]
  /\ ending' = [ending EXCEPT ![w] = None]
  /\ UNCHANGED <<transport, pipe, map, senderVars, astray, leaked, run>>

-----------------------------------------------------------------------------
(* CSipStack::Send for a message.  TCP: the socket is looked up under the  *)
(* mutex of the map and written to without it.                             *)
Arrived(m, f) ==
  /\ fate' = [fate EXCEPT ![m] = @ \cup (IF peer[f] = None THEN {"dropped"} ELSE {"written"})]
  /\ astray' = IF peer[f] \in {None, Dest[m]} THEN astray ELSE astray \cup {m}

LookUp(m) ==
  /\ transport = "tcp"
  /\ run # "stopped" /\ place[m] = "new"
  /\ sock' = [sock EXCEPT ![m] = map[Dest[m]]]
  /\ place' = [place EXCEPT ![m] = IF map[Dest[m]] = NoFd THEN "dial" ELSE "write"]
  /\ UNCHANGED <<transport, peer, workerVars, map, connects, batch, fate, astray, leaked, run>>

Write(m) ==
  /\ place[m] = "write"
  /\ Arrived(m, sock[m])
  /\ place' = [place EXCEPT ![m] = "done"]
  /\ sock' = [sock EXCEPT ![m] = NoFd]
  /\ UNCHANGED <<transport, peer, workerVars, map, connects, batch, leaked, run>>

(* CTcpSocketMap::SendTls writes under the mutex.  If that fails the peer  *)
(* leaves the map, though its session goes on.                             *)
SendTls_Unlocked(m) ==
  /\ transport = "tls"
  /\ run # "stopped" /\ place[m] = "new"
  /\ sock' = [sock EXCEPT ![m] = map[Dest[m]]]
  /\ place' = [place EXCEPT ![m] = IF map[Dest[m]] = NoFd THEN "dial" ELSE "write"]
  /\ UNCHANGED <<transport, peer, workerVars, map, connects, batch, fate, astray, leaked, run>>

SendTls(m) ==
  /\ transport = "tls"
  /\ run # "stopped" /\ place[m] = "new"
  /\ \/ /\ map[Dest[m]] # NoFd
        /\ Arrived(m, map[Dest[m]])
        /\ place' = [place EXCEPT ![m] = "done"]
        /\ UNCHANGED map
     \/ /\ map' = [map EXCEPT ![Dest[m]] = NoFd]
        /\ place' = [place EXCEPT ![m] = "dial"]
        /\ UNCHANGED <<fate, astray>>
  /\ UNCHANGED <<transport, peer, workerVars, connects, sock, batch, leaked, run>>

Outcome(ms, what) == fate' = [m \in Messages |-> IF m \in ms THEN fate[m] \cup {what} ELSE fate[m]]
Queue(p) == IF connects[p] = None THEN {} ELSE Range(connects[p].queue)

(* StartSipTcpClientThread: one thread connects to a peer.  After 120      *)
(* seconds it is taken to hang, and the messages left for it are dropped.  *)
Dial(m) ==
  /\ place[m] = "dial"
  /\ connects' = [connects EXCEPT ![Dest[m]] = [queue |-> <<>>]]
  /\ place' = [n \in Messages |-> IF n = m THEN "connect"
                                  ELSE IF n \in Queue(Dest[m]) THEN "done" ELSE place[n]]
  /\ Outcome(Queue(Dest[m]), "dropped")
  /\ UNCHANGED <<transport, peer, workerVars, map, sock, batch, astray, leaked, run>>

Wait(m) ==
  /\ place[m] = "dial"
  /\ connects[Dest[m]] # None
  /\ place' = [place EXCEPT ![m] = "enqueue"]
  /\ UNCHANGED <<transport, peer, workerVars, map, connects, sock, batch, fate, astray,
                 leaked, run>>

(* The message is left for the connecting thread, if that is still there.  *)
Enqueue(m) ==
  /\ place[m] = "enqueue"
  /\ IF connects[Dest[m]] # None
     THEN /\ connects' = [connects EXCEPT ![Dest[m]].queue = Append(@, m)]
          /\ place' = [place EXCEPT ![m] = "queued"]
          /\ UNCHANGED fate
     ELSE /\ place' = [place EXCEPT ![m] = "done"]
          /\ Outcome({m}, "dropped")
          /\ UNCHANGED connects
  /\ UNCHANGED <<transport, peer, workerVars, map, sock, batch, astray, leaked, run>>

-----------------------------------------------------------------------------
(* SipTcpClientThread.  An error answers the message and all that wait     *)
(* with a 660; those it had taken already were written or deleted.         *)
ConnectError_KeepQueue(m, written, deleted) ==
  /\ Outcome({m} \cup written \cup deleted, "answered")
  /\ place' = [n \in Messages |-> IF n \in {m} \cup written \cup deleted THEN "done" ELSE place[n]]
  /\ UNCHANGED connects

ConnectError(m, written, deleted) ==
  LET answered == {m} \cup Queue(Dest[m])
  IN /\ fate' = [n \in Messages |->
           fate[n] \cup (IF n \in answered THEN {"answered"} ELSE {})
                   \cup (IF n \in written THEN {"written"} ELSE {})
                   \cup (IF n \in deleted THEN {"dropped"} ELSE {})]
     /\ place' = [n \in Messages |->
           IF n \in answered \cup written \cup deleted THEN "done" ELSE place[n]]
     /\ connects' = [connects EXCEPT ![Dest[m]] = None]

ConnectFails(m) ==
  /\ place[m] = "connect"
  /\ ConnectError(m, {}, {})
  /\ UNCHANGED <<transport, peer, workerVars, map, sock, batch, astray, leaked, run>>

(* The first message can not be written: over TCP the socket is forgotten. *)
FirstWriteFails(m) ==
  /\ place[m] = "connect"
  /\ IF transport = "tcp"
     THEN \E f \in Free : Open(f, Dest[m]) /\ leaked' = leaked \cup {f}
     ELSE Free # {} /\ UNCHANGED <<peer, leaked>>
  /\ ConnectError(m, {}, {})
  /\ UNCHANGED <<transport, workerVars, map, sock, batch, astray, run>>

Connect(m) ==
  /\ place[m] = "connect"
  /\ \E f \in Free : Open(f, Dest[m]) /\ sock' = [sock EXCEPT ![m] = f]
  /\ fate' = [fate EXCEPT ![m] = @ \cup {"written"}]
  /\ batch' = [batch EXCEPT ![m] = IF connects[Dest[m]] = None THEN <<>>
                                   ELSE connects[Dest[m]].queue]
  /\ connects' = [connects EXCEPT ![Dest[m]] = None]
  /\ place' = [place EXCEPT ![m] = "flush"]
  /\ UNCHANGED <<transport, workerVars, map, astray, leaked, run>>

Flushed(m) == {m} \cup Range(batch[m])

(* The messages that waited are written and the socket is handed over.  If *)
(* no worker has room it is closed, which over TLS is an error.            *)
HandOver(m) ==
  /\ place[m] = "flush"
  /\ Outcome(Range(batch[m]), "written")
  /\ place' = [n \in Messages |-> IF n \in Flushed(m) THEN "done" ELSE place[n]]
  /\ \E w \in Room : SendCommand(w, Command(sock[m], Dest[m], FALSE))
  /\ sock' = [sock EXCEPT ![m] = NoFd] /\ batch' = [batch EXCEPT ![m] = <<>>]
  /\ UNCHANGED <<transport, peer, map, connects, astray, leaked, run>>

NoRoom_AsTls(m) ==
  /\ place[m] = "flush" /\ Room = {}
  /\ Close({sock[m]})
  /\ ConnectError(m, Range(batch[m]), {})
  /\ sock' = [sock EXCEPT ![m] = NoFd] /\ batch' = [batch EXCEPT ![m] = <<>>]
  /\ UNCHANGED <<transport, workerVars, map, astray, leaked, run>>

NoRoom_Open(m) ==
  /\ transport = "tcp"
  /\ place[m] = "flush" /\ Room = {}
  /\ Outcome(Range(batch[m]), "written")
  /\ place' = [n \in Messages |-> IF n \in Flushed(m) THEN "done" ELSE place[n]]
  /\ sock' = [sock EXCEPT ![m] = NoFd] /\ batch' = [batch EXCEPT ![m] = <<>>]
  /\ UNCHANGED <<transport, peer, workerVars, map, connects, astray, leaked, run>>

NoRoom(m) ==
  /\ transport = "tcp"
  /\ place[m] = "flush" /\ Room = {}
  /\ Close({sock[m]})
  /\ Outcome(Range(batch[m]), "written")
  /\ place' = [n \in Messages |-> IF n \in Flushed(m) THEN "done" ELSE place[n]]
  /\ sock' = [sock EXCEPT ![m] = NoFd] /\ batch' = [batch EXCEPT ![m] = <<>>]
  /\ UNCHANGED <<transport, workerVars, map, connects, astray, leaked, run>>

(* Over TLS the messages from the first that can not be written on are     *)
(* deleted, or all are written and no worker has room; then the thread     *)
(* ends as if it had not connected.                                        *)
Waited(m, from, to) == {batch[m][i] : i \in from .. to}

TlsFails(m) ==
  /\ transport = "tls" /\ place[m] = "flush"
  /\ \E k \in 0 .. Len(batch[m]) :
       /\ k < Len(batch[m]) \/ Room = {}
       /\ ConnectError(m, Waited(m, 1, k), Waited(m, k + 1, Len(batch[m])))
  /\ Close({sock[m]})
  /\ sock' = [sock EXCEPT ![m] = NoFd] /\ batch' = [batch EXCEPT ![m] = <<>>]
  /\ UNCHANGED <<transport, workerVars, map, astray, leaked, run>>

-----------------------------------------------------------------------------
(* CSipStack::_Stop sets m_bStopEvent.  The workers close what they have,  *)
(* the command pipe included, which is counted although it never was.      *)
Stop ==
  /\ run = "up"
  /\ run' = "stopping"
  /\ UNCHANGED <<transport, peer, workerVars, map, senderVars, astray, leaked>>

DeleteAll(w) ==
  /\ run \in {"stopping", "deaf"} /\ Serves(w)
  /\ Close({s.fd : s \in sessions[w]})
  /\ count' = [count EXCEPT ![w] = @ - Cardinality(sessions[w]) - 1]
  /\ sessions' = [sessions EXCEPT ![w] = {}]
  /\ UNCHANGED <<transport, pipe, ending, map, senderVars, astray, leaked, run>>

(* _Stop waits for the listening thread, the workers, the connecting       *)
(* threads and the connect map.  Sockets in a pipe that is closed now are  *)
(* forgotten.                                                              *)
Stopped ==
  /\ run = "deaf"
  /\ \A w \in Workers : Ended(w)
  /\ \A m \in Messages : place[m] \notin {"connect", "flush"}
  /\ \A p \in Peers : connects[p] = None
  /\ run' = "stopped"
  /\ map' = [p \in Peers |-> NoFd]
  /\ pipe' = [w \in Workers |-> <<>>]
  /\ leaked' = leaked \cup UNION {{c.fd : c \in Range(pipe[w])} : w \in Workers}
  /\ UNCHANGED <<transport, peer, sessions, ending, count, senderVars, astray>>

-----------------------------------------------------------------------------
Work(w) ==
  \/ Take(w)
  \/ Delete(w)
  \/ DeleteAll(w)

Send(m) ==
  \/ Write(m)
  \/ Dial(m)
  \/ Wait(m)
  \/ Enqueue(m)

Connecting(m) ==
  \/ ConnectFails(m)
  \/ FirstWriteFails(m)
  \/ Connect(m)
  \/ HandOver(m)
  \/ NoRoom(m)
  \/ TlsFails(m)

Next ==
  \/ \E p \in Peers : Accept(p)
  \/ \E w \in Workers : Work(w) \/ \E s \in sessions[w] : EndSession(w, s)
  \/ \E m \in Messages : LookUp(m) \/ SendTls(m) \/ Send(m) \/ Connecting(m)
  \/ Stop
  \/ ListenEnds
  \/ Stopped

(* Threads run, and connecting ends with a connection or a timeout.        *)
Fairness ==
  /\ WF_vars(\E w \in Workers : Work(w))
  /\ WF_vars(\E m \in Messages : Send(m) \/ Connecting(m))
  /\ WF_vars(ListenEnds)
  /\ WF_vars(Stopped)

Spec == Init /\ [][Next]_vars
FairSpec == Spec /\ Fairness
-----------------------------------------------------------------------------
(* Every variable has its type. *)
TypeOK ==
  /\ transport \in Transports
  /\ peer \in [Fds -> Peers \cup {None}]
  /\ pipe \in [Workers -> Seq(Commands)]
  /\ sessions \in [Workers -> SUBSET [fd : Fds, peer : Peers]]
  /\ ending \in [Workers -> [fd : Fds, peer : Peers] \cup {None}]
  /\ \A w \in Workers : ending[w] = None \/ ending[w] \in sessions[w]
  /\ count \in [Workers -> -1 .. MaxSocket]
  /\ map \in [Peers -> Fds \cup {NoFd}]
  /\ connects \in [Peers -> [queue : Seq(Messages)] \cup {None}]
  /\ place \in [Messages -> Places]
  /\ sock \in [Messages -> Fds \cup {NoFd}]
  /\ batch \in [Messages -> Seq(Messages)]
  /\ fate \in [Messages -> SUBSET {"written", "answered", "dropped"}]
  /\ astray \subseteq Messages /\ leaked \subseteq Fds
  /\ run \in {"up", "stopping", "deaf", "stopped"}

(* The socket count by which SendCommand chooses a thread is that of its   *)
(* sessions and of the sockets on their way to it, so that the session     *)
(* list always has room for them (IncreaseSocketCount,                     *)
(* DecreaseSocketCount, CTcpSessionList::Insert).                          *)
CountsAgree ==
  run = "up" => \A w \in Workers :
    /\ count[w] = Len(pipe[w]) + Cardinality(sessions[w])
    /\ count[w] <= MaxSocket

(* As long as the stack runs, the socket map names open sockets with that  *)
(* peer which a worker serves and has not begun to close, although         *)
(* sessions with the same peer overwrite nothing and delete by the peer's  *)
(* address (CTcpSocketMap::Insert and Delete).                             *)
MapNamesSession ==
  run = "up" => \A p \in Peers : map[p] # NoFd =>
    \E w \in Workers :
      /\ [fd |-> map[p], peer |-> p] \in sessions[w] \ {ending[w]}
      /\ peer[map[p]] = p

(* Over TLS no message is written to a descriptor that has become another  *)
(* peer's (CTcpSocketMap::SendTls).  Over TCP it may be: Send writes to    *)
(* the socket after the mutex was released.                                *)
RightPeer == transport = "tls" /\ run = "up" => astray = {}

Owners(f) ==
  (UNION {{<<"pipe", w, k>> : k \in {k \in DOMAIN pipe[w] : pipe[w][k].fd = f}} : w \in Workers})
  \cup {<<"session", w, 0>> : w \in {w \in Workers : \E s \in sessions[w] : s.fd = f}}
  \cup {<<"flush", m, 0>> : m \in {m \in Messages : place[m] = "flush" /\ sock[m] = f}}

(* Every open socket belongs to one pipe, session list or connecting       *)
(* thread, which will close it, but for those that are known to be         *)
(* forgotten; none belongs to two (SendCommand, Insert, Delete and the     *)
(* ends of the client threads).                                            *)
OneOwner ==
  run # "stopped" => \A f \in Fds \ leaked :
    Cardinality(Owners(f)) = IF peer[f] = None THEN 0 ELSE 1

(* Over TCP a message that is answered with a 660 was not sent, as the     *)
(* transaction would try another way (SipTcpClientThread).  Over TLS both  *)
(* may happen: an error later on answers the first message, too.           *)
OutcomeExclusive ==
  transport = "tcp" => \A m \in Messages : ~({"written", "answered"} \subseteq fate[m])

(* Who is entered in the connect map has a thread that connects, and a     *)
(* message that waits is in its list or in the hands of a thread that      *)
(* connected, although threads that were taken to hang, or fail late,      *)
(* empty the list of another thread (CTcpConnectMap::Insert and Delete).   *)
ConnectMapServed ==
  /\ \A p \in Peers : connects[p] # None =>
       \E m \in Messages : place[m] = "connect" /\ Dest[m] = p
  /\ \A m \in Messages : place[m] = "queued" <=>
       m \in Queue(Dest[m]) \cup UNION {Range(batch[n]) : n \in Messages}

(* Every variable has its type, and what the thread list, the socket map   *)
(* and the connect map say of the connections is true.                     *)
Consistent == TypeOK /\ CountsAgree /\ MapNamesSession /\ ConnectMapServed

(* Stop is held up neither by the connect map nor by a worker: every       *)
(* connecting thread removes an entry (CSipStack::_Stop).                  *)
StopReturns == run = "stopping" ~> run = "stopped"
=============================================================================
