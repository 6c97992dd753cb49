---------------------------- MODULE SipTcpProofs ----------------------------
(***************************************************************************)
(* Theorems about SipTcp: for any number of workers, sockets, peers and    *)
(* messages, the counts and maps say what is true of the connections,      *)
(* every socket has one owner, a message over TCP has one outcome, and     *)
(* over TLS it reaches the peer it is for.                                 *)
(* The last section is about the threads that use the connections, those   *)
(* of SipStackThreads: how they share a queue, and when Stop may close the *)
(* sockets.                                                                *)
(***************************************************************************)
EXTENDS SipTcp, FiniteSetTheorems, TLAPS

-----------------------------------------------------------------------------
(* The counts.  A worker that has ended counts one less than it has.       *)
Has(w) == Len(pipe[w]) + Cardinality(sessions[w])

CountInv ==
  /\ TypeOK
  /\ \A w \in Workers :
       /\ IsFiniteSet(sessions[w])
       /\ count[w] >= Has(w) - 1
       /\ run = "up" => count[w] = Has(w)

(* A socket is in one pipe, one session list or one connecting thread's    *)
(* hands, connected to the peer its owner knows.                           *)
InPipe(w, k, f) == k \in DOMAIN pipe[w] /\ pipe[w][k].fd = f
InSession(w, f) == \E s \in sessions[w] : s.fd = f
InFlush(m, f) == place[m] = "flush" /\ sock[m] = f
Owned(f) ==
  \/ \E w \in Workers : InSession(w, f) \/ \E k \in DOMAIN pipe[w] : InPipe(w, k, f)
  \/ \E m \in Messages : InFlush(m, f)

PipeInv ==
  \A w \in Workers : \A k \in DOMAIN pipe[w] :
    /\ pipe[w][k].peer = peer[pipe[w][k].fd]
    /\ pipe[w][k].fd \notin leaked
    /\ \A v \in Workers : \A j \in DOMAIN pipe[v] : pipe[v][j].fd = pipe[w][k].fd => v = w /\ j = k
    /\ \A v \in Workers : ~InSession(v, pipe[w][k].fd)
    /\ \A m \in Messages : ~InFlush(m, pipe[w][k].fd)

SessionInv ==
  \A w \in Workers : \A s \in sessions[w] :
    /\ s.peer = peer[s.fd]
    /\ s.fd \notin leaked
    /\ \A v \in Workers : InSession(v, s.fd) => v = w
    /\ \A m \in Messages : ~InFlush(m, s.fd)

FlushInv ==
  \A m \in Messages : place[m] = "flush" =>
    /\ sock[m] \in Fds
    /\ peer[sock[m]] = Dest[m]
    /\ sock[m] \notin leaked
    /\ \A n \in Messages : InFlush(n, sock[m]) => n = m

OpenInv ==
  \A f \in Fds : (f \in leaked => peer[f] # None) /\ (peer[f] # None => f \in leaked \/ Owned(f))

(* A worker that has ended serves nobody. *)
EndedInv == run # "up" => \A w \in Workers : Ended(w) => sessions[w] = {}

SocketInv == CountInv /\ PipeInv /\ SessionInv /\ FlushInv /\ OpenInv /\ EndedInv

-----------------------------------------------------------------------------
(* A message that waits is in one place, and nothing has become of it.     *)
InBatch(m, n) == m \in Range(batch[n])
QueueInv ==
  /\ \A p \in Peers : \A m \in Queue(p) : Dest[m] = p /\ \A n \in Messages : ~InBatch(m, n)
  /\ \A m, n, k \in Messages : InBatch(m, n) /\ InBatch(m, k) => n = k
  /\ \A n \in Messages : place[n] # "flush" => batch[n] = <<>>
  /\ \A m \in Messages : place[m] = "queued" <=> (m \in Queue(Dest[m]) \/ \E n \in Messages : InBatch(m, n))
  /\ \A p \in Peers : connects[p] # None => \E m \in Messages : place[m] = "connect" /\ Dest[m] = p

FateInv ==
  \A m \in Messages :
    /\ place[m] \notin {"flush", "done"} => fate[m] = {}
    /\ place[m] = "flush" => fate[m] = {"written"}
    /\ transport = "tls" => place[m] # "write"
    /\ transport = "tcp" => ~({"written", "answered"} \subseteq fate[m])

-----------------------------------------------------------------------------
(* Types.                                                                  *)
LEMMA NoneDiffers == \A q : None # [queue |-> q]
  <1> SUFFICES ASSUME NEW q, None = [queue |-> q] PROVE FALSE
    OBVIOUS
  <1>1. DOMAIN None = {"none"} /\ DOMAIN [queue |-> q] = {"queue"}
    BY DEF None
  <1> QED
    BY <1>1

LEMMA HeadTail ==
  ASSUME NEW S, NEW q \in Seq(S), q # <<>>
  PROVE  /\ Len(q) \in Nat \ {0} /\ Head(q) = q[1] /\ Head(q) \in S /\ 1 \in DOMAIN q
         /\ Tail(q) \in Seq(S) /\ Len(Tail(q)) = Len(q) - 1
         /\ DOMAIN q = 1 .. Len(q) /\ DOMAIN Tail(q) = 1 .. (Len(q) - 1)
         /\ \A k \in 1 .. (Len(q) - 1) : Tail(q)[k] = q[k + 1]
  OBVIOUS

LEMMA Appended ==
  ASSUME NEW S, NEW q \in Seq(S), NEW e \in S
  PROVE  /\ Append(q, e) \in Seq(S) /\ Len(Append(q, e)) = Len(q) + 1 /\ Len(q) \in Nat
         /\ DOMAIN Append(q, e) = DOMAIN q \cup {Len(q) + 1} /\ Len(q) + 1 \notin DOMAIN q
         /\ \A k \in DOMAIN q : Append(q, e)[k] = q[k]
         /\ Append(q, e)[Len(q) + 1] = e
  OBVIOUS

LEMMA CommandType ==
  ASSUME NEW f \in Fds, NEW p \in Peers, NEW b \in BOOLEAN
  PROVE  /\ Command(f, p, b) \in Commands
         /\ Command(f, p, b).fd = f /\ Command(f, p, b).peer = p
  BY DEF Command, Commands

LEMMA QueueType ==
  ASSUME TypeOK
  PROVE  /\ \A p \in Peers : Queue(p) \subseteq Messages
         /\ \A n \in Messages : Range(batch[n]) \subseteq Messages
  <1>1. \A q \in Seq(Messages) : Range(q) \subseteq Messages
    BY DEF Range
  <1>2. \A p \in Peers : connects[p] # None => connects[p].queue \in Seq(Messages)
    BY DEF TypeOK
  <1> QED
    BY <1>1, <1>2 DEF Queue, TypeOK

LEMMA OutcomeType ==
  ASSUME TypeOK, NEW ms, NEW what \in {"written", "answered", "dropped"}, Outcome(ms, what)
  PROVE  fate' \in [Messages -> SUBSET {"written", "answered", "dropped"}]
  BY DEF TypeOK, Outcome

LEMMA ArrivedType ==
  ASSUME TypeOK, NEW m \in Messages, NEW f, Arrived(m, f)
  PROVE  /\ fate' \in [Messages -> SUBSET {"written", "answered", "dropped"}]
         /\ astray' \subseteq Messages
  <1>1. (IF peer[f] = None THEN {"dropped"} ELSE {"written"}) \subseteq {"written", "answered", "dropped"}
    OBVIOUS
  <1> QED
    BY <1>1 DEF TypeOK, Arrived

LEMMA SendType ==
  ASSUME CountInv, NEW w \in Room, NEW c \in Commands, SendCommand(w, c)
  PROVE  /\ w \in Workers
         /\ pipe' \in [Workers -> Seq(Commands)]
         /\ count' \in [Workers -> -1 .. MaxSocket]
         /\ sessions' = sessions /\ ending' = ending
  <1>1. w \in Workers /\ count[w] < MaxSocket
    BY DEF Room, Fewest
  <1>2. count[w] \in -1 .. MaxSocket /\ pipe[w] \in Seq(Commands)
    BY <1>1 DEF CountInv, TypeOK
  <1>3. Append(pipe[w], c) \in Seq(Commands) /\ count[w] + 1 \in -1 .. MaxSocket
    BY <1>1, <1>2, ConnectionAssumption
  <1> QED
    BY <1>1, <1>3 DEF SendCommand, CountInv, TypeOK

LEMMA ErrorType ==
  ASSUME TypeOK, NEW m \in Messages, NEW ws, NEW ds, ConnectError(m, ws, ds)
  PROVE  /\ fate' \in [Messages -> SUBSET {"written", "answered", "dropped"}]
         /\ place' \in [Messages -> Places]
         /\ connects' \in [Peers -> [queue : Seq(Messages)] \cup {None}]
  BY DEF TypeOK, ConnectError, Places
LEMMA InitType == Init => CountInv
  <1> SUFFICES ASSUME Init PROVE CountInv
    OBVIOUS
  <1>1. TypeOK
    BY ConnectionAssumption DEF Init, TypeOK, Places
  <1>2. ASSUME NEW w \in Workers PROVE IsFiniteSet(sessions[w]) /\ Has(w) = 0 /\ count[w] = 0
    BY FS_EmptySet DEF Init, Has
  <1> QED
    BY <1>1, <1>2 DEF CountInv

LEMMA TypeStep == CountInv /\ FlushInv /\ [Next]_vars => TypeOK'
  <1> SUFFICES ASSUME CountInv, FlushInv, [Next]_vars PROVE TypeOK'
    OBVIOUS
  <1> USE DEF workerVars, senderVars
  <1>0. TypeOK /\ MaxSocket \in Nat \ {0} /\ Dest \in [Messages -> Peers]
    BY ConnectionAssumption DEF CountInv
  <1>1. ASSUME NEW p \in Peers, Accept(p) PROVE TypeOK'
    <2> PICK w \in Room, f \in Free : Open(f, p) /\ SendCommand(w, Command(f, p, TRUE))
      BY <1>1 DEF Accept
    <2>1. Command(f, p, TRUE) \in Commands
      BY CommandType DEF Free
    <2> QED
      BY <1>0, <1>1, <2>1, SendType DEF Accept, Open, TypeOK
  <1>2. ASSUME NEW w \in Workers, Take(w) PROVE TypeOK'
    <2> DEFINE c == Head(pipe[w])
    <2>1. c \in Commands /\ Tail(pipe[w]) \in Seq(Commands) /\ Len(pipe[w]) \in Nat \ {0}
      BY <1>0, <1>2, HeadTail DEF Take, TypeOK
    <2>2. pipe' \in [Workers -> Seq(Commands)]
      BY <1>0, <1>2, <2>1 DEF Take, TypeOK
    <2>3. c.fd \in Fds /\ c.peer \in Peers
      BY <2>1 DEF Commands
    <2>4. CASE Insert(w, c)
      BY <1>0, <1>2, <2>2, <2>3, <2>4 DEF Take, Insert, Register, TypeOK
    <2>5. CASE Refuse(w, c)
      <3>1. Cardinality(sessions[w]) \in Nat /\ count[w] \in Int
        BY <1>0, <1>2, FS_CardinalityType DEF CountInv, TypeOK
      <3>2. count[w] - 1 \in -1 .. MaxSocket
        BY <1>0, <1>2, <2>1, <3>1 DEF Take, Serves, Ended, TypeOK
      <3>3. count' \in [Workers -> -1 .. MaxSocket]
        BY <1>0, <2>5, <3>2 DEF Refuse, TypeOK
      <3> QED
        BY <1>0, <1>2, <2>2, <2>5, <3>3 DEF Take, Refuse, Close, TypeOK
    <2> QED
      BY <1>2, <2>4, <2>5 DEF Take
  <1>3. ASSUME NEW w \in Workers, Delete(w) PROVE TypeOK'
    <2>1. /\ ending[w] \in sessions[w] /\ IsFiniteSet(sessions[w]) /\ Len(pipe[w]) \in Nat
          /\ count[w] >= Has(w) - 1 /\ count[w] \in -1 .. MaxSocket
      BY <1>0, <1>3 DEF CountInv, Delete, TypeOK
    <2>2. Cardinality(sessions[w]) \in Nat \ {0}
      BY <2>1, FS_CardinalityType, FS_EmptySet
    <2>3. count[w] - 1 \in -1 .. MaxSocket
      BY <1>0, <2>1, <2>2 DEF Has
    <2>4. count' \in [Workers -> -1 .. MaxSocket]
      BY <1>0, <1>3, <2>3 DEF Delete, TypeOK
    <2> QED
      BY <1>0, <1>3, <2>4 DEF Delete, Close, TypeOK
  <1>4. ASSUME NEW w \in Workers, DeleteAll(w) PROVE TypeOK'
    <2>1. Cardinality(sessions[w]) \in Nat /\ count[w] \in -1 .. MaxSocket /\ Len(pipe[w]) \in Nat
      BY <1>0, FS_CardinalityType DEF CountInv, TypeOK
    <2>2. count[w] - Cardinality(sessions[w]) - 1 \in -1 .. MaxSocket
      BY <1>0, <1>4, <2>1 DEF DeleteAll, Serves, Ended
    <2>3. count' \in [Workers -> -1 .. MaxSocket]
      BY <1>0, <1>4, <2>2 DEF DeleteAll, TypeOK
    <2> QED
      BY <1>0, <1>4, <2>3 DEF DeleteAll, Serves, Close, TypeOK
  <1>5. ASSUME NEW w \in Workers, NEW s \in sessions[w], EndSession(w, s) PROVE TypeOK'
    BY <1>0, <1>5 DEF EndSession, TypeOK
  <1>6. ASSUME NEW m \in Messages, LookUp(m) \/ SendTls(m) PROVE TypeOK'
    <2>1. CASE LookUp(m)
      BY <1>0, <2>1 DEF LookUp, TypeOK, Places
    <2>2. CASE SendTls(m)
      <3>1. fate' \in [Messages -> SUBSET {"written", "answered", "dropped"}] /\ astray' \subseteq Messages
        BY <1>0, <2>2, ArrivedType DEF SendTls, TypeOK
      <3>2. map' \in [Peers -> Fds \cup {NoFd}] /\ place' \in [Messages -> Places]
        BY <1>0, <2>2 DEF SendTls, TypeOK, Places
      <3> QED
        BY <1>0, <2>2, <3>1, <3>2 DEF SendTls, TypeOK
    <2> QED
      BY <1>6, <2>1, <2>2
  <1>7. ASSUME NEW m \in Messages, Write(m) \/ Wait(m) PROVE TypeOK'
    <2>1. CASE Write(m)
      BY <1>0, <2>1, ArrivedType DEF Write, TypeOK, Places
    <2>2. CASE Wait(m)
      BY <1>0, <2>2 DEF Wait, TypeOK, Places
    <2> QED
      BY <1>7, <2>1, <2>2
  <1>8. ASSUME NEW m \in Messages, Dial(m) PROVE TypeOK'
    <2>1. [queue |-> <<>>] \in [queue : Seq(Messages)]
      OBVIOUS
    <2>2. fate' \in [Messages -> SUBSET {"written", "answered", "dropped"}]
      BY <1>0, <1>8, OutcomeType DEF Dial
    <2> QED
      BY <1>0, <1>8, <2>1, <2>2 DEF Dial, TypeOK, Places
  <1>9. ASSUME NEW m \in Messages, Enqueue(m) PROVE TypeOK'
    <2>1. CASE connects[Dest[m]] # None
      <3>1. connects[Dest[m]] \in [queue : Seq(Messages)]
        BY <1>0, <2>1 DEF TypeOK
      <3>2. [connects[Dest[m]] EXCEPT !.queue = Append(@, m)] \in [queue : Seq(Messages)]
        BY <3>1
      <3>3. connects' \in [Peers -> [queue : Seq(Messages)] \cup {None}]
        BY <1>0, <1>9, <2>1, <3>2 DEF Enqueue, TypeOK
      <3> QED
        BY <1>0, <1>9, <2>1, <3>3 DEF Enqueue, TypeOK, Places
    <2>2. CASE connects[Dest[m]] = None
      <3>1. fate' \in [Messages -> SUBSET {"written", "answered", "dropped"}]
        BY <1>0, <1>9, <2>2, OutcomeType DEF Enqueue
      <3> QED
        BY <1>0, <1>9, <2>2, <3>1 DEF Enqueue, TypeOK, Places
    <2> QED
      BY <2>1, <2>2
  <1>10. ASSUME NEW m \in Messages, ConnectFails(m) PROVE TypeOK'
    BY <1>0, <1>10, ErrorType DEF ConnectFails, TypeOK
  <1>11. ASSUME NEW m \in Messages, FirstWriteFails(m) PROVE TypeOK'
    <2>1. peer' \in [Fds -> Peers \cup {None}] /\ leaked' \subseteq Fds
      <3>1. CASE transport = "tcp"
        <4> PICK f \in Free : Open(f, Dest[m]) /\ leaked' = leaked \cup {f}
          BY <1>11, <3>1 DEF FirstWriteFails
        <4> QED
          BY <1>0 DEF Open, Free, TypeOK
      <3>2. CASE transport # "tcp"
        BY <1>0, <1>11, <3>2 DEF FirstWriteFails, TypeOK
      <3> QED
        BY <3>1, <3>2
    <2> QED
      BY <1>0, <1>11, <2>1, ErrorType DEF FirstWriteFails, TypeOK
  <1>12. ASSUME NEW m \in Messages, Connect(m) PROVE TypeOK'
    <2>1. peer' \in [Fds -> Peers \cup {None}] /\ sock' \in [Messages -> Fds \cup {NoFd}]
      BY <1>0, <1>12 DEF Connect, Open, Free, TypeOK
    <2>2. batch' \in [Messages -> Seq(Messages)]
      BY <1>0, <1>12 DEF Connect, TypeOK
    <2> QED
      BY <1>0, <1>12, <2>1, <2>2 DEF Connect, TypeOK, Places
  <1>13. ASSUME NEW m \in Messages, HandOver(m) PROVE TypeOK'
    <2> PICK w \in Room : SendCommand(w, Command(sock[m], Dest[m], FALSE))
      BY <1>13 DEF HandOver
    <2>1. Command(sock[m], Dest[m], FALSE) \in Commands
      BY <1>0, <1>13, CommandType DEF HandOver, FlushInv
    <2>2. /\ pipe' \in [Workers -> Seq(Commands)] /\ count' \in [Workers -> -1 .. MaxSocket]
          /\ UNCHANGED <<sessions, ending>>
      BY <2>1, SendType
    <2>3. fate' \in [Messages -> SUBSET {"written", "answered", "dropped"}]
      BY <1>0, <1>13, OutcomeType DEF HandOver
    <2>4. batch' \in [Messages -> Seq(Messages)] /\ place' \in [Messages -> Places]
      BY <1>0, <1>13 DEF HandOver, TypeOK, Places
    <2> QED
      BY <1>0, <1>13, <2>2, <2>3, <2>4 DEF HandOver, TypeOK
  <1>14. ASSUME NEW m \in Messages, NoRoom(m) PROVE TypeOK'
    <2>1. fate' \in [Messages -> SUBSET {"written", "answered", "dropped"}]
      BY <1>0, <1>14, OutcomeType DEF NoRoom
    <2>2. batch' \in [Messages -> Seq(Messages)] /\ place' \in [Messages -> Places]
      BY <1>0, <1>14 DEF NoRoom, TypeOK, Places
    <2> QED
      BY <1>0, <1>14, <2>1, <2>2 DEF NoRoom, Close, TypeOK
  <1>15. ASSUME NEW m \in Messages, TlsFails(m) PROVE TypeOK'
    <2>1. \E ws, ds : ConnectError(m, ws, ds)
      BY <1>15 DEF TlsFails
    <2>2. /\ fate' \in [Messages -> SUBSET {"written", "answered", "dropped"}]
          /\ place' \in [Messages -> Places]
          /\ connects' \in [Peers -> [queue : Seq(Messages)] \cup {None}]
      BY <1>0, <2>1, ErrorType
    <2>3. /\ sock' = [sock EXCEPT ![m] = NoFd] /\ batch' = [batch EXCEPT ![m] = <<>>]
          /\ Close({sock[m]})
          /\ UNCHANGED <<transport, workerVars, map, astray, leaked, run>>
      BY <1>15 DEF TlsFails
    <2> QED
      BY <1>0, <2>2, <2>3 DEF Close, TypeOK
  <1>16. CASE Stop \/ ListenEnds
    BY <1>0, <1>16 DEF Stop, ListenEnds, TypeOK
  <1>17. CASE Stopped
    <2>1. ASSUME NEW w \in Workers PROVE {c.fd : c \in Range(pipe[w])} \subseteq Fds
      <3>1. Range(pipe[w]) \subseteq Commands
        BY <1>0 DEF TypeOK, Range
      <3> QED
        BY <3>1 DEF Commands
    <2>2. UNION {{c.fd : c \in Range(pipe[w])} : w \in Workers} \subseteq Fds
      BY <2>1
    <2> QED
      BY <1>0, <1>17, <2>2 DEF Stopped, TypeOK
  <1>18. CASE UNCHANGED vars
    BY <1>0, <1>18 DEF vars, TypeOK
  <1> QED
    BY <1>1, <1>2, <1>3, <1>4, <1>5, <1>6, <1>7, <1>8, <1>9, <1>10, <1>11, <1>12, <1>13,
       <1>14, <1>15, <1>16, <1>17, <1>18 DEF Next, Work, Send, Connecting
-----------------------------------------------------------------------------
(* Sockets and counts.                                                     *)
LEMMA InitSocket == Init => SocketInv
  <1> SUFFICES ASSUME Init PROVE SocketInv
    OBVIOUS
  <1>1. \A w \in Workers : DOMAIN pipe[w] = {} /\ sessions[w] = {}
    BY DEF Init
  <1>2. \A m \in Messages : place[m] # "flush"
    BY DEF Init
  <1>3. leaked = {} /\ run = "up" /\ \A f \in Fds : peer[f] = None
    BY DEF Init
  <1> QED
    BY <1>1, <1>2, <1>3, InitType
    DEF SocketInv, PipeInv, SessionInv, FlushInv, OpenInv, EndedInv

LEMMA FreeUnowned ==
  ASSUME SocketInv, NEW f \in Free
  PROVE  /\ f \in Fds /\ f \notin leaked
         /\ \A w \in Workers : \A k \in DOMAIN pipe[w] : pipe[w][k].fd # f
         /\ \A w \in Workers : \A s \in sessions[w] : s.fd # f
         /\ \A m \in Messages : ~InFlush(m, f)
  <1>1. f \in Fds /\ peer[f] = None /\ None \notin Peers
    BY ConnectionAssumption DEF Free
  <1>2. \A w \in Workers : \A k \in DOMAIN pipe[w] : pipe[w][k].peer \in Peers
    <2> SUFFICES ASSUME NEW w \in Workers, NEW k \in DOMAIN pipe[w] PROVE pipe[w][k].peer \in Peers
      OBVIOUS
    <2>1. pipe[w] \in Seq(Commands)
      BY DEF SocketInv, CountInv, TypeOK
    <2>2. pipe[w][k] \in Commands
      BY <2>1
    <2> QED
      BY <2>2 DEF Commands
  <1>3. \A w \in Workers : \A s \in sessions[w] : s.peer \in Peers
    BY DEF SocketInv, CountInv, TypeOK
  <1> QED
    BY <1>1, <1>2, <1>3, ConnectionAssumption
    DEF SocketInv, PipeInv, SessionInv, FlushInv, OpenInv, InFlush

(* A step that moves no socket and counts nothing. *)
LEMMA SocketFrame ==
  ASSUME SocketInv, TypeOK', UNCHANGED <<peer, pipe, sessions, count, leaked, run>>,
         \A m \in Messages : place'[m] = "flush" <=> place[m] = "flush",
         \A m \in Messages : place[m] = "flush" => sock'[m] = sock[m]
  PROVE  SocketInv'
  <1>1. ASSUME NEW m \in Messages, NEW f PROVE InFlush(m, f)' <=> InFlush(m, f)
    <2>1. CASE place[m] = "flush"
      <3>1. place'[m] = "flush" /\ sock'[m] = sock[m]
        BY <2>1
      <3> QED
        BY <2>1, <3>1 DEF InFlush
    <2>2. CASE place[m] # "flush"
      <3>1. place'[m] # "flush"
        BY <2>2
      <3> QED
        BY <2>2, <3>1 DEF InFlush
    <2> QED
      BY <2>1, <2>2
  <1>2. \A w \in Workers : \A f : InSession(w, f)' <=> InSession(w, f)
    BY DEF InSession
  <1>3. \A f : Owned(f)' <=> Owned(f)
    BY <1>1, <1>2 DEF Owned, InPipe
  <1>4. CountInv'
    BY DEF SocketInv, CountInv, Has
  <1>5. PipeInv' /\ SessionInv'
    BY <1>1, <1>2 DEF SocketInv, PipeInv, SessionInv
  <1>6. FlushInv'
    BY <1>1 DEF SocketInv, FlushInv
  <1>7. OpenInv'
    BY <1>3 DEF SocketInv, OpenInv
  <1>8. EndedInv'
    BY DEF SocketInv, EndedInv, Ended
  <1> QED
    BY <1>4, <1>5, <1>6, <1>7, <1>8 DEF SocketInv

LEMMA CommandsInPipe ==
  ASSUME TypeOK, NEW w \in Workers, NEW k \in DOMAIN pipe[w]
  PROVE  /\ pipe[w] \in Seq(Commands) /\ pipe[w][k] \in Commands
         /\ pipe[w][k].fd \in Fds /\ pipe[w][k].peer \in Peers
  <1>1. pipe[w] \in Seq(Commands)
    BY DEF TypeOK
  <1>2. pipe[w][k] \in Commands
    BY <1>1
  <1> QED
    BY <1>1, <1>2 DEF Commands

(* A socket nobody has, or that a connecting thread gives away, is put     *)
(* into a pipe.                                                            *)
LEMMA PutIntoPipe ==
  ASSUME SocketInv, TypeOK', NEW w \in Room, NEW c \in Commands, SendCommand(w, c),
         peer'[c.fd] = c.peer, \A f \in Fds \ {c.fd} : peer'[f] = peer[f],
         UNCHANGED leaked, run' = "up" <=> run = "up", c.fd \notin leaked,
         \A v \in Workers : \A k \in DOMAIN pipe[v] : pipe[v][k].fd # c.fd,
         \A v \in Workers : ~InSession(v, c.fd),
         \A m \in Messages : \A f : InFlush(m, f)' <=> (InFlush(m, f) /\ f # c.fd)
  PROVE  SocketInv'
  <1> PICK n : n = Len(pipe[w]) + 1
    OBVIOUS
  <1>0. TypeOK /\ w \in Workers /\ c.fd \in Fds /\ c.peer \in Peers /\ pipe[w] \in Seq(Commands)
    BY DEF SocketInv, CountInv, TypeOK, Room, Fewest, Commands
  <1>1. /\ DOMAIN pipe'[w] = DOMAIN pipe[w] \cup {n} /\ n \notin DOMAIN pipe[w] /\ n \in Nat
        /\ Len(pipe'[w]) = n /\ Len(pipe[w]) \in Nat
        /\ \A k \in DOMAIN pipe[w] : pipe'[w][k] = pipe[w][k]
        /\ pipe'[w][n] = c
    BY <1>0, Appended DEF SendCommand, TypeOK
  <1>2. \A v \in Workers \ {w} : pipe'[v] = pipe[v]
    BY <1>0 DEF SendCommand, TypeOK
  <1>3. \A v \in Workers : \A f : InSession(v, f)' <=> InSession(v, f)
    BY DEF SendCommand, InSession
  <1>4. CountInv'
    <2> SUFFICES ASSUME NEW v \in Workers
                 PROVE  /\ IsFiniteSet(sessions'[v])
                        /\ count'[v] >= Has(v)' - 1
                        /\ run' = "up" => count'[v] = Has(v)'
      BY DEF CountInv
    <2>1. IsFiniteSet(sessions[v]) /\ Cardinality(sessions[v]) \in Nat /\ Len(pipe[v]) \in Nat
          /\ count[v] \in Int
      BY <1>0, FS_CardinalityType DEF SocketInv, CountInv, TypeOK
    <2>2. CASE v = w
      <3>1. count'[w] = count[w] + 1
        BY <1>0 DEF SendCommand, TypeOK
      <3>2. Has(w)' = Has(w) + 1 /\ Has(w) \in Int /\ sessions' = sessions
        BY <1>1, <2>1, <2>2 DEF Has, SendCommand
      <3>3. count[w] >= Has(w) - 1 /\ (run = "up" => count[w] = Has(w))
        BY <1>0 DEF SocketInv, CountInv
      <3> QED
        BY <2>1, <2>2, <3>1, <3>2, <3>3
    <2>3. CASE v # w
      <3>1. count'[v] = count[v]
        BY <1>0, <2>3 DEF SendCommand, TypeOK
      <3> QED
        BY <1>2, <2>1, <2>3, <3>1 DEF SocketInv, CountInv, Has, SendCommand
    <2> QED
      BY <2>2, <2>3
  <1>5. PipeInv'
    <2> SUFFICES ASSUME NEW v \in Workers, NEW k \in DOMAIN pipe'[v]
                 PROVE  /\ pipe'[v][k].peer = peer'[pipe'[v][k].fd]
                        /\ pipe'[v][k].fd \notin leaked'
                        /\ \A u \in Workers : \A j \in DOMAIN pipe'[u] :
                             pipe'[u][j].fd = pipe'[v][k].fd => u = v /\ j = k
                        /\ \A u \in Workers : ~InSession(u, pipe[v][k].fd)'
                        /\ \A m \in Messages : ~InFlush(m, pipe[v][k].fd)'
      BY DEF PipeInv
    <2>1. CASE v = w /\ k = n
      BY <1>0, <1>1, <1>2, <1>3, <2>1
    <2>2. CASE ~(v = w /\ k = n)
      <3>1. k \in DOMAIN pipe[v] /\ pipe'[v][k] = pipe[v][k] /\ pipe[v][k].fd \in Fds
        BY <1>0, <1>1, <1>2, <2>2, CommandsInPipe
      <3> QED
        BY <1>0, <1>1, <1>2, <1>3, <3>1 DEF SocketInv, PipeInv
    <2> QED
      BY <2>1, <2>2
  <1>6. SessionInv'
    <2> SUFFICES ASSUME NEW v \in Workers, NEW s \in sessions[v]
                 PROVE  /\ s.peer = peer'[s.fd]
                        /\ s.fd \notin leaked
                        /\ \A u \in Workers : InSession(u, s.fd)' => u = v
                        /\ \A m \in Messages : ~InFlush(m, s.fd)'
      BY DEF SessionInv, SendCommand
    <2>1. s.fd \in Fds /\ s.fd # c.fd
      BY <1>0 DEF TypeOK, InSession
    <2> QED
      BY <1>3, <2>1 DEF SocketInv, SessionInv
  <1>7. FlushInv'
    <2> SUFFICES ASSUME NEW m \in Messages, place'[m] = "flush"
                 PROVE  /\ sock'[m] \in Fds
                        /\ peer'[sock'[m]] = Dest[m]
                        /\ sock'[m] \notin leaked'
                        /\ \A k \in Messages : InFlush(k, sock[m])' => k = m
      BY DEF FlushInv
    <2> PICK f : f = sock'[m]
      OBVIOUS
    <2>1. InFlush(m, f)'
      BY DEF InFlush
    <2>2. InFlush(m, f) /\ f # c.fd
      BY <2>1
    <2>3. /\ f \in Fds /\ peer[f] = Dest[m] /\ f \notin leaked
          /\ \A k \in Messages : InFlush(k, f) => k = m
      BY <2>2 DEF SocketInv, FlushInv, InFlush
    <2>4. \A k \in Messages : InFlush(k, f)' => k = m
      BY <2>3
    <2> QED
      BY <2>2, <2>3, <2>4 DEF InFlush
  <1>8. OpenInv'
    <2> SUFFICES ASSUME NEW f \in Fds
                 PROVE  /\ f \in leaked' => peer'[f] # None
                        /\ peer'[f] # None => f \in leaked' \/ Owned(f)'
      BY DEF OpenInv
    <2>1. CASE f = c.fd
      <3>1. InPipe(w, n, f)'
        BY <1>1, <2>1 DEF InPipe
      <3>2. n \in DOMAIN pipe'[w]
        BY <1>1
      <3> QED
        BY <1>0, <2>1, <3>1, <3>2 DEF Owned
    <2>2. CASE f # c.fd
      <3>1. ASSUME NEW v \in Workers, NEW k \in DOMAIN pipe[v], InPipe(v, k, f) PROVE Owned(f)'
        <4>1. k \in DOMAIN pipe'[v] /\ pipe'[v][k] = pipe[v][k]
          BY <1>1, <1>2
        <4> QED
          BY <3>1, <4>1 DEF Owned, InPipe
      <3>2. Owned(f) => Owned(f)'
        BY <1>3, <2>2, <3>1 DEF Owned
      <3> QED
        BY <2>2, <3>2 DEF SocketInv, OpenInv
    <2> QED
      BY <2>1, <2>2
  <1>9. EndedInv'
    <2> SUFFICES ASSUME run # "up", NEW v \in Workers, Ended(v)' PROVE sessions[v] = {}
      BY DEF EndedInv, SendCommand
    <2>1. Cardinality(sessions[v]) \in Nat /\ count[v] \in Int
      BY <1>0, FS_CardinalityType DEF SocketInv, CountInv, TypeOK
    <2>2. Ended(v)
      BY <1>0, <1>1, <1>2, <2>1 DEF Ended, SendCommand, TypeOK
    <2> QED
      BY <2>2 DEF SocketInv, EndedInv
  <1> QED
    BY <1>4, <1>5, <1>6, <1>7, <1>8, <1>9 DEF SocketInv

(* Sockets are closed by their owners, and at most the heads of some pipes *)
(* are taken.                                                              *)
LEMMA CloseSockets ==
  ASSUME SocketInv, TypeOK', NEW F, Close(F), UNCHANGED leaked,
         NEW d \in [Workers -> Nat],
         \A w \in Workers : \A j \in DOMAIN pipe'[w] :
           /\ j + d[w] \in DOMAIN pipe[w] /\ pipe'[w][j] = pipe[w][j + d[w]]
           /\ pipe'[w][j].fd \notin F,
         \A w \in Workers : \A s \in sessions'[w] : s \in sessions[w] /\ s.fd \notin F,
         \A m \in Messages : \A f : InFlush(m, f)' => (InFlush(m, f) /\ f \notin F),
         \A f \in Fds \ F : Owned(f) => Owned(f)',
         F \cap leaked = {}
  PROVE  PipeInv' /\ SessionInv' /\ FlushInv' /\ OpenInv'
  <1>0. TypeOK
    BY DEF SocketInv, CountInv
  <1>1. \A w \in Workers : \A f : InSession(w, f)' => (InSession(w, f) /\ f \notin F)
    BY DEF InSession
  <1>2. \A f \in Fds : peer'[f] = IF f \in F THEN None ELSE peer[f]
    BY DEF Close
  <1>3. PipeInv'
    <2> SUFFICES ASSUME NEW v \in Workers, NEW k \in DOMAIN pipe'[v]
                 PROVE  /\ pipe'[v][k].peer = peer'[pipe'[v][k].fd]
                        /\ pipe'[v][k].fd \notin leaked'
                        /\ \A u \in Workers : \A j \in DOMAIN pipe'[u] :
                             pipe'[u][j].fd = pipe'[v][k].fd => u = v /\ j = k
                        /\ \A u \in Workers : ~InSession(u, pipe[v][k].fd)'
                        /\ \A m \in Messages : ~InFlush(m, pipe[v][k].fd)'
      BY DEF PipeInv
    <2> DEFINE i == k + d[v]
    <2>1. i \in DOMAIN pipe[v] /\ pipe'[v][k] = pipe[v][i] /\ pipe[v][i].fd \notin F
      OBVIOUS
    <2>2. pipe[v][i].fd \in Fds
      BY <1>0, <2>1, CommandsInPipe
    <2>3. /\ pipe[v][i].peer = peer[pipe[v][i].fd]
          /\ pipe[v][i].fd \notin leaked
          /\ \A u \in Workers : \A j \in DOMAIN pipe[u] : pipe[u][j].fd = pipe[v][i].fd => u = v /\ j = i
          /\ \A u \in Workers : ~InSession(u, pipe[v][i].fd)
          /\ \A m \in Messages : ~InFlush(m, pipe[v][i].fd)
      BY <2>1 DEF SocketInv, PipeInv
    <2>4. ASSUME NEW u \in Workers, NEW j \in DOMAIN pipe'[u], pipe'[u][j].fd = pipe'[v][k].fd
          PROVE  u = v /\ j = k
      <3>1. j + d[u] \in DOMAIN pipe[u] /\ pipe'[u][j] = pipe[u][j + d[u]]
        OBVIOUS
      <3>2. u = v /\ j + d[u] = i
        BY <2>1, <2>3, <2>4, <3>1
      <3>3. j \in Int /\ k \in Int /\ d[v] \in Nat
        BY DEF TypeOK
      <3> QED
        BY <3>2, <3>3
    <2> HIDE DEF i
    <2> QED
      BY <1>1, <1>2, <2>1, <2>2, <2>3, <2>4
  <1>4. SessionInv'
    <2> SUFFICES ASSUME NEW v \in Workers, NEW s \in sessions'[v]
                 PROVE  /\ s.peer = peer'[s.fd]
                        /\ s.fd \notin leaked
                        /\ \A u \in Workers : InSession(u, s.fd)' => u = v
                        /\ \A m \in Messages : ~InFlush(m, s.fd)'
      BY DEF SessionInv
    <2>1. s.fd \in Fds /\ s.fd \notin F /\ s \in sessions[v]
      BY <1>0 DEF TypeOK
    <2> QED
      BY <1>1, <1>2, <2>1 DEF SocketInv, SessionInv
  <1>5. FlushInv'
    <2> SUFFICES ASSUME NEW m \in Messages, place'[m] = "flush"
                 PROVE  /\ sock'[m] \in Fds
                        /\ peer'[sock'[m]] = Dest[m]
                        /\ sock'[m] \notin leaked'
                        /\ \A k \in Messages : InFlush(k, sock[m])' => k = m
      BY DEF FlushInv
    <2> PICK f : f = sock'[m]
      OBVIOUS
    <2>1. InFlush(m, f)'
      BY DEF InFlush
    <2>2. InFlush(m, f) /\ f \notin F
      BY <2>1
    <2>3. /\ f \in Fds /\ peer[f] = Dest[m] /\ f \notin leaked
          /\ \A k \in Messages : InFlush(k, f) => k = m
      BY <2>2 DEF SocketInv, FlushInv, InFlush
    <2>4. \A k \in Messages : InFlush(k, f)' => k = m
      BY <2>3
    <2> QED
      BY <1>2, <2>2, <2>3, <2>4 DEF InFlush
  <1>6. OpenInv'
    BY <1>2 DEF SocketInv, OpenInv
  <1> QED
    BY <1>3, <1>4, <1>5, <1>6

LEMMA Counts ==
  ASSUME SocketInv, NEW w \in Workers
  PROVE  /\ IsFiniteSet(sessions[w]) /\ Cardinality(sessions[w]) \in Nat /\ Len(pipe[w]) \in Nat
         /\ count[w] \in Int /\ Has(w) \in Nat /\ count[w] >= Has(w) - 1
         /\ run = "up" => count[w] = Has(w)
  BY FS_CardinalityType DEF SocketInv, CountInv, TypeOK, Has

(* A worker takes a socket from its pipe into its sessions. *)
LEMMA InsertStep ==
  ASSUME SocketInv, TypeOK', NEW w \in Workers, Take(w), Insert(w, Head(pipe[w]))
  PROVE  SocketInv'
  <1> DEFINE c == Head(pipe[w])
             r == [fd |-> c.fd, peer |-> c.peer]
  <1>0. TypeOK /\ pipe[w] \in Seq(Commands) /\ pipe[w] # <<>>
    BY DEF SocketInv, CountInv, TypeOK, Take
  <1>1. /\ c = pipe[w][1] /\ 1 \in DOMAIN pipe[w] /\ c.fd \in Fds /\ c.peer \in Peers
        /\ DOMAIN pipe[w] = 1 .. Len(pipe[w]) /\ Len(pipe[w]) \in Nat
        /\ pipe'[w] = Tail(pipe[w]) /\ Len(pipe'[w]) = Len(pipe[w]) - 1
        /\ DOMAIN pipe'[w] = 1 .. (Len(pipe[w]) - 1)
        /\ \A k \in DOMAIN pipe'[w] : k + 1 \in DOMAIN pipe[w] /\ pipe'[w][k] = pipe[w][k + 1]
    BY <1>0, HeadTail, CommandsInPipe DEF Take, TypeOK
  <1>2. \A v \in Workers \ {w} : pipe'[v] = pipe[v] /\ sessions'[v] = sessions[v]
    BY <1>0 DEF Take, Insert, TypeOK
  <1>3. sessions'[w] = sessions[w] \cup {r} /\ r.fd = c.fd /\ r.peer = c.peer
    BY <1>0 DEF Insert, TypeOK
  <1>4. /\ peer[c.fd] = c.peer /\ c.fd \notin leaked
        /\ \A v \in Workers : \A k \in DOMAIN pipe[v] : pipe[v][k].fd = c.fd => v = w /\ k = 1
        /\ \A v \in Workers : ~InSession(v, c.fd)
        /\ \A m \in Messages : ~InFlush(m, c.fd)
    BY <1>1 DEF SocketInv, PipeInv
  <1>5. UNCHANGED <<peer, leaked, run, count, place, sock>>
    BY DEF Take, Insert, senderVars
  <1> HIDE DEF c, r
  <1>6. \A v \in Workers : \A f : InSession(v, f)' <=> (InSession(v, f) \/ (v = w /\ f = c.fd))
    BY <1>2, <1>3 DEF InSession
  <1>7. \A m \in Messages : \A f : InFlush(m, f)' <=> InFlush(m, f)
    BY <1>5 DEF InFlush
  <1>8. Has(w)' = Has(w) /\ IsFiniteSet(sessions'[w])
    <2>1. r \notin sessions[w]
      BY <1>3, <1>4 DEF InSession
    <2>2. IsFiniteSet(sessions[w]) /\ Cardinality(sessions[w]) \in Nat
      BY Counts
    <2>3. IsFiniteSet(sessions'[w]) /\ Cardinality(sessions'[w]) = Cardinality(sessions[w]) + 1
      <3>1. /\ IsFiniteSet(sessions[w] \cup {r})
            /\ Cardinality(sessions[w] \cup {r}) = Cardinality(sessions[w]) + 1
        BY <2>1, <2>2, FS_AddElement
      <3> QED
        BY <1>3, <3>1
    <2> QED
      BY <1>1, <2>2, <2>3 DEF Has
  <1>9. CountInv'
    <2>1. \A v \in Workers \ {w} : Has(v)' = Has(v)
      BY <1>2 DEF Has
    <2> QED
      BY <1>2, <1>5, <1>8, <2>1 DEF SocketInv, CountInv
  <1>10. PipeInv'
    <2> SUFFICES ASSUME NEW v \in Workers, NEW k \in DOMAIN pipe'[v]
                 PROVE  /\ pipe'[v][k].peer = peer'[pipe'[v][k].fd]
                        /\ pipe'[v][k].fd \notin leaked'
                        /\ \A u \in Workers : \A j \in DOMAIN pipe'[u] :
                             pipe'[u][j].fd = pipe'[v][k].fd => u = v /\ j = k
                        /\ \A u \in Workers : ~InSession(u, pipe[v][k].fd)'
                        /\ \A m \in Messages : ~InFlush(m, pipe[v][k].fd)'
      BY DEF PipeInv
    <2> DEFINE shift(u) == IF u = w THEN 1 ELSE 0
    <2>1. \A u \in Workers : \A j \in DOMAIN pipe'[u] :
            /\ j \in Nat \ {0} /\ j + shift(u) \in DOMAIN pipe[u]
            /\ pipe'[u][j] = pipe[u][j + shift(u)]
      <3> SUFFICES ASSUME NEW u \in Workers, NEW j \in DOMAIN pipe'[u]
                   PROVE  /\ j \in Nat \ {0} /\ j + shift(u) \in DOMAIN pipe[u]
                          /\ pipe'[u][j] = pipe[u][j + shift(u)]
        OBVIOUS
      <3>1. j \in Nat \ {0}
        BY DEF TypeOK
      <3>2. CASE u = w
        BY <1>1, <3>1, <3>2
      <3>3. CASE u # w
        BY <1>2, <3>1, <3>3
      <3> QED
        BY <3>2, <3>3
    <2>2. /\ k + shift(v) \in DOMAIN pipe[v] /\ k \in Nat \ {0}
          /\ pipe'[v][k] = pipe[v][k + shift(v)]
      BY <2>1
    <2>3. pipe'[v][k].fd # c.fd
      BY <1>4, <2>2
    <2>4. ASSUME NEW u \in Workers, NEW j \in DOMAIN pipe'[u], pipe'[u][j].fd = pipe'[v][k].fd
          PROVE  u = v /\ j = k
      <3>1. u = v /\ j + shift(u) = k + shift(v)
        BY <2>1, <2>2, <2>4 DEF SocketInv, PipeInv
      <3>2. j \in Nat /\ k \in Nat /\ shift(v) \in Nat
        BY <2>1
      <3> QED
        BY <3>1, <3>2
    <2> HIDE DEF shift
    <2> QED
      BY <1>5, <1>6, <1>7, <2>2, <2>3, <2>4 DEF SocketInv, PipeInv
  <1>11. SessionInv'
    <2> SUFFICES ASSUME NEW v \in Workers, NEW s \in sessions'[v]
                 PROVE  /\ s.peer = peer[s.fd]
                        /\ s.fd \notin leaked
                        /\ \A u \in Workers : InSession(u, s.fd)' => u = v
                        /\ \A m \in Messages : ~InFlush(m, s.fd)'
      BY <1>5 DEF SessionInv
    <2>1. CASE v = w /\ s = r
      BY <1>3, <1>4, <1>6, <1>7, <2>1
    <2>2. CASE ~(v = w /\ s = r)
      <3>1. s \in sessions[v]
        BY <1>2, <1>3, <2>2
      <3>2. s.fd # c.fd
        BY <1>4, <3>1 DEF InSession
      <3> QED
        BY <1>6, <1>7, <3>1, <3>2 DEF SocketInv, SessionInv
    <2> QED
      BY <2>1, <2>2
  <1>12. FlushInv'
    BY <1>5, <1>7 DEF SocketInv, FlushInv
  <1>13. OpenInv'
    <2>1. ASSUME NEW f \in Fds, NEW v \in Workers, NEW k \in DOMAIN pipe[v], pipe[v][k].fd = f
          PROVE  Owned(f)'
      <3>1. CASE v = w /\ k = 1
        BY <1>1, <1>6, <2>1, <3>1 DEF Owned
      <3>2. CASE v = w /\ k # 1
        <4>1. k - 1 \in DOMAIN pipe'[w] /\ pipe'[w][k - 1] = pipe[w][k]
          BY <1>1, <3>2
        <4> QED
          BY <2>1, <3>2, <4>1 DEF Owned, InPipe
      <3>3. CASE v # w
        BY <1>2, <2>1, <3>3 DEF Owned, InPipe
      <3> QED
        BY <3>1, <3>2, <3>3
    <2>2. \A f \in Fds : Owned(f) => Owned(f)'
      BY <1>6, <1>7, <2>1 DEF Owned, InPipe
    <2> QED
      BY <1>5, <2>2 DEF SocketInv, OpenInv
  <1>14. EndedInv'
    <2>1. ~Ended(w)'
      BY <1>5, <1>8 DEF Take, Serves, Ended, Has
    <2> QED
      BY <1>2, <1>5, <2>1 DEF SocketInv, EndedInv, Ended
  <1> QED
    BY <1>9, <1>10, <1>11, <1>12, <1>13, <1>14 DEF SocketInv

LEMMA CountStep ==
  ASSUME SocketInv, TypeOK', NEW w \in Workers, UNCHANGED run,
         \A v \in Workers \ {w} : /\ pipe'[v] = pipe[v]
                                  /\ sessions'[v] = sessions[v]
                                  /\ count'[v] = count[v],
         IsFiniteSet(sessions'[w]), count'[w] >= Has(w)' - 1,
         run = "up" => count'[w] = Has(w)',
         run # "up" /\ Ended(w)' => sessions'[w] = {}
  PROVE  CountInv' /\ EndedInv'
  <1>1. \A v \in Workers \ {w} : Has(v)' = Has(v) /\ (Ended(v)' <=> Ended(v))
    BY DEF Has, Ended
  <1>2. CountInv'
    BY <1>1 DEF SocketInv, CountInv
  <1>3. EndedInv'
    BY <1>1 DEF SocketInv, EndedInv
  <1> QED
    BY <1>2, <1>3

(* A worker closes the socket it took from its pipe. *)
LEMMA RefuseStep ==
  ASSUME SocketInv, TypeOK', NEW w \in Workers, Take(w), Refuse(w, Head(pipe[w]))
  PROVE  SocketInv'
  <1> DEFINE c == Head(pipe[w])
             d == [v \in Workers |-> IF v = w THEN 1 ELSE 0]
  <1>0. TypeOK /\ pipe[w] \in Seq(Commands) /\ pipe[w] # <<>>
    BY DEF SocketInv, CountInv, TypeOK, Take
  <1>1. /\ c = pipe[w][1] /\ 1 \in DOMAIN pipe[w] /\ c.fd \in Fds
        /\ DOMAIN pipe[w] = 1 .. Len(pipe[w]) /\ Len(pipe[w]) \in Nat
        /\ pipe'[w] = Tail(pipe[w]) /\ Len(pipe'[w]) = Len(pipe[w]) - 1
        /\ DOMAIN pipe'[w] = 1 .. (Len(pipe[w]) - 1)
        /\ \A k \in DOMAIN pipe'[w] : k + 1 \in DOMAIN pipe[w] /\ pipe'[w][k] = pipe[w][k + 1]
    BY <1>0, HeadTail, CommandsInPipe DEF Take, TypeOK
  <1>2. \A v \in Workers \ {w} : pipe'[v] = pipe[v] /\ count'[v] = count[v]
    BY <1>0 DEF Take, Refuse, TypeOK
  <1>3. count'[w] = count[w] - 1
    BY <1>0 DEF Refuse, TypeOK
  <1>4. /\ c.fd \notin leaked
        /\ \A v \in Workers : \A k \in DOMAIN pipe[v] : pipe[v][k].fd = c.fd => v = w /\ k = 1
        /\ \A v \in Workers : ~InSession(v, c.fd)
        /\ \A m \in Messages : ~InFlush(m, c.fd)
    BY <1>1 DEF SocketInv, PipeInv
  <1>5. UNCHANGED <<leaked, run, sessions, place, sock>> /\ Close({c.fd})
    BY DEF Take, Refuse, senderVars
  <1> HIDE DEF c
  <1>6. CountInv' /\ EndedInv'
    <2>1. Has(w)' = Has(w) - 1 /\ count[w] \in Int /\ Has(w) \in Nat /\ count[w] >= Has(w)
          /\ (run = "up" => count[w] = Has(w)) /\ IsFiniteSet(sessions[w])
      BY <1>1, <1>5, Counts DEF Has, Take, Serves, Ended
    <2>2. count'[w] >= Has(w)' /\ (run = "up" => count'[w] = Has(w)') /\ Has(w)' \in Int
          /\ count'[w] \in Int
      BY <1>3, <2>1
    <2>3. ~Ended(w)'
      BY <2>2 DEF Ended, Has
    <2> QED
      BY <1>2, <1>5, <2>1, <2>2, <2>3, CountStep
  <1>7. ASSUME NEW v \in Workers, NEW j \in DOMAIN pipe'[v]
        PROVE  /\ j + d[v] \in DOMAIN pipe[v] /\ pipe'[v][j] = pipe[v][j + d[v]]
               /\ pipe'[v][j].fd \notin {c.fd}
    <2>1. j \in Nat \ {0}
      BY DEF TypeOK
    <2>2. CASE v = w
      <3>1. d[v] = 1 /\ j \in DOMAIN pipe'[w]
        BY <2>2
      <3>2. j + 1 \in DOMAIN pipe[w] /\ pipe'[w][j] = pipe[w][j + 1] /\ j + 1 # 1
        BY <1>1, <2>1, <3>1
      <3> QED
        BY <1>4, <2>2, <3>1, <3>2
    <2>3. CASE v # w
      <3>1. d[v] = 0 /\ j \in DOMAIN pipe[v] /\ pipe'[v] = pipe[v]
        BY <1>2, <2>3
      <3> QED
        BY <1>4, <2>1, <2>3, <3>1
    <2> QED
      BY <2>2, <2>3
  <1>8. \A v \in Workers : \A f : InSession(v, f)' <=> InSession(v, f)
    BY <1>5 DEF InSession
  <1>9. \A m \in Messages : \A f : InFlush(m, f)' <=> InFlush(m, f)
    BY <1>5 DEF InFlush
  <1>10. ASSUME NEW f \in Fds \ {c.fd}, Owned(f) PROVE Owned(f)'
    <2>1. ASSUME NEW v \in Workers, NEW k \in DOMAIN pipe[v], pipe[v][k].fd = f PROVE Owned(f)'
      <3>1. CASE v = w
        <4>1. k # 1
          BY <1>1, <2>1, <3>1
        <4>2. k - 1 \in DOMAIN pipe'[w] /\ pipe'[w][k - 1] = pipe[w][k]
          BY <1>1, <3>1, <4>1
        <4> QED
          BY <2>1, <3>1, <4>2 DEF Owned, InPipe
      <3>2. CASE v # w
        BY <1>2, <2>1, <3>2 DEF Owned, InPipe
      <3> QED
        BY <3>1, <3>2
    <2> QED
      BY <1>8, <1>9, <1>10, <2>1 DEF Owned, InPipe
  <1>11. d \in [Workers -> Nat]
    OBVIOUS
  <1>12. \A v \in Workers : \A s \in sessions'[v] : s \in sessions[v] /\ s.fd \notin {c.fd}
    BY <1>4, <1>5 DEF InSession
  <1>13. {c.fd} \cap leaked = {}
    BY <1>4
  <1> HIDE DEF d
  <1>14. PipeInv' /\ SessionInv' /\ FlushInv' /\ OpenInv'
    BY <1>4, <1>5, <1>7, <1>9, <1>10, <1>11, <1>12, <1>13, CloseSockets
  <1> QED
    BY <1>6, <1>14 DEF SocketInv

(* A worker closes sessions. *)
LEMMA CloseSessions ==
  ASSUME SocketInv, TypeOK', NEW w \in Workers, NEW S \in SUBSET sessions[w],
         Close({s.fd : s \in S}), sessions' = [sessions EXCEPT ![w] = @ \ S],
         UNCHANGED <<pipe, leaked, run, place, sock>>
  PROVE  PipeInv' /\ SessionInv' /\ FlushInv' /\ OpenInv'
  <1> DEFINE F == {s.fd : s \in S}
             d == [v \in Workers |-> 0]
  <1>0. TypeOK
    BY DEF SocketInv, CountInv
  <1>1. /\ sessions'[w] = sessions[w] \ S
        /\ \A v \in Workers \ {w} : sessions'[v] = sessions[v]
    BY <1>0 DEF TypeOK
  <1>2. \A f \in F : /\ f \notin leaked
                     /\ \A v \in Workers : InSession(v, f) => v = w
                     /\ \A m \in Messages : ~InFlush(m, f)
    BY DEF SocketInv, SessionInv
  <1>3. \A v \in Workers : \A k \in DOMAIN pipe[v] : pipe[v][k].fd \notin F
    BY DEF SocketInv, PipeInv, InSession
  <1>4. ASSUME NEW v \in Workers, NEW s \in sessions'[v] PROVE s \in sessions[v] /\ s.fd \notin F
    <2>1. s \in sessions[v]
      BY <1>1
    <2>2. ASSUME NEW r \in S, r.fd = s.fd PROVE FALSE
      <3>1. v = w
        BY <2>1, <2>2 DEF SocketInv, SessionInv, InSession
      <3>2. r \in [fd : Fds, peer : Peers] /\ s \in [fd : Fds, peer : Peers] /\ s \notin S
        BY <1>0, <1>1, <2>1, <3>1 DEF TypeOK
      <3>3. r.peer = peer[r.fd] /\ s.peer = peer[s.fd]
        BY <2>1 DEF SocketInv, SessionInv
      <3> QED
        BY <2>2, <3>2, <3>3
    <2> QED
      BY <2>1, <2>2
  <1>5. \A m \in Messages : \A f : InFlush(m, f)' <=> InFlush(m, f)
    BY DEF InFlush
  <1>6. ASSUME NEW f \in Fds \ F, Owned(f) PROVE Owned(f)'
    <2>1. \A v \in Workers : InSession(v, f) => InSession(v, f)'
      BY <1>1 DEF InSession
    <2> QED
      BY <1>5, <1>6, <2>1 DEF Owned, InPipe
  <1>7. d \in [Workers -> Nat]
    OBVIOUS
  <1>8. \A v \in Workers : \A j \in DOMAIN pipe'[v] :
          /\ j + d[v] \in DOMAIN pipe[v] /\ pipe'[v][j] = pipe[v][j + d[v]]
          /\ pipe'[v][j].fd \notin F
    BY <1>3 DEF TypeOK
  <1>9. F \cap leaked = {} /\ \A m \in Messages : \A f : InFlush(m, f)' => (InFlush(m, f) /\ f \notin F)
    BY <1>2, <1>5
  <1> HIDE DEF F, d
  <1> QED
    BY <1>4, <1>6, <1>7, <1>8, <1>9, CloseSockets DEF F

LEMMA DeleteStep ==
  ASSUME SocketInv, TypeOK', NEW w \in Workers, Delete(w)
  PROVE  SocketInv'
  <1> DEFINE e == ending[w]
  <1>0. TypeOK /\ e \in sessions[w]
    BY DEF SocketInv, CountInv, TypeOK, Delete
  <1>1. UNCHANGED <<pipe, leaked, run, place, sock>>
    BY DEF Delete, senderVars
  <1>2. Close({s.fd : s \in {e}}) /\ sessions' = [sessions EXCEPT ![w] = @ \ {e}]
    <2>1. {s.fd : s \in {e}} = {e.fd}
      OBVIOUS
    <2> QED
      BY <2>1 DEF Delete
  <1>3. PipeInv' /\ SessionInv' /\ FlushInv' /\ OpenInv'
    BY <1>0, <1>1, <1>2, CloseSessions
  <1>4. CountInv' /\ EndedInv'
    <2>1. \A v \in Workers \ {w} : sessions'[v] = sessions[v] /\ count'[v] = count[v]
      BY <1>0 DEF Delete, TypeOK
    <2>2. sessions'[w] = sessions[w] \ {e} /\ count'[w] = count[w] - 1
      BY <1>0 DEF Delete, TypeOK
    <2>3. /\ IsFiniteSet(sessions[w] \ {e})
          /\ Cardinality(sessions[w] \ {e}) = Cardinality(sessions[w]) - 1
      BY <1>0, Counts, FS_RemoveElement
    <2>4. ~Ended(w)
      BY <1>0, Counts DEF SocketInv, EndedInv, Ended, Has
    <2>5. Has(w)' = Has(w) - 1 /\ Cardinality(sessions[w]) \in Nat /\ Len(pipe[w]) \in Nat
          /\ count[w] \in Int /\ count[w] >= Has(w) /\ (run = "up" => count[w] = Has(w))
      BY <1>1, <2>2, <2>3, <2>4, Counts DEF Has, Ended
    <2>6. count'[w] >= Has(w)' /\ (run = "up" => count'[w] = Has(w)') /\ count'[w] \in Int
          /\ Has(w)' \in Int
      BY <2>2, <2>5 DEF Has
    <2>7. ~Ended(w)'
      BY <2>6 DEF Ended, Has
    <2>8. IsFiniteSet(sessions'[w]) /\ count'[w] >= Has(w)' - 1
      BY <2>2, <2>3, <2>6
    <2> QED
      BY <1>1, <2>1, <2>6, <2>7, <2>8, CountStep
  <1> QED
    BY <1>3, <1>4 DEF SocketInv

LEMMA DeleteAllStep ==
  ASSUME SocketInv, TypeOK', NEW w \in Workers, DeleteAll(w)
  PROVE  SocketInv'
  <1>0. TypeOK
    BY DEF SocketInv, CountInv
  <1>1. UNCHANGED <<pipe, leaked, run, place, sock>> /\ run # "up"
    BY DEF DeleteAll, senderVars
  <1>2. sessions' = [sessions EXCEPT ![w] = @ \ sessions[w]] /\ sessions'[w] = {}
    BY <1>0 DEF DeleteAll, TypeOK
  <1>3. PipeInv' /\ SessionInv' /\ FlushInv' /\ OpenInv'
    BY <1>1, <1>2, CloseSessions DEF DeleteAll
  <1>4. CountInv' /\ EndedInv'
    <2>1. \A v \in Workers \ {w} : sessions'[v] = sessions[v] /\ count'[v] = count[v]
      BY <1>0 DEF DeleteAll, TypeOK
    <2>2. count'[w] = count[w] - Cardinality(sessions[w]) - 1
      BY <1>0 DEF DeleteAll, TypeOK
    <2>3. IsFiniteSet({}) /\ Cardinality({}) = 0
      BY FS_EmptySet
    <2>4. /\ Len(pipe[w]) \in Nat /\ Cardinality(sessions[w]) \in Nat /\ count[w] \in Int
      BY Counts
    <2>5. count[w] >= Len(pipe[w]) + Cardinality(sessions[w])
      BY <2>4 DEF DeleteAll, Serves, Ended
    <2>6. Cardinality(sessions'[w]) = 0 /\ IsFiniteSet(sessions'[w])
      BY <1>2, <2>3
    <2>7. Has(w)' = Len(pipe[w])
      BY <1>1, <2>4, <2>6 DEF Has
    <2>8. count'[w] >= Has(w)' - 1
      BY <2>2, <2>4, <2>5, <2>7
    <2> QED
      BY <1>1, <1>2, <2>1, <2>6, <2>8, CountStep
  <1> QED
    BY <1>3, <1>4 DEF SocketInv

(* The owner of a socket that is being written to closes it. *)
LEMMA CloseFlushed ==
  ASSUME SocketInv, TypeOK', NEW m \in Messages, place[m] = "flush", place'[m] = "done",
         Close({sock[m]}), UNCHANGED <<pipe, sessions, count, leaked, run>>,
         \A n \in Messages \ {m} : place'[n] = "flush" <=> place[n] = "flush",
         \A n \in Messages \ {m} : sock'[n] = sock[n]
  PROVE  SocketInv'
  <1> DEFINE F == {sock[m]}
             d == [v \in Workers |-> 0]
  <1>1. /\ sock[m] \in Fds /\ sock[m] \notin leaked
        /\ \A n \in Messages : InFlush(n, sock[m]) => n = m
    BY DEF SocketInv, FlushInv
  <1>2. InFlush(m, sock[m])
    BY DEF InFlush
  <1>3. \A v \in Workers : \A k \in DOMAIN pipe[v] : pipe[v][k].fd # sock[m]
    BY <1>2 DEF SocketInv, PipeInv
  <1>4. \A v \in Workers : \A s \in sessions[v] : s.fd # sock[m]
    BY <1>2 DEF SocketInv, SessionInv
  <1>5. ASSUME NEW n \in Messages, NEW f PROVE InFlush(n, f)' <=> (InFlush(n, f) /\ f # sock[m])
    <2>1. CASE n = m
      BY <2>1 DEF InFlush
    <2>2. CASE n # m
      <3>1. place'[n] = "flush" <=> place[n] = "flush"
        BY <2>2
      <3>2. sock'[n] = sock[n]
        BY <2>2
      <3> QED
        BY <1>1, <2>2, <3>1, <3>2 DEF InFlush
    <2> QED
      BY <2>1, <2>2
  <1>6. \A v \in Workers : \A f : InSession(v, f)' <=> InSession(v, f)
    BY DEF InSession
  <1>7. \A f \in Fds \ F : Owned(f) => Owned(f)'
    BY <1>5, <1>6 DEF Owned, InPipe
  <1>8. d \in [Workers -> Nat]
    OBVIOUS
  <1>9. \A v \in Workers : \A j \in DOMAIN pipe'[v] :
          /\ j + d[v] \in DOMAIN pipe[v] /\ pipe'[v][j] = pipe[v][j + d[v]]
          /\ pipe'[v][j].fd \notin F
    BY <1>3 DEF TypeOK
  <1>10. F \cap leaked = {} /\ \A v \in Workers : \A s \in sessions'[v] : s \in sessions[v] /\ s.fd \notin F
    BY <1>1, <1>4
  <1>11. Close(F) /\ \A n \in Messages : \A f : InFlush(n, f)' => (InFlush(n, f) /\ f \notin F)
    BY <1>5
  <1> HIDE DEF F, d
  <1>12. PipeInv' /\ SessionInv' /\ FlushInv' /\ OpenInv'
    BY <1>7, <1>8, <1>9, <1>10, <1>11, CloseSockets
  <1>13. CountInv' /\ EndedInv'
    BY DEF SocketInv, CountInv, EndedInv, Has, Ended
  <1> QED
    BY <1>12, <1>13 DEF SocketInv

(* A message that waits is in nobody's hands. *)
LEMMA WaitingPlace ==
  ASSUME TypeOK, QueueInv
  PROVE  /\ \A p \in Peers : \A n \in Queue(p) : n \in Messages /\ place[n] = "queued"
         /\ \A m, n \in Messages : InBatch(n, m) => place[n] = "queued"
  BY QueueType DEF QueueInv

(* An error ends its message and those that wait, not those that connect   *)
(* or write.                                                               *)
LEMMA ErrorPlaces ==
  ASSUME TypeOK, QueueInv, NEW m \in Messages, NEW ws, NEW ds, ConnectError(m, ws, ds),
         \A n \in ws \cup ds : n \in Messages /\ InBatch(n, m)
  PROVE  /\ place'[m] = "done"
         /\ \A n \in Messages \ {m} :
              place'[n] = IF n \in Queue(Dest[m]) \cup ws \cup ds THEN "done" ELSE place[n]
         /\ \A n \in Messages \ {m} : place[n] # "queued" => place'[n] = place[n]
         /\ \A n \in Messages : place'[n] = "flush" => place[n] = "flush"
  <1>1. \A n \in Queue(Dest[m]) \cup ws \cup ds : place[n] = "queued"
    BY WaitingPlace, ConnectionAssumption
  <1> QED
    BY <1>1 DEF ConnectError

(* Of what a TLS thread took, each message is written or deleted.          *)
LEMMA WaitedAre ==
  ASSUME TypeOK, NEW m \in Messages, TlsFails(m)
  PROVE  \E ws, ds : ConnectError(m, ws, ds) /\ ws \cup ds = Range(batch[m])
  <1>1. PICK k \in 0 .. Len(batch[m]) :
          ConnectError(m, Waited(m, 1, k), Waited(m, k + 1, Len(batch[m])))
    BY DEF TlsFails
  <1>2. batch[m] \in Seq(Messages) /\ DOMAIN batch[m] = 1 .. Len(batch[m]) /\ Len(batch[m]) \in Nat
    BY DEF TypeOK
  <1>3. (1 .. k) \cup (k + 1 .. Len(batch[m])) = DOMAIN batch[m]
    BY <1>2
  <1>4. Waited(m, 1, k) \cup Waited(m, k + 1, Len(batch[m])) = {batch[m][i] : i \in DOMAIN batch[m]}
    BY <1>3 DEF Waited
  <1> QED
    BY <1>1, <1>4 DEF Range

LEMMA HandOverPlaces ==
  ASSUME TypeOK, QueueInv, NEW m \in Messages,
         place' = [n \in Messages |-> IF n \in Flushed(m) THEN "done" ELSE place[n]]
  PROVE  /\ place'[m] = "done"
         /\ \A n \in Messages \ {m} : place'[n] = IF InBatch(n, m) THEN "done" ELSE place[n]
         /\ \A n \in Messages \ {m} : place[n] # "queued" => place'[n] = place[n]
         /\ \A n \in Messages : place'[n] = "flush" => place[n] = "flush"
  BY WaitingPlace DEF Flushed, InBatch

(* A new socket belongs to the thread that connected. *)
LEMMA ConnectStep ==
  ASSUME SocketInv, TypeOK', NEW m \in Messages, Connect(m)
  PROVE  SocketInv'
  <1> PICK f \in Free : Open(f, Dest[m]) /\ sock' = [sock EXCEPT ![m] = f]
    BY DEF Connect
  <1>0. TypeOK /\ Dest[m] \in Peers /\ None \notin Peers
    BY ConnectionAssumption DEF SocketInv, CountInv
  <1>1. /\ f \in Fds /\ f \notin leaked
        /\ \A w \in Workers : \A k \in DOMAIN pipe[w] : pipe[w][k].fd # f
        /\ \A w \in Workers : \A s \in sessions[w] : s.fd # f
        /\ \A n \in Messages : ~InFlush(n, f)
    BY FreeUnowned
  <1>2. UNCHANGED <<pipe, sessions, count, leaked, run>>
    BY DEF Connect, workerVars
  <1>3. peer'[f] = Dest[m] /\ \A g \in Fds \ {f} : peer'[g] = peer[g]
    BY <1>0, <1>1 DEF Open, TypeOK
  <1>4. /\ place'[m] = "flush" /\ sock'[m] = f /\ place[m] # "flush"
        /\ \A n \in Messages \ {m} : place'[n] = place[n] /\ sock'[n] = sock[n]
    BY <1>0 DEF Connect, TypeOK
  <1>5. \A n \in Messages : \A g : InFlush(n, g)' <=> (InFlush(n, g) \/ (n = m /\ g = f))
    BY <1>4 DEF InFlush
  <1>6. \A w \in Workers : \A g : InSession(w, g)' <=> InSession(w, g)
    BY <1>2 DEF InSession
  <1>7. CountInv' /\ EndedInv'
    BY <1>2 DEF SocketInv, CountInv, EndedInv, Has, Ended
  <1>8. PipeInv'
    <2> SUFFICES ASSUME NEW v \in Workers, NEW k \in DOMAIN pipe[v]
                 PROVE  /\ pipe[v][k].peer = peer'[pipe[v][k].fd]
                        /\ pipe[v][k].fd \notin leaked
                        /\ \A u \in Workers : \A j \in DOMAIN pipe[u] :
                             pipe[u][j].fd = pipe[v][k].fd => u = v /\ j = k
                        /\ \A u \in Workers : ~InSession(u, pipe[v][k].fd)'
                        /\ \A n \in Messages : ~InFlush(n, pipe[v][k].fd)'
      BY <1>2 DEF PipeInv
    <2>1. pipe[v][k].fd \in Fds /\ pipe[v][k].fd # f /\ pipe'[v][k] = pipe[v][k]
      BY <1>0, <1>1, <1>2, CommandsInPipe
    <2> QED
      BY <1>2, <1>3, <1>5, <1>6, <2>1 DEF SocketInv, PipeInv
  <1>9. SessionInv'
    <2> SUFFICES ASSUME NEW v \in Workers, NEW s \in sessions[v]
                 PROVE  /\ s.peer = peer'[s.fd]
                        /\ s.fd \notin leaked
                        /\ \A u \in Workers : InSession(u, s.fd)' => u = v
                        /\ \A n \in Messages : ~InFlush(n, s.fd)'
      BY <1>2 DEF SessionInv
    <2>1. s.fd \in Fds /\ s.fd # f
      BY <1>0, <1>1 DEF TypeOK
    <2> QED
      BY <1>3, <1>5, <1>6, <2>1 DEF SocketInv, SessionInv
  <1>10. FlushInv'
    <2> SUFFICES ASSUME NEW n \in Messages, place'[n] = "flush"
                 PROVE  /\ sock'[n] \in Fds
                        /\ peer'[sock'[n]] = Dest[n]
                        /\ sock'[n] \notin leaked'
                        /\ \A k \in Messages : InFlush(k, sock[n])' => k = n
      BY DEF FlushInv
    <2> PICK g : g = sock'[n]
      OBVIOUS
    <2>1. CASE n = m
      <3>1. \A k \in Messages : InFlush(k, g)' => k = n
        BY <1>1, <1>4, <1>5, <2>1
      <3> QED
        BY <1>1, <1>2, <1>3, <1>4, <2>1, <3>1 DEF InFlush
    <2>2. CASE n # m
      <3>1. place[n] = "flush" /\ sock[n] = g /\ InFlush(n, g)
        BY <1>4, <2>2 DEF InFlush
      <3>2. /\ g \in Fds /\ g # f /\ peer[g] = Dest[n] /\ g \notin leaked
            /\ \A k \in Messages : InFlush(k, g) => k = n
        BY <1>1, <3>1 DEF SocketInv, FlushInv
      <3>3. \A k \in Messages : InFlush(k, g)' => k = n
        BY <1>5, <3>2
      <3> QED
        BY <1>2, <1>3, <3>2, <3>3 DEF InFlush
    <2> QED
      BY <2>1, <2>2
  <1>11. OpenInv'
    <2>1. \A g \in Fds : Owned(g) => Owned(g)'
      BY <1>2, <1>5, <1>6 DEF Owned, InPipe
    <2>2. Owned(f)'
      BY <1>5 DEF Owned
    <2> QED
      BY <1>0, <1>1, <1>2, <1>3, <2>1, <2>2 DEF SocketInv, OpenInv
  <1> QED
    BY <1>7, <1>8, <1>9, <1>10, <1>11 DEF SocketInv

(* A socket that is forgotten stays open and belongs to nobody. *)
LEMMA LeakStep ==
  ASSUME SocketInv, QueueInv, TypeOK', NEW m \in Messages, FirstWriteFails(m), transport = "tcp"
  PROVE  SocketInv'
  <1> PICK f \in Free : Open(f, Dest[m]) /\ leaked' = leaked \cup {f}
    BY DEF FirstWriteFails
  <1>0. TypeOK /\ Dest[m] \in Peers /\ None \notin Peers
    BY ConnectionAssumption DEF SocketInv, CountInv
  <1>1. /\ f \in Fds
        /\ \A w \in Workers : \A k \in DOMAIN pipe[w] : pipe[w][k].fd # f
        /\ \A w \in Workers : \A s \in sessions[w] : s.fd # f
        /\ \A n \in Messages : ~InFlush(n, f)
    BY FreeUnowned
  <1>2. UNCHANGED <<pipe, sessions, count, run, sock>>
    BY DEF FirstWriteFails, workerVars
  <1>3. peer'[f] = Dest[m] /\ \A g \in Fds \ {f} : peer'[g] = peer[g]
    BY <1>0, <1>1 DEF Open, TypeOK
  <1>4. \A n \in Messages : place'[n] = "flush" <=> place[n] = "flush"
    BY <1>0, ErrorPlaces DEF FirstWriteFails
  <1>5. \A n \in Messages : \A g : InFlush(n, g)' <=> InFlush(n, g)
    BY <1>2, <1>4 DEF InFlush
  <1>6. \A w \in Workers : \A g : InSession(w, g)' <=> InSession(w, g)
    BY <1>2 DEF InSession
  <1>7. CountInv' /\ EndedInv'
    BY <1>2 DEF SocketInv, CountInv, EndedInv, Has, Ended
  <1>8. PipeInv'
    <2> SUFFICES ASSUME NEW v \in Workers, NEW k \in DOMAIN pipe[v]
                 PROVE  /\ pipe[v][k].peer = peer'[pipe[v][k].fd]
                        /\ pipe[v][k].fd \notin leaked'
                        /\ \A u \in Workers : \A j \in DOMAIN pipe[u] :
                             pipe[u][j].fd = pipe[v][k].fd => u = v /\ j = k
                        /\ \A u \in Workers : ~InSession(u, pipe[v][k].fd)'
                        /\ \A n \in Messages : ~InFlush(n, pipe[v][k].fd)'
      BY <1>2 DEF PipeInv
    <2>1. pipe[v][k].fd \in Fds /\ pipe[v][k].fd # f /\ pipe'[v][k] = pipe[v][k]
      BY <1>0, <1>1, <1>2, CommandsInPipe
    <2> QED
      BY <1>2, <1>3, <1>5, <1>6, <2>1 DEF SocketInv, PipeInv
  <1>9. SessionInv'
    <2> SUFFICES ASSUME NEW v \in Workers, NEW s \in sessions[v]
                 PROVE  /\ s.peer = peer'[s.fd]
                        /\ s.fd \notin leaked'
                        /\ \A u \in Workers : InSession(u, s.fd)' => u = v
                        /\ \A n \in Messages : ~InFlush(n, s.fd)'
      BY <1>2 DEF SessionInv
    <2>1. s.fd \in Fds /\ s.fd # f
      BY <1>0, <1>1 DEF TypeOK
    <2> QED
      BY <1>3, <1>5, <1>6, <2>1 DEF SocketInv, SessionInv
  <1>10. FlushInv'
    <2> SUFFICES ASSUME NEW n \in Messages, place[n] = "flush"
                 PROVE  /\ sock[n] \in Fds
                        /\ peer'[sock[n]] = Dest[n]
                        /\ sock[n] \notin leaked'
                        /\ \A k \in Messages : InFlush(k, sock[n])' => k = n
      BY <1>2, <1>4 DEF FlushInv
    <2>1. sock[n] \in Fds /\ sock[n] # f /\ sock'[n] = sock[n]
      BY <1>1, <1>2 DEF SocketInv, FlushInv, InFlush
    <2> QED
      BY <1>3, <1>5, <2>1 DEF SocketInv, FlushInv
  <1>11. OpenInv'
    <2>1. \A g \in Fds : Owned(g) => Owned(g)'
      BY <1>2, <1>5, <1>6 DEF Owned, InPipe
    <2> QED
      BY <1>0, <1>1, <1>3, <2>1 DEF SocketInv, OpenInv
  <1> QED
    BY <1>7, <1>8, <1>9, <1>10, <1>11 DEF SocketInv

LEMMA SocketStep == SocketInv /\ QueueInv /\ [Next]_vars => SocketInv'
  <1> SUFFICES ASSUME SocketInv, QueueInv, [Next]_vars PROVE SocketInv'
    OBVIOUS
  <1> USE DEF workerVars, senderVars
  <1>0. TypeOK /\ TypeOK' /\ Dest \in [Messages -> Peers]
    BY TypeStep, ConnectionAssumption DEF SocketInv, CountInv
  <1>1. ASSUME NEW p \in Peers, Accept(p) PROVE SocketInv'
    <2> PICK w \in Room, f \in Free : Open(f, p) /\ SendCommand(w, Command(f, p, TRUE))
      BY <1>1 DEF Accept
    <2> PICK c : c = Command(f, p, TRUE)
      OBVIOUS
    <2>1. c \in Commands /\ c.fd = f /\ c.peer = p
      BY CommandType DEF Free
    <2>2. /\ f \notin leaked /\ f \in Fds
          /\ \A v \in Workers : \A k \in DOMAIN pipe[v] : pipe[v][k].fd # f
          /\ \A v \in Workers : ~InSession(v, f)
          /\ \A m \in Messages : ~InFlush(m, f)
      BY FreeUnowned DEF InSession
    <2>3. peer'[f] = p /\ \A g \in Fds \ {f} : peer'[g] = peer[g]
      BY <1>0, <2>2 DEF Open, TypeOK
    <2>4. \A m \in Messages : \A g : InFlush(m, g)' <=> (InFlush(m, g) /\ g # f)
      BY <1>1, <2>2 DEF Accept, InFlush
    <2> QED
      BY <1>0, <1>1, <2>1, <2>2, <2>3, <2>4, PutIntoPipe DEF Accept
  <1>2. ASSUME NEW w \in Workers, Take(w) PROVE SocketInv'
    BY <1>0, <1>2, InsertStep, RefuseStep DEF Take
  <1>3. ASSUME NEW w \in Workers, Delete(w) PROVE SocketInv'
    BY <1>0, <1>3, DeleteStep
  <1>4. ASSUME NEW w \in Workers, DeleteAll(w) PROVE SocketInv'
    BY <1>0, <1>4, DeleteAllStep
  <1>5. ASSUME NEW w \in Workers, NEW s \in sessions[w], EndSession(w, s) PROVE SocketInv'
    BY <1>0, <1>5, SocketFrame DEF EndSession
  <1>6. ASSUME NEW m \in Messages, LookUp(m) \/ SendTls(m) \/ Write(m) \/ Wait(m) \/ Enqueue(m)
        PROVE  SocketInv'
    <2>1. UNCHANGED <<peer, pipe, sessions, count, leaked, run>>
      BY <1>6 DEF LookUp, SendTls, Write, Wait, Enqueue
    <2>2. place[m] # "flush" /\ place'[m] # "flush"
      BY <1>0, <1>6 DEF LookUp, SendTls, Write, Wait, Enqueue, TypeOK
    <2>3. \A n \in Messages \ {m} : place'[n] = place[n] /\ sock'[n] = sock[n]
      BY <1>0, <1>6 DEF LookUp, SendTls, Write, Wait, Enqueue, TypeOK
    <2> QED
      BY <1>0, <2>1, <2>2, <2>3, SocketFrame
  <1>7. ASSUME NEW m \in Messages, Dial(m) PROVE SocketInv'
    <2>1. \A n \in Queue(Dest[m]) : place[n] # "flush"
      BY <1>0, WaitingPlace
    <2>2. \A n \in Messages : place'[n] = "flush" <=> place[n] = "flush"
      BY <1>7, <2>1 DEF Dial
    <2> QED
      BY <1>0, <1>7, <2>2, SocketFrame DEF Dial
  <1>8. ASSUME NEW m \in Messages, ConnectFails(m) \/ FirstWriteFails(m) PROVE SocketInv'
    <2>1. CASE UNCHANGED <<peer, leaked>>
      <3>1. \A n \in Messages : place'[n] = "flush" <=> place[n] = "flush"
        BY <1>0, <1>8, ErrorPlaces DEF ConnectFails, FirstWriteFails
      <3> QED
        BY <1>0, <1>8, <2>1, <3>1, SocketFrame DEF ConnectFails, FirstWriteFails
    <2>2. CASE FirstWriteFails(m) /\ transport = "tcp"
      BY <1>0, <2>2, LeakStep
    <2> QED
      BY <1>8, <2>1, <2>2 DEF ConnectFails, FirstWriteFails
  <1>9. ASSUME NEW m \in Messages, Connect(m) PROVE SocketInv'
    BY <1>0, <1>9, ConnectStep
  <1>10. ASSUME NEW m \in Messages, HandOver(m) PROVE SocketInv'
    <2> PICK w \in Room : SendCommand(w, Command(sock[m], Dest[m], FALSE))
      BY <1>10 DEF HandOver
    <2> PICK c : c = Command(sock[m], Dest[m], FALSE)
      OBVIOUS
    <2>1. /\ sock[m] \in Fds /\ peer[sock[m]] = Dest[m] /\ sock[m] \notin leaked
          /\ \A n \in Messages : InFlush(n, sock[m]) => n = m
      BY <1>10 DEF HandOver, SocketInv, FlushInv
    <2>2. c \in Commands /\ c.fd = sock[m] /\ c.peer = Dest[m]
      BY <1>0, <2>1, CommandType
    <2>3. InFlush(m, sock[m])
      BY <1>10 DEF HandOver, InFlush
    <2>4. \A v \in Workers : \A k \in DOMAIN pipe[v] : pipe[v][k].fd # sock[m]
      BY <2>3 DEF SocketInv, PipeInv
    <2>5. \A v \in Workers : ~InSession(v, sock[m])
      BY <2>3 DEF SocketInv, SessionInv, InSession
    <2>6. ASSUME NEW n \in Messages, NEW g PROVE InFlush(n, g)' <=> (InFlush(n, g) /\ g # sock[m])
      <3>1. /\ place'[m] = "done"
            /\ place[n] # "queued" /\ n # m => place'[n] = place[n]
            /\ place'[n] = "flush" => place[n] = "flush"
        BY <1>0, <1>10, HandOverPlaces DEF HandOver
      <3>2. n # m => sock'[n] = sock[n]
        BY <1>0, <1>10 DEF HandOver, TypeOK
      <3>3. CASE n = m
        BY <3>1, <3>3 DEF InFlush
      <3>4. CASE n # m
        BY <2>1, <3>1, <3>2, <3>4 DEF InFlush
      <3> QED
        BY <3>3, <3>4
    <2> QED
      BY <1>0, <1>10, <2>1, <2>2, <2>4, <2>5, <2>6, PutIntoPipe DEF HandOver
  <1>11. ASSUME NEW m \in Messages, NoRoom(m) \/ TlsFails(m) PROVE SocketInv'
    <2>1. /\ place[m] = "flush" /\ Close({sock[m]})
          /\ UNCHANGED <<pipe, sessions, count, leaked, run>>
      BY <1>11 DEF NoRoom, TlsFails
    <2>2. /\ place'[m] = "done"
          /\ \A n \in Messages \ {m} : place[n] # "queued" => place'[n] = place[n]
          /\ \A n \in Messages : place'[n] = "flush" => place[n] = "flush"
      <3>1. CASE NoRoom(m)
        BY <1>0, <3>1, HandOverPlaces DEF NoRoom
      <3>2. CASE TlsFails(m)
        <4>1. \A n \in Range(batch[m]) : n \in Messages /\ InBatch(n, m)
          BY <1>0, QueueType DEF InBatch
        <4>2. PICK ws, ds : ConnectError(m, ws, ds) /\ ws \cup ds = Range(batch[m])
          BY <1>0, <3>2, WaitedAre
        <4> QED
          BY <1>0, <4>1, <4>2, ErrorPlaces
      <3> QED
        BY <1>11, <3>1, <3>2
    <2>3. \A n \in Messages \ {m} : sock'[n] = sock[n]
      BY <1>0, <1>11 DEF NoRoom, TlsFails, TypeOK
    <2>4. \A n \in Messages \ {m} : place'[n] = "flush" <=> place[n] = "flush"
      BY <2>2
    <2> QED
      BY <1>0, <2>1, <2>2, <2>3, <2>4, CloseFlushed
  <1>12. CASE Stop
    <2>1. \A w \in Workers : ~Ended(w)
      BY <1>0, <1>12, Counts DEF Stop, Ended, Has
    <2>2. CountInv' /\ EndedInv'
      BY <1>0, <1>12, <2>1, Counts DEF Stop, CountInv, EndedInv, Has, Ended
    <2>3. PipeInv' /\ SessionInv' /\ FlushInv' /\ OpenInv'
      BY <1>12 DEF Stop, SocketInv, PipeInv, SessionInv, FlushInv, OpenInv, Owned,
                   InPipe, InSession, InFlush
    <2> QED
      BY <2>2, <2>3 DEF SocketInv
  <1>13. CASE Stopped
    <2>1. \A w \in Workers : sessions[w] = {} /\ pipe'[w] = <<>>
      BY <1>13 DEF Stopped, SocketInv, EndedInv
    <2>2. \A m \in Messages : place[m] # "flush"
      BY <1>13 DEF Stopped
    <2>3. UNCHANGED <<peer, sessions, count, place, sock>> /\ run' = "stopped"
      BY <1>13 DEF Stopped
    <2>4. CountInv'
      <3> SUFFICES ASSUME NEW w \in Workers PROVE IsFiniteSet(sessions[w]) /\ count[w] >= Has(w)' - 1
        BY <1>0, <2>3 DEF CountInv
      <3>1. Cardinality({}) = 0
        BY FS_EmptySet
      <3>2. Has(w)' = 0
        <4>1. pipe'[w] = <<>> /\ sessions'[w] = {} /\ Len(<<>>) = 0
          BY <2>1, <2>3
        <4> QED
          BY <3>1, <4>1 DEF Has
      <3>3. count[w] \in -1 .. MaxSocket
        BY <1>0 DEF TypeOK
      <3> QED
        BY <3>2, <3>3, Counts, ConnectionAssumption
    <2>5. PipeInv' /\ SessionInv' /\ FlushInv' /\ EndedInv'
      BY <2>1, <2>2, <2>3 DEF PipeInv, SessionInv, FlushInv, EndedInv
    <2>6. OpenInv'
      <3> SUFFICES ASSUME NEW f \in Fds
                   PROVE  (f \in leaked' => peer[f] # None) /\ (peer[f] # None => f \in leaked')
        BY <2>3 DEF OpenInv
      <3>1. f \in leaked' <=>
              (f \in leaked \/ \E w \in Workers : \E k \in DOMAIN pipe[w] : pipe[w][k].fd = f)
        <4>1. \A w \in Workers : f \in {c.fd : c \in Range(pipe[w])} <=>
                                   \E k \in DOMAIN pipe[w] : pipe[w][k].fd = f
          BY DEF Range
        <4>2. leaked' = leaked \cup UNION {{c.fd : c \in Range(pipe[w])} : w \in Workers}
          BY <1>13 DEF Stopped
        <4> HIDE DEF Stopped
        <4>3. f \in UNION {{c.fd : c \in Range(pipe[w])} : w \in Workers} <=>
                \E w \in Workers : f \in {c.fd : c \in Range(pipe[w])}
          OBVIOUS
        <4> QED
          BY <4>1, <4>2, <4>3
      <3>2. \A w \in Workers : \A k \in DOMAIN pipe[w] : peer[pipe[w][k].fd] # None
        BY <1>0, CommandsInPipe, ConnectionAssumption DEF SocketInv, PipeInv
      <3>3. Owned(f) => \E w \in Workers : \E k \in DOMAIN pipe[w] : pipe[w][k].fd = f
        BY <2>1, <2>2 DEF Owned, InPipe, InSession, InFlush
      <3> QED
        BY <3>1, <3>2, <3>3 DEF SocketInv, OpenInv
    <2> QED
      BY <2>4, <2>5, <2>6 DEF SocketInv
  <1>14. CASE ListenEnds
    <2>1. /\ UNCHANGED <<peer, pipe, sessions, count, leaked, place, sock>>
          /\ run # "up" /\ run' # "up"
      BY <1>14 DEF ListenEnds
    <2>2. CountInv' /\ EndedInv'
      BY <1>0, <2>1 DEF SocketInv, CountInv, EndedInv, Has, Ended
    <2>3. PipeInv' /\ SessionInv' /\ FlushInv' /\ OpenInv'
      BY <2>1 DEF SocketInv, PipeInv, SessionInv, FlushInv, OpenInv, Owned,
                  InPipe, InSession, InFlush
    <2> QED
      BY <2>2, <2>3 DEF SocketInv
  <1>15. CASE UNCHANGED vars
    BY <1>0, <1>15, SocketFrame DEF vars
  <1> QED
    BY <1>1, <1>2, <1>3, <1>4, <1>5, <1>6, <1>7, <1>8, <1>9, <1>10, <1>11, <1>12, <1>13,
       <1>14, <1>15 DEF Next, Work, Send, Connecting

-----------------------------------------------------------------------------
(* Messages that wait.                                                     *)
LEMMA InitQueue == Init => QueueInv /\ FateInv
  <1> SUFFICES ASSUME Init PROVE QueueInv /\ FateInv
    OBVIOUS
  <1>1. \A m \in Messages : batch[m] = <<>> /\ place[m] = "new" /\ fate[m] = {}
    BY DEF Init
  <1>2. \A p \in Peers : Queue(p) = {} /\ connects[p] = None
    BY DEF Init, Queue
  <1>3. \A m, n \in Messages : ~InBatch(m, n)
    BY <1>1 DEF InBatch, Range
  <1> QED
    BY <1>1, <1>2, <1>3, ConnectionAssumption DEF QueueInv, FateInv

(* What there is to show of the messages that wait after a step. *)
LEMMA QueueNext ==
  ASSUME \A q \in Peers : \A n \in Queue(q)' : Dest[n] = q /\ \A k \in Messages : ~InBatch(n, k)',
         \A n, k, j \in Messages : InBatch(n, k)' /\ InBatch(n, j)' => k = j,
         \A n \in Messages : place'[n] # "flush" => batch'[n] = <<>>,
         \A n \in Messages :
           place'[n] = "queued" <=> (n \in Queue(Dest[n])' \/ \E k \in Messages : InBatch(n, k)'),
         \A q \in Peers : connects'[q] # None => \E n \in Messages : place'[n] = "connect" /\ Dest[n] = q
  PROVE  QueueInv'
  <1>1. (\A p \in Peers : \A m \in Queue(p) : Dest[m] = p /\ \A n \in Messages : ~InBatch(m, n))'
    OBVIOUS
  <1>2. (\A m, n, k \in Messages : InBatch(m, n) /\ InBatch(m, k) => n = k)'
    OBVIOUS
  <1>3. (\A n \in Messages : place[n] # "flush" => batch[n] = <<>>)'
    OBVIOUS
  <1>4. (\A m \in Messages : place[m] = "queued" <=> (m \in Queue(Dest[m]) \/ \E n \in Messages : InBatch(m, n)))'
    OBVIOUS
  <1>5. (\A p \in Peers : connects[p] # None => \E m \in Messages : place[m] = "connect" /\ Dest[m] = p)'
    OBVIOUS
  <1> QED
    BY ONLY <1>1, <1>2, <1>3, <1>4, <1>5 DEF QueueInv

(* Who waits where, before and after a step. *)
LEMMA QueueFrame ==
  ASSUME TypeOK, QueueInv, UNCHANGED <<connects, batch>>,
         \A n \in Messages : place'[n] = "queued" <=> place[n] = "queued",
         \A n \in Messages : place[n] = "connect" => place'[n] = "connect",
         \A n \in Messages : place[n] = "flush" => place'[n] = "flush"
  PROVE  QueueInv'
  <1>1. \A p \in Peers : Queue(p)' = Queue(p)
    BY DEF Queue
  <1>2. \A m, n \in Messages : InBatch(m, n)' <=> InBatch(m, n)
    BY DEF InBatch
  <1> QED
    <2>1. \A q \in Peers : \A n \in Queue(q)' : Dest[n] = q /\ \A k \in Messages : ~InBatch(n, k)'
      BY <1>1, <1>2, QueueType DEF QueueInv
    <2>2. \A n, k, j \in Messages : InBatch(n, k)' /\ InBatch(n, j)' => k = j
      BY <1>2 DEF QueueInv
    <2>3. \A n \in Messages : place'[n] # "flush" => batch'[n] = <<>>
      BY DEF QueueInv
    <2>4. \A n \in Messages :
            place'[n] = "queued" <=> (n \in Queue(Dest[n])' \/ \E k \in Messages : InBatch(n, k)')
      BY <1>1, <1>2, ConnectionAssumption DEF QueueInv
    <2>5. \A q \in Peers : connects'[q] # None => \E n \in Messages : place'[n] = "connect" /\ Dest[n] = q
      BY DEF QueueInv
    <2> QED
      BY <2>1, <2>2, <2>3, <2>4, <2>5, QueueNext

LEMMA DialQueue ==
  ASSUME TypeOK, QueueInv, NEW m \in Messages, Dial(m)
  PROVE  QueueInv'
  <1> PICK p \in Peers : p = Dest[m]
    BY ConnectionAssumption
  <1>1. Queue(p)' = {} /\ \A q \in Peers \ {p} : Queue(q)' = Queue(q) /\ connects'[q] = connects[q]
    <2>1. connects'[p] = [queue |-> <<>>]
      BY DEF Dial, TypeOK
    <2>2. Range(<<>>) = {}
      BY DEF Range
    <2>3. Queue(p)' = {}
      BY <2>1, <2>2 DEF Queue
    <2>4. \A q \in Peers \ {p} : connects'[q] = connects[q]
      BY DEF Dial, TypeOK
    <2> QED
      BY <2>3, <2>4 DEF Queue
  <1>2. \A n, k \in Messages : InBatch(n, k)' <=> InBatch(n, k)
    BY DEF InBatch, Dial
  <1>3. /\ place'[m] = "connect" /\ place[m] = "dial"
        /\ \A n \in Messages \ {m} : place'[n] = IF n \in Queue(p) THEN "done" ELSE place[n]
        /\ \A n \in Messages \ {m} : place[n] # "queued" => place'[n] = place[n]
        /\ batch' = batch
    BY WaitingPlace DEF Dial
  <1>4. \A n \in Messages : place'[n] # "flush" => batch'[n] = <<>>
    BY <1>3 DEF QueueInv
  <1>5. ASSUME NEW n \in Messages
        PROVE  place'[n] = "queued" <=> (n \in Queue(Dest[n])' \/ \E k \in Messages : InBatch(n, k)')
    <2>1. Dest[n] \in Peers
      BY ConnectionAssumption
    <2>2. CASE n = m
      <3>1. n \notin Queue(Dest[n]) /\ ~\E k \in Messages : InBatch(n, k)
        BY <1>3, <2>1, <2>2, WaitingPlace
      <3> QED
        BY <1>1, <1>2, <1>3, <2>1, <2>2, <3>1
    <2>3. CASE n # m
      BY <1>1, <1>2, <1>3, <2>1, <2>3 DEF QueueInv
    <2> QED
      BY <2>2, <2>3
  <1>6. \A q \in Peers : connects'[q] # None => \E n \in Messages : place'[n] = "connect" /\ Dest[n] = q
    <2> SUFFICES ASSUME NEW q \in Peers, connects'[q] # None
                 PROVE  \E n \in Messages : place'[n] = "connect" /\ Dest[n] = q
      OBVIOUS
    <2>1. CASE q = p
      BY <1>3, <2>1
    <2>2. CASE q # p
      <3> PICK n \in Messages : place[n] = "connect" /\ Dest[n] = q
        BY <1>1, <2>2 DEF QueueInv
      <3> QED
        BY <1>3
    <2> QED
      BY <2>1, <2>2
  <1>7. \A q \in Peers : Queue(q)' \subseteq Queue(q)
    BY <1>1
  <1> QED
    <2>1. \A q \in Peers : \A n \in Queue(q)' : Dest[n] = q /\ \A k \in Messages : ~InBatch(n, k)'
      BY <1>2, <1>7, QueueType DEF QueueInv
    <2>2. \A n, k, j \in Messages : InBatch(n, k)' /\ InBatch(n, j)' => k = j
      BY <1>2 DEF QueueInv
    <2> QED
      BY <1>4, <1>5, <1>6, <2>1, <2>2, QueueNext

LEMMA EnqueueQueue ==
  ASSUME TypeOK, QueueInv, NEW m \in Messages, Enqueue(m)
  PROVE  QueueInv'
  <1> PICK p \in Peers : p = Dest[m]
    BY ConnectionAssumption
  <1>1. CASE connects[p] = None
    <2>1. /\ UNCHANGED <<connects, batch>> /\ place[m] = "enqueue" /\ place'[m] = "done"
          /\ \A n \in Messages \ {m} : place'[n] = place[n]
      BY <1>1 DEF Enqueue, TypeOK
    <2> QED
      BY <2>1, QueueFrame
  <1>2. CASE connects[p] # None
    <2>1. /\ place[m] = "enqueue" /\ place'[m] = "queued"
          /\ \A n \in Messages \ {m} : place'[n] = place[n]
          /\ batch' = batch
      BY <1>2 DEF Enqueue, TypeOK
    <2>2. Queue(p)' = Queue(p) \cup {m} /\ connects'[p] # None
      <3> PICK q \in Seq(Messages) : connects[p] = [queue |-> q]
        BY <1>2 DEF TypeOK
      <3>1. connects'[p] = [queue |-> Append(q, m)]
        <4>1. connects' = [connects EXCEPT ![p].queue = Append(@, m)]
          BY <1>2 DEF Enqueue
        <4>2. connects'[p] = [connects[p] EXCEPT !.queue = Append(@, m)]
          BY <4>1 DEF TypeOK
        <4> QED
          BY <4>2
      <3>2. Range(Append(q, m)) = Range(q) \cup {m}
        BY Appended DEF Range
      <3>3. [queue |-> Append(q, m)] # None
        BY NoneDiffers
      <3>4. Queue(p)' = Range(Append(q, m))
        BY <3>1, <3>3 DEF Queue
      <3>5. Queue(p) = Range(q)
        BY <1>2 DEF Queue
      <3> QED
        BY <3>1, <3>2, <3>3, <3>4, <3>5
    <2>3. \A q \in Peers \ {p} : Queue(q)' = Queue(q) /\ connects'[q] = connects[q]
      <3>1. \A q \in Peers \ {p} : connects'[q] = connects[q]
        BY <1>2 DEF Enqueue, TypeOK
      <3> QED
        BY <3>1 DEF Queue
    <2>4. \A n, k \in Messages : InBatch(n, k)' <=> InBatch(n, k)
      BY <2>1 DEF InBatch
    <2>5. \A k \in Messages : ~InBatch(m, k)
      BY <2>1, WaitingPlace
    <2>6. \A q \in Peers : \A n \in Queue(q)' : Dest[n] = q /\ \A k \in Messages : ~InBatch(n, k)
      <3> SUFFICES ASSUME NEW q \in Peers, NEW n \in Queue(q)'
                   PROVE  Dest[n] = q /\ \A k \in Messages : ~InBatch(n, k)
        OBVIOUS
      <3>1. n \in Queue(q) \/ (q = p /\ n = m)
        BY <2>2, <2>3
      <3> QED
        BY <2>5, <3>1 DEF QueueInv
    <2>7. ASSUME NEW n \in Messages
          PROVE  place'[n] = "queued" <=> (n \in Queue(Dest[n])' \/ \E k \in Messages : InBatch(n, k)')
      <3>1. Dest[n] \in Peers
        BY ConnectionAssumption
      <3>2. CASE n = m
        BY <2>1, <2>2, <3>2
      <3>3. CASE n # m
        BY <2>1, <2>2, <2>3, <2>4, <3>1, <3>3 DEF QueueInv
      <3> QED
        BY <3>2, <3>3
    <2>8. \A q \in Peers : connects'[q] # None => connects[q] # None
      BY <1>2, <2>3
    <2>9. \A n \in Messages : place[n] = "connect" => place'[n] = "connect"
      BY <2>1
    <2>10. \A n \in Messages : place'[n] # "flush" => batch'[n] = <<>>
      BY <2>1 DEF QueueInv
    <2> QED
      <3>1. \A q \in Peers : \A n \in Queue(q)' : Dest[n] = q /\ \A k \in Messages : ~InBatch(n, k)'
        <4>1. \A q \in Peers : Queue(q)' \subseteq Messages
          BY <2>2, <2>3, QueueType
        <4> QED
          BY <2>4, <2>6, <4>1
      <3>2. \A n, k, j \in Messages : InBatch(n, k)' /\ InBatch(n, j)' => k = j
        BY <2>4 DEF QueueInv
      <3>3. \A q \in Peers : connects'[q] # None => \E n \in Messages : place'[n] = "connect" /\ Dest[n] = q
        BY <2>8, <2>9 DEF QueueInv
      <3> QED
        BY <2>7, <2>10, <3>1, <3>2, <3>3, QueueNext
  <1> QED
    BY <1>1, <1>2

(* An error empties the queue of the peer and what the thread took of it. *)
LEMMA ErrorQueue ==
  ASSUME TypeOK, QueueInv, NEW m \in Messages, place[m] \in {"connect", "flush"},
         NEW ws, NEW ds, ws \cup ds = Range(batch[m]), ConnectError(m, ws, ds),
         batch' = [batch EXCEPT ![m] = <<>>]
  PROVE  QueueInv'
  <1> PICK p \in Peers : p = Dest[m]
    BY ConnectionAssumption
  <1>1. /\ connects'[p] = None /\ Queue(p)' = {}
        /\ \A q \in Peers \ {p} : Queue(q)' = Queue(q) /\ connects'[q] = connects[q]
    <2>1. connects'[p] = None /\ \A q \in Peers \ {p} : connects'[q] = connects[q]
      BY DEF ConnectError, TypeOK
    <2> QED
      BY <2>1 DEF Queue
  <1>2. /\ batch'[m] = <<>>
        /\ \A n \in Messages \ {m} : batch'[n] = batch[n]
    BY DEF TypeOK
  <1>3. \A n, k \in Messages : InBatch(n, k)' <=> (InBatch(n, k) /\ k # m)
    <2>1. Range(<<>>) = {}
      BY DEF Range
    <2> QED
      BY <1>2, <2>1 DEF InBatch
  <1>4. /\ place'[m] = "done"
        /\ \A n \in Messages \ {m} :
             place'[n] = IF n \in Queue(p) \/ InBatch(n, m) THEN "done" ELSE place[n]
        /\ \A n \in Messages \ {m} : place[n] # "queued" => place'[n] = place[n]
    <2>1. \A n : (n \in ws \cup ds <=> InBatch(n, m)) /\ (InBatch(n, m) => n \in Messages)
      BY QueueType DEF InBatch
    <2> QED
      BY <2>1, ErrorPlaces
  <1>5. \A n \in Messages : place'[n] # "flush" => batch'[n] = <<>>
    BY <1>2, <1>4 DEF QueueInv
  <1>6. ASSUME NEW n \in Messages
        PROVE  place'[n] = "queued" <=> (n \in Queue(Dest[n])' \/ \E k \in Messages : InBatch(n, k)')
    <2>1. Dest[n] \in Peers
      BY ConnectionAssumption
    <2>2. CASE n = m
      <3>1. n \notin Queue(Dest[n]) /\ ~\E k \in Messages : InBatch(n, k)
        BY <2>1, <2>2, WaitingPlace
      <3> QED
        BY <1>1, <1>3, <1>4, <2>1, <2>2, <3>1
    <2>3. CASE n # m
      <3>1. n \in Queue(Dest[n])' <=> (n \in Queue(Dest[n]) /\ n \notin Queue(p))
        BY <1>1, <2>1 DEF QueueInv
      <3>2. (\E k \in Messages : InBatch(n, k)') <=> ((\E k \in Messages : InBatch(n, k)) /\ ~InBatch(n, m))
        BY <1>3 DEF QueueInv
      <3>3. /\ place[n] = "queued" <=> (n \in Queue(Dest[n]) \/ \E k \in Messages : InBatch(n, k))
            /\ n \in Queue(p) => ~\E k \in Messages : InBatch(n, k)
            /\ n \in Queue(Dest[n]) => ~\E k \in Messages : InBatch(n, k)
        BY <2>1 DEF QueueInv
      <3> QED
        BY <1>4, <2>3, <3>1, <3>2, <3>3
    <2> QED
      BY <2>2, <2>3
  <1>7. \A q \in Peers : connects'[q] # None => \E n \in Messages : place'[n] = "connect" /\ Dest[n] = q
    <2> SUFFICES ASSUME NEW q \in Peers, connects'[q] # None
                 PROVE  \E n \in Messages : place'[n] = "connect" /\ Dest[n] = q
      OBVIOUS
    <2>1. q # p
      BY <1>1
    <2> PICK n \in Messages : place[n] = "connect" /\ Dest[n] = q
      BY <1>1, <2>1 DEF QueueInv
    <2> QED
      BY <1>4, <2>1
  <1>8. \A q \in Peers : Queue(q)' \subseteq Queue(q)
    BY <1>1
  <1> QED
    <2>1. \A q \in Peers : \A n \in Queue(q)' : Dest[n] = q /\ \A k \in Messages : ~InBatch(n, k)'
      BY <1>3, <1>8, QueueType DEF QueueInv
    <2>2. \A n, k, j \in Messages : InBatch(n, k)' /\ InBatch(n, j)' => k = j
      BY <1>3 DEF QueueInv
    <2> QED
      BY <1>5, <1>6, <1>7, <2>1, <2>2, QueueNext

(* The thread that connected takes what waits for its peer. *)
LEMMA ConnectQueue ==
  ASSUME TypeOK, QueueInv, NEW m \in Messages, Connect(m)
  PROVE  QueueInv'
  <1> PICK p \in Peers : p = Dest[m]
    BY ConnectionAssumption
  <1>1. /\ Queue(p)' = {} /\ connects'[p] = None
        /\ \A q \in Peers \ {p} : Queue(q)' = Queue(q) /\ connects'[q] = connects[q]
    <2>1. connects'[p] = None /\ \A q \in Peers \ {p} : connects'[q] = connects[q]
      BY DEF Connect, TypeOK
    <2> QED
      BY <2>1 DEF Queue
  <1>2. /\ place[m] = "connect" /\ place'[m] = "flush"
        /\ \A n \in Messages \ {m} : place'[n] = place[n] /\ batch'[n] = batch[n]
    BY DEF Connect, TypeOK
  <1>3. Range(batch[m]) = {} /\ Range(batch'[m]) = Queue(p)
    <2>1. Range(<<>>) = {}
      BY DEF Range
    <2>2. batch'[m] = IF connects[p] = None THEN <<>> ELSE connects[p].queue
      BY DEF Connect, TypeOK
    <2>3. batch[m] = <<>>
      BY <1>2 DEF QueueInv
    <2> QED
      BY <2>1, <2>2, <2>3 DEF Queue
  <1>4. ASSUME NEW n \in Messages, NEW k \in Messages
        PROVE  /\ InBatch(n, k)' <=> (IF k = m THEN n \in Queue(p) ELSE InBatch(n, k))
               /\ InBatch(n, k) => k # m
    BY <1>2, <1>3 DEF InBatch
  <1>5. \A q \in Peers : \A n \in Queue(q)' : Dest[n] = q /\ \A k \in Messages : ~InBatch(n, k)'
    <2> SUFFICES ASSUME NEW q \in Peers, NEW n \in Queue(q)'
                 PROVE  Dest[n] = q /\ \A k \in Messages : ~InBatch(n, k)'
      OBVIOUS
    <2>1. q # p /\ n \in Queue(q)
      BY <1>1
    <2>2. n \in Messages /\ Dest[n] = q /\ \A k \in Messages : ~InBatch(n, k)
      BY <2>1, QueueType DEF QueueInv
    <2>3. n \notin Queue(p)
      BY <2>1, <2>2 DEF QueueInv
    <2> QED
      BY <1>4, <2>2, <2>3
  <1>6. ASSUME NEW n \in Messages, NEW k \in Messages, NEW j \in Messages, InBatch(n, k)', InBatch(n, j)'
        PROVE  k = j
    <2>1. n \in Queue(p) => ~InBatch(n, k) /\ ~InBatch(n, j)
      BY DEF QueueInv
    <2> QED
      BY <1>4, <1>6, <2>1 DEF QueueInv
  <1>7. \A n \in Messages : place'[n] # "flush" => batch'[n] = <<>>
    BY <1>2 DEF QueueInv
  <1>8. ASSUME NEW n \in Messages
        PROVE  place'[n] = "queued" <=> (n \in Queue(Dest[n])' \/ \E k \in Messages : InBatch(n, k)')
    <2>1. Dest[n] \in Peers
      BY ConnectionAssumption
    <2>2. n \in Queue(Dest[n])' <=> (n \in Queue(Dest[n]) /\ n \notin Queue(p))
      BY <1>1, <2>1 DEF QueueInv
    <2>3. (\E k \in Messages : InBatch(n, k)') <=> (n \in Queue(p) \/ \E k \in Messages : InBatch(n, k))
      BY <1>4
    <2>4. /\ place[n] = "queued" <=> (n \in Queue(Dest[n]) \/ \E k \in Messages : InBatch(n, k))
          /\ n \in Queue(p) => Dest[n] = p
      BY <2>1 DEF QueueInv
    <2>5. place'[n] = "queued" <=> place[n] = "queued"
      BY <1>2
    <2> QED
      BY <2>2, <2>3, <2>4, <2>5
  <1>9. \A q \in Peers : connects'[q] # None => \E n \in Messages : place'[n] = "connect" /\ Dest[n] = q
    <2> SUFFICES ASSUME NEW q \in Peers, connects'[q] # None
                 PROVE  \E n \in Messages : place'[n] = "connect" /\ Dest[n] = q
      OBVIOUS
    <2>1. q # p
      BY <1>1
    <2> PICK n \in Messages : place[n] = "connect" /\ Dest[n] = q
      BY <1>1, <2>1 DEF QueueInv
    <2> QED
      BY <1>2, <2>1
  <1> QED
    BY <1>5, <1>6, <1>7, <1>8, <1>9, QueueNext

(* What waited in its hands is written. *)
LEMMA FlushQueue ==
  ASSUME TypeOK, QueueInv, NEW m \in Messages, place[m] = "flush",
         place' = [n \in Messages |-> IF n \in Flushed(m) THEN "done" ELSE place[n]],
         batch' = [batch EXCEPT ![m] = <<>>], UNCHANGED connects
  PROVE  QueueInv'
  <1>1. \A q \in Peers : Queue(q)' = Queue(q)
    BY DEF Queue
  <1>2. batch'[m] = <<>> /\ \A n \in Messages \ {m} : batch'[n] = batch[n]
    BY DEF TypeOK
  <1>3. \A n, k \in Messages : InBatch(n, k)' <=> (InBatch(n, k) /\ k # m)
    <2>1. Range(<<>>) = {}
      BY DEF Range
    <2> QED
      BY <1>2, <2>1 DEF InBatch
  <1>4. /\ place'[m] = "done"
        /\ \A n \in Messages \ {m} : place'[n] = IF InBatch(n, m) THEN "done" ELSE place[n]
        /\ \A n \in Messages \ {m} : place[n] # "queued" => place'[n] = place[n]
    BY HandOverPlaces
  <1>5. \A q \in Peers : \A n \in Queue(q)' : Dest[n] = q /\ \A k \in Messages : ~InBatch(n, k)'
    BY <1>1, <1>3, QueueType DEF QueueInv
  <1>6. \A n, k, j \in Messages : InBatch(n, k)' /\ InBatch(n, j)' => k = j
    BY <1>3 DEF QueueInv
  <1>7. \A n \in Messages : place'[n] # "flush" => batch'[n] = <<>>
    BY <1>2, <1>4 DEF QueueInv
  <1>8. ASSUME NEW n \in Messages
        PROVE  place'[n] = "queued" <=> (n \in Queue(Dest[n])' \/ \E k \in Messages : InBatch(n, k)')
    <2>1. Dest[n] \in Peers
      BY ConnectionAssumption
    <2>2. n \in Queue(Dest[n])' <=> n \in Queue(Dest[n])
      BY <1>1, <2>1
    <2>3. (\E k \in Messages : InBatch(n, k)') <=> ((\E k \in Messages : InBatch(n, k)) /\ ~InBatch(n, m))
      BY <1>3 DEF QueueInv
    <2>4. /\ place[n] = "queued" <=> (n \in Queue(Dest[n]) \/ \E k \in Messages : InBatch(n, k))
          /\ n \in Queue(Dest[n]) => ~InBatch(n, m)
      BY <2>1 DEF QueueInv
    <2>5. CASE n = m
      BY <1>4, <2>2, <2>3, <2>4, <2>5
    <2>6. CASE n # m
      BY <1>4, <2>2, <2>3, <2>4, <2>6
    <2> QED
      BY <2>5, <2>6
  <1>9. \A q \in Peers : connects'[q] # None => \E n \in Messages : place'[n] = "connect" /\ Dest[n] = q
    <2> SUFFICES ASSUME NEW q \in Peers, connects'[q] # None
                 PROVE  \E n \in Messages : place'[n] = "connect" /\ Dest[n] = q
      OBVIOUS
    <2> PICK n \in Messages : place[n] = "connect" /\ Dest[n] = q
      BY DEF QueueInv
    <2> QED
      BY <1>4
  <1> QED
    BY <1>5, <1>6, <1>7, <1>8, <1>9, QueueNext

LEMMA QueueStep == TypeOK /\ QueueInv /\ [Next]_vars => QueueInv'
  <1> SUFFICES ASSUME TypeOK, QueueInv, [Next]_vars PROVE QueueInv'
    OBVIOUS
  <1> USE DEF workerVars, senderVars
  <1>1. CASE UNCHANGED <<connects, batch, place>>
    BY <1>1, QueueFrame
  <1>2. ASSUME NEW m \in Messages, LookUp(m) \/ SendTls(m) \/ Write(m) \/ Wait(m) PROVE QueueInv'
    <2>1. /\ UNCHANGED <<connects, batch>>
          /\ place[m] \in {"new", "write", "dial"} /\ place'[m] \in {"done", "write", "dial", "enqueue"}
          /\ \A n \in Messages \ {m} : place'[n] = place[n]
      BY <1>2 DEF LookUp, SendTls, Write, Wait, TypeOK
    <2> QED
      BY <2>1, QueueFrame
  <1>3. ASSUME NEW m \in Messages, Dial(m) \/ Enqueue(m) \/ Connect(m) PROVE QueueInv'
    BY <1>3, DialQueue, EnqueueQueue, ConnectQueue
  <1>4. ASSUME NEW m \in Messages, ConnectFails(m) \/ FirstWriteFails(m) PROVE QueueInv'
    <2>1. place[m] = "connect" /\ ConnectError(m, {}, {}) /\ batch' = batch
      BY <1>4 DEF ConnectFails, FirstWriteFails
    <2>2. batch[m] = <<>> /\ Range(batch[m]) = {} /\ batch' = [batch EXCEPT ![m] = <<>>]
      BY <2>1 DEF QueueInv, TypeOK, Range
    <2> QED
      BY <2>1, <2>2, ErrorQueue
  <1>5. ASSUME NEW m \in Messages, HandOver(m) \/ NoRoom(m) PROVE QueueInv'
    BY <1>5, FlushQueue DEF HandOver, NoRoom
  <1>6. ASSUME NEW m \in Messages, TlsFails(m) PROVE QueueInv'
    <2>1. \E ws, ds : ConnectError(m, ws, ds) /\ ws \cup ds = Range(batch[m])
      BY <1>1, <1>6, WaitedAre
    <2>2. place[m] = "flush" /\ batch' = [batch EXCEPT ![m] = <<>>]
      BY <1>6 DEF TlsFails
    <2> QED
      BY <2>1, <2>2, ErrorQueue
  <1>7. CASE UNCHANGED vars
    BY <1>1, <1>7 DEF vars
  <1>8. CASE (\E p \in Peers : Accept(p)) \/ Stop \/ ListenEnds \/ Stopped
    BY <1>1, <1>8 DEF Accept, Stop, ListenEnds, Stopped
  <1>9. CASE \E w \in Workers : Work(w) \/ \E s \in sessions[w] : EndSession(w, s)
    BY <1>1, <1>9 DEF Work, Take, Delete, DeleteAll, EndSession
  <1> QED
    BY <1>2, <1>3, <1>4, <1>5, <1>6, <1>7, <1>8, <1>9 DEF Next, Send, Connecting

-----------------------------------------------------------------------------
(* What became of the messages. *)
LEMMA FateStep == TypeOK /\ QueueInv /\ FateInv /\ [Next]_vars => FateInv'
  <1> SUFFICES ASSUME TypeOK, QueueInv, FateInv, [Next]_vars PROVE FateInv'
    OBVIOUS
  <1> USE DEF workerVars, senderVars
  <1>0. UNCHANGED transport /\ Dest \in [Messages -> Peers]
    BY ConnectionAssumption
       DEF Next, Work, Send, Connecting, Accept, Take, Delete, DeleteAll, EndSession, LookUp, SendTls,
           Write, Dial, Wait, Enqueue, ConnectFails, FirstWriteFails, Connect, HandOver, NoRoom,
           TlsFails, Stop, ListenEnds, Stopped, vars
  <1>1. CASE UNCHANGED <<place, fate>>
    BY <1>0, <1>1 DEF FateInv
  <1>2. ASSUME NEW m \in Messages, place[m] \notin {"flush", "done"},
               \/ place'[m] \notin {"flush", "done", "write"} /\ fate'[m] = {}
               \/ place'[m] = "write" /\ fate'[m] = {} /\ transport # "tls"
               \/ place'[m] = "done" /\ fate'[m] \in {{"written"}, {"dropped"}}
               \/ place'[m] = "flush" /\ fate'[m] = {"written"},
               \A n \in Messages \ {m} : place'[n] = place[n] /\ fate'[n] = fate[n]
        PROVE  FateInv'
    BY <1>0, <1>2 DEF FateInv
  <1>3. \A m \in Messages : place[m] \notin {"flush", "done"} => fate[m] = {}
    BY DEF FateInv
  <1>4. ASSUME NEW m \in Messages, LookUp(m) \/ SendTls(m) \/ Write(m) \/ Wait(m) \/ Enqueue(m) \/ Connect(m)
        PROVE  FateInv'
    <2>1. place[m] \notin {"flush", "done"} /\ fate[m] = {}
      BY <1>3, <1>4 DEF LookUp, SendTls, Write, Wait, Enqueue, Connect
    <2>2. \A n \in Messages \ {m} : place'[n] = place[n] /\ fate'[n] = fate[n]
      BY <1>4 DEF LookUp, SendTls, Arrived, Write, Wait, Enqueue, Outcome, Connect, TypeOK
    <2>3. CASE LookUp(m)
      BY <1>2, <2>1, <2>2, <2>3 DEF LookUp, TypeOK
    <2>4. CASE SendTls(m)
      <3>1. CASE Arrived(m, map[Dest[m]]) /\ place' = [place EXCEPT ![m] = "done"]
        <4>1. place'[m] = "done"
          BY <3>1 DEF TypeOK
        <4>2. fate'[m] \in {{"written"}, {"dropped"}}
          BY <2>1, <3>1 DEF Arrived, TypeOK
        <4> QED
          BY <1>2, <2>1, <2>2, <4>1, <4>2
      <3>2. CASE place' = [place EXCEPT ![m] = "dial"] /\ fate' = fate
        BY <1>2, <2>1, <2>2, <3>2 DEF TypeOK
      <3> QED
        BY <2>4, <3>1, <3>2 DEF SendTls
    <2>5. CASE Write(m)
      BY <1>2, <2>1, <2>2, <2>5 DEF Write, Arrived, TypeOK
    <2>6. CASE Wait(m)
      BY <1>2, <2>1, <2>2, <2>6 DEF Wait, TypeOK
    <2>7. CASE Enqueue(m)
      BY <1>2, <2>1, <2>2, <2>7 DEF Enqueue, Outcome, TypeOK
    <2>8. CASE Connect(m)
      BY <1>2, <2>1, <2>2, <2>8 DEF Connect, TypeOK
    <2> QED
      BY <1>4, <2>3, <2>4, <2>5, <2>6, <2>7, <2>8
  <1>5. ASSUME NEW m \in Messages, Dial(m) PROVE FateInv'
    <2> SUFFICES ASSUME NEW n \in Messages
                 PROVE  /\ place'[n] \notin {"flush", "done"} => fate'[n] = {}
                        /\ place'[n] = "flush" => fate'[n] = {"written"}
                        /\ transport = "tls" => place'[n] # "write"
                        /\ transport = "tcp" => ~({"written", "answered"} \subseteq fate'[n])
      BY <1>0 DEF FateInv
    <2>1. n \in Queue(Dest[m]) => place[n] = "queued" /\ fate[n] = {}
      BY <1>0, <1>3, WaitingPlace
    <2>2. m \notin Queue(Dest[m])
      BY <1>0, <1>5, WaitingPlace DEF Dial
    <2>3. /\ place'[n] = IF n = m THEN "connect" ELSE IF n \in Queue(Dest[m]) THEN "done" ELSE place[n]
          /\ fate'[n] = IF n \in Queue(Dest[m]) THEN fate[n] \cup {"dropped"} ELSE fate[n]
          /\ place[m] = "dial"
      BY <1>5 DEF Dial, Outcome
    <2>4. CASE n \in Queue(Dest[m])
      BY <2>1, <2>2, <2>3, <2>4
    <2>5. CASE n \notin Queue(Dest[m])
      BY <2>3, <2>5 DEF FateInv
    <2> QED
      BY <2>4, <2>5
  <1>6. ASSUME NEW m \in Messages, NEW ws, NEW ds,
               \A n \in ws \cup ds : n \in Messages /\ InBatch(n, m),
               ConnectError(m, ws, ds), transport = "tcp" => place[m] = "connect" /\ ws = {}
        PROVE  FateInv'
    <2> SUFFICES ASSUME NEW n \in Messages
                 PROVE  /\ place'[n] \notin {"flush", "done"} => fate'[n] = {}
                        /\ place'[n] = "flush" => fate'[n] = {"written"}
                        /\ transport = "tls" => place'[n] # "write"
                        /\ transport = "tcp" => ~({"written", "answered"} \subseteq fate'[n])
      BY <1>0 DEF FateInv
    <2> PICK answered : answered = {m} \cup Queue(Dest[m])
      OBVIOUS
    <2>1. n \in Queue(Dest[m]) \cup ws \cup ds => place[n] = "queued" /\ fate[n] = {}
      BY <1>0, <1>3, <1>6, WaitingPlace
    <2>2. /\ place'[n] = IF n \in answered \cup ws \cup ds THEN "done" ELSE place[n]
          /\ fate'[n] = fate[n] \cup (IF n \in answered THEN {"answered"} ELSE {})
                                \cup (IF n \in ws THEN {"written"} ELSE {})
                                \cup (IF n \in ds THEN {"dropped"} ELSE {})
      BY <1>6 DEF ConnectError
    <2>3. CASE n \in answered \cup ws \cup ds
      <3>1. place'[n] = "done"
        BY <2>2, <2>3
      <3>2. transport = "tcp" => fate[n] = {} /\ n \notin ws
        BY <1>3, <1>6, <2>1, <2>3
      <3>3. transport = "tcp" => "written" \notin fate'[n]
        BY <2>2, <3>2
      <3> QED
        BY <3>1, <3>3
    <2>4. CASE n \notin answered \cup ws \cup ds
      <3>1. place'[n] = place[n] /\ fate'[n] = fate[n]
        BY <2>2, <2>4
      <3> QED
        BY <3>1 DEF FateInv
    <2> QED
      BY <2>3, <2>4
  <1>7. ASSUME NEW m \in Messages, ConnectFails(m) \/ FirstWriteFails(m) PROVE FateInv'
    <2>1. place[m] = "connect" /\ ConnectError(m, {}, {})
      BY <1>7 DEF ConnectFails, FirstWriteFails
    <2> QED
      BY <1>6, <2>1
  <1>8. ASSUME NEW m \in Messages, TlsFails(m) PROVE FateInv'
    <2>1. \A n \in Range(batch[m]) : n \in Messages /\ InBatch(n, m)
      BY QueueType DEF InBatch
    <2>2. PICK ws, ds : ConnectError(m, ws, ds) /\ ws \cup ds = Range(batch[m])
      BY <1>8, WaitedAre
    <2>3. transport # "tcp"
      BY <1>8 DEF TlsFails
    <2> QED
      BY <1>6, <2>1, <2>2, <2>3
  <1>9. ASSUME NEW m \in Messages, HandOver(m) \/ NoRoom(m) PROVE FateInv'
    <2> SUFFICES ASSUME NEW n \in Messages
                 PROVE  /\ place'[n] \notin {"flush", "done"} => fate'[n] = {}
                        /\ place'[n] = "flush" => fate'[n] = {"written"}
                        /\ transport = "tls" => place'[n] # "write"
                        /\ transport = "tcp" => ~({"written", "answered"} \subseteq fate'[n])
      BY <1>0 DEF FateInv
    <2>1. n \in Range(batch[m]) => place[n] = "queued" /\ fate[n] = {}
      BY <1>3, WaitingPlace DEF InBatch
    <2>2. /\ place'[n] = IF n = m \/ n \in Range(batch[m]) THEN "done" ELSE place[n]
          /\ fate'[n] = IF n \in Range(batch[m]) THEN fate[n] \cup {"written"} ELSE fate[n]
      BY <1>9 DEF HandOver, NoRoom, Outcome, Flushed
    <2>3. CASE n \in Range(batch[m])
      BY <2>1, <2>2, <2>3
    <2>4. CASE n \notin Range(batch[m])
      BY <2>2, <2>4 DEF FateInv
    <2> QED
      BY <2>3, <2>4
  <1>10. CASE UNCHANGED vars
    BY <1>1, <1>10 DEF vars
  <1>11. CASE (\E p \in Peers : Accept(p)) \/ Stop \/ ListenEnds \/ Stopped
    BY <1>1, <1>11 DEF Accept, Stop, ListenEnds, Stopped
  <1>12. CASE \E w \in Workers : Work(w) \/ \E s \in sessions[w] : EndSession(w, s)
    BY <1>1, <1>12 DEF Work, Take, Delete, DeleteAll, EndSession
  <1> QED
    BY <1>4, <1>5, <1>7, <1>8, <1>9, <1>10, <1>11, <1>12 DEF Next, Send, Connecting

-----------------------------------------------------------------------------
(* The socket map, and what is written by it.                              *)
MapInv == MapNamesSession /\ RightPeer
Named(p) ==
  \E w \in Workers : [fd |-> map[p], peer |-> p] \in sessions[w] \ {ending[w]} /\ peer[map[p]] = p

LEMMA MapFrame ==
  ASSUME MapNamesSession, TypeOK, UNCHANGED <<map, ending>>, run' = run,
         \A w \in Workers : \A s \in sessions[w] \ {ending[w]} : s \in sessions'[w] /\ peer'[s.fd] = peer[s.fd]
  PROVE  MapNamesSession'
  <1> SUFFICES ASSUME run = "up", NEW p \in Peers, map[p] # NoFd PROVE Named(p)'
    BY DEF MapNamesSession, Named
  <1> PICK w \in Workers : [fd |-> map[p], peer |-> p] \in sessions[w] \ {ending[w]} /\ peer[map[p]] = p
    BY DEF MapNamesSession
  <1> PICK s : s = [fd |-> map[p], peer |-> p]
    OBVIOUS
  <1>1. s \in sessions'[w] \ {ending'[w]} /\ peer'[map'[p]] = p
    <2>1. s \in sessions'[w] /\ peer'[s.fd] = peer[s.fd] /\ s.fd = map[p] /\ s # ending[w]
      OBVIOUS
    <2> QED
      BY <2>1
  <1> QED
    BY <1>1 DEF Named

LEMMA InsertMap ==
  ASSUME SocketInv, MapNamesSession, NEW w \in Workers, NEW c \in Commands,
         Serves(w), c.peer = peer[c.fd], Insert(w, c), UNCHANGED <<ending, run>>
  PROVE  MapNamesSession'
  <1>0. TypeOK /\ c.fd \in Fds /\ c.peer \in Peers /\ ending[w] = None
    BY DEF SocketInv, CountInv, Commands, Serves
  <1> SUFFICES ASSUME run = "up", NEW p \in Peers, map'[p] # NoFd PROVE Named(p)'
    BY DEF MapNamesSession, Named
  <1>1. /\ map'[p] = IF p = c.peer /\ map[p] = NoFd THEN c.fd ELSE map[p]
        /\ sessions'[w] = sessions[w] \cup {[fd |-> c.fd, peer |-> c.peer]}
        /\ \A v \in Workers \ {w} : sessions'[v] = sessions[v]
        /\ peer' = peer
    BY <1>0 DEF Insert, Register, TypeOK
  <1>2. CASE map[p] = NoFd
    <2>1. p = c.peer /\ map'[p] = c.fd
      BY <1>1, <1>2
    <2>2. [fd |-> c.fd, peer |-> p] # None
      <3>1. DOMAIN [fd |-> c.fd, peer |-> p] = {"fd", "peer"} /\ DOMAIN None = {"none"}
        BY DEF None
      <3> QED
        BY <3>1
    <2>3. [fd |-> map'[p], peer |-> p] \in sessions'[w] \ {ending'[w]} /\ peer'[map'[p]] = p
      BY <1>0, <1>1, <2>1, <2>2
    <2> QED
      BY <2>3 DEF Named
  <1>3. CASE map[p] # NoFd
    <2> PICK v \in Workers : [fd |-> map[p], peer |-> p] \in sessions[v] \ {ending[v]} /\ peer[map[p]] = p
      BY <1>3 DEF MapNamesSession
    <2>1. map'[p] = map[p] /\ sessions[v] \subseteq sessions'[v]
      BY <1>1, <1>3
    <2>2. [fd |-> map'[p], peer |-> p] \in sessions'[v] \ {ending'[v]} /\ peer'[map'[p]] = p
      BY <1>1, <2>1
    <2> QED
      BY <2>2 DEF Named
  <1> QED
    BY <1>2, <1>3

LEMMA EndSessionMap ==
  ASSUME TypeOK, MapNamesSession, NEW w \in Workers, NEW r \in sessions[w], EndSession(w, r)
  PROVE  MapNamesSession'
  <1>0. r \in [fd : Fds, peer : Peers]
    BY DEF TypeOK
  <1> SUFFICES ASSUME run = "up", NEW p \in Peers, map'[p] # NoFd PROVE Named(p)'
    BY DEF MapNamesSession, Named, EndSession
  <1>1. p # r.peer /\ map'[p] = map[p] /\ sessions' = sessions /\ peer' = peer
    BY <1>0 DEF EndSession, TypeOK
  <1>2. ending'[w] = r /\ \A v \in Workers \ {w} : ending'[v] = ending[v]
    BY DEF EndSession, TypeOK
  <1> PICK v \in Workers : [fd |-> map[p], peer |-> p] \in sessions[v] \ {ending[v]} /\ peer[map[p]] = p
    BY <1>1 DEF MapNamesSession
  <1>3. [fd |-> map[p], peer |-> p] # r
    BY <1>0, <1>1
  <1>4. [fd |-> map'[p], peer |-> p] \in sessions'[v] \ {ending'[v]} /\ peer'[map'[p]] = p
    BY <1>1, <1>2, <1>3
  <1> QED
    BY <1>4 DEF Named

LEMMA DeleteMap ==
  ASSUME SocketInv, MapNamesSession, NEW w \in Workers, Delete(w)
  PROVE  MapNamesSession'
  <1> PICK e : e = ending[w]
    OBVIOUS
  <1>0. TypeOK /\ e \in sessions[w] /\ e \in [fd : Fds, peer : Peers]
    BY DEF SocketInv, CountInv, TypeOK, Delete
  <1> SUFFICES ASSUME run = "up", NEW p \in Peers, map[p] # NoFd PROVE Named(p)'
    BY DEF MapNamesSession, Named, Delete
  <1> PICK v \in Workers : [fd |-> map[p], peer |-> p] \in sessions[v] \ {ending[v]} /\ peer[map[p]] = p
    BY DEF MapNamesSession
  <1>1. map[p] \in Fds
    BY <1>0 DEF TypeOK
  <1>2. map[p] # e.fd
    <2> SUFFICES ASSUME map[p] = e.fd PROVE FALSE
      OBVIOUS
    <2>1. e.peer = p
      BY <1>0 DEF SocketInv, SessionInv
    <2>2. e = [fd |-> map[p], peer |-> p]
      BY <1>0, <2>1
    <2>3. v = w
      BY <1>0 DEF SocketInv, SessionInv, InSession
    <2> QED
      BY <2>2, <2>3
  <1>3. [fd |-> map[p], peer |-> p] # e /\ peer'[map[p]] = p
    BY <1>1, <1>2 DEF Delete, Close
  <1>4. [fd |-> map[p], peer |-> p] # None
    <2>1. DOMAIN [fd |-> map[p], peer |-> p] = {"fd", "peer"} /\ DOMAIN None = {"none"}
      BY DEF None
    <2> QED
      BY <2>1
  <1>5. /\ sessions'[w] = sessions[w] \ {e} /\ ending'[w] = None
        /\ \A u \in Workers \ {w} : sessions'[u] = sessions[u] /\ ending'[u] = ending[u]
    BY <1>0 DEF Delete, TypeOK
  <1>6. [fd |-> map[p], peer |-> p] \in sessions'[v] \ {ending'[v]}
    <2>1. CASE v = w
      BY <1>3, <1>4, <1>5, <2>1
    <2>2. CASE v # w
      BY <1>5, <2>2
    <2> QED
      BY <2>1, <2>2
  <1>7. map' = map
    BY DEF Delete
  <1> QED
    BY <1>3, <1>6, <1>7 DEF Named

LEMMA MapStep == SocketInv /\ FateInv /\ MapInv /\ [Next]_vars => MapInv'
  <1> SUFFICES ASSUME SocketInv, FateInv, MapInv, [Next]_vars PROVE MapInv'
    OBVIOUS
  <1> USE DEF workerVars, senderVars
  <1>0. TypeOK /\ MapNamesSession /\ RightPeer /\ Dest \in [Messages -> Peers]
    BY ConnectionAssumption DEF SocketInv, CountInv, MapInv
  <1>1. CASE UNCHANGED <<transport, map, ending, sessions, astray, run>>
             /\ \A w \in Workers : \A s \in sessions[w] : peer'[s.fd] = peer[s.fd]
    BY <1>0, <1>1, MapFrame DEF MapInv, RightPeer
  <1>2. ASSUME NEW f \in Free, NEW p, Open(f, p)
        PROVE  \A w \in Workers : \A s \in sessions[w] : peer'[s.fd] = peer[s.fd]
    <2>1. \A w \in Workers : \A s \in sessions[w] : s.fd # f /\ s.fd \in Fds
      BY <1>0, FreeUnowned DEF TypeOK
    <2> QED
      BY <1>0, <1>2, <2>1 DEF Open, TypeOK
  <1>4. ASSUME NEW w \in Workers, Take(w) PROVE MapInv'
    <2> PICK c : c = Head(pipe[w])
      OBVIOUS
    <2>1. /\ c \in Commands /\ c.peer = peer[c.fd] /\ c.fd \in Fds
          /\ \A v \in Workers : ~InSession(v, c.fd)
      <3>1. pipe[w] \in Seq(Commands) /\ pipe[w] # <<>>
        BY <1>0, <1>4 DEF Take, TypeOK
      <3>2. c \in Commands /\ c = pipe[w][1] /\ 1 \in DOMAIN pipe[w]
        BY <3>1, HeadTail
      <3> QED
        BY <3>2 DEF SocketInv, PipeInv, Commands
    <2>2. CASE Insert(w, c)
      BY <1>0, <1>4, <2>1, <2>2, InsertMap DEF Take, MapInv, RightPeer
    <2>3. CASE Refuse(w, c)
      <3>1. \A v \in Workers : \A s \in sessions[v] : peer'[s.fd] = peer[s.fd]
        BY <1>0, <2>1, <2>3 DEF Refuse, Close, InSession, TypeOK
      <3> QED
        BY <1>1, <1>4, <2>3, <3>1 DEF Take, Refuse
    <2> QED
      BY <1>4, <2>2, <2>3 DEF Take
  <1>5. ASSUME NEW w \in Workers, Delete(w) PROVE MapInv'
    BY <1>0, <1>5, DeleteMap DEF Delete, MapInv, RightPeer
  <1>6. ASSUME NEW w \in Workers, NEW s \in sessions[w], EndSession(w, s) PROVE MapInv'
    BY <1>0, <1>6, EndSessionMap DEF EndSession, MapInv, RightPeer
  <1>3. CASE run' # "up"
    BY <1>3 DEF MapInv, MapNamesSession, RightPeer
  <1>7. ASSUME NEW p \in Peers, Accept(p) PROVE MapInv'
    <2>1. CASE run = "up"
      BY <1>1, <1>2, <1>7, <2>1 DEF Accept, SendCommand
    <2>2. CASE run # "up"
      BY <1>3, <1>7, <2>2 DEF Accept
    <2> QED
      BY <2>1, <2>2
  <1>8. ASSUME NEW m \in Messages, LookUp(m) \/ Wait(m) \/ Dial(m) \/ Enqueue(m) \/ ConnectFails(m) \/ HandOver(m)
        PROVE  MapInv'
    BY <1>1, <1>8 DEF LookUp, Wait, Dial, Enqueue, ConnectFails, HandOver, SendCommand
  <1>9. ASSUME NEW m \in Messages, FirstWriteFails(m) \/ Connect(m) PROVE MapInv'
    BY <1>1, <1>2, <1>9 DEF FirstWriteFails, Connect
  <1>10. ASSUME NEW m \in Messages, NoRoom(m) \/ TlsFails(m) PROVE MapInv'
    <2>1. place[m] = "flush" /\ Close({sock[m]})
      BY <1>10 DEF NoRoom, TlsFails
    <2>2. \A w \in Workers : \A s \in sessions[w] : s.fd # sock[m] /\ s.fd \in Fds
      BY <1>0, <2>1 DEF SocketInv, SessionInv, InFlush, TypeOK
    <2>3. \A w \in Workers : \A s \in sessions[w] : peer'[s.fd] = peer[s.fd]
      BY <2>1, <2>2 DEF Close
    <2> QED
      BY <1>1, <1>10, <2>3 DEF NoRoom, TlsFails
  <1>11. ASSUME NEW m \in Messages, Write(m) PROVE MapInv'
    <2>1. transport # "tls"
      BY <1>11 DEF FateInv, Write
    <2>2. MapNamesSession'
      BY <1>0, <1>11, MapFrame DEF Write
    <2> QED
      BY <1>11, <2>1, <2>2 DEF Write, MapInv, RightPeer
  <1>12. ASSUME NEW m \in Messages, SendTls(m) PROVE MapInv'
    <2>1. CASE /\ map[Dest[m]] # NoFd
               /\ Arrived(m, map[Dest[m]])
               /\ UNCHANGED map
      <3>1. MapNamesSession'
        BY <1>0, <1>12, <2>1, MapFrame DEF SendTls
      <3>2. run = "up" => astray' = astray
        BY <1>0, <2>1 DEF MapNamesSession, Arrived
      <3> QED
        BY <1>0, <1>12, <3>1, <3>2 DEF SendTls, MapInv, RightPeer
    <2>2. CASE /\ map' = [map EXCEPT ![Dest[m]] = NoFd]
               /\ UNCHANGED <<fate, astray>>
      <3>1. MapNamesSession'
        <4> SUFFICES ASSUME run = "up", NEW p \in Peers, map'[p] # NoFd PROVE Named(p)'
          BY <1>12 DEF MapNamesSession, Named, SendTls
        <4>1. map[p] # NoFd /\ map'[p] = map[p]
          BY <1>0, <2>2 DEF TypeOK
        <4>2. Named(p)
          BY <1>0, <4>1 DEF MapNamesSession, Named
        <4> QED
          BY <1>12, <4>1, <4>2 DEF SendTls, Named
      <3> QED
        BY <1>0, <1>12, <2>2, <3>1 DEF SendTls, MapInv, RightPeer
    <2> QED
      BY <1>12, <2>1, <2>2 DEF SendTls
  <1>13. ASSUME NEW w \in Workers, DeleteAll(w) PROVE MapInv'
    BY <1>3, <1>13 DEF DeleteAll
  <1>14. CASE Stop \/ ListenEnds \/ Stopped
    BY <1>3, <1>14 DEF Stop, ListenEnds, Stopped
  <1>15. CASE UNCHANGED vars
    BY <1>1, <1>15 DEF vars
  <1> QED
    BY <1>4, <1>5, <1>6, <1>7, <1>8, <1>9, <1>10, <1>11, <1>12, <1>13, <1>14, <1>15
       DEF Next, Work, Send, Connecting

-----------------------------------------------------------------------------
(* The owners of a socket, counted. *)
LEMMA OwnersCounted == SocketInv => OneOwner
  <1> SUFFICES ASSUME SocketInv, NEW f \in Fds \ leaked
               PROVE  Cardinality(Owners(f)) = IF peer[f] = None THEN 0 ELSE 1
    BY DEF OneOwner
  <1>1. \A o : o \in Owners(f) <=>
          \/ \E w \in Workers : \E k \in DOMAIN pipe[w] : InPipe(w, k, f) /\ o = <<"pipe", w, k>>
          \/ \E w \in Workers : InSession(w, f) /\ o = <<"session", w, 0>>
          \/ \E m \in Messages : InFlush(m, f) /\ o = <<"flush", m, 0>>
    BY DEF Owners, InPipe, InSession, InFlush
  <1>2. CASE peer[f] = None
    <2>1. f \in Free
      BY <1>2 DEF Free
    <2>2. Owners(f) = {}
      BY <1>1, <2>1, FreeUnowned DEF InPipe, InSession
    <2> QED
      BY <1>2, <2>2, FS_EmptySet
  <1>3. CASE peer[f] # None
    <2>1. ASSUME NEW o, Owners(f) = {o} PROVE Cardinality(Owners(f)) = 1
      BY <2>1, FS_Singleton
    <2>2. ASSUME NEW w \in Workers, NEW k \in DOMAIN pipe[w], InPipe(w, k, f)
          PROVE  Owners(f) = {<<"pipe", w, k>>}
      <3>1. /\ pipe[w][k].fd = f
            /\ \A v \in Workers : \A j \in DOMAIN pipe[v] : InPipe(v, j, f) => v = w /\ j = k
            /\ \A v \in Workers : ~InSession(v, f)
            /\ \A m \in Messages : ~InFlush(m, f)
        BY <2>2 DEF InPipe, SocketInv, PipeInv
      <3> QED
        BY <1>1, <2>2, <3>1
    <2>3. ASSUME NEW w \in Workers, InSession(w, f) PROVE Owners(f) = {<<"session", w, 0>>}
      <3>1. /\ \A v \in Workers : \A j \in DOMAIN pipe[v] : ~InPipe(v, j, f)
            /\ \A v \in Workers : InSession(v, f) => v = w
            /\ \A m \in Messages : ~InFlush(m, f)
        BY <2>3 DEF InPipe, InSession, SocketInv, PipeInv, SessionInv
      <3> QED
        BY <1>1, <2>3, <3>1
    <2>4. ASSUME NEW m \in Messages, InFlush(m, f) PROVE Owners(f) = {<<"flush", m, 0>>}
      <3>1. /\ \A v \in Workers : \A j \in DOMAIN pipe[v] : ~InPipe(v, j, f)
            /\ \A v \in Workers : ~InSession(v, f)
            /\ \A n \in Messages : InFlush(n, f) => n = m
        BY <2>4 DEF InPipe, InSession, InFlush, SocketInv, PipeInv, SessionInv, FlushInv
      <3> QED
        BY <1>1, <2>4, <3>1
    <2>5. Owned(f)
      BY <1>3 DEF SocketInv, OpenInv
    <2> QED
      BY <1>3, <2>1, <2>2, <2>3, <2>4, <2>5 DEF Owned
  <1> QED
    BY <1>2, <1>3

-----------------------------------------------------------------------------
Inv == SocketInv /\ QueueInv /\ FateInv /\ MapInv

LEMMA InitInv == Init => Inv
  <1> SUFFICES ASSUME Init PROVE Inv
    OBVIOUS
  <1>1. MapInv
    BY DEF Init, MapInv, MapNamesSession, RightPeer
  <1> QED
    BY <1>1, InitSocket, InitQueue DEF Inv

LEMMA InvStep == Inv /\ [Next]_vars => Inv'
  BY SocketStep, QueueStep, FateStep, MapStep DEF Inv, SocketInv, CountInv

LEMMA Invariance == Spec => []Inv
  BY InitInv, InvStep, PTL DEF Spec

(* Every variable has its type, the thread list counts the sockets of each *)
(* worker, the socket map names sessions with their peers, and who is      *)
(* entered in the connect map is being connected to.                       *)
THEOREM ConnectionsConsistent == Spec => []Consistent
  <1>1. Inv => Consistent
    <2> SUFFICES ASSUME Inv PROVE Consistent
      OBVIOUS
    <2>1. TypeOK /\ MapNamesSession
      BY DEF Inv, SocketInv, CountInv, MapInv
    <2>2. CountsAgree
      BY <2>1 DEF Inv, SocketInv, CountInv, Has, CountsAgree, TypeOK
    <2>3. ConnectMapServed
      BY DEF Inv, QueueInv, InBatch, ConnectMapServed
    <2> QED
      BY <2>1, <2>2, <2>3 DEF Consistent
  <1> QED
    BY <1>1, Invariance, PTL

(* Every open socket has one owner that will close it, but for those that  *)
(* are forgotten when the first message can not be written and at Stop.    *)
THEOREM OneSocketOneOwner == Spec => []OneOwner
  <1>1. Inv => OneOwner
    BY OwnersCounted DEF Inv
  <1> QED
    BY <1>1, Invariance, PTL

(* A message over TCP is not both written and answered with a 660.         *)
THEOREM OneOutcome == Spec => []OutcomeExclusive
  <1>1. Inv => OutcomeExclusive
    BY DEF Inv, FateInv, OutcomeExclusive
  <1> QED
    BY <1>1, Invariance, PTL

(* Over TLS every message is written to the peer it is for.                *)
THEOREM TlsReachesPeer == Spec => []RightPeer
  <1>1. Inv => RightPeer
    BY DEF Inv, MapInv
  <1> QED
    BY <1>1, Invariance, PTL
-----------------------------------------------------------------------------
(* The threads of a SIP stack and their queue, for every finite set of     *)
(* workers and of receivers and any number of messages.  StackAssumption   *)
(* is what SipStackThreads assumes of its constants.                       *)
CONSTANTS QueueWorkers, Receivers, MaxMessages, MaxStarts, Settled
VARIABLES main, stopEvent, open, starts, runCount, pc, queue, received, handled

Stack == INSTANCE SipStackThreads WITH Workers <- QueueWorkers, count <- runCount

StackAssumption ==
  /\ QueueWorkers \cap Receivers = {}
  /\ IsFiniteSet(QueueWorkers) /\ IsFiniteSet(Receivers)
  /\ MaxMessages \in Nat /\ MaxStarts \in Nat /\ Settled \in BOOLEAN

ThreadStates == {"none", "new", "loop", "select", "poll", "waiting", "woken", "ending", "dead"}

(* The threads that counted themselves and have not yet counted off. *)
Counted == {t \in Stack!Threads : pc[t] \notin {"none", "new", "dead"}}

LEMMA ThreadsFinite ==
  ASSUME StackAssumption, NEW S \in SUBSET Stack!Threads
  PROVE  IsFiniteSet(S) /\ Cardinality(S) \in Nat
  <1>1. IsFiniteSet(Stack!Threads)
    BY FS_Union DEF StackAssumption, Stack!Threads
  <1> QED
    BY <1>1, FS_Subset, FS_CardinalityType

LEMMA SameCardinality == \A S : Stack!Cardinality(S) = Cardinality(S)
  BY DEF Stack!Cardinality, Cardinality

LEMMA ThreadsIn ==
  /\ \A s : Stack!In(s) \subseteq Stack!Threads
  /\ Counted \subseteq Stack!Threads
  BY DEF Stack!In, Counted

(* What the step of one thread makes of the sets of threads. *)
LEMMA ThreadMoves ==
  ASSUME Stack!TypeOK, NEW t \in Stack!Threads, NEW x \in ThreadStates, pc' = [pc EXCEPT ![t] = x]
  PROVE  /\ \A s : Stack!In(s)' = IF s = x THEN Stack!In(s) \cup {t} ELSE Stack!In(s) \ {t}
         /\ Counted' = IF x \in {"none", "new", "dead"} THEN Counted \ {t} ELSE Counted \cup {t}
  BY DEF Stack!TypeOK, Stack!In, Counted, ThreadStates

(* CSipQueue::Select past its test: a message is handled, or none is there. *)
LEMMA ThreadTakeType ==
  ASSUME Stack!TypeOK, NEW t \in Stack!Threads, Stack!Take(t)
  PROVE  /\ queue' \in Seq(Nat) /\ handled' \subseteq Nat /\ received' = received
         /\ pc' = [pc EXCEPT ![t] = "loop"]
         /\ Len(queue') = Len(queue) - 1 /\ Len(queue) \in Nat
  <1>1. queue \in Seq(Nat) /\ queue # <<>>
    BY DEF Stack!Take, Stack!TypeOK
  <1>2. /\ Head(queue) \in Nat /\ Tail(queue) \in Seq(Nat)
        /\ Len(Tail(queue)) = Len(queue) - 1 /\ Len(queue) \in Nat
    BY <1>1
  <1> QED
    BY <1>2 DEF Stack!Take, Stack!TypeOK

-----------------------------------------------------------------------------
(* The types, and what Stop waits for: the count is the number of threads  *)
(* that run.                                                               *)
RunCountInv == Stack!TypeOK /\ runCount = Cardinality(Counted)

LEMMA ThreadInitCount == Stack!Init => RunCountInv
  <1> SUFFICES ASSUME Stack!Init PROVE RunCountInv
    OBVIOUS
  <1>1. Counted = {}
    BY DEF Stack!Init, Counted
  <1>2. Stack!TypeOK
    <2>1. pc \in [Stack!Threads -> {"none"}]
      BY DEF Stack!Init
    <2>2. Stack!In("select") = {} /\ Stack!In("waiting") = {} /\ Stack!In("woken") = {}
      BY <2>1 DEF Stack!In
    <2>3. pc \in [Stack!Threads -> ThreadStates] /\ queue \in Seq(Nat)
      BY <2>1 DEF Stack!Init, ThreadStates
    <2> QED
      BY <2>2, <2>3 DEF Stack!Init, Stack!TypeOK, ThreadStates
  <1> QED
    BY <1>1, <1>2, FS_EmptySet DEF Stack!Init, RunCountInv

(* A thread that goes from one place to another while it is counted. *)
LEMMA ThreadRunningMove ==
  ASSUME RunCountInv, NEW t \in Stack!Threads, pc[t] \notin {"none", "new", "dead"},
         NEW x \in ThreadStates \ {"none", "new", "dead"},
         x \in {"select", "waiting", "woken"} => t \in QueueWorkers,
         pc' = [pc EXCEPT ![t] = x], UNCHANGED <<main, stopEvent, open, starts, runCount>>,
         queue' \in Seq(Nat), received' \in Nat, handled' \subseteq Nat
  PROVE  RunCountInv'
  <1>1. Counted' = Counted
    BY ThreadMoves DEF RunCountInv, Counted
  <1>2. Stack!In("select")' \cup Stack!In("waiting")' \cup Stack!In("woken")' \subseteq QueueWorkers
    BY DEF RunCountInv, Stack!TypeOK, Stack!In
  <1> QED
    BY <1>1, <1>2 DEF RunCountInv, Stack!TypeOK, ThreadStates

LEMMA ThreadStepCount ==
  ASSUME StackAssumption
  PROVE  RunCountInv /\ [Stack!Next]_(Stack!vars) => RunCountInv'
  <1> SUFFICES ASSUME RunCountInv, [Stack!Next]_(Stack!vars) PROVE RunCountInv'
    OBVIOUS
  <1>0. Stack!TypeOK /\ runCount = Cardinality(Counted)
    BY DEF RunCountInv
  <1>1. ASSUME NEW S \in SUBSET Stack!Threads, Stack!Start(S) PROVE RunCountInv'
    <2>1. Counted = {} /\ Counted' = {}
      BY <1>1 DEF Stack!Start, Counted, Stack!Gone, Stack!In
    <2>2. pc' \in [Stack!Threads -> {"none", "new"}]
      BY <1>1 DEF Stack!Start
    <2> QED
      BY <1>0, <1>1, <2>1, <2>2 DEF Stack!Start, Stack!messages, RunCountInv, Stack!TypeOK, Stack!In
  <1>2. CASE Stack!SetStopEvent
    BY <1>0, <1>2 DEF Stack!SetStopEvent, Stack!messages, RunCountInv, Stack!TypeOK, Stack!In, Counted
  <1>3. CASE Stack!BroadCast
    <2>1. \A t \in Stack!Threads : pc'[t] = IF pc[t] = "waiting" THEN "woken" ELSE pc[t]
      BY <1>3 DEF Stack!BroadCast
    <2>2. Counted' = Counted
      BY <2>1 DEF Counted
    <2>3. pc' \in [Stack!Threads -> ThreadStates]
      BY <1>0, <1>3, <2>1 DEF Stack!BroadCast, Stack!TypeOK, ThreadStates
    <2>4. Stack!In("select")' \cup Stack!In("waiting")' \cup Stack!In("woken")' \subseteq QueueWorkers
      BY <1>0, <2>1 DEF Stack!TypeOK, Stack!In
    <2> QED
      BY <1>0, <1>3, <2>2, <2>3, <2>4 DEF Stack!BroadCast, Stack!messages, RunCountInv, Stack!TypeOK, ThreadStates
  <1>4. CASE Stack!Close
    BY <1>0, <1>4 DEF Stack!Close, Stack!messages, RunCountInv, Stack!TypeOK, Stack!In, Counted
  <1>5. ASSUME NEW t \in Stack!Threads, Stack!Begin(t) PROVE RunCountInv'
    <2>1. Counted' = Counted \cup {t} /\ t \notin Counted
      BY <1>0, <1>5, ThreadMoves DEF Stack!Begin, Counted, ThreadStates
    <2>2. runCount' = Cardinality(Counted')
      BY <1>0, <1>5, <2>1, ThreadsFinite, ThreadsIn, FS_AddElement DEF Stack!Begin
    <2> QED
      BY <1>0, <1>5, <2>2 DEF Stack!Begin, Stack!application, Stack!messages, RunCountInv, Stack!TypeOK, Stack!In
  <1>6. ASSUME NEW t \in Stack!Threads, Stack!Loop(t) PROVE RunCountInv'
    <2> DEFINE x == IF stopEvent THEN "ending" ELSE IF t \in QueueWorkers THEN "select" ELSE "poll"
    <2>1. x \in ThreadStates \ {"none", "new", "dead"} /\ (x \in {"select", "waiting", "woken"} => t \in QueueWorkers)
      BY DEF ThreadStates
    <2>2. pc' = [pc EXCEPT ![t] = x]
      BY <1>6 DEF Stack!Loop
    <2> HIDE DEF x
    <2> QED
      BY <1>0, <1>6, <2>1, <2>2, ThreadRunningMove DEF Stack!Loop, Stack!application, Stack!messages, Stack!TypeOK
  <1>7. ASSUME NEW t \in Stack!Threads, Stack!End(t) PROVE RunCountInv'
    <2>1. Counted' = Counted \ {t} /\ t \in Counted
      BY <1>0, <1>7, ThreadMoves DEF Stack!End, Counted, ThreadStates
    <2>2. Cardinality(Counted') = Cardinality(Counted) - 1 /\ Cardinality(Counted') \in Nat
      BY <2>1, ThreadsFinite, ThreadsIn, FS_RemoveElement
    <2>3. Stack!In("select")' \cup Stack!In("waiting")' \cup Stack!In("woken")' \subseteq QueueWorkers
      BY <1>0, <1>7 DEF Stack!End, Stack!TypeOK, Stack!In
    <2> QED
      BY <1>0, <1>7, <2>2, <2>3 DEF Stack!End, Stack!application, Stack!messages, RunCountInv, Stack!TypeOK
  <1>8. ASSUME NEW t \in Stack!Threads, Stack!PollTimeout(t) PROVE RunCountInv'
    BY <1>0, <1>8, ThreadRunningMove DEF Stack!PollTimeout, Stack!application, Stack!messages, Stack!TypeOK, ThreadStates
  <1>9. ASSUME NEW t \in Stack!Threads, Stack!Insert(t) PROVE RunCountInv'
    <2>1. queue' \in Seq(Nat) /\ received' \in Nat /\ handled' \subseteq Nat
      <3>1. received' = received + 1 /\ received' \in Nat
        BY <1>0, <1>9 DEF Stack!Insert, Stack!TypeOK
      <3>2. CASE QueueWorkers = {}
        BY <1>0, <1>9, <3>1, <3>2 DEF Stack!Insert, Stack!TypeOK
      <3>3. CASE QueueWorkers # {}
        <4>1. queue' = Append(queue, received') /\ handled' = handled
          BY <1>9, <3>3 DEF Stack!Insert
        <4> QED
          BY <1>0, <3>1, <4>1 DEF Stack!TypeOK
      <3> QED
        BY <3>2, <3>3
    <2>2. UNCHANGED <<main, stopEvent, open, starts, runCount>> /\ pc[t] = "poll"
      BY <1>9 DEF Stack!Insert, Stack!application
    <2>3. CASE pc' = [pc EXCEPT ![t] = "loop"]
      BY <1>0, <2>1, <2>2, <2>3, ThreadRunningMove DEF ThreadStates
    <2>4. ASSUME NEW w \in Stack!In("waiting"), pc' = [pc EXCEPT ![t] = "loop", ![w] = "woken"]
          PROVE  RunCountInv'
      <3>1. \A u \in Stack!Threads : pc'[u] = IF u = w THEN "woken" ELSE IF u = t THEN "loop" ELSE pc[u]
        BY <1>0, <2>4 DEF Stack!TypeOK, Stack!In
      <3>2. Counted' = Counted
        BY <2>2, <3>1 DEF Counted, Stack!In
      <3>3. Stack!In("select")' \cup Stack!In("waiting")' \cup Stack!In("woken")' \subseteq QueueWorkers
        BY <1>0, <3>1 DEF Stack!TypeOK, Stack!In
      <3>4. pc' \in [Stack!Threads -> ThreadStates]
        BY <1>0, <2>4 DEF Stack!TypeOK, ThreadStates
      <3> QED
        BY <1>0, <2>1, <2>2, <3>2, <3>3, <3>4 DEF RunCountInv, Stack!TypeOK, ThreadStates
    <2> QED
      BY <1>9, <2>3, <2>4 DEF Stack!Insert, Stack!Signalled
  <1>10. ASSUME NEW t \in Stack!Threads, Stack!Select(t) \/ Stack!Wake(t) PROVE RunCountInv'
    <2>1. /\ pc[t] \in {"select", "woken"} /\ t \in QueueWorkers
          /\ UNCHANGED <<main, stopEvent, open, starts, runCount>>
      BY <1>0, <1>10 DEF Stack!Select, Stack!Wake, Stack!application, Stack!TypeOK, Stack!In
    <2>2. CASE Stack!Take(t)
      BY <1>0, <2>1, <2>2, ThreadTakeType, ThreadRunningMove DEF ThreadStates, Stack!TypeOK
    <2>3. CASE ~Stack!Take(t)
      <3>1. PICK x \in {"loop", "waiting"} : pc' = [pc EXCEPT ![t] = x] /\ UNCHANGED Stack!messages
        BY <1>10, <2>3 DEF Stack!Select, Stack!Wake
      <3> QED
        BY <1>0, <2>1, <3>1, ThreadRunningMove DEF ThreadStates, Stack!TypeOK, Stack!messages
    <2> QED
      BY <2>2, <2>3
  <1>11. ASSUME NEW t \in Stack!Threads, Stack!WakeSpuriously(t) PROVE RunCountInv'
    <2>1. t \in QueueWorkers
      BY <1>0, <1>11 DEF Stack!WakeSpuriously, Stack!TypeOK, Stack!In
    <2> QED
      BY <1>0, <1>11, <2>1, ThreadRunningMove DEF Stack!WakeSpuriously, Stack!application, Stack!messages, Stack!TypeOK, ThreadStates
  <1>12. CASE UNCHANGED Stack!vars
    BY <1>0, <1>12 DEF Stack!vars, Stack!application, Stack!messages, RunCountInv, Stack!TypeOK, Stack!In, Counted
  <1> QED
    BY <1>1, <1>2, <1>3, <1>4, <1>5, <1>6, <1>7, <1>8, <1>9, <1>10, <1>11, <1>12 DEF Stack!Next

-----------------------------------------------------------------------------
LEMMA ThreadInitLooked == Stack!Init => Stack!NoMessageOverlooked
  BY DEF Stack!Init, Stack!NoMessageOverlooked, Stack!In

(* A thread that neither was woken nor begins to wait. *)
LEMMA ThreadOtherMove ==
  ASSUME StackAssumption, Stack!TypeOK, Stack!NoMessageOverlooked, NEW t \in Stack!Threads, pc[t] # "woken",
         NEW x \in ThreadStates \ {"waiting", "woken"}, pc' = [pc EXCEPT ![t] = x],
         queue' = queue \/ (queue' \in Seq(Nat) /\ Len(queue') = Len(queue) - 1)
  PROVE  Stack!NoMessageOverlooked'
  <1>1. Stack!In("woken")' = Stack!In("woken") /\ Stack!In("waiting")' \subseteq Stack!In("waiting")
    BY DEF Stack!TypeOK, Stack!In
  <1>2. Cardinality(Stack!In("woken")) \in Nat /\ Len(queue) \in Nat
    BY ThreadsFinite, ThreadsIn DEF Stack!TypeOK
  <1>3. Len(queue') <= Len(queue)
    BY <1>2
  <1> QED
    BY <1>1, <1>2, <1>3, SameCardinality DEF Stack!NoMessageOverlooked

LEMMA ThreadStepLooked ==
  ASSUME StackAssumption, RunCountInv, Stack!NoMessageOverlooked, [Stack!Next]_(Stack!vars)
  PROVE  Stack!NoMessageOverlooked'
  <1>0. Stack!TypeOK
    BY DEF RunCountInv
  <1>a. \A s : Stack!In(s) \subseteq Stack!Threads /\ IsFiniteSet(Stack!In(s)) /\ Cardinality(Stack!In(s)) \in Nat
    BY ThreadsIn, ThreadsFinite
  <1>b. Len(queue) \in Nat /\ queue \in Seq(Nat)
    BY <1>0 DEF Stack!TypeOK
  <1>d. \A s : Cardinality(Stack!In(s)') \in Nat
    <2>1. \A s : Stack!In(s)' \subseteq Stack!Threads
      BY DEF Stack!In
    <2> QED
      BY <2>1, ThreadsFinite
  <1>1. ASSUME NEW S \in SUBSET Stack!Threads, Stack!Start(S) PROVE Stack!NoMessageOverlooked'
    BY <1>1 DEF Stack!Start, Stack!NoMessageOverlooked, Stack!In
  <1>2. CASE Stack!SetStopEvent
    BY <1>2 DEF Stack!SetStopEvent, Stack!messages, Stack!NoMessageOverlooked, Stack!In
  <1>3. CASE Stack!BroadCast
    BY <1>3 DEF Stack!BroadCast, Stack!NoMessageOverlooked, Stack!In
  <1>4. CASE Stack!Close
    BY <1>4 DEF Stack!Close, Stack!messages, Stack!NoMessageOverlooked, Stack!In
  <1>5. ASSUME NEW t \in Stack!Threads, Stack!Begin(t) PROVE Stack!NoMessageOverlooked'
    <2>1. queue' = queue /\ pc[t] # "woken" /\ pc' = [pc EXCEPT ![t] = "loop"]
      BY <1>5 DEF Stack!Begin, Stack!messages
    <2> QED
      BY <1>0, ThreadOtherMove, <2>1 DEF ThreadStates
  <1>6. ASSUME NEW t \in Stack!Threads, Stack!Loop(t) PROVE Stack!NoMessageOverlooked'
    <2> DEFINE x == IF stopEvent THEN "ending" ELSE IF t \in QueueWorkers THEN "select" ELSE "poll"
    <2>1. x \in ThreadStates \ {"waiting", "woken"} /\ pc' = [pc EXCEPT ![t] = x]
      BY <1>6 DEF Stack!Loop, ThreadStates
    <2>2. queue' = queue /\ pc[t] # "woken"
      BY <1>6 DEF Stack!Loop, Stack!messages
    <2> HIDE DEF x
    <2> QED
      BY <1>0, ThreadOtherMove, <2>1, <2>2
  <1>7. ASSUME NEW t \in Stack!Threads, Stack!End(t) PROVE Stack!NoMessageOverlooked'
    <2>1. queue' = queue /\ pc[t] # "woken" /\ pc' = [pc EXCEPT ![t] = "dead"]
      BY <1>7 DEF Stack!End, Stack!messages
    <2> QED
      BY <1>0, ThreadOtherMove, <2>1 DEF ThreadStates
  <1>8. ASSUME NEW t \in Stack!Threads, Stack!PollTimeout(t) PROVE Stack!NoMessageOverlooked'
    <2>1. queue' = queue /\ pc[t] # "woken" /\ pc' = [pc EXCEPT ![t] = "loop"]
      BY <1>8 DEF Stack!PollTimeout, Stack!messages
    <2> QED
      BY <1>0, ThreadOtherMove, <2>1 DEF ThreadStates
  <1>9. ASSUME NEW t \in Stack!Threads, Stack!Insert(t) PROVE Stack!NoMessageOverlooked'
    <2>1. CASE QueueWorkers = {}
      <3>1. UNCHANGED queue /\ pc' = [pc EXCEPT ![t] = "loop"] /\ pc[t] = "poll"
        BY <1>9, <2>1 DEF Stack!Insert
      <3> QED
        BY <1>0, ThreadOtherMove, <3>1 DEF ThreadStates
    <2>2. CASE QueueWorkers # {} /\ Stack!In("waiting") = {}
      <3>1. Stack!In("waiting")' = {}
        BY <1>0, <1>9, <2>2, ThreadMoves DEF Stack!Insert, Stack!Signalled, ThreadStates
      <3> QED
        BY <3>1 DEF Stack!NoMessageOverlooked
    <2>3. CASE QueueWorkers # {} /\ Stack!In("waiting") # {}
      <3>1. PICK w \in Stack!In("waiting") : pc' = [pc EXCEPT ![t] = "loop", ![w] = "woken"]
        BY <1>9, <2>3 DEF Stack!Insert, Stack!Signalled
      <3>2. \A u \in Stack!Threads : pc'[u] = IF u = w THEN "woken" ELSE IF u = t THEN "loop" ELSE pc[u]
        BY <1>0, <3>1 DEF Stack!TypeOK, Stack!In
      <3>3. Stack!In("woken")' = Stack!In("woken") \cup {w} /\ w \notin Stack!In("woken")
        BY <1>9, <3>2 DEF Stack!In, Stack!Insert
      <3>4. Cardinality(Stack!In("woken")') = Cardinality(Stack!In("woken")) + 1
        BY <1>a, <3>3, FS_AddElement
      <3>5. Len(queue') = Len(queue) + 1
        BY <1>0, <1>9, <2>3 DEF Stack!Insert, Stack!TypeOK
      <3> QED
        BY <1>a, <1>b, <2>3, <3>4, <3>5, SameCardinality DEF Stack!NoMessageOverlooked
    <2> QED
      BY <2>1, <2>2, <2>3
  <1>10. ASSUME NEW t \in Stack!Threads, Stack!Select(t) PROVE Stack!NoMessageOverlooked'
    <2>1. CASE Stack!Take(t)
      BY <1>0, <1>10, ThreadOtherMove, <2>1, ThreadTakeType DEF Stack!Select, ThreadStates
    <2>2. CASE queue = <<>> /\ UNCHANGED Stack!messages
      <3>1. Len(queue') = 0
        BY <2>2 DEF Stack!messages
      <3> QED
        BY <1>d, <3>1, SameCardinality DEF Stack!NoMessageOverlooked
    <2> QED
      BY <1>10, <2>1, <2>2 DEF Stack!Select
  <1>11. ASSUME NEW t \in Stack!Threads, Stack!Wake(t) PROVE Stack!NoMessageOverlooked'
    <2>1. CASE Stack!Take(t)
      <3>1. /\ Stack!In("woken")' = Stack!In("woken") \ {t} /\ t \in Stack!In("woken")
            /\ Stack!In("waiting")' \subseteq Stack!In("waiting")
        <4>1. pc' = [pc EXCEPT ![t] = "loop"] /\ pc[t] = "woken"
          BY <1>0, <1>11, <2>1, ThreadTakeType DEF Stack!Wake
        <4> QED
          BY <1>0, <4>1 DEF Stack!TypeOK, Stack!In
      <3>2. Cardinality(Stack!In("woken")') = Cardinality(Stack!In("woken")) - 1
        BY <1>a, <3>1, FS_RemoveElement
      <3> QED
        BY <1>0, <1>a, <1>b, <2>1, <3>1, <3>2, ThreadTakeType, SameCardinality DEF Stack!NoMessageOverlooked
    <2>2. CASE queue = <<>> /\ UNCHANGED Stack!messages
      <3>1. Len(queue') = 0
        BY <2>2 DEF Stack!messages
      <3> QED
        BY <1>d, <3>1, SameCardinality DEF Stack!NoMessageOverlooked
    <2> QED
      BY <1>11, <2>1, <2>2 DEF Stack!Wake
  <1>12. ASSUME NEW t \in Stack!Threads, Stack!WakeSpuriously(t) PROVE Stack!NoMessageOverlooked'
    <2>1. /\ Stack!In("woken")' = Stack!In("woken") \cup {t} /\ t \notin Stack!In("woken")
          /\ Stack!In("waiting") # {} /\ queue' = queue
      BY <1>0, <1>12, ThreadMoves DEF Stack!WakeSpuriously, Stack!In, ThreadStates, Stack!messages
    <2>2. Cardinality(Stack!In("woken")') = Cardinality(Stack!In("woken")) + 1
      BY <1>a, <2>1, FS_AddElement
    <2> QED
      BY <1>a, <1>b, <2>1, <2>2, SameCardinality DEF Stack!NoMessageOverlooked
  <1>13. CASE UNCHANGED Stack!vars
    BY <1>13 DEF Stack!vars, Stack!messages, Stack!NoMessageOverlooked, Stack!In
  <1> QED
    BY <1>1, <1>2, <1>3, <1>4, <1>5, <1>6, <1>7, <1>8, <1>9, <1>10, <1>11, <1>12, <1>13 DEF Stack!Next

(* However many workers there are and whoever takes which message: a       *)
(* worker waits in CSipQueue::Select only if every message in the queue    *)
(* has a worker of its own that was woken and is about to look at it.      *)
THEOREM QueueLookedAt ==
  ASSUME StackAssumption
  PROVE  Stack!Spec => [](Stack!TypeOK /\ Stack!NoMessageOverlooked)
  <1>1. RunCountInv => Stack!TypeOK
    BY DEF RunCountInv
  <1> QED
    BY <1>1, ThreadInitCount, ThreadStepCount, ThreadInitLooked, ThreadStepLooked, PTL DEF Stack!Spec

-----------------------------------------------------------------------------
(* The state of a stack that is only stopped once every thread runs: while *)
(* Stop waits no thread is still to count itself.                          *)
SettledInv ==
  /\ open <=> main # "stopped"
  /\ main # "failed"
  /\ main = "stopped" => Stack!Threads = Stack!Gone
  /\ main \in {"broadcast", "wait"} => Stack!In("new") = {}

LEMMA ThreadInitSettled == Stack!Init => SettledInv
  BY DEF Stack!Init, SettledInv, Stack!Gone, Stack!In

(* A thread that was started and has not ended takes a step. *)
LEMMA ThreadSettled ==
  ASSUME Stack!TypeOK, SettledInv, NEW t \in Stack!Threads, pc[t] \notin {"none", "dead"},
         UNCHANGED Stack!application, \A u \in Stack!Threads : pc'[u] # pc[u] => pc'[u] # "new"
  PROVE  SettledInv'
  <1>1. main # "stopped"
    BY DEF SettledInv, Stack!Gone, Stack!In
  <1>2. Stack!In("new")' \subseteq Stack!In("new")
    BY DEF Stack!In
  <1> QED
    BY <1>1, <1>2 DEF SettledInv, Stack!application

LEMMA ThreadStepSettled ==
  ASSUME StackAssumption, Settled, RunCountInv, SettledInv, [Stack!Next]_(Stack!vars)
  PROVE  SettledInv'
  <1>0. Stack!TypeOK
    BY DEF RunCountInv
  <1>1. ASSUME NEW S \in SUBSET Stack!Threads, Stack!Start(S) PROVE SettledInv'
    BY <1>1 DEF Stack!Start, SettledInv
  <1>2. CASE Stack!SetStopEvent
    BY <1>2 DEF Stack!SetStopEvent, SettledInv, Stack!Gone, Stack!In
  <1>3. CASE Stack!BroadCast
    <2>1. Stack!In("new")' = Stack!In("new")
      BY <1>3 DEF Stack!BroadCast, Stack!In
    <2> QED
      BY <1>3, <2>1 DEF Stack!BroadCast, SettledInv
  <1>4. CASE Stack!Close
    <2>1. Cardinality(Counted) = 0 /\ Stack!In("new") = {}
      BY <1>4 DEF Stack!Close, Stack!AllEnded, RunCountInv, SettledInv
    <2>2. Counted = {}
      BY <2>1, ThreadsIn, ThreadsFinite, FS_EmptySet
    <2>3. Stack!Threads = Stack!Gone
      BY <1>0, <2>1, <2>2 DEF Counted, Stack!Gone, Stack!In, Stack!TypeOK
    <2>4. Stack!Gone' = Stack!Gone /\ main' = "stopped" /\ ~open'
      BY <1>4 DEF Stack!Close, Stack!Gone, Stack!In
    <2> QED
      BY <2>3, <2>4 DEF SettledInv
  <1>5. ASSUME NEW t \in Stack!Threads,
               \/ Stack!Begin(t) \/ Stack!Loop(t) \/ Stack!End(t) \/ Stack!PollTimeout(t)
               \/ Stack!Select(t) \/ Stack!Wake(t) \/ Stack!WakeSpuriously(t)
        PROVE  SettledInv'
    <2>1. pc[t] \notin {"none", "dead"} /\ UNCHANGED Stack!application
      BY <1>5 DEF Stack!Begin, Stack!Loop, Stack!End, Stack!PollTimeout, Stack!Select, Stack!Wake, Stack!WakeSpuriously
    <2>2. PICK x \in ThreadStates \ {"new"} : pc' = [pc EXCEPT ![t] = x]
      BY <1>5 DEF Stack!Begin, Stack!Loop, Stack!End, Stack!PollTimeout, Stack!Select, Stack!Wake, Stack!WakeSpuriously, Stack!Take, ThreadStates
    <2>3. \A u \in Stack!Threads : pc'[u] # pc[u] => pc'[u] # "new"
      BY <1>0, <2>2 DEF Stack!TypeOK
    <2> QED
      BY <1>0, <2>1, <2>3, ThreadSettled
  <1>6. ASSUME NEW t \in Stack!Threads, Stack!Insert(t) PROVE SettledInv'
    <2>1. pc[t] = "poll" /\ UNCHANGED Stack!application
      BY <1>6 DEF Stack!Insert
    <2>2. \A u \in Stack!Threads : pc'[u] # pc[u] => pc'[u] # "new"
      <3>1. CASE pc' = [pc EXCEPT ![t] = "loop"]
        BY <1>0, <3>1 DEF Stack!TypeOK
      <3>2. ASSUME NEW w \in Stack!In("waiting"), pc' = [pc EXCEPT ![t] = "loop", ![w] = "woken"]
            PROVE  \A u \in Stack!Threads : pc'[u] # pc[u] => pc'[u] # "new"
        BY <1>0, <3>2 DEF Stack!TypeOK, Stack!In
      <3> QED
        BY <1>6, <3>1, <3>2 DEF Stack!Insert, Stack!Signalled
    <2> QED
      BY <1>0, <2>1, <2>2, ThreadSettled
  <1>7. CASE UNCHANGED Stack!vars
    BY <1>7 DEF Stack!vars, Stack!application, SettledInv, Stack!Gone, Stack!In
  <1> QED
    BY <1>1, <1>2, <1>3, <1>4, <1>5, <1>6, <1>7 DEF Stack!Next

(* A stack whose Start succeeds and that is stopped once every thread runs *)
(* closes its sockets only after the last of its threads has ended, with   *)
(* any number of threads and starts: the counts that _Stop waits for are   *)
(* the threads that run.  Without Settled this fails, as a thread that has *)
(* not counted itself yet is not waited for.                               *)
THEOREM SocketsOutliveThreads ==
  ASSUME StackAssumption, Settled
  PROVE  Stack!Spec => []Stack!Consistent
  <1>1. RunCountInv /\ Stack!NoMessageOverlooked /\ SettledInv => Stack!Consistent
    BY DEF RunCountInv, SettledInv, Stack!Consistent, Stack!NoThreadOnClosedSockets
  <1>2. Stack!Init => RunCountInv /\ Stack!NoMessageOverlooked /\ SettledInv
    BY ThreadInitCount, ThreadInitLooked, ThreadInitSettled
  <1>3. RunCountInv /\ Stack!NoMessageOverlooked /\ SettledInv /\ [Stack!Next]_(Stack!vars)
        => (RunCountInv /\ Stack!NoMessageOverlooked /\ SettledInv)'
    BY ThreadStepCount, ThreadStepLooked, ThreadStepSettled
  <1> QED
    BY <1>1, <1>2, <1>3, PTL DEF Stack!Spec
=============================================================================
