--------------------------- MODULE KSipCallProofs ----------------------------
(***************************************************************************)
(* Proofs about the calls of KSipServer, for any Call-IDs, ports, threads  *)
(* and scenarios: the entries of gclsCallMap agree between callbacks.      *)
(*                                                                         *)
(* The entries are wrong for a while during a transfer or a pick-up, so    *)
(* the inductive invariant says what a thread that is at one has still to  *)
(* do and which calls it has to itself (OnTransfer, ...), and that the     *)
(* entries agree but for these.  A pick-up leaves three entries that name  *)
(* one caller: then it is the map as it was before that agrees (Back).     *)
(***************************************************************************)
EXTENDS KSipCall, SequenceTheorems, TLAPS

-----------------------------------------------------------------------------
(* What a map of entries says of two calls. *)
To(m, x, y) == m[x] # None /\ m[x].peer = y
Fine(m, x, y) == m[x].recv # m[y].recv /\ (m[x].recv => m[y].port = m[x].port + 2)
Mutual(m, x, y) == x # y /\ To(m, x, y) /\ To(m, y, x)

(* U: Call-IDs that were given away; L: those no pick-up can accept any    *)
(* more among A, the ones that went astray.                                *)
Settled(m, U, L, A) ==
  \A x, y \in CallIds : To(m, x, y) =>
    /\ x \in U /\ y \in U
    /\ x = NoCall \/ y = NoCall => NoCall \in L
    /\ Mutual(m, x, y) \/ y \in L \/ (x \in A /\ m[y] = None)
    /\ Mutual(m, x, y) /\ x # NoCall /\ y # NoCall => Fine(m, x, y)
    /\ \A z \in CallIds : To(m, z, y) => z = x \/ y \in L

Unused(m, x) == m[x] = None /\ \A z \in CallIds : ~To(m, z, x)

(* W: Call-IDs a transfer or a pick-up may give an entry. *)
Own(m, W, x) == x \in W /\ x # NoCall /\ Unused(m, x)
Claim(m, W, L, x) ==
  /\ x \in W
  /\ x = NoCall => NoCall \in L
  /\ x # NoCall => m[x] = None
  /\ x \in L \/ \A z \in CallIds : ~To(m, z, x)

(* The map before the pick-up of the call x by c. *)
Back(m, c, x) == [m EXCEPT ![c] = None, ![x] = m[c]]

-----------------------------------------------------------------------------
(* What a thread has still to do. *)
QuietSteps == {"StopCall", "Delete", "SetStop", "DeleteDialog", "DeleteTrans", "EventCallEnd"}
NoClaims(q) == \A i \in DOMAIN q : q[i].do \in QuietSteps

(* Call-IDs of a new call that has no entry yet. *)
Res(q) ==
  {x \in CallIds : q # <<>> /\
     \/ Head(q).do \in {"EventIncomingCall", "CreateCall"} /\ x = Head(q).call
     \/ Head(q).do = "Insert" /\ ~Head(q).moved /\ x \in {Head(q).recv, Head(q).send}}

Used == {x \in CallIds : dialog[x] # None \/ x = NoCall}
Past == {x \in Used : ~Acceptable(x)}
Lost == astray \cap Past
Going == {x \in Calls : dialog[x] = Over \/ (Exists(x) /\ dialog[x].start)}
Ready == {x \in Calls : dialog[x] = Over \/ (Exists(x) /\ ~dialog[x].start /\ ~dialog[x].sent)}
Reserved == UNION {Res(todo[t]) : t \in Threads}
Workable == {x \in Used : x \notin Reserved /\ (trans[x] # None => x \in Going)}

(* Everything agrees in the map m. *)
Sound(m) ==
  /\ Settled(m, Used, Lost, astray)
  /\ \A x \in Reserved : Unused(m, x)
  /\ \A x \in CallIds : trans[x] # None =>
       x \in Used \ {NoCall} /\ (x \in Going \/ (x \notin Reserved /\ Unused(m, x)))

(* The thread is at the pick-up of x by c; o is the caller of x. *)
Virtual(c, x, o) ==
  /\ c \in Workable \ {NoCall} /\ x \in Calls /\ c # x /\ o \in CallIds
  /\ To(calls, c, o)
  /\ Sound(Back(calls, c, x)) /\ Unused(Back(calls, c, x), c)

Picked(c, x, o) == Virtual(c, x, o) /\ calls[x] = None

MovedInsert(s) == s.do = "Insert" /\ s.moved

OnInsertNew(q) ==
  /\ Len(q) = 2 /\ q[1].recv # q[1].send
  /\ q[2].do = "StartCall" /\ q[2].invite = q[1].send
OnInsertMoved(q) ==
  /\ Claim(calls, Workable, Lost, Head(q).recv) /\ Claim(calls, Workable, Lost, Head(q).send)
  /\ Head(q).recv # Head(q).send \/ Head(q).recv \in Lost
  /\ NoClaims(Tail(q))
OnTransfer(q) == Len(q) = 1 /\ Own(calls, Workable, q[1].call)
OnInsert(q) == IF Head(q).moved THEN OnInsertMoved(q) ELSE OnInsertNew(q)

(* The calls a and b are left to be connected with each other's peers. *)
Referring(s) ==
  /\ s.do = "Refer"
  /\ Claim(calls, Workable, Lost, s.peer) /\ Claim(calls, Workable, Lost, s.toPeer)
  /\ s.peer # s.toPeer \/ s.peer \in Lost
HalfReferred(d, s) ==
  /\ d.do = "Delete" /\ s.do = "Refer" /\ ~d.stop
  /\ To(calls, d.call, s.toPeer)
  /\ Claim(calls, Workable, Lost, s.peer)
  /\ s.peer # s.toPeer \/ s.peer \in Lost
Redialing(s) == s.do = "Redial" /\ Claim(calls, Workable, Lost, s.peer)

OnStopCall(q) ==
  \/ NoClaims(q)
  \/ /\ Len(q) = 4
     /\ q[2].do = "Delete" /\ MovedInsert(q[3]) /\ q[4].do = "DeleteTrans"
     /\ To(calls, q[2].call, q[3].recv) /\ Own(calls, Workable, q[3].send)
  \/ Len(q) = 3 /\ q[2].do = "StopCall" /\ Redialing(q[3])
  \/ Len(q) = 2 /\ Redialing(q[2])
  \/ /\ Len(q) = 2 /\ q[2].do = "AcceptCaller"
     /\ \E x \in Calls : Picked(q[2].call, x, q[2].caller)
OnDelete(q) ==
  \/ NoClaims(q)
  \/ /\ Len(q) = 3
     /\ MovedInsert(q[2]) /\ q[3].do = "DeleteTrans"
     /\ To(calls, q[1].call, q[2].recv) /\ Own(calls, Workable, q[2].send)
  \/ /\ Len(q) = 3
     /\ q[2].do = "Delete" /\ ~q[2].stop /\ q[3].do = "Refer"
     /\ q[1].call # q[2].call /\ q[3].peer # q[2].call
     /\ To(calls, q[1].call, q[3].peer) /\ To(calls, q[2].call, q[3].toPeer)
  \/ Len(q) = 2 /\ HalfReferred(q[1], q[2])
OnSetStop(q) ==
  \/ NoClaims(q)
  \/ Len(q) = 3 /\ MovedInsert(q[2]) /\ OnInsertMoved(Tail(q))
  \/ Len(q) = 3 /\ HalfReferred(q[2], q[3])

OnEventTransfer(q) ==
  /\ Len(q) = 1 /\ q[1].call # q[1].to
  /\ q[1].call \in Used \ Reserved /\ ~To(calls, q[1].call, q[1].to)
OnSelectRefer(q) ==
  /\ Len(q) = 1 /\ q[1].call # q[1].to /\ q[1].peer # q[1].to
  /\ To(calls, q[1].call, q[1].peer)

OnInsertOne(q) ==
  /\ Len(q) = 4
  /\ q[2].do = "DeleteOne" /\ q[3].do = "StopCall" /\ q[4].do = "AcceptCaller"
  /\ q[4].call = q[1].call /\ q[4].caller = q[1].info.peer
  /\ q[2].call \in Calls
  /\ Own(calls, Workable, q[1].call)
  /\ q[1].info # None /\ calls[q[2].call] = q[1].info
OnDeleteOne(q) ==
  /\ Len(q) = 3
  /\ q[2].do = "StopCall" /\ q[3].do = "AcceptCaller"
  /\ Virtual(q[3].call, q[1].call, q[3].caller)
OnAcceptCaller(q) ==
  Len(q) = 1 /\ \E x \in Calls : Picked(q[1].call, x, q[1].caller)

(* The caller was accepted: if it has an entry it still names x. *)
Accepted(c, x, o) ==
  Picked(c, x, o) /\ o \in Past /\ (calls[o] # None => calls[o].peer = x)
OnSelectCaller(q) ==
  Len(q) = 1 /\ \E x \in Calls : Accepted(q[1].call, x, q[1].caller)
OnUpdate(q) ==
  /\ Len(q) = 2 /\ q[2].do = "AcceptCall" /\ q[2].call = q[1].peer
  /\ \E x \in Calls : Accepted(q[1].peer, x, q[1].call) /\ calls[q[1].call] # None

Shape(q) ==
  q # <<>> =>
    LET k == Head(q).do
    IN /\ k \in {"EventIncomingCall", "CreateCall", "EventBlindTransfer"} => Len(q) = 1
       /\ k = "EventBlindTransfer" => q[1].call \in Going
       /\ k = "EventCallStart" => Len(q) = 1 /\ (trans[q[1].call] # None => Own(calls, Workable, q[1].call))
       /\ k = "AcceptCall" => Len(q) = 1 /\ q[1].call \in Used \ Reserved
       /\ k = "StartCall" => Len(q) = 1 /\ q[1].invite \in Used \ Reserved
       /\ k \in {"DeleteDialog", "DeleteTrans", "EventCallEnd"} => NoClaims(q)
       /\ k = "StopCall" => OnStopCall(q)
       /\ k = "Delete" => OnDelete(q)
       /\ k = "SetStop" => OnSetStop(q)
       /\ k = "Insert" => OnInsert(q)
       /\ k = "Transfer" => OnTransfer(q)
       /\ k \in {"CreatePort", "SendInvite"} => Len(q) = 1 /\ q[1].call \in Going
       /\ k = "InsertTrans" => Len(q) = 1 /\ q[1].recv \in Going /\ Own(calls, Workable, q[1].send)
       /\ k = "EventTransfer" => OnEventTransfer(q)
       /\ k = "SelectRefer" => OnSelectRefer(q)
       /\ k = "Refer" => Len(q) = 1 /\ Referring(q[1])
       /\ k = "Redial" => Len(q) = 1 /\ Redialing(q[1])
       /\ k \in {"SelectToRing", "SelectOld"} => Len(q) = 1 /\ Own(calls, Workable, q[1].call)
       /\ k = "SelectOld" => q[1].old \in Calls
       /\ k = "InsertOne" => OnInsertOne(q)
       /\ k = "DeleteOne" => OnDeleteOne(q)
       /\ k = "AcceptCaller" => OnAcceptCaller(q)
       /\ k = "SelectCaller" => OnSelectCaller(q)
       /\ k = "Update" => OnUpdate(q)

MidSteps == {"DeleteOne", "AcceptCaller", "SelectCaller", "Update"}
Mid(q) ==
  q # <<>> /\ (Head(q).do \in MidSteps \/
               (Head(q).do = "StopCall" /\ Tail(q) # <<>> /\ Head(Tail(q)).do = "AcceptCaller"))

Good ==
  /\ \A t \in Threads : Shape(todo[t])
  /\ \A t, u \in Threads : t # u => Res(todo[t]) \cap Res(todo[u]) = {}
  /\ Reserved \subseteq Ready
  /\ (\A t \in Threads : ~Mid(todo[t])) => Sound(calls)

(* The types of the steps. *)
CallKinds ==
  {"StopCall", "DeleteDialog", "AcceptCall", "EventIncomingCall", "EventCallStart",
   "EventCallEnd", "EventBlindTransfer", "SelectToRing", "DeleteOne"}
CallStep == [do : CallKinds, call : CallIds]
EraseStep == [do : {"Delete", "DeleteTrans"}, call : CallIds, stop : BOOLEAN]
EnterStep == [do : {"Insert"}, recv : CallIds, send : CallIds, port : Int, moved : BOOLEAN]
EnterTransStep == [do : {"InsertTrans"}, recv : CallIds, send : CallIds, port : Int]
PortStep == [do : {"SetStop"}, port : Int]
NewPortStep == [do : {"CreateCall", "SendInvite"}, call : CallIds, port : Ports]
SendStep == [do : {"StartCall"}, call : CallIds, invite : CallIds]
TransferStep == [do : {"Transfer"}, call : CallIds, from : CallIds, port : Int]
PeerStep == [do : {"CreatePort", "Update"}, call : CallIds, peer : CallIds]
EventTransferStep == [do : {"EventTransfer"}, call : CallIds, to : CallIds, screened : BOOLEAN]
SelectStep == [do : {"SelectRefer"}, call : CallIds, to : CallIds, screened : BOOLEAN, peer : CallIds]
ReferStep ==
  [do : {"Refer", "Redial"}, call : CallIds, to : CallIds, screened : BOOLEAN,
   peer : CallIds, toPeer : CallIds, port : Int, owner : BOOLEAN]
OldStep == [do : {"SelectOld"}, call : CallIds, old : CallIds]
OneStep == [do : {"InsertOne"}, call : CallIds, info : CallInfo]
CallerStep == [do : {"AcceptCaller", "SelectCaller"}, call : CallIds, caller : CallIds]
Step ==
  CallStep \cup EraseStep \cup EnterStep \cup EnterTransStep \cup PortStep \cup NewPortStep
  \cup SendStep \cup TransferStep \cup PeerStep \cup EventTransferStep \cup SelectStep
  \cup ReferStep \cup OldStep \cup OneStep \cup CallerStep

Types ==
  /\ scenario \in Scenarios
  /\ dialog \in [CallIds -> Dialog \cup {None, Over}]
  /\ dialog[NoCall] = None
  /\ calls \in [CallIds -> CallInfo \cup {None}]
  /\ trans \in [CallIds -> CallInfo \cup {None}]
  /\ ports \in [Ports -> {"free", "used", "stopping"}]
  /\ todo \in [Threads -> Seq(Step)]
  /\ crossed \in BOOLEAN
  /\ astray \subseteq CallIds
  /\ forgotten \subseteq Ports

IInv == Types /\ (~crossed => ~Crossing /\ Good)

-----------------------------------------------------------------------------
(* Short sequences. *)

LEMMA First ==
  ASSUME NEW S, NEW q \in Seq(S), q # <<>>
  PROVE  /\ Len(q) \in Nat /\ Len(q) >= 1 /\ DOMAIN q = 1 .. Len(q)
         /\ Head(q) = q[1] /\ q[1] \in S
         /\ Tail(q) \in Seq(S) /\ Len(Tail(q)) = Len(q) - 1
         /\ \A i \in 1 .. Len(Tail(q)) : Tail(q)[i] = q[i + 1]
         /\ Len(q) = 1 => Tail(q) = <<>>
  <1>1. Len(q) \in Nat \ {0} /\ DOMAIN q = 1 .. Len(q)
    BY EmptySeq, LenProperties
  <1>2. Tail(q) \in Seq(S) /\ Len(Tail(q)) = Len(q) - 1 /\ Head(q) = q[1]
    BY <1>1
  <1>3. q[1] \in S
    BY <1>1, ElementOfSeq
  <1>4. \A i \in 1 .. Len(Tail(q)) : Tail(q)[i] = q[i + 1]
    BY <1>1, <1>2
  <1>5. ASSUME Len(q) = 1 PROVE Tail(q) = <<>>
    <2>1. Len(Tail(q)) = 0
      BY <1>2, <1>5
    <2>2. Tail(q) # <<>> => Len(Tail(q)) \in Nat \ {0}
      BY <1>2, EmptySeq
    <2> QED
      BY <2>1, <2>2
  <1> QED
    BY <1>1, <1>2, <1>3, <1>4, <1>5

LEMMA Literals ==
  ASSUME NEW S, NEW a \in S, NEW b \in S, NEW c \in S, NEW d \in S
  PROVE  <<a>> \in Seq(S) /\ <<a, b>> \in Seq(S) /\ <<a, b, c>> \in Seq(S) /\ <<a, b, c, d>> \in Seq(S)
  OBVIOUS

LEMMA Join ==
  ASSUME NEW S, NEW a \in S, NEW r \in Seq(S)
  PROVE  /\ <<a>> \o r \in Seq(S) /\ <<a>> \o r # <<>> /\ Len(<<a>> \o r) = Len(r) + 1
         /\ Head(<<a>> \o r) = a /\ (<<a>> \o r)[1] = a /\ Tail(<<a>> \o r) = r
         /\ \A i \in 1 .. Len(r) : (<<a>> \o r)[i + 1] = r[i]
  OBVIOUS

LEMMA Alone == 
  ASSUME NEW S, NEW q \in Seq(S), q # <<>>, NEW p \in Seq(S)
  PROVE  /\ <<>> \o Tail(q) = Tail(q)
         /\ Len(q) = 1 => p \o Tail(q) = p
  <1>1. Tail(q) \in Seq(S) /\ (Len(q) = 1 => Tail(q) = <<>>)
    BY First
  <1>2. <<>> \o Tail(q) = Tail(q) /\ p \o <<>> = p
    BY <1>1, ConcatEmptySeq
  <1> QED
    BY <1>1, <1>2

LEMMA One ==
  ASSUME NEW a
  PROVE  Len(<<a>>) = 1 /\ <<a>>[1] = a /\ Head(<<a>>) = a /\ <<a>> # <<>> /\ Tail(<<a>>) = <<>>
  OBVIOUS

LEMMA Two ==
  ASSUME NEW a, NEW b
  PROVE  /\ Len(<<a, b>>) = 2 /\ <<a, b>>[1] = a /\ <<a, b>>[2] = b
         /\ Head(<<a, b>>) = a /\ <<a, b>> # <<>> /\ Tail(<<a, b>>) = <<b>>
  OBVIOUS

LEMMA Three ==
  ASSUME NEW a, NEW b, NEW c
  PROVE  /\ Len(<<a, b, c>>) = 3 /\ <<a, b, c>>[1] = a /\ <<a, b, c>>[2] = b /\ <<a, b, c>>[3] = c
         /\ Head(<<a, b, c>>) = a /\ <<a, b, c>> # <<>> /\ Tail(<<a, b, c>>) = <<b, c>>
  OBVIOUS

LEMMA Four ==
  ASSUME NEW a, NEW b, NEW c, NEW d
  PROVE  /\ Len(<<a, b, c, d>>) = 4 /\ <<a, b, c, d>>[1] = a /\ <<a, b, c, d>>[2] = b
         /\ <<a, b, c, d>>[3] = c /\ <<a, b, c, d>>[4] = d
         /\ Head(<<a, b, c, d>>) = a /\ <<a, b, c, d>> # <<>> /\ Tail(<<a, b, c, d>>) = <<b, c, d>>
  OBVIOUS

LEMMA QuietJoin ==
  ASSUME NEW S, NEW a \in S, NEW r \in Seq(S), a.do \in QuietSteps, NoClaims(r)
  PROVE  NoClaims(<<a>> \o r)
  <1>1. \A i \in 1 .. Len(r) + 1 : i = 1 \/ (i - 1 \in 1 .. Len(r) /\ (<<a>> \o r)[i] = r[i - 1])
    BY Join, LenProperties
  <1>2. DOMAIN (<<a>> \o r) = 1 .. Len(r) + 1 /\ (<<a>> \o r)[1] = a
    BY Join, LenProperties
  <1> QED
    BY <1>1, <1>2, LenProperties DEF NoClaims

LEMMA QuietTail ==
  ASSUME NEW S, NEW q \in Seq(S), q # <<>>, NoClaims(q)
  PROVE  NoClaims(Tail(q)) /\ Head(q).do \in QuietSteps
  <1>1. \A i \in 1 .. Len(Tail(q)) : i + 1 \in 1 .. Len(q) /\ Tail(q)[i] = q[i + 1]
    BY First
  <1>2. DOMAIN q = 1 .. Len(q) /\ DOMAIN Tail(q) = 1 .. Len(Tail(q)) /\ 1 \in DOMAIN q /\ Head(q) = q[1]
    BY First, LenProperties
  <1> QED
    BY <1>1, <1>2 DEF NoClaims

-----------------------------------------------------------------------------
(* The fields of the steps, by what they do. *)

LEMMA Ids ==
  /\ NoCall \in CallIds /\ Calls \subseteq CallIds /\ NoCall \notin Calls
  /\ Incoming \subseteq Calls /\ Outgoing \subseteq Calls
  /\ Ports \subseteq Int /\ NoPort \notin Ports /\ NoPort \in Int
  BY CallAssumption DEF CallIds, Calls, NoCall, NoPort

LEMMA Kinds ==
  /\ \A s \in CallStep : s.do \in CallKinds
  /\ \A s \in EraseStep : s.do \in {"Delete", "DeleteTrans"}
  /\ \A s \in EnterStep : s.do = "Insert"
  /\ \A s \in EnterTransStep : s.do = "InsertTrans"
  /\ \A s \in PortStep : s.do = "SetStop"
  /\ \A s \in NewPortStep : s.do \in {"CreateCall", "SendInvite"}
  /\ \A s \in SendStep : s.do = "StartCall"
  /\ \A s \in TransferStep : s.do = "Transfer"
  /\ \A s \in PeerStep : s.do \in {"CreatePort", "Update"}
  /\ \A s \in EventTransferStep : s.do = "EventTransfer"
  /\ \A s \in SelectStep : s.do = "SelectRefer"
  /\ \A s \in ReferStep : s.do \in {"Refer", "Redial"}
  /\ \A s \in OldStep : s.do = "SelectOld"
  /\ \A s \in OneStep : s.do = "InsertOne"
  /\ \A s \in CallerStep : s.do \in {"AcceptCaller", "SelectCaller"}
  <1>1. \A s \in CallStep : s.do \in CallKinds
    BY DEF CallStep
  <1>2. \A s \in EraseStep : s.do \in {"Delete", "DeleteTrans"}
    BY DEF EraseStep
  <1>3. \A s \in EnterStep : s.do = "Insert"
    BY DEF EnterStep
  <1>4. \A s \in EnterTransStep : s.do = "InsertTrans"
    BY DEF EnterTransStep
  <1>5. \A s \in PortStep : s.do = "SetStop"
    BY DEF PortStep
  <1>6. \A s \in NewPortStep : s.do \in {"CreateCall", "SendInvite"}
    BY DEF NewPortStep
  <1>7. \A s \in SendStep : s.do = "StartCall"
    BY DEF SendStep
  <1>8. \A s \in TransferStep : s.do = "Transfer"
    BY DEF TransferStep
  <1>9. \A s \in PeerStep : s.do \in {"CreatePort", "Update"}
    BY DEF PeerStep
  <1>10. \A s \in EventTransferStep : s.do = "EventTransfer"
    BY DEF EventTransferStep
  <1>11. \A s \in SelectStep : s.do = "SelectRefer"
    BY DEF SelectStep
  <1>12. \A s \in ReferStep : s.do \in {"Refer", "Redial"}
    BY DEF ReferStep
  <1>13. \A s \in OldStep : s.do = "SelectOld"
    BY DEF OldStep
  <1>14. \A s \in OneStep : s.do = "InsertOne"
    BY DEF OneStep
  <1>15. \A s \in CallerStep : s.do \in {"AcceptCaller", "SelectCaller"}
    BY DEF CallerStep
  <1> QED
    BY <1>1, <1>2, <1>3, <1>4, <1>5, <1>6, <1>7, <1>8, <1>9, <1>10, <1>11, <1>12, <1>13, <1>14, <1>15

LEMMA KindOf ==
  ASSUME NEW s \in Step
  PROVE  /\ s.do \in CallKinds => s \in CallStep
         /\ s.do \in {"Delete", "DeleteTrans"} => s \in EraseStep
         /\ s.do = "Insert" => s \in EnterStep
         /\ s.do = "InsertTrans" => s \in EnterTransStep
         /\ s.do = "SetStop" => s \in PortStep
         /\ s.do \in {"CreateCall", "SendInvite"} => s \in NewPortStep
         /\ s.do = "StartCall" => s \in SendStep
         /\ s.do = "Transfer" => s \in TransferStep
         /\ s.do \in {"CreatePort", "Update"} => s \in PeerStep
         /\ s.do = "EventTransfer" => s \in EventTransferStep
         /\ s.do = "SelectRefer" => s \in SelectStep
         /\ s.do \in {"Refer", "Redial"} => s \in ReferStep
         /\ s.do = "SelectOld" => s \in OldStep
         /\ s.do = "InsertOne" => s \in OneStep
         /\ s.do \in {"AcceptCaller", "SelectCaller"} => s \in CallerStep
  BY Kinds DEF Step, CallKinds

LEMMA Fields ==
  /\ \A s \in CallStep : s.call \in CallIds
  /\ \A s \in EraseStep : s.call \in CallIds /\ s.stop \in BOOLEAN
  /\ \A s \in EnterStep : s.recv \in CallIds /\ s.send \in CallIds /\ s.port \in Int /\ s.moved \in BOOLEAN
  /\ \A s \in EnterTransStep : s.recv \in CallIds /\ s.send \in CallIds /\ s.port \in Int
  /\ \A s \in PortStep : s.port \in Int
  /\ \A s \in NewPortStep : s.call \in CallIds /\ s.port \in Ports
  /\ \A s \in SendStep : s.call \in CallIds /\ s.invite \in CallIds
  /\ \A s \in TransferStep : s.call \in CallIds /\ s.from \in CallIds /\ s.port \in Int
  /\ \A s \in PeerStep : s.call \in CallIds /\ s.peer \in CallIds
  /\ \A s \in EventTransferStep : s.call \in CallIds /\ s.to \in CallIds /\ s.screened \in BOOLEAN
  /\ \A s \in SelectStep : s.call \in CallIds /\ s.to \in CallIds /\ s.screened \in BOOLEAN /\ s.peer \in CallIds
  /\ \A s \in ReferStep : s.call \in CallIds /\ s.to \in CallIds /\ s.screened \in BOOLEAN /\ s.peer \in CallIds /\ s.toPeer \in CallIds /\ s.port \in Int /\ s.owner \in BOOLEAN
  /\ \A s \in OldStep : s.call \in CallIds /\ s.old \in CallIds
  /\ \A s \in OneStep : s.call \in CallIds /\ s.info \in CallInfo
  /\ \A s \in CallerStep : s.call \in CallIds /\ s.caller \in CallIds
  <1>1. \A s \in CallStep : s.call \in CallIds
    BY DEF CallStep
  <1>2. \A s \in EraseStep : s.call \in CallIds /\ s.stop \in BOOLEAN
    BY DEF EraseStep
  <1>3. \A s \in EnterStep : s.recv \in CallIds /\ s.send \in CallIds /\ s.port \in Int /\ s.moved \in BOOLEAN
    BY DEF EnterStep
  <1>4. \A s \in EnterTransStep : s.recv \in CallIds /\ s.send \in CallIds /\ s.port \in Int
    BY DEF EnterTransStep
  <1>5. \A s \in PortStep : s.port \in Int
    BY DEF PortStep
  <1>6. \A s \in NewPortStep : s.call \in CallIds /\ s.port \in Ports
    BY DEF NewPortStep
  <1>7. \A s \in SendStep : s.call \in CallIds /\ s.invite \in CallIds
    BY DEF SendStep
  <1>8. \A s \in TransferStep : s.call \in CallIds /\ s.from \in CallIds /\ s.port \in Int
    BY DEF TransferStep
  <1>9. \A s \in PeerStep : s.call \in CallIds /\ s.peer \in CallIds
    BY DEF PeerStep
  <1>10. \A s \in EventTransferStep : s.call \in CallIds /\ s.to \in CallIds /\ s.screened \in BOOLEAN
    BY DEF EventTransferStep
  <1>11. \A s \in SelectStep : s.call \in CallIds /\ s.to \in CallIds /\ s.screened \in BOOLEAN /\ s.peer \in CallIds
    BY DEF SelectStep
  <1>12. \A s \in ReferStep : s.call \in CallIds /\ s.to \in CallIds /\ s.screened \in BOOLEAN /\ s.peer \in CallIds /\ s.toPeer \in CallIds /\ s.port \in Int /\ s.owner \in BOOLEAN
    BY DEF ReferStep
  <1>13. \A s \in OldStep : s.call \in CallIds /\ s.old \in CallIds
    BY DEF OldStep
  <1>14. \A s \in OneStep : s.call \in CallIds /\ s.info \in CallInfo
    BY DEF OneStep
  <1>15. \A s \in CallerStep : s.call \in CallIds /\ s.caller \in CallIds
    BY DEF CallerStep
  <1> QED
    BY <1>1, <1>2, <1>3, <1>4, <1>5, <1>6, <1>7, <1>8, <1>9, <1>10, <1>11, <1>12, <1>13, <1>14, <1>15

LEMMA HasKind == \A s \in Step : "do" \in DOMAIN s
  <1>1. \A s \in CallStep : "do" \in DOMAIN s
    BY DEF CallStep
  <1>2. \A s \in EraseStep : "do" \in DOMAIN s
    BY DEF EraseStep
  <1>3. \A s \in EnterStep : "do" \in DOMAIN s
    BY DEF EnterStep
  <1>4. \A s \in EnterTransStep : "do" \in DOMAIN s
    BY DEF EnterTransStep
  <1>5. \A s \in PortStep : "do" \in DOMAIN s
    BY DEF PortStep
  <1>6. \A s \in NewPortStep : "do" \in DOMAIN s
    BY DEF NewPortStep
  <1>7. \A s \in SendStep : "do" \in DOMAIN s
    BY DEF SendStep
  <1>8. \A s \in TransferStep : "do" \in DOMAIN s
    BY DEF TransferStep
  <1>9. \A s \in PeerStep : "do" \in DOMAIN s
    BY DEF PeerStep
  <1>10. \A s \in EventTransferStep : "do" \in DOMAIN s
    BY DEF EventTransferStep
  <1>11. \A s \in SelectStep : "do" \in DOMAIN s
    BY DEF SelectStep
  <1>12. \A s \in ReferStep : "do" \in DOMAIN s
    BY DEF ReferStep
  <1>13. \A s \in OldStep : "do" \in DOMAIN s
    BY DEF OldStep
  <1>14. \A s \in OneStep : "do" \in DOMAIN s
    BY DEF OneStep
  <1>15. \A s \in CallerStep : "do" \in DOMAIN s
    BY DEF CallerStep
  <1> QED
    BY <1>1, <1>2, <1>3, <1>4, <1>5, <1>6, <1>7, <1>8, <1>9, <1>10, <1>11, <1>12, <1>13, <1>14, <1>15 DEF Step

LEMMA Makes ==
  /\ \A k \in CallKinds, x \in CallIds :
       [do |-> k, call |-> x] \in Step
  /\ \A k \in {"Delete", "DeleteTrans"}, x \in CallIds, b \in BOOLEAN :
       [do |-> k, call |-> x, stop |-> b] \in Step
  /\ \A r, s \in CallIds, p \in Int, b \in BOOLEAN :
       [do |-> "Insert", recv |-> r, send |-> s, port |-> p, moved |-> b] \in Step
  /\ \A r, s \in CallIds, p \in Int :
       [do |-> "InsertTrans", recv |-> r, send |-> s, port |-> p] \in Step
  /\ \A p \in Int :
       [do |-> "SetStop", port |-> p] \in Step
  /\ \A k \in {"CreateCall", "SendInvite"}, x \in CallIds, p \in Ports :
       [do |-> k, call |-> x, port |-> p] \in Step
  /\ \A x, y \in CallIds :
       [do |-> "StartCall", call |-> x, invite |-> y] \in Step
  /\ \A x, y \in CallIds, p \in Int :
       [do |-> "Transfer", call |-> x, from |-> y, port |-> p] \in Step
  /\ \A k \in {"CreatePort", "Update"}, x, y \in CallIds :
       [do |-> k, call |-> x, peer |-> y] \in Step
  /\ \A a, b \in CallIds, s \in BOOLEAN :
       [do |-> "EventTransfer", call |-> a, to |-> b, screened |-> s] \in Step
  /\ \A a, b, p \in CallIds, s \in BOOLEAN :
       [do |-> "SelectRefer", call |-> a, to |-> b, screened |-> s, peer |-> p] \in Step
  /\ \A a, b, p, q \in CallIds, s, o \in BOOLEAN, n \in Int :
       [do |-> "Refer", call |-> a, to |-> b, screened |-> s, peer |-> p, toPeer |-> q,
         port |-> n, owner |-> o] \in Step
  /\ \A x, y \in CallIds :
       [do |-> "SelectOld", call |-> x, old |-> y] \in Step
  /\ \A x \in CallIds, i \in CallInfo :
       [do |-> "InsertOne", call |-> x, info |-> i] \in Step
  /\ \A k \in {"AcceptCaller", "SelectCaller"}, x, y \in CallIds :
       [do |-> k, call |-> x, caller |-> y] \in Step
  <1>1. \A k \in CallKinds, x \in CallIds :
       [do |-> k, call |-> x] \in Step
    BY DEF Step, CallStep
  <1>2. \A k \in {"Delete", "DeleteTrans"}, x \in CallIds, b \in BOOLEAN :
       [do |-> k, call |-> x, stop |-> b] \in Step
    BY DEF Step, EraseStep
  <1>3. \A r, s \in CallIds, p \in Int, b \in BOOLEAN :
       [do |-> "Insert", recv |-> r, send |-> s, port |-> p, moved |-> b] \in Step
    BY DEF Step, EnterStep
  <1>4. \A r, s \in CallIds, p \in Int :
       [do |-> "InsertTrans", recv |-> r, send |-> s, port |-> p] \in Step
    BY DEF Step, EnterTransStep
  <1>5. \A p \in Int :
       [do |-> "SetStop", port |-> p] \in Step
    BY DEF Step, PortStep
  <1>6. \A k \in {"CreateCall", "SendInvite"}, x \in CallIds, p \in Ports :
       [do |-> k, call |-> x, port |-> p] \in Step
    BY DEF Step, NewPortStep
  <1>7. \A x, y \in CallIds :
       [do |-> "StartCall", call |-> x, invite |-> y] \in Step
    BY DEF Step, SendStep
  <1>8. \A x, y \in CallIds, p \in Int :
       [do |-> "Transfer", call |-> x, from |-> y, port |-> p] \in Step
    BY DEF Step, TransferStep
  <1>9. \A k \in {"CreatePort", "Update"}, x, y \in CallIds :
       [do |-> k, call |-> x, peer |-> y] \in Step
    BY DEF Step, PeerStep
  <1>10. \A a, b \in CallIds, s \in BOOLEAN :
       [do |-> "EventTransfer", call |-> a, to |-> b, screened |-> s] \in Step
    BY DEF Step, EventTransferStep
  <1>11. \A a, b, p \in CallIds, s \in BOOLEAN :
       [do |-> "SelectRefer", call |-> a, to |-> b, screened |-> s, peer |-> p] \in Step
    BY DEF Step, SelectStep
  <1>12. \A a, b, p, q \in CallIds, s, o \in BOOLEAN, n \in Int :
       [do |-> "Refer", call |-> a, to |-> b, screened |-> s, peer |-> p, toPeer |-> q,
         port |-> n, owner |-> o] \in Step
    BY DEF Step, ReferStep
  <1>13. \A x, y \in CallIds :
       [do |-> "SelectOld", call |-> x, old |-> y] \in Step
    BY DEF Step, OldStep
  <1>14. \A x \in CallIds, i \in CallInfo :
       [do |-> "InsertOne", call |-> x, info |-> i] \in Step
    BY DEF Step, OneStep
  <1>15. \A k \in {"AcceptCaller", "SelectCaller"}, x, y \in CallIds :
       [do |-> k, call |-> x, caller |-> y] \in Step
    BY DEF Step, CallerStep
  <1> QED
    BY <1>1, <1>2, <1>3, <1>4, <1>5, <1>6, <1>7, <1>8, <1>9, <1>10, <1>11, <1>12, <1>13, <1>14, <1>15

LEMMA MakesNamed ==
  /\ \A x \in CallIds : StopCallStep(x) \in Step /\ DeleteDialogStep(x) \in Step
  /\ \A x \in CallIds, b \in BOOLEAN : DeleteStep(x, b) \in Step
  /\ \A r, s \in CallIds, p \in Int, b \in BOOLEAN : InsertStep(r, s, p, b) \in Step
  BY Makes DEF StopCallStep, DeleteDialogStep, DeleteStep, InsertStep, CallKinds

LEMMA MakesRedial ==
  ASSUME NEW s \in ReferStep
  PROVE  /\ [s EXCEPT !.do = "Redial"] \in Step
         /\ [s EXCEPT !.do = "Redial"].do = "Redial" /\ [s EXCEPT !.do = "Redial"].peer = s.peer
  <1>1. [s EXCEPT !.do = "Redial"] \in ReferStep
    BY DEF ReferStep
  <1>2. [s EXCEPT !.do = "Redial"].do = "Redial" /\ [s EXCEPT !.do = "Redial"].peer = s.peer
    BY DEF ReferStep
  <1> QED
    BY <1>1, <1>2 DEF Step

-----------------------------------------------------------------------------
(* The dialogs.  One that was given away stays so, one that was started or *)
(* is over stays so, and one a pick-up cannot accept never can be.         *)
Dialogs == Dialog \cup {None, Over}
Acc(d) == d \notin {None, Over} /\ ~d.start /\ d.invite
Gone(d) == d = Over \/ (d \notin {None, Over} /\ d.start)
Waiting(d) == d = Over \/ (d \notin {None, Over} /\ ~d.start /\ ~d.sent)
Grows(d, v) ==
  /\ d # None => v # None
  /\ d # None /\ ~Acc(d) => ~Acc(v)
  /\ Gone(d) => Gone(v)
Advances(D, E) ==
  /\ E \in [CallIds -> Dialogs] /\ E[NoCall] = None
  /\ \A x \in CallIds : Grows(D[x], E[x])

LEMMA Distinct == None # Over /\ None \notin Dialog /\ Over \notin Dialog /\ None \notin CallInfo
  BY DEF None, Over, Dialog, CallInfo

LEMMA NewDialogs ==
  /\ Unconnected \in Dialog /\ ~Unconnected.start /\ ~Unconnected.sent /\ ~Unconnected.invite
  /\ [Unconnected EXCEPT !.sent = TRUE] \in Dialog
  /\ [Unconnected EXCEPT !.invite = TRUE] \in Dialog
  /\ ~[Unconnected EXCEPT !.invite = TRUE].start /\ ~[Unconnected EXCEPT !.invite = TRUE].sent
  BY DEF Unconnected, Dialog

Begun(d) == [d EXCEPT !.start = TRUE]
Taken(d) == [d EXCEPT !.start = TRUE, !.invite = FALSE]
Ended(d) == [d EXCEPT !.end = TRUE]
Cancelled(d) == [d EXCEPT !.cancel = TRUE]
Sent(d) == [d EXCEPT !.sent = TRUE]

LEMMA StartUpdate ==
  ASSUME NEW d \in Dialog
  PROVE  Begun(d) \in Dialog /\ Begun(d).start
  BY DEF Dialog, Begun

LEMMA AcceptUpdate ==
  ASSUME NEW d \in Dialog
  PROVE  Taken(d) \in Dialog /\ Taken(d).start
  BY DEF Dialog, Taken

LEMMA EndUpdate ==
  ASSUME NEW d \in Dialog
  PROVE  Ended(d) \in Dialog /\ Ended(d).start = d.start /\ Ended(d).invite = d.invite /\ Ended(d).sent = d.sent
  BY DEF Dialog, Ended

LEMMA CancelUpdate ==
  ASSUME NEW d \in Dialog
  PROVE  Cancelled(d) \in Dialog /\ Cancelled(d).start = d.start /\ Cancelled(d).invite = d.invite
         /\ Cancelled(d).sent = d.sent
  BY DEF Dialog, Cancelled

LEMMA SentUpdate ==
  ASSUME NEW d \in Dialog
  PROVE  Sent(d) \in Dialog /\ Sent(d).start = d.start /\ Sent(d).invite = d.invite
  BY DEF Dialog, Sent

LEMMA Split == ASSUME NEW d \in Dialogs PROVE d = None \/ d = Over \/ (d \in Dialog /\ d \notin {None, Over})
  BY Distinct DEF Dialogs

LEMMA StoppedGrows ==
  ASSUME NEW d \in Dialogs
  PROVE  /\ Stopped(d) \in Dialogs /\ Grows(d, Stopped(d)) /\ (d = None => Stopped(d) = None)
         /\ Waiting(d) => Waiting(Stopped(d))
  <1>1. CASE d \in {None, Over}
    BY <1>1, Distinct DEF Stopped, Dialogs, Grows
  <1>2. CASE d \in Dialog /\ d \notin {None, Over}
    <2>1. Stopped(d) \in {d, Over, Cancelled(d)}
      BY <1>2 DEF Stopped, Cancelled
    <2> DEFINE e == Cancelled(d)
    <2>2. e \in Dialog /\ e.start = d.start /\ e.invite = d.invite /\ e.sent = d.sent
      BY <1>2, CancelUpdate
    <2> HIDE DEF e
    <2>4. e \notin {None, Over}
      BY <2>2, Distinct
    <2>3. \A v \in {d, Over, e} : v \in Dialogs /\ Grows(d, v) /\ (Waiting(d) => Waiting(v))
      BY <1>2, <2>2, <2>4, Distinct DEF Dialogs, Grows, Acc, Gone, Waiting
    <2> QED
      BY <1>2, <2>1, <2>3 DEF e
  <1> QED
    BY <1>1, <1>2, Split

LEMMA Same == ASSUME NEW d PROVE Grows(d, d)
  BY DEF Grows

LEMMA AdvanceSame ==
  ASSUME Types, dialog' = dialog PROVE Advances(dialog, dialog')
  BY Same DEF Types, Advances, Dialogs

LEMMA AdvanceOne ==
  ASSUME Types, NEW z \in CallIds, NEW v \in Dialogs,
         Grows(dialog[z], v), z = NoCall => v = None, dialog' = [dialog EXCEPT ![z] = v]
  PROVE  /\ Advances(dialog, dialog')
         /\ dialog'[z] = v /\ \A x \in CallIds : x # z => dialog'[x] = dialog[x]
  <1>1. dialog \in [CallIds -> Dialogs] /\ dialog[NoCall] = None
    BY DEF Types, Dialogs
  <1>2. dialog'[z] = v /\ \A x \in CallIds : x # z => dialog'[x] = dialog[x]
    BY <1>1
  <1>3. dialog' \in [CallIds -> Dialogs]
    BY <1>1
  <1>4. dialog'[NoCall] = None
    BY <1>1, <1>2, Ids
  <1>5. \A x \in CallIds : Grows(dialog[x], dialog'[x])
    BY <1>2, Same
  <1> QED
    BY <1>2, <1>3, <1>4, <1>5 DEF Advances

LEMMA DialogOf ==
  ASSUME Types, NEW x \in CallIds
  PROVE  /\ dialog[x] \in Dialogs
         /\ Exists(x) => dialog[x] \in Dialog /\ x # NoCall /\ x \in Calls
  BY Distinct DEF Types, Exists, Dialogs, CallIds

-----------------------------------------------------------------------------
(* The maps of entries. *)
Maps == [CallIds -> CallInfo \cup {None}]

LEMMA Infos ==
  /\ \A r \in CallIds, p \in Int : [peer |-> r, recv |-> TRUE, port |-> p] \in CallInfo
       /\ [peer |-> r, recv |-> FALSE, port |-> p + 2] \in CallInfo
  /\ \A i \in CallInfo : i.peer \in CallIds /\ i.recv \in BOOLEAN /\ i.port \in Int /\ i # None
  /\ \A i \in CallInfo, x \in CallIds : [i EXCEPT !.peer = x] \in CallInfo
  BY Distinct DEF CallInfo

LEMMA InsertedMap ==
  ASSUME NEW m \in Maps, NEW r \in CallIds, NEW s \in CallIds, NEW p \in Int
  PROVE  /\ Inserted(m, r, s, p) \in Maps
         /\ \A z \in CallIds : z \notin {r, s} \/ m[z] # None => Inserted(m, r, s, p)[z] = m[z]
         /\ m[r] = None => Inserted(m, r, s, p)[r] = [peer |-> s, recv |-> TRUE, port |-> p]
         /\ m[s] = None /\ r # s => Inserted(m, r, s, p)[s] = [peer |-> r, recv |-> FALSE, port |-> p + 2]
  <1> DEFINE i == [peer |-> s, recv |-> TRUE, port |-> p]
             j == [peer |-> r, recv |-> FALSE, port |-> p + 2]
             w == IF m[r] # None THEN m ELSE [m EXCEPT ![r] = i]
  <1>1. i \in CallInfo /\ j \in CallInfo /\ i # None
    BY Infos
  <1>2. Inserted(m, r, s, p) = IF w[s] # None THEN w ELSE [w EXCEPT ![s] = j]
    <2>1. CASE m[r] # None
      BY <2>1 DEF Inserted
    <2>2. CASE m[r] = None
      BY <2>2 DEF Inserted
    <2> QED
      BY <2>1, <2>2
  <1> HIDE DEF i, j
  <1>3. w \in Maps /\ (\A z \in CallIds : z # r \/ m[z] # None => w[z] = m[z]) /\ (m[r] = None => w[r] = i)
    BY <1>1 DEF Maps
  <1> HIDE DEF w
  <1>4. Inserted(m, r, s, p) \in Maps
    BY <1>1, <1>2, <1>3 DEF Maps
  <1>5. \A z \in CallIds : z # s \/ w[z] # None => Inserted(m, r, s, p)[z] = w[z]
    BY <1>2, <1>3 DEF Maps
  <1>6. w[s] = None => Inserted(m, r, s, p)[s] = j
    BY <1>2, <1>3 DEF Maps
  <1>7. \A z \in CallIds : z \notin {r, s} \/ m[z] # None => Inserted(m, r, s, p)[z] = m[z]
    BY <1>3, <1>5
  <1>8. m[r] = None => Inserted(m, r, s, p)[r] = i
    BY <1>1, <1>3, <1>5
  <1>9. m[s] = None /\ r # s => Inserted(m, r, s, p)[s] = j
    BY <1>3, <1>6
  <1> QED
    BY <1>4, <1>7, <1>8, <1>9 DEF i, j

LEMMA ErasedMap ==
  ASSUME NEW m \in Maps, NEW x \in CallIds
  PROVE  /\ Erased(m, x) \in Maps
         /\ m[x] = None => Erased(m, x) = m
         /\ m[x] # None => m[x].peer \in CallIds /\ Erased(m, x)[x] = None /\ Erased(m, x)[m[x].peer] = None
         /\ \A z \in CallIds : z # x /\ ~To(m, x, z) => Erased(m, x)[z] = m[z]
         /\ ErasedPort(m, x) \in Int
  <1>1. CASE m[x] = None
    BY <1>1, Ids DEF Erased, ErasedPort, To
  <1>2. CASE m[x] # None
    <2>1. m[x] \in CallInfo /\ m[x].peer \in CallIds /\ m[x].port \in Int
      BY <1>2, Infos DEF Maps
    <2> DEFINE y == m[x].peer
    <2>2. Erased(m, x) = [m EXCEPT ![x] = None, ![y] = None]
      BY <1>2 DEF Erased
    <2>3. y \in CallIds /\ \A z \in CallIds : To(m, x, z) <=> z = y
      BY <1>2, <2>1 DEF To
    <2>4. ErasedPort(m, x) \in {m[y].port, m[x].port, NoPort} /\ (ErasedPort(m, x) = m[y].port => m[y] # None \/ m[y].port \in Int)
      BY <1>2, <2>1, Ids DEF ErasedPort
    <2>5. m[y] # None => m[y].port \in Int
      BY <2>3, Infos DEF Maps
    <2>6. ErasedPort(m, x) \in Int
      BY <2>1, <2>4, <2>5, Ids
    <2> HIDE DEF y
    <2>7. Erased(m, x) \in Maps /\ Erased(m, x)[x] = None /\ Erased(m, x)[y] = None
          /\ \A z \in CallIds : z # x /\ z # y => Erased(m, x)[z] = m[z]
      BY <2>2, <2>3 DEF Maps
    <2> QED
      BY <1>2, <2>1, <2>3, <2>6, <2>7 DEF y
  <1> QED
    BY <1>1, <1>2

LEMMA SetMap ==
  ASSUME NEW m \in Maps, NEW x \in CallIds, NEW i \in CallInfo \cup {None}
  PROVE  [m EXCEPT ![x] = i] \in Maps /\ [m EXCEPT ![x] = i][x] = i
         /\ \A z \in CallIds : z # x => [m EXCEPT ![x] = i][z] = m[z]
  BY DEF Maps

-----------------------------------------------------------------------------
(* What the actions make of the dialogs. *)

LEMMA HeadOf ==
  ASSUME Types, NEW t \in Threads, NEW k, Doing(t, k)
  PROVE  /\ todo[t] \in Seq(Step) /\ todo[t] # <<>>
         /\ Now(t) \in Step /\ Now(t).do = k /\ Now(t) = todo[t][1] /\ Head(todo[t]) = Now(t)
  <1>1. todo[t] \in Seq(Step) /\ todo[t] # <<>>
    BY DEF Types, Doing, Idle
  <1>2. Head(todo[t]) = todo[t][1] /\ todo[t][1] \in Step
    BY <1>1, First
  <1> QED
    BY <1>1, <1>2 DEF Doing, Now

LEMMA CallOf ==
  ASSUME Types, NEW t \in Threads, NEW k \in CallKinds, Doing(t, k)
  PROVE  Now(t).call \in CallIds
  BY HeadOf, KindOf, Fields

LEMMA StopCallDialog ==
  ASSUME Types, NEW t \in Threads, StopCall(t)
  PROVE  /\ Advances(dialog, dialog')
         /\ \A x \in CallIds : Waiting(dialog[x]) => Waiting(dialog'[x])
  <1> DEFINE z == Now(t).call
  <1>1. z \in CallIds
    BY CallOf DEF StopCall, CallKinds
  <1>2. dialog[z] \in Dialogs /\ dialog[NoCall] = None
    BY <1>1, DialogOf DEF Types
  <1>3. /\ Stopped(dialog[z]) \in Dialogs /\ Grows(dialog[z], Stopped(dialog[z]))
        /\ dialog[z] = None => Stopped(dialog[z]) = None
        /\ Waiting(dialog[z]) => Waiting(Stopped(dialog[z]))
    BY <1>2, StoppedGrows
  <1>4. dialog' = [dialog EXCEPT ![z] = Stopped(dialog[z])]
    BY DEF StopCall
  <1> HIDE DEF z
  <1>5. /\ Advances(dialog, dialog')
        /\ dialog'[z] = Stopped(dialog[z]) /\ \A x \in CallIds : x # z => dialog'[x] = dialog[x]
    BY <1>1, <1>2, <1>3, <1>4, AdvanceOne
  <1> QED
    BY <1>3, <1>5

LEMMA OverGrows ==
  ASSUME NEW d \in Dialog PROVE Over \in Dialogs /\ Grows(d, Over) /\ Waiting(Over)
  BY Distinct DEF Dialogs, Grows, Acc, Gone, Waiting

LEMMA NoneGrows == ASSUME NEW v \in Dialogs, v # None PROVE Grows(None, v)
  BY Distinct DEF Grows, Gone

LEMMA DeleteDialogDialog ==
  ASSUME Types, NEW t \in Threads, DeleteDialog(t)
  PROVE  /\ Advances(dialog, dialog')
         /\ \A x \in CallIds : Waiting(dialog[x]) => Waiting(dialog'[x])
  <1> DEFINE z == Now(t).call
             v == IF Exists(z) THEN Over ELSE dialog[z]
  <1>1. z \in CallIds
    BY CallOf DEF DeleteDialog, CallKinds
  <1>2. dialog[z] \in Dialogs /\ dialog[NoCall] = None /\ (Exists(z) => dialog[z] \in Dialog /\ z # NoCall)
    BY <1>1, DialogOf DEF Types
  <1>3. dialog' = [dialog EXCEPT ![z] = v]
    BY DEF DeleteDialog
  <1>4. v \in Dialogs /\ Grows(dialog[z], v) /\ (z = NoCall => v = None) /\ (Waiting(dialog[z]) => Waiting(v))
    BY <1>2, OverGrows, Same
  <1> HIDE DEF z, v
  <1>5. /\ Advances(dialog, dialog')
        /\ dialog'[z] = v /\ \A x \in CallIds : x # z => dialog'[x] = dialog[x]
    BY <1>1, <1>2, <1>3, <1>4, AdvanceOne
  <1> QED
    BY <1>4, <1>5

LEMMA StartGrows ==
  ASSUME NEW d \in Dialog
  PROVE  /\ Grows(d, Begun(d)) /\ Grows(d, Taken(d)) /\ ~Acc(Taken(d))
         /\ Grows(d, Ended(d)) /\ Grows(d, Sent(d))
         /\ (Waiting(d) => Waiting(Ended(d)))
  <1>1. \A v \in Dialog : v.start => Grows(d, v) /\ ~Acc(v)
    BY Distinct DEF Grows, Acc, Gone
  <1>2. \A v \in Dialog : v.start = d.start /\ v.invite = d.invite => Grows(d, v)
    BY Distinct DEF Grows, Acc, Gone
  <1>3. \A v \in Dialog : v.start = d.start /\ v.sent = d.sent => (Waiting(d) => Waiting(v))
    BY Distinct DEF Waiting
  <1>4. Grows(d, Begun(d))
    BY <1>1, StartUpdate
  <1>5. Grows(d, Taken(d)) /\ ~Acc(Taken(d))
    BY <1>1, AcceptUpdate
  <1>6. Grows(d, Ended(d)) /\ (Waiting(d) => Waiting(Ended(d)))
    BY <1>2, <1>3, EndUpdate
  <1>7. Grows(d, Sent(d))
    BY <1>2, SentUpdate
  <1> QED
    BY <1>4, <1>5, <1>6, <1>7

LEMMA AcceptCallDialog ==
  ASSUME Types, NEW t \in Threads, AcceptCall(t)
  PROVE  /\ Advances(dialog, dialog') /\ Now(t).call \in CallIds
         /\ \A x \in CallIds : x # Now(t).call => dialog'[x] = dialog[x]
  <1> DEFINE z == Now(t).call
             w == Taken(dialog[z])
             v == IF Acceptable(z) THEN w ELSE dialog[z]
  <1>1. z \in CallIds
    BY CallOf DEF AcceptCall, CallKinds
  <1>2. dialog[z] \in Dialogs /\ dialog[NoCall] = None /\ (Exists(z) => dialog[z] \in Dialog /\ z # NoCall)
    BY <1>1, DialogOf DEF Types
  <1>3. dialog' = [dialog EXCEPT ![z] = v]
    BY DEF AcceptCall, Taken
  <1>4. dialog[z] \in Dialog => w \in Dialog /\ Grows(dialog[z], w)
    BY StartGrows, AcceptUpdate
  <1> HIDE DEF z, w
  <1>5. v \in Dialogs /\ Grows(dialog[z], v) /\ (z = NoCall => v = None)
    BY <1>2, <1>4, Same DEF Acceptable, Dialogs
  <1> HIDE DEF v
  <1>6. /\ Advances(dialog, dialog')
        /\ dialog'[z] = v /\ \A x \in CallIds : x # z => dialog'[x] = dialog[x]
    BY <1>1, <1>2, <1>3, <1>5, AdvanceOne
  <1> QED
    BY <1>1, <1>6 DEF z

LEMMA RecvInviteDialog ==
  ASSUME Types, NEW t \in Threads, NEW c \in Calls, RecvInvite(t, c)
  PROVE  /\ Advances(dialog, dialog') /\ dialog[c] = None /\ dialog'[c] # None
         /\ Waiting(dialog'[c])
         /\ \A x \in CallIds : x # c => dialog'[x] = dialog[x]
  <1> DEFINE v == [Unconnected EXCEPT !.invite = TRUE]
  <1>1. v \in Dialog /\ ~v.start /\ ~v.sent /\ v # None /\ v # Over
    BY NewDialogs, Distinct
  <1>2. dialog' = [dialog EXCEPT ![c] = v] /\ dialog[c] = None
    BY DEF RecvInvite
  <1> HIDE DEF v
  <1>3. v \in Dialogs /\ Grows(None, v) /\ c \in CallIds /\ c # NoCall /\ Waiting(v)
    BY <1>1, NoneGrows, Ids DEF Dialogs, Waiting
  <1>4. /\ Advances(dialog, dialog')
        /\ dialog'[c] = v /\ \A x \in CallIds : x # c => dialog'[x] = dialog[x]
    BY <1>1, <1>2, <1>3, AdvanceOne
  <1> QED
    BY <1>1, <1>2, <1>3, <1>4

LEMMA FreshIs == ASSUME Types, NEW d \in Fresh PROVE d \in Calls /\ d \in CallIds /\ d # NoCall /\ dialog[d] = None
  <1>1. scenario.outgoing \subseteq Outgoing
    BY CallAssumption DEF Types
  <1> QED
    BY <1>1, Ids DEF Fresh

(* A new dialog, the others staying as they are. *)
LEMMA NewDialog ==
  ASSUME Types, NEW d \in Fresh, NEW v \in Dialog, dialog' = [dialog EXCEPT ![d] = v]
  PROVE  /\ Advances(dialog, dialog') /\ dialog[d] = None /\ dialog'[d] = v /\ v # None /\ v # Over
         /\ \A x \in CallIds : x # d => dialog'[x] = dialog[x]
  <1>1. d \in CallIds /\ d # NoCall /\ dialog[d] = None /\ v # None /\ v # Over /\ v \in Dialogs
    BY FreshIs, Distinct DEF Dialogs
  <1>2. Grows(dialog[d], v)
    BY <1>1, NoneGrows
  <1> QED
    BY <1>1, <1>2, AdvanceOne

LEMMA StartCallDialog ==
  ASSUME Types, NEW t \in Threads, StartCall(t)
  PROVE  /\ Advances(dialog, dialog') /\ Now(t).invite \in CallIds
         /\ \A x \in CallIds : x # Now(t).invite => dialog'[x] = dialog[x]
  <1> DEFINE z == Now(t).invite
             w == Sent(dialog[z])
             v == IF Exists(z) THEN w ELSE dialog[z]
  <1>1. z \in CallIds
    BY HeadOf, KindOf, Fields DEF StartCall
  <1>2. dialog[z] \in Dialogs /\ dialog[NoCall] = None /\ (Exists(z) => dialog[z] \in Dialog /\ z # NoCall)
    BY <1>1, DialogOf DEF Types
  <1>3. dialog' = [dialog EXCEPT ![z] = v]
    BY DEF StartCall, Sent
  <1>4. dialog[z] \in Dialog => w \in Dialog /\ Grows(dialog[z], w)
    BY StartGrows, SentUpdate
  <1> HIDE DEF z, w
  <1>5. v \in Dialogs /\ Grows(dialog[z], v) /\ (z = NoCall => v = None)
    BY <1>2, <1>4, Same DEF Dialogs
  <1> HIDE DEF v
  <1>6. /\ Advances(dialog, dialog')
        /\ dialog'[z] = v /\ \A x \in CallIds : x # z => dialog'[x] = dialog[x]
    BY <1>1, <1>2, <1>3, <1>5, AdvanceOne
  <1> QED
    BY <1>1, <1>6 DEF z

LEMMA RecvOkDialog ==
  ASSUME Types, NEW t \in Threads, NEW d \in Calls, RecvOk(t, d)
  PROVE  /\ Advances(dialog, dialog') /\ dialog[d] # None /\ dialog[d] # Over
         /\ ~dialog[d].start /\ dialog[d].sent /\ dialog'[d].start /\ dialog'[d] \notin {None, Over}
         /\ \A x \in CallIds : x # d => dialog'[x] = dialog[x]
  <1> DEFINE v == Begun(dialog[d])
  <1>1. d \in CallIds /\ d # NoCall /\ dialog[d] \in Dialog /\ dialog[d] # None /\ dialog[d] # Over
        /\ ~dialog[d].start /\ dialog[d].sent
    BY Ids, DialogOf DEF RecvOk, Awaited, Exists
  <1>2. dialog' = [dialog EXCEPT ![d] = v]
    BY DEF RecvOk, Begun
  <1>3. v \in Dialog /\ Grows(dialog[d], v) /\ v.start
    BY <1>1, StartUpdate, StartGrows
  <1> HIDE DEF v
  <1>4. v \in Dialogs /\ v \notin {None, Over}
    BY <1>3, Distinct DEF Dialogs
  <1>5. /\ Advances(dialog, dialog')
        /\ dialog'[d] = v /\ \A x \in CallIds : x # d => dialog'[x] = dialog[x]
    BY <1>1, <1>2, <1>3, <1>4, AdvanceOne
  <1> QED
    BY <1>1, <1>3, <1>4, <1>5

LEMMA EndDialog ==
  ASSUME Types, NEW t \in Threads, NEW x \in Calls, Exists(x), End(t, x)
  PROVE  /\ Advances(dialog, dialog')
         /\ \A y \in CallIds : Waiting(dialog[y]) => Waiting(dialog'[y])
  <1> DEFINE v == Ended(dialog[x])
  <1>1. x \in CallIds /\ x # NoCall /\ dialog[x] \in Dialog
    BY Ids, DialogOf
  <1>2. dialog' = [dialog EXCEPT ![x] = v]
    BY DEF End, Ended
  <1>3. v \in Dialog /\ Grows(dialog[x], v) /\ (Waiting(dialog[x]) => Waiting(v))
    BY <1>1, EndUpdate, StartGrows
  <1> HIDE DEF v
  <1>4. v \in Dialogs
    BY <1>3 DEF Dialogs
  <1>5. /\ Advances(dialog, dialog')
        /\ dialog'[x] = v /\ \A y \in CallIds : x # y => dialog'[y] = dialog[y]
    BY <1>1, <1>2, <1>3, <1>4, AdvanceOne
  <1> QED
    BY <1>3, <1>5

LEMMA AcceptCallerDialog ==
  ASSUME Types, NEW t \in Threads, AcceptCaller(t)
  PROVE  /\ Advances(dialog, dialog') /\ Now(t).caller \in CallIds
         /\ Acc(dialog[Now(t).caller]) /\ ~Acc(dialog'[Now(t).caller]) /\ dialog[Now(t).caller] # None
         /\ \A x \in CallIds : x # Now(t).caller => dialog'[x] = dialog[x]
  <1> DEFINE z == Now(t).caller
             v == Taken(dialog[z])
  <1>1. z \in CallIds
    BY HeadOf, KindOf, Fields DEF AcceptCaller
  <1>2. dialog[z] \in Dialog /\ z # NoCall /\ Acc(dialog[z]) /\ dialog[z] # None
    BY <1>1, DialogOf DEF AcceptCaller, Acceptable, Exists, Acc
  <1>3. dialog \in [CallIds -> Dialogs]
    BY DEF Types, Dialogs
  <1>4. dialog' = [dialog EXCEPT ![z].start = TRUE, ![z].invite = FALSE]
    BY DEF AcceptCaller
  <1>5. dialog' = [dialog EXCEPT ![z] = v]
    BY <1>1, <1>3, <1>4 DEF Taken
  <1>6. v \in Dialog /\ Grows(dialog[z], v) /\ ~Acc(v)
    BY <1>2, AcceptUpdate, StartGrows
  <1> HIDE DEF v, z
  <1>7. v \in Dialogs
    BY <1>6 DEF Dialogs
  <1>8. /\ Advances(dialog, dialog')
        /\ dialog'[z] = v /\ \A x \in CallIds : x # z => dialog'[x] = dialog[x]
    BY <1>1, <1>2, <1>5, <1>6, <1>7, AdvanceOne
  <1> QED
    BY <1>1, <1>2, <1>6, <1>8 DEF z

LEMMA StartCallFailsDialog ==
  ASSUME Types, NEW t \in Threads, StartCallFails(t)
  PROVE  /\ Advances(dialog, dialog')
         /\ \A x \in CallIds : Waiting(dialog[x]) => Waiting(dialog'[x])
  <1> DEFINE z == Now(t).invite
             v == IF Exists(z) THEN Over ELSE dialog[z]
  <1>1. z \in CallIds
    BY HeadOf, KindOf, Fields DEF StartCallFails
  <1>2. dialog[z] \in Dialogs /\ dialog[NoCall] = None /\ (Exists(z) => dialog[z] \in Dialog /\ z # NoCall)
    BY <1>1, DialogOf DEF Types
  <1>3. dialog' = [dialog EXCEPT ![z] = v]
    BY DEF StartCallFails
  <1>4. v \in Dialogs /\ Grows(dialog[z], v) /\ (z = NoCall => v = None) /\ (Waiting(dialog[z]) => Waiting(v))
    BY <1>2, OverGrows, Same
  <1> HIDE DEF z, v
  <1>5. /\ Advances(dialog, dialog')
        /\ dialog'[z] = v /\ \A x \in CallIds : x # z => dialog'[x] = dialog[x]
    BY <1>1, <1>2, <1>3, <1>4, AdvanceOne
  <1> QED
    BY <1>4, <1>5

(* A new dialog, while another one is stopped. *)
LEMMA RedialDialog ==
  ASSUME Types, NEW d \in Fresh, NEW v \in Dialog, NEW z,
         dialog' = [x \in CallIds |-> IF x = d THEN v ELSE IF x = z THEN Stopped(dialog[x]) ELSE dialog[x]]
  PROVE  /\ Advances(dialog, dialog') /\ dialog[d] = None /\ dialog'[d] # None
         /\ \A x \in CallIds : x # d /\ Waiting(dialog[x]) => Waiting(dialog'[x])
  <1>1. dialog \in [CallIds -> Dialogs] /\ dialog[NoCall] = None
    BY DEF Types, Dialogs
  <1>2. d \in CallIds /\ d # NoCall /\ dialog[d] = None /\ v # None /\ v \in Dialogs
    BY FreshIs, Distinct DEF Dialogs
  <1>3. \A x \in CallIds : /\ Stopped(dialog[x]) \in Dialogs /\ Grows(dialog[x], Stopped(dialog[x]))
                           /\ (dialog[x] = None => Stopped(dialog[x]) = None)
                           /\ (Waiting(dialog[x]) => Waiting(Stopped(dialog[x])))
    BY <1>1, StoppedGrows
  <1>4. dialog' \in [CallIds -> Dialogs]
    BY <1>1, <1>2, <1>3
  <1>5. dialog'[d] = v /\ \A x \in CallIds : x # d => dialog'[x] \in {dialog[x], Stopped(dialog[x])}
    BY <1>2
  <1>6. \A x \in CallIds : Grows(dialog[x], dialog'[x])
    BY <1>2, <1>3, <1>5, NoneGrows, Same
  <1>7. dialog'[NoCall] = None
    BY <1>1, <1>2, <1>3, <1>5, Ids
  <1>8. \A x \in CallIds : x # d /\ Waiting(dialog[x]) => Waiting(dialog'[x])
    BY <1>3, <1>5
  <1> QED
    BY <1>2, <1>4, <1>5, <1>6, <1>7, <1>8 DEF Advances

LEMMA RedialFailsDialog ==
  ASSUME Types, NEW z \in CallIds, dialog' = [dialog EXCEPT ![z] = Stopped(@)]
  PROVE  /\ Advances(dialog, dialog')
         /\ \A x \in CallIds : Waiting(dialog[x]) => Waiting(dialog'[x])
  <1>1. dialog[z] \in Dialogs /\ dialog[NoCall] = None
    BY DialogOf DEF Types
  <1>2. /\ Stopped(dialog[z]) \in Dialogs /\ Grows(dialog[z], Stopped(dialog[z]))
        /\ dialog[z] = None => Stopped(dialog[z]) = None
        /\ Waiting(dialog[z]) => Waiting(Stopped(dialog[z]))
    BY <1>1, StoppedGrows
  <1>3. /\ Advances(dialog, dialog')
        /\ dialog'[z] = Stopped(dialog[z]) /\ \A x \in CallIds : x # z => dialog'[x] = dialog[x]
    BY <1>1, <1>2, AdvanceOne
  <1> QED
    BY <1>2, <1>3

-----------------------------------------------------------------------------
(* Every variable keeps its type. *)
Lists == [Threads -> Seq(Step)]
PortMap == [Ports -> {"free", "used", "stopping"}]
Data ==
  /\ dialog \in [CallIds -> Dialogs] /\ dialog[NoCall] = None
  /\ calls \in Maps /\ trans \in Maps
  /\ ports \in PortMap /\ todo \in Lists
  /\ astray \subseteq CallIds /\ forgotten \subseteq Ports

LEMMA DataOf == ASSUME Types PROVE Data
  BY DEF Types, Data, Dialogs, Maps, Lists, PortMap

LEMMA ThenType ==
  ASSUME Types, NEW t \in Threads, todo[t] # <<>>, NEW r \in Seq(Step), Then(t, r)
  PROVE  /\ todo' \in Lists /\ todo'[t] = r \o Tail(todo[t])
         /\ \A u \in Threads : u # t => todo'[u] = todo[u]
  <1>1. todo \in Lists
    BY DEF Types, Lists
  <1>2. todo[t] \in Seq(Step) /\ Tail(todo[t]) \in Seq(Step)
    BY <1>1, First DEF Lists
  <1>3. r \o Tail(todo[t]) \in Seq(Step)
    BY <1>2, ConcatProperties
  <1>4. todo' = [todo EXCEPT ![t] = r \o Tail(todo[t])]
    BY DEF Then
  <1> QED
    BY <1>1, <1>3, <1>4 DEF Lists

LEMMA StartType ==
  ASSUME Types, NEW t \in Threads, NEW r \in Seq(Step), Start(t, r)
  PROVE  /\ todo' \in Lists /\ todo'[t] = r
         /\ \A u \in Threads : u # t => todo'[u] = todo[u]
  BY DEF Types, Lists, Start

(* Types after a step, from those of what the step changes. *)
LEMMA DataStep ==
  ASSUME Types, Advances(dialog, dialog'), todo' \in Lists,
         UNCHANGED <<calls, trans, ports, astray, forgotten>>
  PROVE  Data'
  BY DataOf DEF Data, Advances

LEMMA DataFrom ==
  ASSUME Types, Advances(dialog, dialog'), todo' \in Lists, calls' \in Maps, trans' \in Maps,
         ports' \in PortMap, astray' \subseteq CallIds, forgotten' \subseteq Ports
  PROVE  Data'
  BY DEF Data, Advances

LEMMA PeerOf ==
  ASSUME Types, NEW x \in CallIds
  PROVE  /\ calls[x] # None => calls[x] \in CallInfo /\ calls[x].peer \in CallIds /\ calls[x].port \in Int
                               /\ calls[x].recv \in BOOLEAN
         /\ trans[x] # None => trans[x] \in CallInfo /\ trans[x].peer \in CallIds /\ trans[x].port \in Int
                               /\ trans[x].port - 2 \in Int
  BY Infos, DataOf DEF Data, Maps

LEMMA UsePort ==
  ASSUME Types, NEW p \in Ports PROVE [ports EXCEPT ![p] = "used"] \in PortMap
  BY DEF Types, PortMap

LEMMA StopCallType == ASSUME Types, NEW t \in Threads, StopCall(t) PROVE Data'
  <1>1. todo[t] # <<>> /\ Now(t) \in Step /\ Now(t).do = "StopCall"
    BY HeadOf DEF StopCall
  <1>2. Advances(dialog, dialog')
    BY StopCallDialog
  <1>10. todo' \in Lists
    <2>1. <<>> \in Seq(Step)
      BY EmptySeq
    <2>2. Then(t, <<>>)
      BY DEF StopCall
    <2> QED
      BY <1>1, <2>1, <2>2, ThenType
  <1> QED
    BY <1>2, <1>10, DataOf, DataFrom DEF StopCall, Data

LEMMA DeleteDialogType == ASSUME Types, NEW t \in Threads, DeleteDialog(t) PROVE Data'
  <1>1. todo[t] # <<>> /\ Now(t) \in Step /\ Now(t).do = "DeleteDialog"
    BY HeadOf DEF DeleteDialog
  <1>2. Advances(dialog, dialog')
    BY DeleteDialogDialog
  <1>10. todo' \in Lists
    <2>1. <<>> \in Seq(Step)
      BY EmptySeq
    <2>2. Then(t, <<>>)
      BY DEF DeleteDialog
    <2> QED
      BY <1>1, <2>1, <2>2, ThenType
  <1> QED
    BY <1>2, <1>10, DataOf, DataFrom DEF DeleteDialog, Data

LEMMA AcceptCallType == ASSUME Types, NEW t \in Threads, AcceptCall(t) PROVE Data'
  <1>1. todo[t] # <<>> /\ Now(t) \in Step /\ Now(t).do = "AcceptCall"
    BY HeadOf DEF AcceptCall
  <1>2. Advances(dialog, dialog')
    BY AcceptCallDialog
  <1>10. todo' \in Lists
    <2>1. <<>> \in Seq(Step)
      BY EmptySeq
    <2>2. Then(t, <<>>)
      BY DEF AcceptCall
    <2> QED
      BY <1>1, <2>1, <2>2, ThenType
  <1> QED
    BY <1>2, <1>10, DataOf, DataFrom DEF AcceptCall, Data

LEMMA InsertCallsType == ASSUME Types, NEW t \in Threads, InsertCalls(t) PROVE Data'
  <1>1. todo[t] # <<>> /\ Now(t) \in Step /\ Now(t).do = "Insert"
    BY HeadOf DEF InsertCalls
  <1>2. Advances(dialog, dialog')
    BY AdvanceSame DEF InsertCalls
  <1>3. calls' \in Maps
    <2>1. Now(t).recv \in CallIds /\ Now(t).send \in CallIds /\ Now(t).port \in Int
      BY <1>1, KindOf, Fields
    <2> QED
      BY <2>1, DataOf, InsertedMap DEF InsertCalls, Data
  <1>10. todo' \in Lists
    <2>1. <<>> \in Seq(Step)
      BY EmptySeq
    <2>2. Then(t, <<>>)
      BY DEF InsertCalls
    <2> QED
      BY <1>1, <2>1, <2>2, ThenType
  <1> QED
    BY <1>2, <1>10, DataOf, DataFrom, <1>3 DEF InsertCalls, Data

LEMMA InsertTransType == ASSUME Types, NEW t \in Threads, InsertTrans(t) PROVE Data'
  <1>1. todo[t] # <<>> /\ Now(t) \in Step /\ Now(t).do = "InsertTrans"
    BY HeadOf DEF InsertTrans
  <1>2. Advances(dialog, dialog')
    BY AdvanceSame DEF InsertTrans
  <1>3. trans' \in Maps
    <2>1. Now(t).recv \in CallIds /\ Now(t).send \in CallIds /\ Now(t).port \in Int
      BY <1>1, KindOf, Fields
    <2> QED
      BY <2>1, DataOf, InsertedMap DEF InsertTrans, Data
  <1>10. todo' \in Lists
    <2>1. <<>> \in Seq(Step)
      BY EmptySeq
    <2>2. Then(t, <<>>)
      BY DEF InsertTrans
    <2> QED
      BY <1>1, <2>1, <2>2, ThenType
  <1> QED
    BY <1>2, <1>10, DataOf, DataFrom, <1>3 DEF InsertTrans, Data

LEMMA DeleteCallsType == ASSUME Types, NEW t \in Threads, DeleteCalls(t) PROVE Data'
  <1>1. todo[t] # <<>> /\ Now(t) \in Step /\ Now(t).do = "Delete"
    BY HeadOf DEF DeleteCalls
  <1>2. Advances(dialog, dialog')
    BY AdvanceSame DEF DeleteCalls
  <1>3. calls' \in Maps /\ ErasedPort(calls, Now(t).call) \in Int
    <2>1. Now(t).call \in CallIds
      BY <1>1, KindOf, Fields
    <2> QED
      BY <2>1, DataOf, ErasedMap DEF DeleteCalls, Data
  <1>10. ASSUME Now(t).stop /\ ErasedPort(calls, Now(t).call) # NoPort PROVE todo' \in Lists
    <2>1. <<[do |-> "SetStop", port |-> ErasedPort(calls, Now(t).call)]>> \in Seq(Step)
      <3>1. [do |-> "SetStop", port |-> ErasedPort(calls, Now(t).call)] \in Step
        BY <1>1, <1>10, <1>3, Makes, MakesNamed
      <3> QED
        BY <3>1, Literals
    <2>2. Then(t, <<[do |-> "SetStop", port |-> ErasedPort(calls, Now(t).call)]>>)
      BY <1>10 DEF DeleteCalls
    <2> QED
      BY <1>1, <2>1, <2>2, ThenType
  <1>11. ASSUME ~(Now(t).stop /\ ErasedPort(calls, Now(t).call) # NoPort) PROVE todo' \in Lists
    <2>1. <<>> \in Seq(Step)
      BY EmptySeq
    <2>2. Then(t, <<>>)
      BY <1>11 DEF DeleteCalls
    <2> QED
      BY <1>1, <2>1, <2>2, ThenType
  <1>20. todo' \in Lists
    BY <1>10, <1>11
  <1> QED
    BY <1>2, <1>20, DataOf, DataFrom, <1>3 DEF DeleteCalls, Data

LEMMA DeleteTransType == ASSUME Types, NEW t \in Threads, DeleteTrans(t) PROVE Data'
  <1>1. todo[t] # <<>> /\ Now(t) \in Step /\ Now(t).do = "DeleteTrans"
    BY HeadOf DEF DeleteTrans
  <1>2. Advances(dialog, dialog')
    BY AdvanceSame DEF DeleteTrans
  <1>3. trans' \in Maps /\ ErasedPort(trans, Now(t).call) \in Int
    <2>1. Now(t).call \in CallIds
      BY <1>1, KindOf, Fields
    <2> QED
      BY <2>1, DataOf, ErasedMap DEF DeleteTrans, Data
  <1>10. ASSUME Now(t).stop /\ ErasedPort(trans, Now(t).call) # NoPort PROVE todo' \in Lists
    <2>1. <<[do |-> "SetStop", port |-> ErasedPort(trans, Now(t).call)]>> \in Seq(Step)
      <3>1. [do |-> "SetStop", port |-> ErasedPort(trans, Now(t).call)] \in Step
        BY <1>1, <1>10, <1>3, Makes, MakesNamed
      <3> QED
        BY <3>1, Literals
    <2>2. Then(t, <<[do |-> "SetStop", port |-> ErasedPort(trans, Now(t).call)]>>)
      BY <1>10 DEF DeleteTrans
    <2> QED
      BY <1>1, <2>1, <2>2, ThenType
  <1>11. ASSUME ~(Now(t).stop /\ ErasedPort(trans, Now(t).call) # NoPort) PROVE todo' \in Lists
    <2>1. <<>> \in Seq(Step)
      BY EmptySeq
    <2>2. Then(t, <<>>)
      BY <1>11 DEF DeleteTrans
    <2> QED
      BY <1>1, <2>1, <2>2, ThenType
  <1>20. todo' \in Lists
    BY <1>10, <1>11
  <1> QED
    BY <1>2, <1>20, DataOf, DataFrom, <1>3 DEF DeleteTrans, Data

LEMMA SetStopType == ASSUME Types, NEW t \in Threads, SetStop(t) PROVE Data'
  <1>1. todo[t] # <<>> /\ Now(t) \in Step /\ Now(t).do = "SetStop"
    BY HeadOf DEF SetStop
  <1>2. Advances(dialog, dialog')
    BY AdvanceSame DEF SetStop
  <1>3. ports' \in PortMap
    BY DataOf DEF SetStop, Data, PortMap
  <1>10. todo' \in Lists
    <2>1. <<>> \in Seq(Step)
      BY EmptySeq
    <2>2. Then(t, <<>>)
      BY DEF SetStop
    <2> QED
      BY <1>1, <2>1, <2>2, ThenType
  <1> QED
    BY <1>2, <1>10, DataOf, DataFrom, <1>3 DEF SetStop, Data

LEMMA RefuseType == ASSUME Types, NEW t \in Threads, Refuse(t) PROVE Data'
  <1>1. todo[t] # <<>> /\ Now(t) \in Step /\ Now(t).do = "EventIncomingCall"
    BY HeadOf DEF Refuse
  <1>2. Advances(dialog, dialog')
    BY AdvanceSame DEF Refuse
  <1>10. todo' \in Lists
    <2>1. <<StopCallStep(Now(t).call)>> \in Seq(Step)
      <3>1. StopCallStep(Now(t).call) \in Step
        BY <1>1, KindOf, Fields, Makes, MakesNamed DEF CallKinds
      <3> QED
        BY <3>1, Literals
    <2>2. Then(t, <<StopCallStep(Now(t).call)>>)
      BY DEF Refuse
    <2> QED
      BY <1>1, <2>1, <2>2, ThenType
  <1> QED
    BY <1>2, <1>10, DataOf, DataFrom DEF Refuse, Data

LEMMA CreateCallFailsType == ASSUME Types, NEW t \in Threads, CreateCallFails(t) PROVE Data'
  <1>1. todo[t] # <<>> /\ Now(t) \in Step /\ Now(t).do = "CreateCall"
    BY HeadOf DEF CreateCallFails
  <1>2. Advances(dialog, dialog')
    BY AdvanceSame DEF CreateCallFails
  <1>3. forgotten' \subseteq Ports
    BY <1>1, KindOf, Fields, DataOf DEF CreateCallFails, Data
  <1>10. todo' \in Lists
    <2>1. <<StopCallStep(Now(t).call)>> \in Seq(Step)
      <3>1. StopCallStep(Now(t).call) \in Step
        BY <1>1, KindOf, Fields, Makes, MakesNamed
      <3> QED
        BY <3>1, Literals
    <2>2. Then(t, <<StopCallStep(Now(t).call)>>)
      BY DEF CreateCallFails
    <2> QED
      BY <1>1, <2>1, <2>2, ThenType
  <1> QED
    BY <1>2, <1>10, DataOf, DataFrom, <1>3 DEF CreateCallFails, Data

LEMMA StartCallType == ASSUME Types, NEW t \in Threads, StartCall(t) PROVE Data'
  <1>1. todo[t] # <<>> /\ Now(t) \in Step /\ Now(t).do = "StartCall"
    BY HeadOf DEF StartCall
  <1>2. Advances(dialog, dialog')
    BY StartCallDialog
  <1>10. todo' \in Lists
    <2>1. <<>> \in Seq(Step)
      BY EmptySeq
    <2>2. Then(t, <<>>)
      BY DEF StartCall
    <2> QED
      BY <1>1, <2>1, <2>2, ThenType
  <1> QED
    BY <1>2, <1>10, DataOf, DataFrom DEF StartCall, Data

LEMMA StartCallFailsType == ASSUME Types, NEW t \in Threads, StartCallFails(t) PROVE Data'
  <1>1. todo[t] # <<>> /\ Now(t) \in Step /\ Now(t).do = "StartCall"
    BY HeadOf DEF StartCallFails
  <1>2. Advances(dialog, dialog')
    BY StartCallFailsDialog
  <1>10. todo' \in Lists
    <2>1. <<DeleteStep(Now(t).call, TRUE), StopCallStep(Now(t).call)>> \in Seq(Step)
      <3>1. DeleteStep(Now(t).call, TRUE) \in Step /\ StopCallStep(Now(t).call) \in Step
        BY <1>1, KindOf, Fields, Makes, MakesNamed
      <3> QED
        BY <3>1, Literals
    <2>2. Then(t, <<DeleteStep(Now(t).call, TRUE), StopCallStep(Now(t).call)>>)
      BY DEF StartCallFails
    <2> QED
      BY <1>1, <2>1, <2>2, ThenType
  <1> QED
    BY <1>2, <1>10, DataOf, DataFrom DEF StartCallFails, Data

LEMMA AcceptPeerType == ASSUME Types, NEW t \in Threads, AcceptPeer(t) PROVE Data'
  <1>1. todo[t] # <<>> /\ Now(t) \in Step /\ Now(t).do = "EventCallStart"
    BY HeadOf DEF AcceptPeer
  <1>2. Advances(dialog, dialog')
    BY AdvanceSame DEF AcceptPeer
  <1>4. Now(t).call \in CallIds
    BY <1>1, KindOf, Fields DEF CallKinds
  <1>3. calls[Now(t).call].peer \in CallIds
    BY <1>4, PeerOf DEF AcceptPeer
  <1>10. todo' \in Lists
    <2>1. <<[do |-> "AcceptCall", call |-> calls[Now(t).call].peer]>> \in Seq(Step)
      <3>1. [do |-> "AcceptCall", call |-> calls[Now(t).call].peer] \in Step
        BY <1>1, <1>3, Makes, MakesNamed DEF CallKinds
      <3> QED
        BY <3>1, Literals
    <2>2. Then(t, <<[do |-> "AcceptCall", call |-> calls[Now(t).call].peer]>>)
      BY DEF AcceptPeer
    <2> QED
      BY <1>1, <2>1, <2>2, ThenType
  <1> QED
    BY <1>2, <1>10, DataOf, DataFrom DEF AcceptPeer, Data

LEMMA SelectTransferorType == ASSUME Types, NEW t \in Threads, SelectTransferor(t) PROVE Data'
  <1>1. todo[t] # <<>> /\ Now(t) \in Step /\ Now(t).do = "EventCallStart"
    BY HeadOf DEF SelectTransferor
  <1>2. Advances(dialog, dialog')
    BY AdvanceSame DEF SelectTransferor
  <1>4. Now(t).call \in CallIds
    BY <1>1, KindOf, Fields DEF CallKinds
  <1>3. trans[Now(t).call].peer \in CallIds /\ trans[Now(t).call].port - 2 \in Int
    BY <1>4, PeerOf DEF SelectTransferor
  <1>10. todo' \in Lists
    <2>1. <<[do |-> "Transfer", call |-> Now(t).call, from |-> trans[Now(t).call].peer, port |-> trans[Now(t).call].port - 2]>> \in Seq(Step)
      <3>1. [do |-> "Transfer", call |-> Now(t).call, from |-> trans[Now(t).call].peer, port |-> trans[Now(t).call].port - 2] \in Step
        BY <1>1, <1>3, <1>4, Makes, MakesNamed
      <3> QED
        BY <3>1, Literals
    <2>2. Then(t, <<[do |-> "Transfer", call |-> Now(t).call, from |-> trans[Now(t).call].peer, port |-> trans[Now(t).call].port - 2]>>)
      BY DEF SelectTransferor
    <2> QED
      BY <1>1, <2>1, <2>2, ThenType
  <1> QED
    BY <1>2, <1>10, DataOf, DataFrom DEF SelectTransferor, Data

LEMMA UnwantedType == ASSUME Types, NEW t \in Threads, Unwanted(t) PROVE Data'
  <1>1. todo[t] # <<>> /\ Now(t) \in Step /\ Now(t).do = "EventCallStart"
    BY HeadOf DEF Unwanted
  <1>2. Advances(dialog, dialog')
    BY AdvanceSame DEF Unwanted
  <1>4. Now(t).call \in CallIds
    BY <1>1, KindOf, Fields DEF CallKinds
  <1>3. astray' \subseteq CallIds
    BY <1>4, DataOf, Ids DEF Unwanted, Data
  <1>10. todo' \in Lists
    <2>1. <<StopCallStep(Now(t).call)>> \in Seq(Step)
      <3>1. StopCallStep(Now(t).call) \in Step
        BY <1>1, <1>4, Makes, MakesNamed
      <3> QED
        BY <3>1, Literals
    <2>2. Then(t, <<StopCallStep(Now(t).call)>>)
      BY DEF Unwanted
    <2> QED
      BY <1>1, <2>1, <2>2, ThenType
  <1> QED
    BY <1>2, <1>10, DataOf, DataFrom, <1>3 DEF Unwanted, Data

LEMMA EndPeerType == ASSUME Types, NEW t \in Threads, EndPeer(t) PROVE Data'
  <1>1. todo[t] # <<>> /\ Now(t) \in Step /\ Now(t).do = "EventCallEnd"
    BY HeadOf DEF EndPeer
  <1>2. Advances(dialog, dialog')
    BY AdvanceSame DEF EndPeer
  <1>4. Now(t).call \in CallIds
    BY <1>1, KindOf, Fields DEF CallKinds
  <1>3. calls[Now(t).call].peer \in CallIds
    BY <1>4, PeerOf DEF EndPeer
  <1>10. todo' \in Lists
    <2>1. <<StopCallStep(calls[Now(t).call].peer), DeleteStep(Now(t).call, TRUE)>> \in Seq(Step)
      <3>1. StopCallStep(calls[Now(t).call].peer) \in Step /\ DeleteStep(Now(t).call, TRUE) \in Step
        BY <1>1, <1>3, <1>4, Makes, MakesNamed
      <3> QED
        BY <3>1, Literals
    <2>2. Then(t, <<StopCallStep(calls[Now(t).call].peer), DeleteStep(Now(t).call, TRUE)>>)
      BY DEF EndPeer
    <2> QED
      BY <1>1, <2>1, <2>2, ThenType
  <1> QED
    BY <1>2, <1>10, DataOf, DataFrom DEF EndPeer, Data

LEMMA EndTransferType == ASSUME Types, NEW t \in Threads, EndTransfer(t) PROVE Data'
  <1>1. todo[t] # <<>> /\ Now(t) \in Step /\ Now(t).do = "EventCallEnd"
    BY HeadOf DEF EndTransfer
  <1>2. Advances(dialog, dialog')
    BY AdvanceSame DEF EndTransfer
  <1>4. Now(t).call \in CallIds
    BY <1>1, KindOf, Fields DEF CallKinds
  <1>3. astray' \subseteq CallIds
    BY <1>4, DataOf, Ids, PeerOf DEF EndTransfer, Data
  <1>10. todo' \in Lists
    <2>1. <<[do |-> "DeleteTrans", call |-> Now(t).call, stop |-> TRUE]>> \in Seq(Step)
      <3>1. [do |-> "DeleteTrans", call |-> Now(t).call, stop |-> TRUE] \in Step
        BY <1>1, <1>4, Makes, MakesNamed
      <3> QED
        BY <3>1, Literals
    <2>2. Then(t, <<[do |-> "DeleteTrans", call |-> Now(t).call, stop |-> TRUE]>>)
      BY DEF EndTransfer
    <2> QED
      BY <1>1, <2>1, <2>2, ThenType
  <1> QED
    BY <1>2, <1>10, DataOf, DataFrom, <1>3 DEF EndTransfer, Data

LEMMA EndAloneType == ASSUME Types, NEW t \in Threads, EndAlone(t) PROVE Data'
  <1>1. todo[t] # <<>> /\ Now(t) \in Step /\ Now(t).do = "EventCallEnd"
    BY HeadOf DEF EndAlone
  <1>2. Advances(dialog, dialog')
    BY AdvanceSame DEF EndAlone
  <1>4. Now(t).call \in CallIds
    BY <1>1, KindOf, Fields DEF CallKinds
  <1>3. astray' \subseteq CallIds
    BY <1>4, DataOf, Ids DEF EndAlone, Data
  <1>10. todo' \in Lists
    <2>1. <<>> \in Seq(Step)
      BY EmptySeq
    <2>2. Then(t, <<>>)
      BY DEF EndAlone
    <2> QED
      BY <1>1, <2>1, <2>2, ThenType
  <1> QED
    BY <1>2, <1>10, DataOf, DataFrom, <1>3 DEF EndAlone, Data

LEMMA BlindTransferType == ASSUME Types, NEW t \in Threads, BlindTransfer(t) PROVE Data'
  <1>1. todo[t] # <<>> /\ Now(t) \in Step /\ Now(t).do = "EventBlindTransfer"
    BY HeadOf DEF BlindTransfer
  <1>2. Advances(dialog, dialog')
    BY AdvanceSame DEF BlindTransfer
  <1>4. Now(t).call \in CallIds
    BY <1>1, KindOf, Fields DEF CallKinds
  <1>10. ASSUME calls[Now(t).call] # None PROVE todo' \in Lists
    <2>1. <<[do |-> "CreatePort", call |-> Now(t).call, peer |-> calls[Now(t).call].peer]>> \in Seq(Step)
      <3>1. [do |-> "CreatePort", call |-> Now(t).call, peer |-> calls[Now(t).call].peer] \in Step
        BY <1>1, <1>10, <1>4, PeerOf, Makes, MakesNamed
      <3> QED
        BY <3>1, Literals
    <2>2. Then(t, <<[do |-> "CreatePort", call |-> Now(t).call, peer |-> calls[Now(t).call].peer]>>)
      BY <1>10 DEF BlindTransfer
    <2> QED
      BY <1>1, <2>1, <2>2, ThenType
  <1>11. ASSUME ~(calls[Now(t).call] # None) PROVE todo' \in Lists
    <2>1. <<>> \in Seq(Step)
      BY EmptySeq
    <2>2. Then(t, <<>>)
      BY <1>11 DEF BlindTransfer
    <2> QED
      BY <1>1, <2>1, <2>2, ThenType
  <1>20. todo' \in Lists
    BY <1>10, <1>11
  <1> QED
    BY <1>2, <1>20, DataOf, DataFrom DEF BlindTransfer, Data

LEMMA StartTransCallFailsType == ASSUME Types, NEW t \in Threads, StartTransCallFails(t) PROVE Data'
  <1>1. todo[t] # <<>> /\ Now(t) \in Step /\ Now(t).do = "SendInvite"
    BY HeadOf DEF StartTransCallFails
  <1>2. Advances(dialog, dialog')
    BY AdvanceSame DEF StartTransCallFails
  <1>3. forgotten' \subseteq Ports
    BY <1>1, KindOf, Fields, DataOf DEF StartTransCallFails, Data
  <1>10. todo' \in Lists
    <2>1. <<>> \in Seq(Step)
      BY EmptySeq
    <2>2. Then(t, <<>>)
      BY DEF StartTransCallFails
    <2> QED
      BY <1>1, <2>1, <2>2, ThenType
  <1> QED
    BY <1>2, <1>10, DataOf, DataFrom, <1>3 DEF StartTransCallFails, Data

LEMMA SelectTransferType == ASSUME Types, NEW t \in Threads, SelectTransfer(t) PROVE Data'
  <1>1. todo[t] # <<>> /\ Now(t) \in Step /\ Now(t).do = "EventTransfer"
    BY HeadOf DEF SelectTransfer
  <1>2. Advances(dialog, dialog')
    BY AdvanceSame DEF SelectTransfer
  <1>10. ASSUME calls[Now(t).call] = None PROVE todo' \in Lists
    <2>1. <<>> \in Seq(Step)
      BY EmptySeq
    <2>2. Then(t, <<>>)
      BY <1>10 DEF SelectTransfer
    <2> QED
      BY <1>1, <2>1, <2>2, ThenType
  <1>11. ASSUME calls[Now(t).call] # None PROVE todo' \in Lists
    <2>1. <<[do |-> "SelectRefer", call |-> Now(t).call, to |-> Now(t).to, screened |-> Now(t).screened, peer |-> calls[Now(t).call].peer]>> \in Seq(Step)
      <3>1. [do |-> "SelectRefer", call |-> Now(t).call, to |-> Now(t).to, screened |-> Now(t).screened, peer |-> calls[Now(t).call].peer] \in Step
        BY <1>1, <1>11, KindOf, Fields, PeerOf, Makes, MakesNamed
      <3> QED
        BY <3>1, Literals
    <2>2. Then(t, <<[do |-> "SelectRefer", call |-> Now(t).call, to |-> Now(t).to, screened |-> Now(t).screened, peer |-> calls[Now(t).call].peer]>>)
      BY <1>11 DEF SelectTransfer
    <2> QED
      BY <1>1, <2>1, <2>2, ThenType
  <1>20. todo' \in Lists
    BY <1>10, <1>11
  <1> QED
    BY <1>2, <1>20, DataOf, DataFrom DEF SelectTransfer, Data

LEMMA SelectReferToType == ASSUME Types, NEW t \in Threads, SelectReferTo(t) PROVE Data'
  <1>1. todo[t] # <<>> /\ Now(t) \in Step /\ Now(t).do = "SelectRefer"
    BY HeadOf DEF SelectReferTo
  <1>2. Advances(dialog, dialog')
    BY AdvanceSame DEF SelectReferTo
  <1>10. ASSUME calls[Now(t).to] = None PROVE todo' \in Lists
    <2>1. <<>> \in Seq(Step)
      BY EmptySeq
    <2>2. Then(t, <<>>)
      BY <1>10 DEF SelectReferTo
    <2> QED
      BY <1>1, <2>1, <2>2, ThenType
  <1>11. ASSUME calls[Now(t).to] # None PROVE todo' \in Lists
    <2>1. <<DeleteStep(Now(t).call, TRUE), DeleteStep(Now(t).to, FALSE), [do |-> "Refer", call |-> Now(t).call, to |-> Now(t).to, screened |-> Now(t).screened, peer |-> Now(t).peer, toPeer |-> calls[Now(t).to].peer, port |-> calls[Now(t).to].port, owner |-> calls[Now(t).to].recv]>> \in Seq(Step)
      <3>1. DeleteStep(Now(t).call, TRUE) \in Step /\ DeleteStep(Now(t).to, FALSE) \in Step /\ [do |-> "Refer", call |-> Now(t).call, to |-> Now(t).to, screened |-> Now(t).screened, peer |-> Now(t).peer, toPeer |-> calls[Now(t).to].peer, port |-> calls[Now(t).to].port, owner |-> calls[Now(t).to].recv] \in Step
        BY <1>1, <1>11, KindOf, Fields, PeerOf, Makes, MakesNamed
      <3> QED
        BY <3>1, Literals
    <2>2. Then(t, <<DeleteStep(Now(t).call, TRUE), DeleteStep(Now(t).to, FALSE), [do |-> "Refer", call |-> Now(t).call, to |-> Now(t).to, screened |-> Now(t).screened, peer |-> Now(t).peer, toPeer |-> calls[Now(t).to].peer, port |-> calls[Now(t).to].port, owner |-> calls[Now(t).to].recv]>>)
      BY <1>11 DEF SelectReferTo
    <2> QED
      BY <1>1, <2>1, <2>2, ThenType
  <1>20. todo' \in Lists
    BY <1>10, <1>11
  <1> QED
    BY <1>2, <1>20, DataOf, DataFrom DEF SelectReferTo, Data

LEMMA ScreenedTransferType == ASSUME Types, NEW t \in Threads, ScreenedTransfer(t) PROVE Data'
  <1>1. todo[t] # <<>> /\ Now(t) \in Step /\ Now(t).do = "Refer"
    BY HeadOf DEF ScreenedTransfer
  <1>2. Advances(dialog, dialog')
    BY AdvanceSame DEF ScreenedTransfer
  <1>3. forgotten' \subseteq Ports
    BY DataOf DEF ScreenedTransfer, Data, Forgotten, Forget
  <1>10. todo' \in Lists
    <2>1. <<InsertStep(Now(t).peer, Now(t).toPeer, Now(t).port, TRUE), StopCallStep(Now(t).call), StopCallStep(Now(t).to)>> \in Seq(Step)
      <3>1. InsertStep(Now(t).peer, Now(t).toPeer, Now(t).port, TRUE) \in Step /\ StopCallStep(Now(t).call) \in Step /\ StopCallStep(Now(t).to) \in Step
        BY <1>1, KindOf, Fields, Makes, MakesNamed
      <3> QED
        BY <3>1, Literals
    <2>2. Then(t, <<InsertStep(Now(t).peer, Now(t).toPeer, Now(t).port, TRUE), StopCallStep(Now(t).call), StopCallStep(Now(t).to)>>)
      BY DEF ScreenedTransfer
    <2> QED
      BY <1>1, <2>1, <2>2, ThenType
  <1> QED
    BY <1>2, <1>10, DataOf, DataFrom, <1>3 DEF ScreenedTransfer, Data

LEMMA UnscreenedTransferType == ASSUME Types, NEW t \in Threads, UnscreenedTransfer(t) PROVE Data'
  <1>1. todo[t] # <<>> /\ Now(t) \in Step /\ Now(t).do = "Refer"
    BY HeadOf DEF UnscreenedTransfer
  <1>2. Advances(dialog, dialog')
    BY AdvanceSame DEF UnscreenedTransfer
  <1>3. Now(t) \in ReferStep
    BY <1>1, KindOf
  <1>10. todo' \in Lists
    <2>1. <<StopCallStep(Now(t).call), StopCallStep(Now(t).to), [Now(t) EXCEPT !.do = "Redial"]>> \in Seq(Step)
      <3>1. StopCallStep(Now(t).call) \in Step /\ StopCallStep(Now(t).to) \in Step /\ [Now(t) EXCEPT !.do = "Redial"] \in Step
        BY <1>1, <1>3, KindOf, Fields, MakesRedial, Makes, MakesNamed
      <3> QED
        BY <3>1, Literals
    <2>2. Then(t, <<StopCallStep(Now(t).call), StopCallStep(Now(t).to), [Now(t) EXCEPT !.do = "Redial"]>>)
      BY DEF UnscreenedTransfer
    <2> QED
      BY <1>1, <2>1, <2>2, ThenType
  <1> QED
    BY <1>2, <1>10, DataOf, DataFrom DEF UnscreenedTransfer, Data

LEMMA TransferFailsType == ASSUME Types, NEW t \in Threads, TransferFails(t) PROVE Data'
  <1>1. todo[t] # <<>> /\ Now(t) \in Step /\ Now(t).do = "Refer"
    BY HeadOf DEF TransferFails
  <1>2. Advances(dialog, dialog')
    BY AdvanceSame DEF TransferFails
  <1>3. forgotten' \subseteq Ports
    BY DataOf DEF TransferFails, Data, Forgotten, Forget
  <1>4. Now(t) \in ReferStep
    BY <1>1, KindOf
  <1>5. astray' \subseteq CallIds
    BY <1>4, Fields, DataOf DEF TransferFails, Data
  <1>10. todo' \in Lists
    <2>1. <<>> \in Seq(Step)
      BY EmptySeq
    <2>2. Then(t, <<>>)
      BY DEF TransferFails
    <2> QED
      BY <1>1, <2>1, <2>2, ThenType
  <1> QED
    BY <1>2, <1>10, DataOf, DataFrom, <1>3, <1>5 DEF TransferFails, Data

LEMMA RedialNobodyType == ASSUME Types, NEW t \in Threads, RedialNobody(t) PROVE Data'
  <1>1. todo[t] # <<>> /\ Now(t) \in Step /\ Now(t).do = "Redial"
    BY HeadOf DEF RedialNobody
  <1>2. Advances(dialog, dialog')
    BY AdvanceSame DEF RedialNobody
  <1>3. forgotten' \subseteq Ports
    BY DataOf DEF RedialNobody, Data, Forgotten, Forget
  <1>10. todo' \in Lists
    <2>1. <<StopCallStep(Now(t).peer), StopCallStep(Now(t).toPeer)>> \in Seq(Step)
      <3>1. StopCallStep(Now(t).peer) \in Step /\ StopCallStep(Now(t).toPeer) \in Step
        BY <1>1, KindOf, Fields, Makes, MakesNamed
      <3> QED
        BY <3>1, Literals
    <2>2. Then(t, <<StopCallStep(Now(t).peer), StopCallStep(Now(t).toPeer)>>)
      BY DEF RedialNobody
    <2> QED
      BY <1>1, <2>1, <2>2, ThenType
  <1> QED
    BY <1>2, <1>10, DataOf, DataFrom, <1>3 DEF RedialNobody, Data

LEMMA RedialFailsType == ASSUME Types, NEW t \in Threads, RedialFails(t) PROVE Data'
  <1>1. todo[t] # <<>> /\ Now(t) \in Step /\ Now(t).do = "Redial"
    BY HeadOf DEF RedialFails
  <1>4. Now(t) \in ReferStep
    BY <1>1, KindOf
  <1>2. Advances(dialog, dialog')
    BY <1>4, Fields, RedialFailsDialog DEF RedialFails
  <1>3. forgotten' \subseteq Ports
    BY DataOf DEF RedialFails, Data, Forgotten, Forget
  <1>5. astray' \subseteq CallIds
    BY <1>4, Fields, DataOf, Ids DEF RedialFails, Data
  <1>10. todo' \in Lists
    <2>1. <<InsertStep(NoCall, Now(t).peer, Now(t).port, TRUE)>> \in Seq(Step)
      <3>1. InsertStep(NoCall, Now(t).peer, Now(t).port, TRUE) \in Step
        BY <1>1, <1>4, Fields, Ids, Makes, MakesNamed
      <3> QED
        BY <3>1, Literals
    <2>2. Then(t, <<InsertStep(NoCall, Now(t).peer, Now(t).port, TRUE)>>)
      BY DEF RedialFails
    <2> QED
      BY <1>1, <2>1, <2>2, ThenType
  <1> QED
    BY <1>2, <1>10, DataOf, DataFrom, <1>3, <1>5 DEF RedialFails, Data

LEMMA PickUpType == ASSUME Types, NEW t \in Threads, PickUp(t) PROVE Data'
  <1>1. todo[t] # <<>> /\ Now(t) \in Step /\ Now(t).do = "EventIncomingCall"
    BY HeadOf DEF PickUp
  <1>2. Advances(dialog, dialog')
    BY AdvanceSame DEF PickUp
  <1>10. todo' \in Lists
    <2>1. <<[do |-> "SelectToRing", call |-> Now(t).call]>> \in Seq(Step)
      <3>1. [do |-> "SelectToRing", call |-> Now(t).call] \in Step
        BY <1>1, KindOf, Fields, Makes, MakesNamed DEF CallKinds
      <3> QED
        BY <3>1, Literals
    <2>2. Then(t, <<[do |-> "SelectToRing", call |-> Now(t).call]>>)
      BY DEF PickUp
    <2> QED
      BY <1>1, <2>1, <2>2, ThenType
  <1> QED
    BY <1>2, <1>10, DataOf, DataFrom DEF PickUp, Data

LEMMA SelectOldType == ASSUME Types, NEW t \in Threads, SelectOld(t) PROVE Data'
  <1>1. todo[t] # <<>> /\ Now(t) \in Step /\ Now(t).do = "SelectOld"
    BY HeadOf DEF SelectOld
  <1>2. Advances(dialog, dialog')
    BY AdvanceSame DEF SelectOld
  <1>10. ASSUME calls[Now(t).old] = None PROVE todo' \in Lists
    <2>1. <<StopCallStep(Now(t).call)>> \in Seq(Step)
      <3>1. StopCallStep(Now(t).call) \in Step
        BY <1>1, <1>10, KindOf, Fields, PeerOf, Makes, MakesNamed DEF CallKinds
      <3> QED
        BY <3>1, Literals
    <2>2. Then(t, <<StopCallStep(Now(t).call)>>)
      BY <1>10 DEF SelectOld
    <2> QED
      BY <1>1, <2>1, <2>2, ThenType
  <1>11. ASSUME calls[Now(t).old] # None PROVE todo' \in Lists
    <2>1. <<[do |-> "InsertOne", call |-> Now(t).call, info |-> calls[Now(t).old]], [do |-> "DeleteOne", call |-> Now(t).old], StopCallStep(Now(t).old), [do |-> "AcceptCaller", call |-> Now(t).call, caller |-> calls[Now(t).old].peer]>> \in Seq(Step)
      <3>1. [do |-> "InsertOne", call |-> Now(t).call, info |-> calls[Now(t).old]] \in Step /\ [do |-> "DeleteOne", call |-> Now(t).old] \in Step /\ StopCallStep(Now(t).old) \in Step /\ [do |-> "AcceptCaller", call |-> Now(t).call, caller |-> calls[Now(t).old].peer] \in Step
        BY <1>1, <1>11, KindOf, Fields, PeerOf, Makes, MakesNamed DEF CallKinds
      <3> QED
        BY <3>1, Literals
    <2>2. Then(t, <<[do |-> "InsertOne", call |-> Now(t).call, info |-> calls[Now(t).old]], [do |-> "DeleteOne", call |-> Now(t).old], StopCallStep(Now(t).old), [do |-> "AcceptCaller", call |-> Now(t).call, caller |-> calls[Now(t).old].peer]>>)
      BY <1>11 DEF SelectOld
    <2> QED
      BY <1>1, <2>1, <2>2, ThenType
  <1>20. todo' \in Lists
    BY <1>10, <1>11
  <1> QED
    BY <1>2, <1>20, DataOf, DataFrom DEF SelectOld, Data

LEMMA InsertOneType == ASSUME Types, NEW t \in Threads, InsertOne(t) PROVE Data'
  <1>1. todo[t] # <<>> /\ Now(t) \in Step /\ Now(t).do = "InsertOne"
    BY HeadOf DEF InsertOne
  <1>2. Advances(dialog, dialog')
    BY AdvanceSame DEF InsertOne
  <1>3. calls' \in Maps
    BY <1>1, KindOf, Fields, DataOf, SetMap DEF InsertOne, Data
  <1>10. todo' \in Lists
    <2>1. <<>> \in Seq(Step)
      BY EmptySeq
    <2>2. Then(t, <<>>)
      BY DEF InsertOne
    <2> QED
      BY <1>1, <2>1, <2>2, ThenType
  <1> QED
    BY <1>2, <1>10, DataOf, DataFrom, <1>3 DEF InsertOne, Data

LEMMA DeleteOneType == ASSUME Types, NEW t \in Threads, DeleteOne(t) PROVE Data'
  <1>1. todo[t] # <<>> /\ Now(t) \in Step /\ Now(t).do = "DeleteOne"
    BY HeadOf DEF DeleteOne
  <1>2. Advances(dialog, dialog')
    BY AdvanceSame DEF DeleteOne
  <1>4. Now(t).call \in CallIds
    BY <1>1, KindOf, Fields DEF CallKinds
  <1>3. calls' \in Maps
    BY <1>4, DataOf, SetMap DEF DeleteOne, Data
  <1>10. todo' \in Lists
    <2>1. <<>> \in Seq(Step)
      BY EmptySeq
    <2>2. Then(t, <<>>)
      BY DEF DeleteOne
    <2> QED
      BY <1>1, <2>1, <2>2, ThenType
  <1> QED
    BY <1>2, <1>10, DataOf, DataFrom, <1>3 DEF DeleteOne, Data

LEMMA AcceptCallerType == ASSUME Types, NEW t \in Threads, AcceptCaller(t) PROVE Data'
  <1>1. todo[t] # <<>> /\ Now(t) \in Step /\ Now(t).do = "AcceptCaller"
    BY HeadOf DEF AcceptCaller
  <1>2. Advances(dialog, dialog')
    BY AcceptCallerDialog
  <1>10. todo' \in Lists
    <2>1. <<[do |-> "SelectCaller", call |-> Now(t).call, caller |-> Now(t).caller]>> \in Seq(Step)
      <3>1. [do |-> "SelectCaller", call |-> Now(t).call, caller |-> Now(t).caller] \in Step
        BY <1>1, KindOf, Fields, Makes, MakesNamed
      <3> QED
        BY <3>1, Literals
    <2>2. Then(t, <<[do |-> "SelectCaller", call |-> Now(t).call, caller |-> Now(t).caller]>>)
      BY DEF AcceptCaller
    <2> QED
      BY <1>1, <2>1, <2>2, ThenType
  <1> QED
    BY <1>2, <1>10, DataOf, DataFrom DEF AcceptCaller, Data

LEMMA SelectCallerType == ASSUME Types, NEW t \in Threads, SelectCaller(t) PROVE Data'
  <1>1. todo[t] # <<>> /\ Now(t) \in Step /\ Now(t).do = "SelectCaller"
    BY HeadOf DEF SelectCaller
  <1>2. Advances(dialog, dialog')
    BY AdvanceSame DEF SelectCaller
  <1>10. todo' \in Lists
    <2>1. <<[do |-> "Update", call |-> Now(t).caller, peer |-> Now(t).call], [do |-> "AcceptCall", call |-> Now(t).call]>> \in Seq(Step)
      <3>1. [do |-> "Update", call |-> Now(t).caller, peer |-> Now(t).call] \in Step /\ [do |-> "AcceptCall", call |-> Now(t).call] \in Step
        BY <1>1, KindOf, Fields, Makes, MakesNamed DEF CallKinds
      <3> QED
        BY <3>1, Literals
    <2>2. Then(t, <<[do |-> "Update", call |-> Now(t).caller, peer |-> Now(t).call], [do |-> "AcceptCall", call |-> Now(t).call]>>)
      BY DEF SelectCaller
    <2> QED
      BY <1>1, <2>1, <2>2, ThenType
  <1> QED
    BY <1>2, <1>10, DataOf, DataFrom DEF SelectCaller, Data

LEMMA UpdateType == ASSUME Types, NEW t \in Threads, Update(t) PROVE Data'
  <1>1. todo[t] # <<>> /\ Now(t) \in Step /\ Now(t).do = "Update"
    BY HeadOf DEF Update
  <1>2. Advances(dialog, dialog')
    BY AdvanceSame DEF Update
  <1>3. calls' \in Maps
    <2>1. Now(t).call \in CallIds /\ Now(t).peer \in CallIds
      BY <1>1, KindOf, Fields
    <2>2. calls \in Maps
      BY DataOf DEF Data
    <2> DEFINE z == Now(t).call
               v == IF calls[z] = None THEN calls[z] ELSE [calls[z] EXCEPT !.peer = Now(t).peer]
    <2>3. v \in CallInfo \cup {None}
      BY <2>1, <2>2, Infos DEF Maps
    <2>4. calls' = [calls EXCEPT ![z] = v]
      BY DEF Update
    <2> HIDE DEF v, z
    <2>5. z \in CallIds
      BY <2>1 DEF z
    <2> QED
      BY <2>2, <2>3, <2>4, <2>5, SetMap
  <1>10. todo' \in Lists
    <2>1. <<>> \in Seq(Step)
      BY EmptySeq
    <2>2. Then(t, <<>>)
      BY DEF Update
    <2> QED
      BY <1>1, <2>1, <2>2, ThenType
  <1> QED
    BY <1>2, <1>10, DataOf, DataFrom, <1>3 DEF Update, Data

LEMMA TwoAndTwo ==
  ASSUME NEW S, NEW a \in S, NEW b \in S, NEW c \in S, NEW d \in S
  PROVE  <<a, b>> \o <<c, d>> = <<a, b, c, d>>
  <1>1. <<a, b>> \in Seq(S) /\ <<c, d>> \in Seq(S) /\ <<a, b, c, d>> \in Seq(S)
    BY Literals
  <1> DEFINE l == <<a, b>> \o <<c, d>>
             r == <<a, b, c, d>>
  <1>2. Len(l) = 4 /\ Len(r) = 4 /\ l[1] = a /\ l[2] = b /\ l[3] = c /\ l[4] = d
    OBVIOUS
  <1>3. r[1] = a /\ r[2] = b /\ r[3] = c /\ r[4] = d
    BY Four
  <1>4. l \in Seq(S)
    BY <1>1, ConcatProperties
  <1> HIDE DEF l, r
  <1>5. \A i \in 1 .. Len(l) : l[i] = r[i]
    <2>1. \A i \in 1 .. Len(l) : i = 1 \/ i = 2 \/ i = 3 \/ i = 4
      BY <1>2
    <2> QED
      BY <2>1, <1>2, <1>3
  <1>6. l = r
    BY <1>1, <1>2, <1>4, <1>5, SeqEqual DEF r
  <1> QED
    BY <1>6 DEF l, r

LEMMA ThenIn ==
  ASSUME Types, NEW t \in Threads, todo[t] # <<>>, NEW r \in Seq(Step), Then(t, r)
  PROVE  todo' \in Lists
  BY ThenType

LEMMA CreatePortType == ASSUME Types, NEW t \in Threads, CreatePort(t) PROVE Data'
  <1>1. todo[t] # <<>> /\ Now(t).call \in CallIds
    BY HeadOf, KindOf, Fields DEF CreatePort, CallKinds
  <1>2. PICK p \in Ports :
          /\ ports' = [ports EXCEPT ![p] = "used"]
          /\ Then(t, <<[do |-> "CreateCall", call |-> Now(t).call, port |-> p]>>)
    BY DEF CreatePort
  <1>3. <<[do |-> "CreateCall", call |-> Now(t).call, port |-> p]>> \in Seq(Step)
    <2>1. [do |-> "CreateCall", call |-> Now(t).call, port |-> p] \in Step
      BY <1>1, Makes
    <2> QED
      BY <2>1, Literals
  <1>4. todo' \in Lists
    BY <1>1, <1>2, <1>3, ThenIn
  <1>5. ports' \in PortMap /\ Advances(dialog, dialog')
    BY <1>2, UsePort, AdvanceSame DEF CreatePort
  <1> QED
    BY <1>4, <1>5, DataOf, DataFrom DEF CreatePort, Data

LEMMA CreateTransPortType == ASSUME Types, NEW t \in Threads, CreateTransPort(t) PROVE Data'
  <1>1. todo[t] # <<>> /\ Now(t).call \in CallIds
    BY HeadOf, KindOf, Fields DEF CreateTransPort
  <1>2. ASSUME NEW p \in Ports, ports' = [ports EXCEPT ![p] = "used"],
               Then(t, <<[do |-> "SendInvite", call |-> Now(t).call, port |-> p]>>)
        PROVE todo' \in Lists /\ ports' \in PortMap
    <2>1. [do |-> "SendInvite", call |-> Now(t).call, port |-> p] \in Step
      BY <1>1, Makes
    <2>2. <<[do |-> "SendInvite", call |-> Now(t).call, port |-> p]>> \in Seq(Step)
      BY <2>1, Literals
    <2>3. ports' \in PortMap
      BY <1>2, UsePort
    <2>4. todo' \in Lists
      BY <1>1, <1>2, <2>2, ThenIn
    <2> QED
      BY <2>3, <2>4
  <1>3. ASSUME UNCHANGED ports, Then(t, <<>>) PROVE todo' \in Lists /\ ports' \in PortMap
    <2>1. todo' \in Lists
      BY <1>1, <1>3, EmptySeq, ThenIn
    <2> QED
      BY <1>3, <2>1, DataOf DEF Data
  <1>4. todo' \in Lists /\ ports' \in PortMap
    BY <1>2, <1>3 DEF CreateTransPort
  <1>5. Advances(dialog, dialog')
    BY AdvanceSame DEF CreateTransPort
  <1> QED
    BY <1>4, <1>5, DataOf, DataFrom DEF CreateTransPort, Data

LEMMA CreateCallSteps ==
  ASSUME Types, NEW t \in Threads, CreateCall(t)
  PROVE  \E d \in Fresh :
           /\ dialog' = [dialog EXCEPT ![d] = Unconnected]
           /\ Then(t, <<InsertStep(Now(t).call, d, Now(t).port, FALSE),
                        [do |-> "StartCall", call |-> Now(t).call, invite |-> d]>>)
           /\ InsertStep(Now(t).call, d, Now(t).port, FALSE) \in Step
           /\ [do |-> "StartCall", call |-> Now(t).call, invite |-> d] \in Step
           /\ todo[t] # <<>> /\ Now(t).call \in CallIds
  <1>1. todo[t] # <<>> /\ Now(t).call \in CallIds /\ Now(t).port \in Int
    BY HeadOf, KindOf, Fields, Ids DEF CreateCall
  <1>2. PICK d \in Fresh :
           /\ dialog' = [dialog EXCEPT ![d] = Unconnected]
           /\ Then(t, <<InsertStep(Now(t).call, d, Now(t).port, FALSE),
                        [do |-> "StartCall", call |-> Now(t).call, invite |-> d]>>)
    BY DEF CreateCall
  <1>3. d \in CallIds
    BY FreshIs
  <1>4. InsertStep(Now(t).call, d, Now(t).port, FALSE) \in Step
    BY <1>1, <1>3, MakesNamed
  <1>5. [do |-> "StartCall", call |-> Now(t).call, invite |-> d] \in Step
    BY <1>1, <1>3, Makes
  <1> QED
    BY <1>1, <1>2, <1>4, <1>5

LEMMA CreateCallType == ASSUME Types, NEW t \in Threads, CreateCall(t) PROVE Data'
  <1>1. PICK d \in Fresh :
           /\ dialog' = [dialog EXCEPT ![d] = Unconnected]
           /\ Then(t, <<InsertStep(Now(t).call, d, Now(t).port, FALSE),
                        [do |-> "StartCall", call |-> Now(t).call, invite |-> d]>>)
           /\ InsertStep(Now(t).call, d, Now(t).port, FALSE) \in Step
           /\ [do |-> "StartCall", call |-> Now(t).call, invite |-> d] \in Step
           /\ todo[t] # <<>> /\ Now(t).call \in CallIds
    BY CreateCallSteps
  <1>2. Advances(dialog, dialog')
    BY <1>1, NewDialog, NewDialogs
  <1>3. <<InsertStep(Now(t).call, d, Now(t).port, FALSE),
          [do |-> "StartCall", call |-> Now(t).call, invite |-> d]>> \in Seq(Step)
    BY <1>1, Literals
  <1>4. todo' \in Lists
    BY <1>1, <1>3, ThenIn
  <1> QED
    BY <1>2, <1>4, DataStep DEF CreateCall

LEMMA StartTransCallSteps ==
  ASSUME Types, NEW t \in Threads, StartTransCall(t)
  PROVE  \E d \in Fresh :
           /\ dialog' = [dialog EXCEPT ![d] = [Unconnected EXCEPT !.sent = TRUE]]
           /\ Then(t, <<[do |-> "InsertTrans", recv |-> Now(t).call, send |-> d, port |-> Now(t).port]>>)
           /\ [do |-> "InsertTrans", recv |-> Now(t).call, send |-> d, port |-> Now(t).port] \in Step
           /\ todo[t] # <<>>
  <1>1. todo[t] # <<>> /\ Now(t).call \in CallIds /\ Now(t).port \in Int
    BY HeadOf, KindOf, Fields, Ids DEF StartTransCall
  <1>2. PICK d \in Fresh :
           /\ dialog' = [dialog EXCEPT ![d] = [Unconnected EXCEPT !.sent = TRUE]]
           /\ Then(t, <<[do |-> "InsertTrans", recv |-> Now(t).call, send |-> d, port |-> Now(t).port]>>)
    BY DEF StartTransCall
  <1>3. [do |-> "InsertTrans", recv |-> Now(t).call, send |-> d, port |-> Now(t).port] \in Step
    BY <1>1, FreshIs, Makes
  <1> QED
    BY <1>1, <1>2, <1>3

LEMMA StartTransCallType == ASSUME Types, NEW t \in Threads, StartTransCall(t) PROVE Data'
  <1>1. PICK d \in Fresh :
           /\ dialog' = [dialog EXCEPT ![d] = [Unconnected EXCEPT !.sent = TRUE]]
           /\ Then(t, <<[do |-> "InsertTrans", recv |-> Now(t).call, send |-> d, port |-> Now(t).port]>>)
           /\ [do |-> "InsertTrans", recv |-> Now(t).call, send |-> d, port |-> Now(t).port] \in Step
           /\ todo[t] # <<>>
    BY StartTransCallSteps
  <1>2. Advances(dialog, dialog')
    BY <1>1, NewDialog, NewDialogs
  <1>3. <<[do |-> "InsertTrans", recv |-> Now(t).call, send |-> d, port |-> Now(t).port]>> \in Seq(Step)
    BY <1>1, Literals
  <1>4. todo' \in Lists
    BY <1>1, <1>3, ThenIn
  <1> QED
    BY <1>2, <1>4, DataStep DEF StartTransCall

LEMMA RedialSteps ==
  ASSUME Types, NEW t \in Threads, Redial(t)
  PROVE  \E d \in Fresh :
           /\ Advances(dialog, dialog') /\ dialog[d] = None /\ dialog'[d] # None
           /\ \A x \in CallIds : x # d /\ Waiting(dialog[x]) => Waiting(dialog'[x])
           /\ Then(t, <<InsertStep(d, Now(t).peer, Now(t).port, TRUE)>>)
           /\ InsertStep(d, Now(t).peer, Now(t).port, TRUE) \in Step
           /\ todo[t] # <<>> /\ Now(t) \in ReferStep
  <1>1. todo[t] # <<>> /\ Now(t) \in ReferStep
    BY HeadOf, KindOf DEF Redial
  <1>2. PICK d \in Fresh :
           /\ dialog' = [x \in CallIds |-> IF x = d THEN [Unconnected EXCEPT !.sent = TRUE]
                                           ELSE IF x = Now(t).toPeer THEN Stopped(dialog[x])
                                           ELSE dialog[x]]
           /\ Then(t, <<InsertStep(d, Now(t).peer, Now(t).port, TRUE)>>)
    BY DEF Redial
  <1>3. InsertStep(d, Now(t).peer, Now(t).port, TRUE) \in Step
    BY <1>1, FreshIs, Fields, MakesNamed
  <1>4. /\ Advances(dialog, dialog') /\ dialog[d] = None /\ dialog'[d] # None
        /\ \A x \in CallIds : x # d /\ Waiting(dialog[x]) => Waiting(dialog'[x])
    BY <1>2, NewDialogs, RedialDialog
  <1> QED
    BY <1>1, <1>2, <1>3, <1>4

LEMMA RedialType == ASSUME Types, NEW t \in Threads, Redial(t) PROVE Data'
  <1>1. PICK d \in Fresh :
           /\ Advances(dialog, dialog')
           /\ Then(t, <<InsertStep(d, Now(t).peer, Now(t).port, TRUE)>>)
           /\ InsertStep(d, Now(t).peer, Now(t).port, TRUE) \in Step
           /\ todo[t] # <<>>
    BY RedialSteps
  <1>2. <<InsertStep(d, Now(t).peer, Now(t).port, TRUE)>> \in Seq(Step)
    BY <1>1, Literals
  <1>3. todo' \in Lists
    BY <1>1, <1>2, ThenIn
  <1>4. forgotten' \subseteq Ports
    BY DataOf DEF Redial, Data, Forgotten, Forget
  <1> QED
    BY <1>1, <1>3, <1>4, DataOf, DataFrom DEF Redial, Data

LEMMA TransferSteps ==
  ASSUME Types, NEW t \in Threads, Transfer(t)
  PROVE  LET x == Now(t).call
             f == Now(t).from
             i(p) == InsertStep(p, x, Now(t).port, TRUE)
             d == [do |-> "DeleteTrans", call |-> x, stop |-> FALSE]
         IN /\ x \in CallIds /\ f \in CallIds /\ todo[t] # <<>>
            /\ \A p \in CallIds : i(p) \in Step
            /\ d \in Step /\ StopCallStep(f) \in Step /\ DeleteStep(f, TRUE) \in Step
            /\ calls[f] # None =>
                 /\ calls[f].peer \in CallIds /\ astray' = astray
                 /\ Then(t, <<StopCallStep(f), DeleteStep(f, TRUE), i(calls[f].peer), d>>)
            /\ calls[f] = None =>
                 astray' = astray \cup {x, NoCall} /\ Then(t, <<i(NoCall), d>>)
  <1>1. todo[t] # <<>> /\ Now(t) \in TransferStep
    BY HeadOf, KindOf DEF Transfer
  <1> DEFINE x == Now(t).call
             f == Now(t).from
             i(p) == InsertStep(p, x, Now(t).port, TRUE)
             d == [do |-> "DeleteTrans", call |-> x, stop |-> FALSE]
  <1>2. x \in CallIds /\ f \in CallIds /\ Now(t).port \in Int
    BY <1>1, Fields
  <1>3. (\A p \in CallIds : i(p) \in Step) /\ d \in Step /\ StopCallStep(f) \in Step /\ DeleteStep(f, TRUE) \in Step
    BY <1>2, Makes, MakesNamed
  <1>4. ASSUME calls[f] # None
        PROVE  /\ calls[f].peer \in CallIds /\ astray' = astray
               /\ Then(t, <<StopCallStep(f), DeleteStep(f, TRUE), i(calls[f].peer), d>>)
    <2>1. calls[f].peer \in CallIds
      BY <1>2, <1>4, PeerOf
    <2>2. Then(t, <<StopCallStep(f), DeleteStep(f, TRUE)>> \o <<i(calls[f].peer), d>>) /\ astray' = astray
      BY <1>4 DEF Transfer
    <2>3. <<StopCallStep(f), DeleteStep(f, TRUE)>> \o <<i(calls[f].peer), d>>
          = <<StopCallStep(f), DeleteStep(f, TRUE), i(calls[f].peer), d>>
      <3> DEFINE y == calls[f].peer
      <3>1. StopCallStep(f) \in Step /\ DeleteStep(f, TRUE) \in Step /\ i(y) \in Step /\ d \in Step
        BY <1>3, <2>1
      <3> HIDE DEF i, d, f, y
      <3>2. <<StopCallStep(f), DeleteStep(f, TRUE)>> \o <<i(y), d>> = <<StopCallStep(f), DeleteStep(f, TRUE), i(y), d>>
        BY <3>1, TwoAndTwo
      <3> QED
        BY <3>2 DEF y
    <2> QED
      BY <2>1, <2>2, <2>3
  <1>5. ASSUME calls[f] = None
        PROVE  astray' = astray \cup {x, NoCall} /\ Then(t, <<i(NoCall), d>>)
    <2>1. Then(t, <<>> \o <<i(NoCall), d>>) /\ astray' = astray \cup {x, NoCall}
      BY <1>5 DEF Transfer
    <2>2. <<>> \o <<i(NoCall), d>> = <<i(NoCall), d>>
      <3>1. <<i(NoCall), d>> \in Seq(Step)
        BY <1>3, Ids, Literals
      <3> QED
        BY <3>1, ConcatEmptySeq
    <2> QED
      BY <2>1, <2>2
  <1> QED
    BY <1>1, <1>2, <1>3, <1>4, <1>5

LEMMA TransferType == ASSUME Types, NEW t \in Threads, Transfer(t) PROVE Data'
  <1> DEFINE x == Now(t).call
             f == Now(t).from
             i(p) == InsertStep(p, x, Now(t).port, TRUE)
             d == [do |-> "DeleteTrans", call |-> x, stop |-> FALSE]
  <1>1. /\ x \in CallIds /\ f \in CallIds /\ todo[t] # <<>>
        /\ \A p \in CallIds : i(p) \in Step
        /\ d \in Step /\ StopCallStep(f) \in Step /\ DeleteStep(f, TRUE) \in Step
        /\ calls[f] # None =>
             /\ calls[f].peer \in CallIds /\ astray' = astray
             /\ Then(t, <<StopCallStep(f), DeleteStep(f, TRUE), i(calls[f].peer), d>>)
        /\ calls[f] = None =>
             astray' = astray \cup {x, NoCall} /\ Then(t, <<i(NoCall), d>>)
    BY TransferSteps
  <1>2. todo' \in Lists
    <2>1. CASE calls[f] # None
      <3>1. <<StopCallStep(f), DeleteStep(f, TRUE), i(calls[f].peer), d>> \in Seq(Step)
        BY <1>1, <2>1, Literals
      <3> QED
        BY <1>1, <2>1, <3>1, ThenIn
    <2>2. CASE calls[f] = None
      <3>1. <<i(NoCall), d>> \in Seq(Step)
        BY <1>1, Ids, Literals
      <3> QED
        BY <1>1, <2>2, <3>1, ThenIn
    <2> QED
      BY <2>1, <2>2
  <1>3. astray' \subseteq CallIds
    BY <1>1, DataOf, Ids DEF Data
  <1>4. Advances(dialog, dialog')
    BY AdvanceSame DEF Transfer
  <1> QED
    BY <1>2, <1>3, <1>4, DataOf, DataFrom DEF Transfer, Data

LEMMA SelectToRingType == ASSUME Types, NEW t \in Threads, SelectToRing(t) PROVE Data'
  <1>1. todo[t] # <<>> /\ Now(t).call \in CallIds
    BY HeadOf, CallOf DEF SelectToRing, CallKinds
  <1>2. ASSUME NEW x \in Calls, Then(t, <<[do |-> "SelectOld", call |-> Now(t).call, old |-> x]>>)
        PROVE  todo' \in Lists
    <2>1. [do |-> "SelectOld", call |-> Now(t).call, old |-> x] \in Step
      BY <1>1, Ids, Makes
    <2>2. <<[do |-> "SelectOld", call |-> Now(t).call, old |-> x]>> \in Seq(Step)
      BY <2>1, Literals
    <2> QED
      BY <1>1, <1>2, <2>2, ThenIn
  <1>3. ASSUME Then(t, <<StopCallStep(Now(t).call)>>) PROVE todo' \in Lists
    <2>1. <<StopCallStep(Now(t).call)>> \in Seq(Step)
      BY <1>1, MakesNamed, Literals
    <2> QED
      BY <1>1, <1>3, <2>1, ThenIn
  <1>4. todo' \in Lists
    BY <1>2, <1>3 DEF SelectToRing
  <1>5. Advances(dialog, dialog')
    BY AdvanceSame DEF SelectToRing
  <1> QED
    BY <1>4, <1>5, DataStep DEF SelectToRing

LEMMA PickUpFailsType == ASSUME Types, NEW t \in Threads, PickUpFails(t) PROVE Data'
  <1>1. todo[t] # <<>> /\ Now(t).call \in CallIds /\ Now(t).caller \in CallIds
    BY HeadOf, KindOf, Fields DEF PickUpFails
  <1>2. /\ <<StopCallStep(Now(t).call)>> \in Seq(Step)
        /\ <<StopCallStep(Now(t).caller), StopCallStep(Now(t).call)>> \in Seq(Step)
    BY <1>1, MakesNamed, Literals
  <1>3. todo' \in Lists
    BY <1>1, <1>2, ThenIn DEF PickUpFails
  <1>4. Advances(dialog, dialog') /\ astray' \subseteq CallIds
    BY <1>1, AdvanceSame, DataOf DEF PickUpFails, Data
  <1> QED
    BY <1>3, <1>4, DataOf, DataFrom DEF PickUpFails, Data

LEMMA OneStep1 ==
  ASSUME Types, NEW t \in Threads, NEW s \in Step, Start(t, <<s>>)
  PROVE  todo' \in Lists /\ todo'[t] = <<s>> /\ \A u \in Threads : u # t => todo'[u] = todo[u]
  BY Literals, StartType

LEMMA RecvInviteType == ASSUME Types, NEW t \in Threads, NEW c \in Calls, RecvInvite(t, c) PROVE Data'
  <1>1. [do |-> "EventIncomingCall", call |-> c] \in Step
    BY Ids, Makes DEF CallKinds
  <1>2. todo' \in Lists
    BY <1>1, OneStep1 DEF RecvInvite
  <1> QED
    BY <1>2, RecvInviteDialog, DataStep DEF RecvInvite

LEMMA RecvOkType == ASSUME Types, NEW t \in Threads, NEW d \in Calls, RecvOk(t, d) PROVE Data'
  <1>1. [do |-> "EventCallStart", call |-> d] \in Step /\ StopCallStep(d) \in Step
    BY Ids, Makes, MakesNamed DEF CallKinds
  <1>2. todo' \in Lists
    BY <1>1, OneStep1 DEF RecvOk
  <1> QED
    BY <1>2, RecvOkDialog, DataStep DEF RecvOk

LEMMA EndList ==
  ASSUME Types, NEW t \in Threads, NEW x \in Calls, End(t, x)
  PROVE  /\ todo' \in Lists /\ todo'[t] = <<[do |-> "EventCallEnd", call |-> x], DeleteDialogStep(x)>>
         /\ \A u \in Threads : u # t => todo'[u] = todo[u]
  <1>1. [do |-> "EventCallEnd", call |-> x] \in Step /\ DeleteDialogStep(x) \in Step
    BY Ids, Makes, MakesNamed DEF CallKinds
  <1>2. <<[do |-> "EventCallEnd", call |-> x], DeleteDialogStep(x)>> \in Seq(Step)
    BY <1>1, Literals
  <1> QED
    BY <1>2, StartType DEF End

LEMMA Enders ==
  ASSUME NEW t \in Threads, NEW x \in Calls, RecvCancel(t, x) \/ RecvBye(t, x) \/ RecvError(t, x)
  PROVE  Exists(x) /\ End(t, x)
  BY DEF RecvCancel, RecvBye, RecvError, Awaited, Acceptable

LEMMA EndType == ASSUME Types, NEW t \in Threads, NEW x \in Calls, Exists(x), End(t, x) PROVE Data'
  BY EndList, EndDialog, DataStep DEF End

LEMMA RecvReferType == ASSUME Types, NEW t \in Threads, NEW a \in Calls, RecvRefer(t, a) PROVE Data'
  <1>1. [do |-> "EventBlindTransfer", call |-> a] \in Step
    BY Ids, Makes DEF CallKinds
  <1>2. todo' \in Lists
    BY <1>1, OneStep1 DEF RecvRefer
  <1> QED
    BY <1>2, AdvanceSame, DataStep DEF RecvRefer

LEMMA RecvReferReplacesType ==
  ASSUME Types, NEW t \in Threads, NEW a \in Calls, NEW b \in Calls, RecvReferReplaces(t, a, b) PROVE Data'
  <1>1. [do |-> "EventTransfer", call |-> a, to |-> b, screened |-> dialog[b].start] \in Step
    <2>1. dialog[b].start \in BOOLEAN
      BY Ids, DialogOf DEF RecvReferReplaces, Dialog
    <2> QED
      BY <2>1, Ids, Makes
  <1>2. todo' \in Lists
    BY <1>1, OneStep1 DEF RecvReferReplaces
  <1> QED
    BY <1>2, AdvanceSame, DataStep DEF RecvReferReplaces

LEMMA ReceiveType ==
  ASSUME Types, NEW t \in Threads, Receive(t) PROVE Data'
  BY RecvInviteType, RecvOkType, Enders, EndType, RecvReferType, RecvReferReplacesType DEF Receive

LEMMA HandleType ==
  ASSUME Types, NEW t \in Threads, Handle(t) PROVE Data'
  <1>1. ASSUME StopCall(t) \/ DeleteDialog(t) \/ AcceptCall(t) \/ InsertCalls(t) \/ DeleteCalls(t) \/ InsertTrans(t)
                \/ DeleteTrans(t) \/ SetStop(t) \/ Refuse(t) \/ CreatePort(t) \/ CreateCall(t) \/ CreateCallFails(t) PROVE Data'
    BY <1>1, StopCallType, DeleteDialogType, AcceptCallType, InsertCallsType, DeleteCallsType, InsertTransType, DeleteTransType, SetStopType, RefuseType, CreatePortType, CreateCallType, CreateCallFailsType
  <1>2. ASSUME StartCall(t) \/ StartCallFails(t) \/ AcceptPeer(t) \/ SelectTransferor(t) \/ Transfer(t) \/ Unwanted(t)
                \/ EndPeer(t) \/ EndTransfer(t) \/ EndAlone(t) \/ BlindTransfer(t) \/ CreateTransPort(t) \/ StartTransCall(t) PROVE Data'
    BY <1>2, StartCallType, StartCallFailsType, AcceptPeerType, SelectTransferorType, TransferType, UnwantedType, EndPeerType, EndTransferType, EndAloneType, BlindTransferType, CreateTransPortType, StartTransCallType
  <1>3. ASSUME StartTransCallFails(t) \/ SelectTransfer(t) \/ SelectReferTo(t) \/ ScreenedTransfer(t) \/ UnscreenedTransfer(t) \/ TransferFails(t)
                \/ Redial(t) \/ RedialFails(t) \/ RedialNobody(t) \/ PickUp(t) \/ SelectToRing(t) \/ SelectOld(t) PROVE Data'
    BY <1>3, StartTransCallFailsType, SelectTransferType, SelectReferToType, ScreenedTransferType, UnscreenedTransferType, TransferFailsType, RedialType, RedialFailsType, RedialNobodyType, PickUpType, SelectToRingType, SelectOldType
  <1>4. ASSUME InsertOne(t) \/ DeleteOne(t) \/ AcceptCaller(t) \/ PickUpFails(t) \/ SelectCaller(t) \/ Update(t) PROVE Data'
    BY <1>4, InsertOneType, DeleteOneType, AcceptCallerType, PickUpFailsType, SelectCallerType, UpdateType
  <1> QED
    BY <1>1, <1>2, <1>3, <1>4 DEF Handle

LEMMA RtpThreadType ==
  ASSUME Types, NEW p \in Ports, RtpThread(p) PROVE Types'
  <1>1. [ports EXCEPT ![p] = "free"] \in PortMap
    BY DataOf DEF Data, PortMap
  <1> QED
    BY <1>1 DEF RtpThread, Types, PortMap

LEMMA TypesFrom ==
  ASSUME Types, Data', Crosses PROVE Types'
  <1>1. crossed' \in BOOLEAN
    BY DEF Crosses, Crossing, Types
  <1>2. scenario' = scenario
    BY DEF Crosses
  <1> QED
    BY <1>1, <1>2 DEF Types, Data, Dialogs, Maps, Lists, PortMap

LEMMA TypesKept == Types /\ [Next]_vars => Types'
  <1> SUFFICES ASSUME Types, [Next]_vars PROVE Types'
    OBVIOUS
  <1>1. ASSUME NEW t \in Threads, Receive(t) PROVE Types'
    <2>1. Crosses
      BY <1>1 DEF Receive
    <2> QED
      BY <1>1, <2>1, ReceiveType, TypesFrom
  <1>2. ASSUME NEW t \in Threads, Handle(t) PROVE Types'
    <2>1. Crosses
      BY <1>2 DEF Handle
    <2> QED
      BY <1>2, <2>1, HandleType, TypesFrom
  <1>3. ASSUME UNCHANGED vars PROVE Types'
    BY <1>3 DEF vars, Types
  <1> QED
    BY <1>1, <1>2, <1>3, RtpThreadType DEF Next

LEMMA TypesAtFirst == Init => Types
  <1> SUFFICES ASSUME Init PROVE Types
    OBVIOUS
  <1>1. <<>> \in Seq(Step)
    BY EmptySeq
  <1> QED
    BY <1>1, Ids DEF Init, Types

(* Every variable of the server has its type. *)
THEOREM TypeCorrect == Spec => []TypeOK
  <1>1. Types => TypeOK
    <2> SUFFICES ASSUME Types PROVE TypeOK
      OBVIOUS
    <2>1. ASSUME NEW t \in Threads, NEW i \in DOMAIN todo[t] PROVE "do" \in DOMAIN todo[t][i]
      <3>1. todo[t] \in Seq(Step)
        BY DEF Types
      <3>2. todo[t][i] \in Step
        BY <2>1, <3>1, LenProperties, ElementOfSeq
      <3> QED
        BY <3>2, HasKind
    <2> QED
      BY <2>1 DEF Types, TypeOK
  <1> QED
    BY <1>1, TypesAtFirst, TypesKept, PTL DEF Spec

-----------------------------------------------------------------------------
(* What the operations on the map of calls leave settled. *)

LEMMA SettledMore ==
  ASSUME NEW m, NEW U, NEW L, NEW A, NEW V, NEW M, NEW B,
         Settled(m, U, L, A), U \subseteq V, L \subseteq M, A \subseteq B
  PROVE  Settled(m, V, M, B)
  BY DEF Settled

LEMMA MapOf ==
  ASSUME NEW m \in Maps, NEW x \in CallIds
  PROVE  /\ m[x] # None => m[x] \in CallInfo /\ m[x].peer \in CallIds /\ m[x].port \in Int /\ m[x].recv \in BOOLEAN
         /\ \A y : To(m, x, y) => y \in CallIds
  BY Infos DEF Maps, To

LEMMA InsertedTo ==
  ASSUME NEW m \in Maps, NEW r \in CallIds, NEW s \in CallIds, NEW p \in Int,
         NEW x \in CallIds, NEW y
  PROVE  To(Inserted(m, r, s, p), x, y) <=>
           \/ To(m, x, y)
           \/ x = r /\ y = s /\ m[r] = None
           \/ x = s /\ y = r /\ m[s] = None /\ r # s
  <1> DEFINE n == Inserted(m, r, s, p)
             i == [peer |-> s, recv |-> TRUE, port |-> p]
             j == [peer |-> r, recv |-> FALSE, port |-> p + 2]
  <1>1. /\ \A z \in CallIds : z \notin {r, s} \/ m[z] # None => n[z] = m[z]
        /\ m[r] = None => n[r] = i
        /\ m[s] = None /\ r # s => n[s] = j
    BY InsertedMap
  <1>2. i # None /\ j # None /\ i.peer = s /\ j.peer = r
    BY Infos
  <1> HIDE DEF n, i, j
  <1>3. To(n, x, y) <=>
           \/ To(m, x, y)
           \/ x = r /\ y = s /\ m[r] = None
           \/ x = s /\ y = r /\ m[s] = None /\ r # s
    BY <1>1, <1>2 DEF To
  <1> QED
    BY <1>3 DEF n

LEMMA SettledInserted ==
  ASSUME NEW m \in Maps, NEW r \in CallIds, NEW s \in CallIds, NEW p \in Int,
         NEW U, NEW L, NEW A, NEW W, W \subseteq U,
         Settled(m, U, L, A), Claim(m, W, L, r), Claim(m, W, L, s), r # s \/ r \in L
  PROVE  Settled(Inserted(m, r, s, p), U, L, A)
  <1> DEFINE n == Inserted(m, r, s, p)
  <1>1. \A x \in CallIds : \A y : To(n, x, y) <=>
           \/ To(m, x, y)
           \/ x = r /\ y = s /\ m[r] = None
           \/ x = s /\ y = r /\ m[s] = None /\ r # s
    BY InsertedTo
  <1>2. /\ \A z \in CallIds : z \notin {r, s} \/ m[z] # None => n[z] = m[z]
        /\ m[r] = None => n[r] = [peer |-> s, recv |-> TRUE, port |-> p]
        /\ m[s] = None /\ r # s => n[s] = [peer |-> r, recv |-> FALSE, port |-> p + 2]
    BY InsertedMap
  <1>3. m[r] = None => n[r].recv = TRUE /\ n[r].port = p
    BY <1>2
  <1>4. m[s] = None /\ r # s => n[s].recv = FALSE /\ n[s].port = p + 2
    BY <1>2
  <1> HIDE DEF n
  <1>5. r # s /\ m[r] = None /\ m[s] = None => Fine(n, r, s) /\ Fine(n, s, r)
    BY <1>3, <1>4 DEF Fine
  <1> SUFFICES ASSUME NEW x \in CallIds, NEW y \in CallIds, To(n, x, y)
               PROVE  /\ x \in U /\ y \in U
                      /\ x = NoCall \/ y = NoCall => NoCall \in L
                      /\ Mutual(n, x, y) \/ y \in L \/ (x \in A /\ n[y] = None)
                      /\ Mutual(n, x, y) /\ x # NoCall /\ y # NoCall => Fine(n, x, y)
                      /\ \A z \in CallIds : To(n, z, y) => z = x \/ y \in L
    BY DEF Settled, n
  <1>6. \A a, b \in CallIds : To(m, a, b) =>
    /\ a \in U /\ b \in U
    /\ a = NoCall \/ b = NoCall => NoCall \in L
    /\ Mutual(m, a, b) \/ b \in L \/ (a \in A /\ m[b] = None)
    /\ Mutual(m, a, b) /\ a # NoCall /\ b # NoCall => Fine(m, a, b)
    /\ \A z \in CallIds : To(m, z, b) => z = a \/ b \in L
    BY DEF Settled
  <1>7. /\ r \in U /\ s \in U
        /\ r = NoCall \/ s = NoCall => NoCall \in L
        /\ r # NoCall => m[r] = None
        /\ s # NoCall => m[s] = None
        /\ r \in L \/ \A z \in CallIds : ~To(m, z, r)
        /\ s \in L \/ \A z \in CallIds : ~To(m, z, s)
    BY DEF Claim
  <1>8. x \in U /\ y \in U /\ (x = NoCall \/ y = NoCall => NoCall \in L)
    BY <1>1, <1>6, <1>7
  <1>9. \A z \in CallIds : To(n, z, y) => z = x \/ y \in L
    BY <1>1, <1>6, <1>7
  <1>10. Mutual(n, x, y) \/ y \in L \/ (x \in A /\ n[y] = None)
    <2>1. CASE To(m, x, y)
      <3>1. CASE Mutual(m, x, y)
        BY <1>1, <2>1, <3>1 DEF Mutual
      <3>2. CASE y \in L
        BY <3>2
      <3>3. CASE x \in A /\ m[y] = None /\ y \notin L
        <4>1. y # r /\ y # s
          BY <2>1, <1>7, <3>3
        <4> QED
          BY <1>2, <3>3, <4>1
      <3> QED
        BY <1>6, <2>1, <3>1, <3>2, <3>3
    <2>2. CASE ~To(m, x, y)
      BY <1>1, <1>7, <2>2 DEF Mutual
    <2> QED
      BY <2>1, <2>2
  <1>11. ASSUME Mutual(n, x, y), x # NoCall, y # NoCall PROVE Fine(n, x, y)
    <2>1. CASE To(m, x, y) /\ To(m, y, x)
      <3>1. Fine(m, x, y)
        BY <1>6, <1>11, <2>1 DEF Mutual
      <3>2. n[x] = m[x] /\ n[y] = m[y]
        BY <1>2, <2>1 DEF To
      <3> QED
        BY <3>1, <3>2 DEF Fine
    <2>2. CASE ~(To(m, x, y) /\ To(m, y, x))
      <3>1. {x, y} = {r, s} /\ r # s
        BY <1>1, <1>7, <1>11, <2>2 DEF Mutual, To
      <3>2. m[r] = None /\ m[s] = None
        BY <1>7, <1>11, <3>1
      <3> QED
        BY <1>5, <3>1, <3>2
    <2> QED
      BY <2>1, <2>2
  <1> QED
    BY <1>8, <1>9, <1>10, <1>11

LEMMA ErasedTo ==
  ASSUME NEW m \in Maps, NEW f \in CallIds, NEW x \in CallIds, NEW y
  PROVE  To(Erased(m, f), x, y) <=> To(m, x, y) /\ x # f /\ ~To(m, f, x)
  <1>1. CASE m[f] = None
    BY <1>1, ErasedMap DEF To
  <1>2. CASE m[f] # None
    <2>1. Erased(m, f)[f] = None /\ Erased(m, f)[m[f].peer] = None
          /\ \A z \in CallIds : z # f /\ ~To(m, f, z) => Erased(m, f)[z] = m[z]
      BY <1>2, ErasedMap
    <2>2. To(m, f, x) => x = m[f].peer
      BY DEF To
    <2> QED
      BY <2>1, <2>2 DEF To
  <1> QED
    BY <1>1, <1>2

LEMMA ErasedAt ==
  ASSUME NEW m \in Maps, NEW f \in CallIds, NEW x \in CallIds
  PROVE  Erased(m, f)[x] = m[x] \/ Erased(m, f)[x] = None
  <1>1. CASE m[f] = None
    BY <1>1, ErasedMap
  <1>2. CASE m[f] # None
    BY <1>2, ErasedMap DEF To
  <1> QED
    BY <1>1, <1>2

LEMMA SettledErased ==
  ASSUME NEW m \in Maps, NEW f \in CallIds, NEW U, NEW L, NEW A, Settled(m, U, L, A)
  PROVE  Settled(Erased(m, f), U, L, A)
  <1> DEFINE n == Erased(m, f)
  <1>1. \A x \in CallIds : \A y : To(n, x, y) <=> To(m, x, y) /\ x # f /\ ~To(m, f, x)
    BY ErasedTo
  <1>2. \A x \in CallIds : n[x] = m[x] \/ n[x] = None
    BY ErasedAt
  <1> HIDE DEF n
  <1> SUFFICES ASSUME NEW x \in CallIds, NEW y \in CallIds, To(n, x, y)
               PROVE  /\ x \in U /\ y \in U
                      /\ x = NoCall \/ y = NoCall => NoCall \in L
                      /\ Mutual(n, x, y) \/ y \in L \/ (x \in A /\ n[y] = None)
                      /\ Mutual(n, x, y) /\ x # NoCall /\ y # NoCall => Fine(n, x, y)
                      /\ \A z \in CallIds : To(n, z, y) => z = x \/ y \in L
    BY DEF Settled, n
  <1>3. \A a, b \in CallIds : To(m, a, b) =>
    /\ a \in U /\ b \in U
    /\ a = NoCall \/ b = NoCall => NoCall \in L
    /\ Mutual(m, a, b) \/ b \in L \/ (a \in A /\ m[b] = None)
    /\ Mutual(m, a, b) /\ a # NoCall /\ b # NoCall => Fine(m, a, b)
    /\ \A z \in CallIds : To(m, z, b) => z = a \/ b \in L
    BY DEF Settled
  <1>4. To(m, x, y) /\ x # f /\ ~To(m, f, x)
    BY <1>1
  <1>5. Mutual(n, x, y) \/ y \in L \/ (x \in A /\ n[y] = None)
    <2>1. CASE Mutual(m, x, y)
      <3>1. y # f
        BY <1>4, <2>1 DEF Mutual
      <3>2. To(m, f, y) => y \in L
        BY <1>3, <1>4
      <3> QED
        BY <1>1, <1>4, <2>1, <3>1, <3>2 DEF Mutual
    <2>2. CASE x \in A /\ m[y] = None
      BY <1>2, <2>2
    <2> QED
      BY <1>3, <1>4, <2>1, <2>2
  <1>6. ASSUME Mutual(n, x, y), x # NoCall, y # NoCall PROVE Fine(n, x, y)
    <2>1. Mutual(m, x, y) /\ Fine(m, x, y)
      BY <1>1, <1>3, <1>6 DEF Mutual
    <2>2. n[x] = m[x] /\ n[y] = m[y]
      BY <1>2, <1>6 DEF Mutual, To
    <2> QED
      BY <2>1, <2>2 DEF Fine
  <1> QED
    BY <1>1, <1>3, <1>4, <1>5, <1>6

(* The peer of a call that was deleted can be given an entry again. *)
LEMMA ErasedFrees ==
  ASSUME NEW m \in Maps, NEW f \in CallIds, NEW p \in CallIds, NEW U, NEW L, NEW A, NEW W,
         Settled(m, U, L, A), To(m, f, p), p \in W
  PROVE  Claim(Erased(m, f), W, L, p)
  <1> DEFINE n == Erased(m, f)
  <1>1. \A x \in CallIds : \A y : To(n, x, y) <=> To(m, x, y) /\ x # f /\ ~To(m, f, x)
    BY ErasedTo
  <1>2. n[p] = None
    BY ErasedMap DEF To
  <1> HIDE DEF n
  <1>3. p = NoCall => NoCall \in L
    BY DEF Settled
  <1>4. \A z \in CallIds : To(m, z, p) => z = f \/ p \in L
    BY DEF Settled
  <1> QED
    BY <1>1, <1>2, <1>3, <1>4 DEF Claim, n

LEMMA ErasedKeeps ==
  ASSUME NEW m \in Maps, NEW f \in CallIds, NEW x \in CallIds, NEW W, NEW L
  PROVE  /\ Unused(m, x) => Unused(Erased(m, f), x)
         /\ Own(m, W, x) => Own(Erased(m, f), W, x)
         /\ Claim(m, W, L, x) => Claim(Erased(m, f), W, L, x)
  BY ErasedTo, ErasedAt DEF Unused, Own, Claim

LEMMA InsertedKeeps ==
  ASSUME NEW m \in Maps, NEW r \in CallIds, NEW s \in CallIds, NEW p \in Int, NEW x \in CallIds,
         x # r, x # s, NEW W, NEW L
  PROVE  /\ Unused(m, x) => Unused(Inserted(m, r, s, p), x)
         /\ Own(m, W, x) => Own(Inserted(m, r, s, p), W, x)
         /\ Claim(m, W, L, x) => Claim(Inserted(m, r, s, p), W, L, x)
  <1> DEFINE n == Inserted(m, r, s, p)
             i == [peer |-> s, recv |-> TRUE, port |-> p]
             j == [peer |-> r, recv |-> FALSE, port |-> p + 2]
  <1>1. \A z \in CallIds : To(n, z, x) <=> To(m, z, x)
    BY InsertedTo
  <1>2. /\ n \in Maps
        /\ \A z \in CallIds : z \notin {r, s} \/ m[z] # None => n[z] = m[z]
        /\ m[r] = None => n[r] = i
        /\ m[s] = None /\ r # s => n[s] = j
    BY InsertedMap
  <1> HIDE DEF n, i, j
  <1>3. n[x] = m[x]
    BY <1>2
  <1>4. (Unused(m, x) => Unused(n, x)) /\ (Own(m, W, x) => Own(n, W, x)) /\ (Claim(m, W, L, x) => Claim(n, W, L, x))
    BY <1>1, <1>3 DEF Unused, Own, Claim
  <1> QED
    BY <1>4 DEF n

(* A call that takes part in an entry can be given another one. *)
LEMMA OwnClaim ==
  ASSUME NEW m, NEW W, NEW L, NEW x, Own(m, W, x)
  PROVE  Claim(m, W, L, x)
  BY DEF Own, Claim, Unused

LEMMA UnusedOutside ==
  ASSUME NEW m \in Maps, NEW U, NEW L, NEW A, Settled(m, U, L, A), NEW x \in CallIds, x \notin U
  PROVE  Unused(m, x)
  <1>1. m[x] # None => m[x].peer \in CallIds
    BY MapOf
  <1>2. \A y \in CallIds : ~To(m, x, y) /\ ~To(m, y, x)
    BY DEF Settled
  <1> QED
    BY <1>1, <1>2 DEF Unused, To

LEMMA BackOf ==
  ASSUME NEW m \in Maps, NEW c \in CallIds, NEW x \in CallIds, c # x
  PROVE  /\ Back(m, c, x) \in Maps /\ Back(m, c, x)[c] = None /\ Back(m, c, x)[x] = m[c]
         /\ \A z \in CallIds : z # c /\ z # x => Back(m, c, x)[z] = m[z]
  <1>1. m[c] \in CallInfo \cup {None}
    BY DEF Maps
  <1> QED
    BY <1>1 DEF Back, Maps

LEMMA SameMap ==
  ASSUME NEW m \in Maps, NEW n \in Maps, \A z \in CallIds : m[z] = n[z]
  PROVE  m = n
  BY DEF Maps

LEMMA BackInserted ==
  ASSUME NEW m \in Maps, NEW c \in CallIds, NEW x \in CallIds, c # x,
         NEW r \in CallIds, NEW s \in CallIds, NEW p \in Int, {r, s} \cap {c, x} = {}
  PROVE  Back(Inserted(m, r, s, p), c, x) = Inserted(Back(m, c, x), r, s, p)
  <1> DEFINE n == Inserted(m, r, s, p)
             b == Back(m, c, x)
             i == [peer |-> s, recv |-> TRUE, port |-> p]
             j == [peer |-> r, recv |-> FALSE, port |-> p + 2]
             d == Inserted(b, r, s, p)
             e == Back(n, c, x)
  <1>1. /\ n \in Maps
        /\ \A z \in CallIds : z \notin {r, s} \/ m[z] # None => n[z] = m[z]
        /\ m[r] = None => n[r] = i
        /\ m[s] = None /\ r # s => n[s] = j
    BY InsertedMap
  <1>2. /\ b \in Maps /\ b[c] = None /\ b[x] = m[c]
        /\ \A z \in CallIds : z # c /\ z # x => b[z] = m[z]
    BY BackOf
  <1>3. /\ d \in Maps
        /\ \A z \in CallIds : z \notin {r, s} \/ b[z] # None => d[z] = b[z]
        /\ b[r] = None => d[r] = i
        /\ b[s] = None /\ r # s => d[s] = j
    BY <1>2, InsertedMap
  <1>4. /\ e \in Maps /\ e[c] = None /\ e[x] = n[c]
        /\ \A z \in CallIds : z # c /\ z # x => e[z] = n[z]
    BY <1>1, BackOf
  <1> HIDE DEF n, b, i, j, d, e
  <1>5. ASSUME NEW z \in CallIds PROVE d[z] = e[z]
    <2>1. CASE z \in {c, x}
      BY <1>1, <1>2, <1>3, <1>4, <2>1
    <2>2. CASE z \notin {c, x}
      BY <1>1, <1>2, <1>3, <1>4, <2>2
    <2> QED
      BY <2>1, <2>2
  <1>6. d = e
    BY <1>3, <1>4, <1>5, SameMap
  <1> QED
    BY <1>6 DEF n, b, d, e

(* The entries the pick-up of x by c goes by: those before it. *)
LEMMA BackTo ==
  ASSUME NEW m \in Maps, NEW c \in CallIds, NEW x \in CallIds, c # x, NEW y \in CallIds, NEW z
  PROVE  To(Back(m, c, x), y, z) <=> (y = x /\ To(m, c, z)) \/ (y # c /\ y # x /\ To(m, y, z))
  <1>1. CASE y = c
    BY <1>1, BackOf DEF To
  <1>2. CASE y = x
    BY <1>2, BackOf DEF To
  <1>3. CASE y # c /\ y # x
    BY <1>3, BackOf DEF To
  <1> QED
    BY <1>1, <1>2, <1>3

(* A pick-up that fails after the entry of c was made: the caller o has    *)
(* been accepted, so no other one can take it.                             *)
LEMMA PickedFails ==
  ASSUME NEW m \in Maps, NEW c \in CallIds, NEW x \in CallIds, NEW o \in CallIds,
         c # x, c # NoCall, m[x] = None, To(m, c, o),
         NEW U, NEW L, NEW A, NEW M, NEW B,
         Settled(Back(m, c, x), U, L, A), Unused(Back(m, c, x), c),
         c \in U, L \subseteq M, A \subseteq B, o \in M, o \in B
  PROVE  Settled(m, U, M, B)
  <1> DEFINE b == Back(m, c, x)
  <1>1. b[c] = None /\ b[x] = m[c] /\ \A z \in CallIds : z # c /\ z # x => b[z] = m[z]
    BY BackOf
  <1>2. \A y \in CallIds : \A z : To(b, y, z) <=> (y = x /\ To(m, c, z)) \/ (y # c /\ y # x /\ To(m, y, z))
    BY BackTo
  <1>3. Settled(b, U, L, A) /\ Unused(b, c)
    OBVIOUS
  <1> HIDE DEF b
  <1>4. \A y, z \in CallIds : To(b, y, z) =>
    /\ y \in U /\ z \in U
    /\ y = NoCall \/ z = NoCall => NoCall \in L
    /\ Mutual(b, y, z) \/ z \in L \/ (y \in A /\ b[z] = None)
    /\ Mutual(b, y, z) /\ y # NoCall /\ z # NoCall => Fine(b, y, z)
    /\ \A w \in CallIds : To(b, w, z) => w = y \/ z \in L
    BY <1>3 DEF Settled
  <1>5. \A z \in CallIds : ~To(b, z, c)
    BY <1>3 DEF Unused
  <1>6. To(b, x, o) /\ \A z : To(m, c, z) => z = o
    BY <1>2 DEF To
  <1>7. \A z : ~To(m, x, z)
    BY DEF To
  <1>8. b[x] # None
    BY <1>6 DEF To
  <1> SUFFICES ASSUME NEW y \in CallIds, NEW z \in CallIds, To(m, y, z)
               PROVE  /\ y \in U /\ z \in U
                      /\ y = NoCall \/ z = NoCall => NoCall \in M
                      /\ Mutual(m, y, z) \/ z \in M \/ (y \in B /\ m[z] = None)
                      /\ Mutual(m, y, z) /\ y # NoCall /\ z # NoCall => Fine(m, y, z)
                      /\ \A w \in CallIds : To(m, w, z) => w = y \/ z \in M
    BY DEF Settled
  <1>9. CASE y = c
    <2>1. z = o /\ z \in U /\ (z = NoCall => NoCall \in M)
      BY <1>4, <1>6, <1>9
    <2>2. ~Mutual(m, c, o)
      <3>1. o # x => ~To(m, o, c)
        BY <1>2, <1>5, <1>9 DEF Mutual
      <3> QED
        BY <3>1, <1>7 DEF Mutual
    <2> QED
      BY <1>9, <2>1, <2>2
  <1>10. CASE y # c
    <2>1. y # x /\ To(b, y, z) /\ z # c
      BY <1>2, <1>5, <1>7, <1>10
    <2>2. y \in U /\ z \in U /\ (y = NoCall \/ z = NoCall => NoCall \in M)
      BY <1>4, <2>1
    <2>3. Mutual(m, y, z) \/ z \in M \/ (y \in B /\ m[z] = None)
      <3>1. CASE Mutual(b, y, z) /\ z # x
        BY <1>2, <2>1, <3>1 DEF Mutual
      <3>2. CASE Mutual(b, y, z) /\ z = x
        BY <1>2, <1>6, <3>2 DEF Mutual
      <3>3. CASE z \in L
        BY <3>3
      <3>4. CASE y \in A /\ b[z] = None
        BY <1>1, <1>8, <2>1, <3>4
      <3> QED
        BY <1>4, <2>1, <3>1, <3>2, <3>3, <3>4
    <2>4. ASSUME Mutual(m, y, z), y # NoCall, z # NoCall PROVE Fine(m, y, z)
      <3>1. z # x /\ To(m, z, y)
        BY <1>7, <2>4 DEF Mutual
      <3>2. Mutual(b, y, z) /\ b[y] = m[y] /\ b[z] = m[z]
        BY <1>1, <1>2, <2>1, <2>4, <3>1 DEF Mutual
      <3> QED
        BY <1>4, <2>1, <2>4, <3>2 DEF Fine
    <2>5. \A w \in CallIds : To(m, w, z) => w = y \/ z \in M
      BY <1>2, <1>4, <1>6, <1>7, <2>1
    <2> QED
      BY <2>2, <2>3, <2>4, <2>5
  <1> QED
    BY <1>9, <1>10

Named(i, c) == [i EXCEPT !.peer = c]

LEMMA NamedInfo ==
  ASSUME NEW i \in CallInfo, NEW c \in CallIds
  PROVE  Named(i, c) \in CallInfo /\ Named(i, c) # None /\ Named(i, c).peer = c
         /\ Named(i, c).recv = i.recv /\ Named(i, c).port = i.port
  BY Distinct DEF CallInfo, Named

(* The caller o is told that its peer is c now.                            *)
LEMMA PickedUpdates ==
  ASSUME NEW m \in Maps, NEW c \in CallIds, NEW x \in CallIds, NEW o \in CallIds, NEW n \in Maps,
         c # x, c # NoCall, x # NoCall, m[x] = None, To(m, c, o), To(m, o, x),
         n = [m EXCEPT ![o] = Named(m[o], c)],
         NEW U, NEW L, NEW A,
         Settled(Back(m, c, x), U, L, A), Unused(Back(m, c, x), c), c \in U
  PROVE  Settled(n, U, L, A)
  <1> DEFINE b == Back(m, c, x)
  <1>1. b[c] = None /\ b[x] = m[c] /\ \A z \in CallIds : z # c /\ z # x => b[z] = m[z]
    BY BackOf
  <1>2. \A y \in CallIds : \A z : To(b, y, z) <=> (y = x /\ To(m, c, z)) \/ (y # c /\ y # x /\ To(m, y, z))
    BY BackTo
  <1>3. Settled(b, U, L, A) /\ Unused(b, c)
    OBVIOUS
  <1> HIDE DEF b
  <1>4. \A y, z \in CallIds : To(b, y, z) =>
    /\ y \in U /\ z \in U
    /\ y = NoCall \/ z = NoCall => NoCall \in L
    /\ Mutual(b, y, z) \/ z \in L \/ (y \in A /\ b[z] = None)
    /\ Mutual(b, y, z) /\ y # NoCall /\ z # NoCall => Fine(b, y, z)
    /\ \A w \in CallIds : To(b, w, z) => w = y \/ z \in L
    BY <1>3 DEF Settled
  <1>5. \A z \in CallIds : ~To(b, z, c)
    BY <1>3 DEF Unused
  <1>6. o # x /\ o # c
    BY DEF To
  <1>7. m[o] \in CallInfo
    BY MapOf DEF To
  <1>8. n[o] # None /\ n[o].peer = c /\ n[o].recv = m[o].recv /\ n[o].port = m[o].port
        /\ \A z \in CallIds : z # o => n[z] = m[z]
    BY <1>7, NamedInfo DEF Maps
  <1>9. /\ To(b, x, o) /\ To(b, o, x)
        /\ \A z : (To(m, c, z) => z = o) /\ (To(m, o, z) => z = x) /\ ~To(m, x, z)
    BY <1>2, <1>6 DEF To
  <1>10. \A y \in CallIds : \A z : To(n, y, z) <=> (y = o /\ z = c) \/ (y # o /\ To(m, y, z))
    BY <1>8 DEF To
  <1>11. To(n, c, o) /\ To(n, o, c) /\ Mutual(n, c, o) /\ Mutual(n, o, c)
    BY <1>6, <1>10 DEF Mutual
  <1>12. c # NoCall /\ o # NoCall => Fine(n, c, o) /\ Fine(n, o, c)
    <2>1. o # NoCall => Fine(b, x, o) /\ Fine(b, o, x)
      BY <1>4, <1>6, <1>9 DEF Mutual
    <2>2. b[x] = n[c] /\ n[o].recv = b[o].recv /\ n[o].port = b[o].port
      BY <1>1, <1>6, <1>8
    <2> QED
      BY <2>1, <2>2 DEF Fine
  <1>13. o \in U /\ (o = NoCall => NoCall \in L)
    BY <1>4, <1>9
  <1>20. ASSUME NEW w \in CallIds, NEW z \in CallIds
         PROVE  To(n, w, z) => (w = c /\ z = o) \/ (w = o /\ z = c)
                                 \/ (w # c /\ w # o /\ w # x /\ To(b, w, z) /\ n[w] = b[w])
    <2>1. CASE w = o
      BY <1>10, <2>1
    <2>2. CASE w # o /\ w = c
      BY <1>9, <1>10, <2>2
    <2>3. CASE w # o /\ w = x
      BY <1>9, <1>10, <2>3
    <2>4. CASE w # o /\ w # c /\ w # x
      BY <1>1, <1>2, <1>8, <1>10, <2>4
    <2> QED
      BY <2>1, <2>2, <2>3, <2>4
  <1>14. \A w \in CallIds : To(n, w, o) => w = c \/ o \in L
    <2> SUFFICES ASSUME NEW w \in CallIds, To(n, w, o), w # c PROVE o \in L
      OBVIOUS
    <2>1. w # x /\ To(b, w, o)
      BY <1>6, <1>20
    <2> QED
      BY <1>4, <1>9, <2>1
  <1>15. \A w \in CallIds : To(n, w, c) => w = o
    BY <1>5, <1>6, <1>20
  <1> SUFFICES ASSUME NEW y \in CallIds, NEW z \in CallIds, To(n, y, z)
               PROVE  /\ y \in U /\ z \in U
                      /\ y = NoCall \/ z = NoCall => NoCall \in L
                      /\ Mutual(n, y, z) \/ z \in L \/ (y \in A /\ n[z] = None)
                      /\ Mutual(n, y, z) /\ y # NoCall /\ z # NoCall => Fine(n, y, z)
                      /\ \A w \in CallIds : To(n, w, z) => w = y \/ z \in L
    BY DEF Settled
  <1>16. CASE y = c
    <2>1. z = o
      BY <1>6, <1>9, <1>10, <1>16
    <2> QED
      BY <1>11, <1>12, <1>13, <1>14, <1>16, <2>1
  <1>17. CASE y = o
    <2>1. z = c
      BY <1>10, <1>17
    <2> QED
      BY <1>11, <1>12, <1>13, <1>15, <1>17, <2>1
  <1>18. CASE y # c /\ y # o
    <2>1. y # x /\ To(b, y, z) /\ z # c
      BY <1>5, <1>18, <1>20
    <2>2. y \in U /\ z \in U /\ (y = NoCall \/ z = NoCall => NoCall \in L)
      BY <1>4, <2>1
    <2>3. z = x => z \in L
      BY <1>4, <1>9, <1>18, <2>1
    <2>4. z = o => z \in L
      BY <1>4, <1>9, <2>1
    <2>5. Mutual(n, y, z) \/ z \in L \/ (y \in A /\ n[z] = None)
      <3>1. CASE z \in L
        BY <3>1
      <3>2. CASE z \notin L /\ Mutual(b, y, z)
        BY <1>2, <1>10, <1>18, <2>3, <2>4, <3>2 DEF Mutual
      <3>3. CASE z \notin L /\ y \in A /\ b[z] = None
        BY <1>1, <1>8, <2>1, <2>3, <2>4, <3>3
      <3> QED
        BY <1>4, <2>1, <3>1, <3>2, <3>3
    <2>6. ASSUME Mutual(n, y, z), y # NoCall, z # NoCall PROVE Fine(n, y, z)
      <3>1. To(n, z, y) /\ z # y
        BY <2>6 DEF Mutual
      <3>2. To(b, z, y) /\ n[z] = b[z]
        BY <1>18, <1>20, <3>1
      <3>3. n[y] = b[y]
        BY <1>18, <1>20
      <3>4. Mutual(b, y, z)
        BY <2>1, <3>1, <3>2 DEF Mutual
      <3> QED
        BY <1>4, <2>1, <2>6, <3>2, <3>3, <3>4 DEF Fine
    <2>7. \A w \in CallIds : To(n, w, z) => w = y \/ z \in L
      <3> SUFFICES ASSUME NEW w \in CallIds, To(n, w, z), w # y, z \notin L PROVE FALSE
        OBVIOUS
      <3>1. To(b, w, z)
        BY <1>20, <2>1, <2>4
      <3> QED
        BY <1>4, <2>1, <3>1
    <2> QED
      BY <2>2, <2>5, <2>6, <2>7
  <1> QED
    BY <1>16, <1>17, <1>18

-----------------------------------------------------------------------------
(* Steps that leave the maps of entries alone: what was so of the other    *)
(* threads' calls stays so.                                                *)
Onward ==
  /\ calls' = calls /\ trans' = trans
  /\ Advances(dialog, dialog')
  /\ astray \subseteq astray'
  /\ \A x \in Reserved' : x \in Reserved \/ x \notin Used

LEMMA Sets ==
  /\ \A x \in CallIds : /\ x \in Used <=> dialog[x] # None \/ x = NoCall
                        /\ x \in Past <=> x \in Used /\ ~Acc(dialog[x])
                        /\ x \in Going <=> x \in Calls /\ Gone(dialog[x])
                        /\ x \in Ready <=> x \in Calls /\ Waiting(dialog[x])
  /\ Used \subseteq CallIds /\ Past \subseteq Used /\ Going \subseteq CallIds /\ Workable \subseteq Used
  /\ Reserved \subseteq CallIds /\ Ready \subseteq CallIds /\ Lost \subseteq Past
  <1>1. \A x \in CallIds : /\ Acceptable(x) <=> Acc(dialog[x])
                           /\ Exists(x) <=> dialog[x] # None /\ dialog[x] # Over
    BY DEF Acceptable, Exists, Acc
  <1>2. \A t \in Threads : Res(todo[t]) \subseteq CallIds
    BY DEF Res
  <1>3. \A x \in CallIds : /\ x \in Used <=> dialog[x] # None \/ x = NoCall
                           /\ x \in Past <=> x \in Used /\ ~Acc(dialog[x])
    BY <1>1 DEF Used, Past
  <1>4. \A x \in CallIds : x \in Going <=> x \in Calls /\ Gone(dialog[x])
    BY <1>1 DEF Going, Gone
  <1>5. \A x \in CallIds : x \in Ready <=> x \in Calls /\ Waiting(dialog[x])
    BY <1>1 DEF Ready, Waiting
  <1>6. Used \subseteq CallIds /\ Past \subseteq Used /\ Workable \subseteq Used /\ Lost \subseteq Past
    BY DEF Used, Past, Workable, Lost
  <1>7. Going \subseteq CallIds /\ Ready \subseteq CallIds
    BY Ids DEF Going, Ready
  <1>8. Reserved \subseteq CallIds
    BY <1>2 DEF Reserved
  <1> QED
    BY <1>3, <1>4, <1>5, <1>6, <1>7, <1>8

LEMMA SetsNext ==
  /\ \A x \in CallIds : /\ x \in Used' <=> dialog'[x] # None \/ x = NoCall
                        /\ x \in Past' <=> x \in Used' /\ ~Acc(dialog'[x])
                        /\ x \in Going' <=> x \in Calls /\ Gone(dialog'[x])
                        /\ x \in Ready' <=> x \in Calls /\ Waiting(dialog'[x])
  /\ Used' \subseteq CallIds /\ Past' \subseteq Used' /\ Going' \subseteq CallIds /\ Workable' \subseteq Used'
  /\ Reserved' \subseteq CallIds /\ Ready' \subseteq CallIds /\ Lost' \subseteq Past'
  <1>1. \A x \in CallIds : /\ Acceptable(x)' <=> Acc(dialog'[x])
                           /\ Exists(x)' <=> dialog'[x] # None /\ dialog'[x] # Over
    BY DEF Acceptable, Exists, Acc
  <1>2. \A t \in Threads : Res(todo'[t]) \subseteq CallIds
    BY DEF Res
  <1>3. \A x \in CallIds : /\ x \in Used' <=> dialog'[x] # None \/ x = NoCall
                           /\ x \in Past' <=> x \in Used' /\ ~Acc(dialog'[x])
    BY <1>1 DEF Used, Past
  <1>4. \A x \in CallIds : x \in Going' <=> x \in Calls /\ Gone(dialog'[x])
    BY <1>1 DEF Going, Gone
  <1>5. \A x \in CallIds : x \in Ready' <=> x \in Calls /\ Waiting(dialog'[x])
    BY <1>1 DEF Ready, Waiting
  <1>6. Used' \subseteq CallIds /\ Past' \subseteq Used' /\ Workable' \subseteq Used' /\ Lost' \subseteq Past'
    BY DEF Used, Past, Workable, Lost
  <1>7. Going' \subseteq CallIds /\ Ready' \subseteq CallIds
    BY Ids DEF Going, Ready
  <1>8. Reserved' \subseteq CallIds
    BY <1>2 DEF Reserved
  <1> QED
    BY <1>3, <1>4, <1>5, <1>6, <1>7, <1>8

LEMMA OnwardSets ==
  ASSUME Types, Onward
  PROVE  /\ Used \subseteq Used' /\ Past \subseteq Past' /\ Lost \subseteq Lost' /\ Going \subseteq Going'
         /\ Workable \subseteq Workable' /\ Used \ Reserved \subseteq Used' \ Reserved'
  <1>1. \A x \in CallIds : Grows(dialog[x], dialog'[x])
    BY DEF Onward, Advances
  <1>2. Used \subseteq Used'
    BY <1>1, Sets, SetsNext DEF Grows
  <1>3. Past \subseteq Past'
    <2> SUFFICES ASSUME NEW x \in Past PROVE x \in Past'
      OBVIOUS
    <2>1. x \in CallIds /\ x \in Used' /\ ~Acc(dialog[x])
      BY <1>2, Sets
    <2>2. x # NoCall => dialog[x] # None
      BY <2>1, Sets
    <2>3. dialog'[NoCall] = None
      BY DEF Onward, Advances
    <2>4. ~Acc(dialog'[x])
      BY <1>1, <2>1, <2>2, <2>3 DEF Grows, Acc
    <2> QED
      BY <2>1, <2>4, SetsNext
  <1>4. Lost \subseteq Lost'
    BY <1>3 DEF Lost, Onward
  <1>5. Going \subseteq Going'
    BY <1>1, Sets, SetsNext DEF Grows
  <1>6. Used \ Reserved \subseteq Used' \ Reserved'
    BY <1>2 DEF Onward
  <1>7. Workable \subseteq Workable'
    BY <1>5, <1>6 DEF Workable, Onward
  <1> QED
    BY <1>2, <1>3, <1>4, <1>5, <1>6, <1>7

LEMMA OnwardSound ==
  ASSUME Types, Onward, NEW m \in Maps, Sound(m)
  PROVE  /\ Settled(m, Used', Lost', astray')
         /\ \A x \in Reserved' : Unused(m, x)
         /\ \A x \in CallIds : trans'[x] # None =>
              x \in Used' \ {NoCall} /\ (x \in Going' \/ (x \notin Reserved' /\ Unused(m, x)))
  <1>1. /\ Used \subseteq Used' /\ Lost \subseteq Lost' /\ Going \subseteq Going' /\ astray \subseteq astray'
        /\ Used \ Reserved \subseteq Used' \ Reserved' /\ trans' = trans
    BY OnwardSets DEF Onward
  <1>2. /\ Settled(m, Used, Lost, astray)
        /\ \A x \in Reserved : Unused(m, x)
        /\ \A x \in CallIds : trans[x] # None =>
              x \in Used \ {NoCall} /\ (x \in Going \/ (x \notin Reserved /\ Unused(m, x)))
    BY DEF Sound
  <1>3. Settled(m, Used', Lost', astray')
    BY <1>1, <1>2, SettledMore
  <1>4. ASSUME NEW x \in Reserved' PROVE Unused(m, x)
    <2>1. x \in CallIds /\ (x \in Reserved \/ x \notin Used)
      BY SetsNext DEF Onward
    <2> QED
      BY <1>2, <2>1, UnusedOutside
  <1>5. ASSUME NEW x \in CallIds, trans'[x] # None
        PROVE  x \in Used' \ {NoCall} /\ (x \in Going' \/ (x \notin Reserved' /\ Unused(m, x)))
    BY <1>1, <1>2, <1>5
  <1> QED
    BY <1>3, <1>4, <1>5

LEMMA SoundNext ==
  ASSUME NEW m, NEW n, n = m,
         Settled(m, Used', Lost', astray'), \A x \in Reserved' : Unused(m, x),
         \A x \in CallIds : trans'[x] # None =>
           x \in Used' \ {NoCall} /\ (x \in Going' \/ (x \notin Reserved' /\ Unused(m, x)))
  PROVE  Sound(n)'
  BY DEF Sound

LEMMA OnwardSoundNext ==
  ASSUME Types, Onward, NEW m \in Maps, Sound(m)
  PROVE  Sound(m)'
  BY OnwardSound, SoundNext

LEMMA OnwardSoundCalls ==
  ASSUME Types, Onward, Sound(calls)
  PROVE  Sound(calls)'
  <1> PICK m : m = calls
    OBVIOUS
  <1>1. m \in Maps /\ Sound(m)
    BY DataOf DEF Data
  <1>2. Settled(m, Used', Lost', astray') /\ (\A x \in Reserved' : Unused(m, x))
        /\ \A x \in CallIds : trans'[x] # None =>
             x \in Used' \ {NoCall} /\ (x \in Going' \/ (x \notin Reserved' /\ Unused(m, x)))
    BY <1>1, OnwardSound
  <1>3. calls' = m
    BY DEF Onward
  <1> QED
    BY <1>2, <1>3 DEF Sound

LEMMA OnwardVirtual ==
  ASSUME Types, Onward, NEW c \in CallIds, NEW x \in CallIds, NEW o \in CallIds
  PROVE  /\ Virtual(c, x, o) => Virtual(c, x, o)'
         /\ Picked(c, x, o) => Picked(c, x, o)'
         /\ Accepted(c, x, o) => Accepted(c, x, o)'
  <1>1. ASSUME Virtual(c, x, o) PROVE Virtual(c, x, o)'
    <2> PICK m : m = calls
      OBVIOUS
    <2>1. /\ c \in Workable \ {NoCall} /\ x \in Calls /\ c # x /\ o \in CallIds
          /\ To(m, c, o) /\ Sound(Back(m, c, x)) /\ Unused(Back(m, c, x), c)
      BY <1>1 DEF Virtual
    <2>2. m \in Maps
      BY DataOf DEF Data
    <2>3. Back(m, c, x) \in Maps
      BY <2>1, <2>2, BackOf
    <2> PICK b : b = Back(m, c, x)
      OBVIOUS
    <2>4. Sound(b)'
      BY <2>1, <2>3, OnwardSoundNext
    <2>5. calls' = m /\ c \in Workable'
      BY <2>1, OnwardSets DEF Onward
    <2>6. Back(calls', c, x) = b
      BY <2>5
    <2>7. Sound(Back(calls, c, x))'
      BY <2>4, <2>6 DEF Sound
    <2> QED
      BY <2>1, <2>5, <2>7 DEF Virtual
  <1>2. ASSUME Picked(c, x, o) PROVE Picked(c, x, o)'
    BY <1>1, <1>2 DEF Picked, Onward
  <1>3. ASSUME Accepted(c, x, o) PROVE Accepted(c, x, o)'
    BY <1>2, <1>3, OnwardSets DEF Accepted, Onward
  <1> QED
    BY <1>1, <1>2, <1>3

(* What the other threads' lists are about stays so. *)
Keeps ==
  /\ \A x \in CallIds : Own(calls, Workable, x) => Own(calls', Workable', x)
  /\ \A x \in CallIds : Claim(calls, Workable, Lost, x) => Claim(calls', Workable', Lost', x)
  /\ \A x \in CallIds : trans'[x] # None => trans[x] # None
  /\ \A x \in CallIds : calls[x] # None => calls'[x] = calls[x]
  /\ \A x \in Used \ Reserved, y \in CallIds : To(calls', x, y) => To(calls, x, y)
  /\ Lost \subseteq Lost' /\ Going \subseteq Going' /\ Used \ Reserved \subseteq Used' \ Reserved'
  /\ \A c, x, o \in CallIds : /\ Virtual(c, x, o) => Virtual(c, x, o)'
                              /\ Picked(c, x, o) => Picked(c, x, o)'
                              /\ Accepted(c, x, o) => Accepted(c, x, o)'

LEMMA OnwardKeeps ==
  ASSUME Types, Onward PROVE Keeps
  <1>1. calls' = calls /\ trans' = trans /\ Workable \subseteq Workable' /\ Lost \subseteq Lost'
    BY OnwardSets DEF Onward
  <1>2. \A x \in CallIds : Own(calls, Workable, x) => Own(calls', Workable', x)
    BY <1>1 DEF Own
  <1>3. \A x \in CallIds : Claim(calls, Workable, Lost, x) => Claim(calls', Workable', Lost', x)
    BY <1>1 DEF Claim
  <1> QED
    BY <1>1, <1>2, <1>3, OnwardSets, OnwardVirtual DEF Keeps

(* The rules of Keeps, for Call-IDs that need not be named as such. *)
LEMMA KeepOwn ==
  ASSUME Keeps, NEW x, Own(calls, Workable, x) PROVE Own(calls', Workable', x)
  BY Sets DEF Keeps, Own

LEMMA KeepClaim ==
  ASSUME Keeps, NEW x, Claim(calls, Workable, Lost, x) PROVE Claim(calls', Workable', Lost', x)
  BY Sets DEF Keeps, Claim

LEMMA KeepTo ==
  ASSUME Keeps, NEW x \in CallIds, NEW y, To(calls, x, y) PROVE To(calls', x, y)
  BY DEF Keeps, To

LEMMA KeepLost ==
  ASSUME Keeps, NEW x, x \in Lost PROVE x \in Lost'
  BY DEF Keeps

LEMMA KeepPicked ==
  ASSUME Types, Keeps, NEW c, NEW x, NEW o
  PROVE  /\ Virtual(c, x, o) => Virtual(c, x, o)'
         /\ Picked(c, x, o) => Picked(c, x, o)'
         /\ Accepted(c, x, o) => Accepted(c, x, o)'
  <1>1. Virtual(c, x, o) => c \in CallIds /\ x \in CallIds /\ o \in CallIds
    BY Sets, Ids DEF Virtual
  <1>2. Picked(c, x, o) => Virtual(c, x, o)
    BY DEF Picked
  <1>3. Accepted(c, x, o) => Picked(c, x, o)
    BY DEF Accepted
  <1> QED
    BY <1>1, <1>2, <1>3 DEF Keeps

LEMMA StepAt ==
  ASSUME NEW q \in Seq(Step), NEW i \in 1 .. Len(q)
  PROVE  /\ q[i] \in Step
         /\ q[i].do \in {"Delete", "DeleteTrans"} \cup CallKinds => q[i].call \in CallIds
         /\ q[i].do = "SelectRefer" => q[i].call \in CallIds /\ q[i].to \in CallIds /\ q[i].peer \in CallIds
         /\ q[i].do = "EventTransfer" => q[i].call \in CallIds /\ q[i].to \in CallIds
         /\ q[i].do \in {"Refer", "Redial"} => q[i].peer \in CallIds /\ q[i].toPeer \in CallIds
         /\ q[i].do = "Update" => q[i].call \in CallIds
  <1>1. q[i] \in Step
    BY ElementOfSeq
  <1> QED
    BY <1>1, KindOf, Fields

LEMMA KeepInsert ==
  ASSUME Keeps, NEW q, OnInsert(q) PROVE OnInsert(q)'
  <1>1. ASSUME NEW r, OnInsertMoved(r) PROVE OnInsertMoved(r)'
    BY <1>1, KeepClaim, KeepLost DEF OnInsertMoved
  <1> QED
    BY <1>1 DEF OnInsert, OnInsertNew

LEMMA KeepInsertMoved ==
  ASSUME Keeps, NEW q, OnInsertMoved(q) PROVE OnInsertMoved(q)'
  BY KeepClaim, KeepLost DEF OnInsertMoved

LEMMA KeepRedialing ==
  ASSUME Keeps, NEW s, Redialing(s) PROVE Redialing(s)'
  BY KeepClaim DEF Redialing

LEMMA KeepReferring ==
  ASSUME Keeps, NEW s, Referring(s) PROVE Referring(s)'
  BY KeepClaim, KeepLost DEF Referring

LEMMA KeepHalfReferred ==
  ASSUME Keeps, NEW d, NEW s, d.call \in CallIds, HalfReferred(d, s) PROVE HalfReferred(d, s)'
  BY KeepClaim, KeepLost, KeepTo DEF HalfReferred

LEMMA KeepStopCall ==
  ASSUME Types, Keeps, NEW q \in Seq(Step), q # <<>>, OnStopCall(q) PROVE OnStopCall(q)'
  <1>1. CASE NoClaims(q)
    BY <1>1 DEF OnStopCall
  <1>2. CASE /\ Len(q) = 4
             /\ q[2].do = "Delete" /\ MovedInsert(q[3]) /\ q[4].do = "DeleteTrans"
             /\ To(calls, q[2].call, q[3].recv) /\ Own(calls, Workable, q[3].send)
    <2>1. q[2].call \in CallIds
      BY <1>2, StepAt
    <2>2. To(calls', q[2].call, q[3].recv) /\ Own(calls', Workable', q[3].send)
      BY <1>2, <2>1, KeepTo, KeepOwn
    <2> QED
      BY <1>2, <2>2 DEF OnStopCall
  <1>3. CASE (Len(q) = 3 /\ q[2].do = "StopCall" /\ Redialing(q[3])) \/ (Len(q) = 2 /\ Redialing(q[2]))
    BY <1>3, KeepRedialing DEF OnStopCall
  <1>4. CASE /\ Len(q) = 2 /\ q[2].do = "AcceptCaller"
             /\ \E x \in Calls : Picked(q[2].call, x, q[2].caller)
    <2>1. PICK x \in Calls : Picked(q[2].call, x, q[2].caller)
      BY <1>4
    <2>2. Picked(q[2].call, x, q[2].caller)'
      BY <2>1, KeepPicked
    <2> QED
      BY <1>4, <2>2 DEF OnStopCall
  <1> QED
    BY <1>1, <1>2, <1>3, <1>4 DEF OnStopCall

LEMMA KeepDelete ==
  ASSUME Types, Keeps, NEW q \in Seq(Step), q # <<>>, Head(q).do = "Delete", OnDelete(q) PROVE OnDelete(q)'
  <1>0. q[1].do = "Delete" /\ 1 \in 1 .. Len(q) /\ q[1].call \in CallIds
    <2>1. q[1].do = "Delete" /\ 1 \in 1 .. Len(q)
      BY First
    <2> QED
      BY <2>1, StepAt
  <1>1. CASE NoClaims(q)
    BY <1>1 DEF OnDelete
  <1>2. CASE /\ Len(q) = 3
             /\ MovedInsert(q[2]) /\ q[3].do = "DeleteTrans"
             /\ To(calls, q[1].call, q[2].recv) /\ Own(calls, Workable, q[2].send)
    <2>1. To(calls', q[1].call, q[2].recv) /\ Own(calls', Workable', q[2].send)
      BY <1>0, <1>2, KeepTo, KeepOwn
    <2> QED
      BY <1>2, <2>1 DEF OnDelete
  <1>3. CASE /\ Len(q) = 3
             /\ q[2].do = "Delete" /\ ~q[2].stop /\ q[3].do = "Refer"
             /\ q[1].call # q[2].call /\ q[3].peer # q[2].call
             /\ To(calls, q[1].call, q[3].peer) /\ To(calls, q[2].call, q[3].toPeer)
    <2>1. q[2].call \in CallIds
      BY <1>3, StepAt
    <2>2. To(calls', q[1].call, q[3].peer) /\ To(calls', q[2].call, q[3].toPeer)
      BY <1>0, <1>3, <2>1, KeepTo
    <2> QED
      BY <1>3, <2>2 DEF OnDelete
  <1>4. CASE Len(q) = 2 /\ HalfReferred(q[1], q[2])
    BY <1>0, <1>4, KeepHalfReferred DEF OnDelete
  <1> QED
    BY <1>1, <1>2, <1>3, <1>4 DEF OnDelete

LEMMA KeepSetStop ==
  ASSUME Types, Keeps, NEW q \in Seq(Step), q # <<>>, OnSetStop(q) PROVE OnSetStop(q)'
  <1>1. CASE NoClaims(q)
    BY <1>1 DEF OnSetStop
  <1>2. CASE Len(q) = 3 /\ MovedInsert(q[2]) /\ OnInsertMoved(Tail(q))
    BY <1>2, KeepInsertMoved DEF OnSetStop
  <1>3. CASE Len(q) = 3 /\ HalfReferred(q[2], q[3])
    <2>1. q[2].call \in CallIds
      BY <1>3, StepAt DEF HalfReferred
    <2> QED
      BY <1>3, <2>1, KeepHalfReferred DEF OnSetStop
  <1> QED
    BY <1>1, <1>2, <1>3 DEF OnSetStop

LEMMA KeepEventTransfer ==
  ASSUME Types, Keeps, NEW q \in Seq(Step), q # <<>>, Head(q).do = "EventTransfer", OnEventTransfer(q)
  PROVE  OnEventTransfer(q)'
  <1>1. q[1].do = "EventTransfer" /\ 1 \in 1 .. Len(q)
    BY First
  <1>2. q[1].to \in CallIds
    BY <1>1, StepAt
  <1>3. q[1].call \in Used' \ Reserved' /\ ~To(calls', q[1].call, q[1].to)
    BY <1>2 DEF OnEventTransfer, Keeps
  <1> QED
    BY <1>3 DEF OnEventTransfer

LEMMA KeepSelectRefer ==
  ASSUME Types, Keeps, NEW q \in Seq(Step), q # <<>>, Head(q).do = "SelectRefer", OnSelectRefer(q)
  PROVE  OnSelectRefer(q)'
  <1>1. q[1].do = "SelectRefer" /\ 1 \in 1 .. Len(q)
    BY First
  <1>2. q[1].call \in CallIds
    BY <1>1, StepAt
  <1>3. To(calls', q[1].call, q[1].peer)
    BY <1>2, KeepTo DEF OnSelectRefer
  <1> QED
    BY <1>3 DEF OnSelectRefer

LEMMA KeepPickUp ==
  ASSUME Types, Keeps, NEW q \in Seq(Step), q # <<>>
  PROVE  /\ OnInsertOne(q) => OnInsertOne(q)'
         /\ OnDeleteOne(q) => OnDeleteOne(q)'
         /\ OnAcceptCaller(q) => OnAcceptCaller(q)'
         /\ OnSelectCaller(q) => OnSelectCaller(q)'
         /\ OnUpdate(q) /\ q[1].do = "Update" => OnUpdate(q)'
  <1>1. ASSUME OnInsertOne(q) PROVE OnInsertOne(q)'
    <2>1. q[2].call \in CallIds
      BY <1>1, Ids DEF OnInsertOne
    <2>2. calls'[q[2].call] = q[1].info
      BY <1>1, <2>1 DEF OnInsertOne, Keeps
    <2>3. Own(calls', Workable', q[1].call)
      BY <1>1, KeepOwn DEF OnInsertOne
    <2> QED
      BY <1>1, <2>2, <2>3 DEF OnInsertOne
  <1>2. ASSUME OnDeleteOne(q) PROVE OnDeleteOne(q)'
    BY <1>2, KeepPicked DEF OnDeleteOne
  <1>3. ASSUME OnAcceptCaller(q) PROVE OnAcceptCaller(q)'
    <2>1. PICK x \in Calls : Picked(q[1].call, x, q[1].caller)
      BY <1>3 DEF OnAcceptCaller
    <2>2. Picked(q[1].call, x, q[1].caller)'
      BY <2>1, KeepPicked
    <2> QED
      BY <1>3, <2>2 DEF OnAcceptCaller
  <1>4. ASSUME OnSelectCaller(q) PROVE OnSelectCaller(q)'
    <2>1. PICK x \in Calls : Accepted(q[1].call, x, q[1].caller)
      BY <1>4 DEF OnSelectCaller
    <2>2. Accepted(q[1].call, x, q[1].caller)'
      BY <2>1, KeepPicked
    <2> QED
      BY <1>4, <2>2 DEF OnSelectCaller
  <1>5. ASSUME OnUpdate(q), q[1].do = "Update" PROVE OnUpdate(q)'
    <2>1. PICK x \in Calls : Accepted(q[1].peer, x, q[1].call) /\ calls[q[1].call] # None
      BY <1>5 DEF OnUpdate
    <2>2. Accepted(q[1].peer, x, q[1].call)'
      BY <2>1, KeepPicked
    <2>3. 1 \in 1 .. Len(q)
      BY First
    <2>4. calls'[q[1].call] # None
      BY <1>5, <2>1, <2>3, StepAt DEF Keeps
    <2> QED
      BY <1>5, <2>2, <2>4 DEF OnUpdate
  <1> QED
    BY <1>1, <1>2, <1>3, <1>4, <1>5

LEMMA ShapeKeeps ==
  ASSUME Types, Keeps, NEW q \in Seq(Step), Shape(q)
  PROVE  Shape(q)'
  <1>1. CASE q = <<>>
    BY <1>1 DEF Shape
  <1>2. CASE q # <<>>
    <2> PICK k : k = Head(q).do
      OBVIOUS
    <2>0. q[1].do = k /\ 1 \in 1 .. Len(q)
      BY <1>2, First
    <2>1. k \in CallKinds => q[1].call \in CallIds
      BY <2>0, StepAt
    <2>2. /\ k \in {"EventIncomingCall", "CreateCall", "EventBlindTransfer"} => Len(q) = 1
          /\ k = "EventBlindTransfer" => q[1].call \in Going'
          /\ k = "AcceptCall" => Len(q) = 1 /\ q[1].call \in Used' \ Reserved'
          /\ k = "StartCall" => Len(q) = 1 /\ q[1].invite \in Used' \ Reserved'
          /\ k \in {"DeleteDialog", "DeleteTrans", "EventCallEnd"} => NoClaims(q)
          /\ k \in {"CreatePort", "SendInvite"} => Len(q) = 1 /\ q[1].call \in Going'
          /\ k = "SelectOld" => q[1].old \in Calls
      BY <1>2 DEF Shape, Keeps
    <2>3. k = "EventCallStart" => Len(q) = 1 /\ (trans'[q[1].call] # None => Own(calls', Workable', q[1].call))
      <3>1. k = "EventCallStart" => q[1].call \in CallIds
        BY <2>1 DEF CallKinds
      <3>2. k = "EventCallStart" => Len(q) = 1 /\ (trans[q[1].call] # None => Own(calls, Workable, q[1].call))
        BY <1>2 DEF Shape
      <3> QED
        BY <3>1, <3>2, KeepOwn DEF Keeps
    <2>4. /\ k = "StopCall" => OnStopCall(q)'
          /\ k = "Delete" => OnDelete(q)'
          /\ k = "SetStop" => OnSetStop(q)'
          /\ k = "Insert" => OnInsert(q)'
      <3>1. /\ k = "StopCall" => OnStopCall(q)
            /\ k = "Delete" => OnDelete(q)
            /\ k = "SetStop" => OnSetStop(q)
            /\ k = "Insert" => OnInsert(q)
        BY <1>2 DEF Shape
      <3> QED
        BY <1>2, <3>1, KeepStopCall, KeepDelete, KeepSetStop, KeepInsert
    <2>5. /\ k = "Transfer" => OnTransfer(q)'
          /\ k = "InsertTrans" => Len(q) = 1 /\ q[1].recv \in Going' /\ Own(calls', Workable', q[1].send)
          /\ k \in {"SelectToRing", "SelectOld"} => Len(q) = 1 /\ Own(calls', Workable', q[1].call)
      <3>1. /\ k = "Transfer" => OnTransfer(q)
            /\ k = "InsertTrans" => Len(q) = 1 /\ q[1].recv \in Going /\ Own(calls, Workable, q[1].send)
            /\ k \in {"SelectToRing", "SelectOld"} => Len(q) = 1 /\ Own(calls, Workable, q[1].call)
        BY <1>2 DEF Shape
      <3>2. OnTransfer(q) => OnTransfer(q)'
        BY KeepOwn DEF OnTransfer
      <3> QED
        BY <3>1, <3>2, KeepOwn DEF Keeps
    <2>6. /\ k = "EventTransfer" => OnEventTransfer(q)'
          /\ k = "SelectRefer" => OnSelectRefer(q)'
          /\ k = "Refer" => Len(q) = 1 /\ Referring(q[1])'
          /\ k = "Redial" => Len(q) = 1 /\ Redialing(q[1])'
      <3>1. /\ k = "EventTransfer" => OnEventTransfer(q)
            /\ k = "SelectRefer" => OnSelectRefer(q)
            /\ k = "Refer" => Len(q) = 1 /\ Referring(q[1])
            /\ k = "Redial" => Len(q) = 1 /\ Redialing(q[1])
        BY <1>2 DEF Shape
      <3>2. Referring(q[1]) => Referring(q[1])'
        BY KeepReferring
      <3>3. Redialing(q[1]) => Redialing(q[1])'
        BY KeepRedialing
      <3> QED
        BY <1>2, <3>1, <3>2, <3>3, KeepEventTransfer, KeepSelectRefer
    <2>7. /\ k = "InsertOne" => OnInsertOne(q)'
          /\ k = "DeleteOne" => OnDeleteOne(q)'
          /\ k = "AcceptCaller" => OnAcceptCaller(q)'
          /\ k = "SelectCaller" => OnSelectCaller(q)'
          /\ k = "Update" => OnUpdate(q)'
      <3>1. /\ k = "InsertOne" => OnInsertOne(q)
            /\ k = "DeleteOne" => OnDeleteOne(q)
            /\ k = "AcceptCaller" => OnAcceptCaller(q)
            /\ k = "SelectCaller" => OnSelectCaller(q)
            /\ k = "Update" => OnUpdate(q)
        BY <1>2 DEF Shape
      <3> QED
        BY <1>2, <2>0, <3>1, KeepPickUp
    <2> QED
      BY <2>2, <2>3, <2>4, <2>5, <2>6, <2>7 DEF Shape
  <1> QED
    BY <1>1, <1>2

(* What a thread holds that is at no transfer and no pick-up. *)
Modest(q) ==
  \A i \in DOMAIN q : q[i].do \notin MoveSteps /\ ~(q[i].do = "Insert" /\ q[i].moved)

LEMMA ModestIs ==
  ASSUME NEW t \in Threads PROVE Modest(todo[t]) <=> ~Moves(t)
  BY DEF Modest, Moves, Has

LEMMA NotCrossing ==
  ASSUME ~Crossing, NEW t \in Threads, NEW u \in Threads, u # t
  PROVE  /\ Moves(t) \/ Has(t, TurnSteps) => Modest(todo[u])
         /\ Moves(t) => ~Has(u, TurnSteps)
  BY ModestIs DEF Crossing

LEMMA NotCrossingNext ==
  ASSUME ~Crossing', NEW t \in Threads, NEW u \in Threads, u # t, todo'[u] = todo[u],
         Moves(t)' \/ Has(t, TurnSteps)'
  PROVE  Modest(todo[u])
  <1>1. ~Moves(u)'
    BY DEF Crossing
  <1> QED
    BY <1>1 DEF Modest, Moves, Has

LEMMA ModestAt ==
  ASSUME NEW q \in Seq(Step), Modest(q), NEW i \in 1 .. Len(q)
  PROVE  q[i].do \notin MoveSteps /\ ~MovedInsert(q[i])
  BY LenProperties DEF Modest, MovedInsert

LEMMA ModestMid ==
  ASSUME NEW q \in Seq(Step), Modest(q) PROVE ~Mid(q)
  <1> SUFFICES ASSUME q # <<>>, Mid(q) PROVE FALSE
    BY DEF Mid
  <1>1. Head(q) = q[1] /\ 1 \in 1 .. Len(q)
    BY First
  <1>2. Head(q).do \notin MidSteps
    BY <1>1, ModestAt DEF MidSteps, MoveSteps
  <1>3. Tail(q) # <<>> /\ Head(Tail(q)).do = "AcceptCaller"
    BY <1>2 DEF Mid
  <1>4. Tail(q) \in Seq(Step) /\ Head(Tail(q)) = Tail(q)[1] /\ 1 \in 1 .. Len(Tail(q)) /\ Tail(q)[1] = q[2] /\ 2 \in 1 .. Len(q)
    <2>1. Tail(q) \in Seq(Step) /\ Len(Tail(q)) = Len(q) - 1 /\ Len(q) \in Nat /\ \A i \in 1 .. Len(Tail(q)) : Tail(q)[i] = q[i + 1]
      BY First
    <2>2. Len(Tail(q)) >= 1 /\ Head(Tail(q)) = Tail(q)[1]
      BY <1>3, <2>1, First
    <2> QED
      BY <2>1, <2>2
  <1> QED
    BY <1>3, <1>4, ModestAt DEF MoveSteps

LEMMA ModestShape ==
  ASSUME NEW q \in Seq(Step), Modest(q), q # <<>>, Shape(q)
  PROVE  LET k == Head(q).do
         IN \/ k \in {"EventIncomingCall", "CreateCall"} /\ Len(q) = 1
            \/ k = "EventCallStart" /\ Len(q) = 1 /\ (trans[q[1].call] # None => Own(calls, Workable, q[1].call))
            \/ k = "AcceptCall" /\ Len(q) = 1 /\ q[1].call \in Used \ Reserved
            \/ k = "StartCall" /\ Len(q) = 1 /\ q[1].invite \in Used \ Reserved
            \/ k \in {"StopCall", "Delete", "SetStop", "DeleteDialog", "EventCallEnd"} /\ NoClaims(q)
            \/ k = "Insert" /\ ~Head(q).moved /\ OnInsertNew(q)
  <1> PICK k : k = Head(q).do
    OBVIOUS
  <1>1. q[1] = Head(q) /\ 1 \in 1 .. Len(q) /\ Len(q) \in Nat
    BY First
  <1>2. k \notin MoveSteps /\ q[1] \in Step
    BY <1>1, ModestAt, StepAt
  <1>3. \A i \in 1 .. Len(q) : q[i].do \notin MoveSteps /\ ~MovedInsert(q[i])
    BY ModestAt
  <1>4. k = "StopCall" => NoClaims(q)
    <2> SUFFICES ASSUME k = "StopCall", ~NoClaims(q) PROVE FALSE
      OBVIOUS
    <2>1. OnStopCall(q)
      BY DEF Shape
    <2> QED
      BY <1>3, <2>1 DEF OnStopCall, Redialing, MoveSteps
  <1>5. k = "Delete" => NoClaims(q)
    <2> SUFFICES ASSUME k = "Delete", ~NoClaims(q) PROVE FALSE
      OBVIOUS
    <2>1. OnDelete(q)
      BY DEF Shape
    <2> QED
      BY <1>3, <2>1 DEF OnDelete, HalfReferred, MoveSteps
  <1>6. k = "SetStop" => NoClaims(q)
    <2> SUFFICES ASSUME k = "SetStop", ~NoClaims(q) PROVE FALSE
      OBVIOUS
    <2>1. OnSetStop(q)
      BY DEF Shape
    <2> QED
      BY <1>3, <2>1 DEF OnSetStop, HalfReferred, MoveSteps
  <1>7. k = "Insert" => ~Head(q).moved /\ OnInsertNew(q)
    <2> SUFFICES ASSUME k = "Insert" PROVE ~Head(q).moved /\ OnInsertNew(q)
      OBVIOUS
    <2>1. OnInsert(q)
      BY DEF Shape
    <2>2. ~Head(q).moved
      BY <1>1, <1>3 DEF MovedInsert
    <2> QED
      BY <2>1, <2>2 DEF OnInsert
  <1>8. k \in CallKinds \cup {"Delete", "DeleteTrans", "Insert", "InsertTrans", "SetStop", "CreateCall", "SendInvite", "StartCall",
            "Transfer", "CreatePort", "Update", "EventTransfer", "SelectRefer", "Refer", "Redial", "SelectOld", "InsertOne",
            "AcceptCaller", "SelectCaller"}
    BY <1>1, <1>2, Kinds DEF Step
  <1>9. k \in {"EventIncomingCall", "CreateCall", "EventCallStart", "AcceptCall", "StartCall", "StopCall", "Delete",
               "SetStop", "DeleteDialog", "EventCallEnd", "Insert"}
    BY <1>2, <1>8 DEF CallKinds, MoveSteps
  <1>10. /\ k \in {"EventIncomingCall", "CreateCall"} => Len(q) = 1
         /\ k = "EventCallStart" => Len(q) = 1 /\ (trans[q[1].call] # None => Own(calls, Workable, q[1].call))
         /\ k = "AcceptCall" => Len(q) = 1 /\ q[1].call \in Used \ Reserved
         /\ k = "StartCall" => Len(q) = 1 /\ q[1].invite \in Used \ Reserved
         /\ k \in {"DeleteDialog", "EventCallEnd"} => NoClaims(q)
    BY DEF Shape
  <1> QED
    BY <1>4, <1>5, <1>6, <1>7, <1>9, <1>10

-----------------------------------------------------------------------------
(* A step of the thread t, put together from what it makes of its own list *)
(* and of what the others rely on.                                         *)

LEMMA ShapeNext ==
  ASSUME NEW u \in Threads, NEW q, q = todo'[u], Shape(q)'
  PROVE  Shape(todo[u])'
  BY DEF Shape

LEMMA OthersKeep ==
  ASSUME Types, Good, Keeps, NEW u \in Threads, todo'[u] = todo[u]
  PROVE  Shape(todo[u])'
  <1> PICK q : q = todo[u]
    OBVIOUS
  <1>1. q \in Seq(Step) /\ Shape(q)
    BY DEF Types, Good
  <1>2. Shape(q)'
    BY <1>1, ShapeKeeps
  <1> QED
    BY <1>2, ShapeNext

LEMMA ModestKeeps ==
  ASSUME Types, Good, NEW u \in Threads, todo'[u] = todo[u], Modest(todo[u]),
         Used \ Reserved \subseteq Used' \ Reserved',
         \/ ~Has(u, TurnSteps)
         \/ \A x \in CallIds : /\ trans'[x] # None => trans[x] # None
                               /\ Own(calls, Workable, x) => Own(calls', Workable', x)
  PROVE  Shape(todo[u])'
  <1> PICK q : q = todo[u]
    OBVIOUS
  <1>1. q \in Seq(Step) /\ Shape(q) /\ Modest(q)
    BY DEF Types, Good
  <1>2. CASE q = <<>>
    <2>1. Shape(q)'
      BY <1>2 DEF Shape
    <2> QED
      BY <2>1, ShapeNext
  <1>3. CASE q # <<>>
    <2> PICK k : k = Head(q).do
      OBVIOUS
    <2>1. \/ k \in {"EventIncomingCall", "CreateCall"} /\ Len(q) = 1
          \/ k = "EventCallStart" /\ Len(q) = 1 /\ (trans[q[1].call] # None => Own(calls, Workable, q[1].call))
          \/ k = "AcceptCall" /\ Len(q) = 1 /\ q[1].call \in Used \ Reserved
          \/ k = "StartCall" /\ Len(q) = 1 /\ q[1].invite \in Used \ Reserved
          \/ k \in {"StopCall", "Delete", "SetStop", "DeleteDialog", "EventCallEnd"} /\ NoClaims(q)
          \/ k = "Insert" /\ ~Head(q).moved /\ OnInsertNew(q)
      BY <1>1, <1>3, ModestShape
    <2>2. CASE k = "EventCallStart"
      <3>1. q[1].do = "EventCallStart" /\ 1 \in 1 .. Len(q)
        BY <1>1, <1>3, <2>2, First
      <3>2. q[1].call \in CallIds
        BY <1>1, <3>1, StepAt DEF CallKinds
      <3>3. Has(u, TurnSteps)
        BY <1>1, <3>1, LenProperties DEF Has, TurnSteps
      <3>4. Len(q) = 1 /\ (trans'[q[1].call] # None => Own(calls', Workable', q[1].call))
        BY <2>1, <2>2, <3>2, <3>3
      <3>5. Shape(q)'
        BY <2>2, <3>4 DEF Shape
      <3> QED
        BY <3>5, ShapeNext
    <2>3. CASE k \in {"AcceptCall", "StartCall"}
      <3>1. /\ Len(q) = 1
            /\ k = "AcceptCall" => q[1].call \in Used' \ Reserved'
            /\ k = "StartCall" => q[1].invite \in Used' \ Reserved'
        BY <2>1, <2>3
      <3>2. Shape(q)'
        BY <2>3, <3>1 DEF Shape
      <3> QED
        BY <3>2, ShapeNext
    <2>4. CASE k \in {"EventIncomingCall", "CreateCall"} /\ Len(q) = 1
      <3>1. Shape(q)'
        BY <2>4 DEF Shape
      <3> QED
        BY <3>1, ShapeNext
    <2>5. CASE k \in {"StopCall", "Delete", "SetStop", "DeleteDialog", "EventCallEnd"} /\ NoClaims(q)
      <3>1. OnStopCall(q)' /\ OnDelete(q)' /\ OnSetStop(q)'
        BY <2>5 DEF OnStopCall, OnDelete, OnSetStop
      <3>2. Shape(q)'
        BY <2>5, <3>1 DEF Shape
      <3> QED
        BY <3>2, ShapeNext
    <2>6. CASE k = "Insert" /\ ~Head(q).moved /\ OnInsertNew(q)
      <3>1. OnInsert(q)'
        BY <2>6 DEF OnInsert, OnInsertNew
      <3>2. Shape(q)'
        BY <2>6, <3>1 DEF Shape
      <3> QED
        BY <3>2, ShapeNext
    <2> QED
      BY <2>1, <2>2, <2>3, <2>4, <2>5, <2>6
  <1> QED
    BY <1>2, <1>3

LEMMA ReservedNext ==
  ASSUME NEW t \in Threads, NEW r, todo'[t] = r, \A u \in Threads : u # t => todo'[u] = todo[u]
  PROVE  \A x \in Reserved' : x \in Reserved \/ x \in Res(r)
  <1>1. \A x \in Reserved' : \E u \in Threads : x \in Res(todo'[u])
    BY DEF Reserved, Res
  <1>2. \A u \in Threads : \A x \in Res(todo[u]) : x \in Reserved
    BY DEF Reserved
  <1> QED
    BY <1>1, <1>2

LEMMA ReservedIs ==
  ASSUME Good, NEW t \in Threads, NEW r, todo'[t] = r, \A u \in Threads : u # t => todo'[u] = todo[u],
         NEW x \in Res(todo[t]), x \notin Res(r)
  PROVE  x \in Reserved /\ x \notin Reserved'
  <1>1. \A u \in Threads : u # t => x \notin Res(todo[u])
    BY DEF Good
  <1>2. \A y \in Reserved' : \E u \in Threads : y \in Res(todo'[u])
    BY DEF Reserved, Res
  <1> QED
    BY <1>1, <1>2 DEF Reserved

LEMMA GoodStep ==
  ASSUME Types, Good, NEW t \in Threads, NEW r \in Seq(Step),
         todo'[t] = r, \A u \in Threads : u # t => todo'[u] = todo[u],
         Shape(r)', \A u \in Threads : u # t => Shape(todo[u])',
         \A x \in Res(r) : x \in Res(todo[t]) \/ x \notin Used,
         Reserved' \subseteq Ready',
         (\A u \in Threads : ~Mid(todo[u])') => Sound(calls)'
  PROVE  Good'
  <1>1. \A u \in Threads : Shape(todo[u])'
    BY ShapeNext
  <1>2. \A x \in Reserved : x \in Used
    <2>1. Reserved \subseteq Ready
      BY DEF Good
    <2> QED
      BY <2>1, Sets, Distinct DEF Waiting
  <1>3. \A u, v \in Threads : u # v => Res(todo[u]) \cap Res(todo[v]) = {}
    BY DEF Good
  <1>4. \A u \in Threads : \A x \in Res(todo[u]) : x \in Reserved
    BY DEF Reserved
  <1>5. \A u, v \in Threads : u # v => Res(todo'[u]) \cap Res(todo'[v]) = {}
    <2> SUFFICES ASSUME NEW u \in Threads, NEW v \in Threads, u # v, NEW x \in Res(todo'[u]), x \in Res(todo'[v])
                 PROVE  FALSE
      OBVIOUS
    <2>1. CASE u = t
      BY <1>2, <1>3, <1>4, <2>1
    <2>2. CASE v = t
      BY <1>2, <1>3, <1>4, <2>2
    <2>3. CASE u # t /\ v # t
      BY <1>3, <2>3
    <2> QED
      BY <2>1, <2>2, <2>3
  <1>6. (\A u, v \in Threads : u # v => Res(todo[u]) \cap Res(todo[v]) = {})'
    BY <1>5 DEF Res
  <1> QED
    BY <1>1, <1>6 DEF Good

(* A step that leaves the maps of entries alone.                           *)
LEMMA StepOnward ==
  ASSUME Types, Good, NEW t \in Threads, NEW r,
         todo'[t] = r, \A u \in Threads : u # t => todo'[u] = todo[u],
         calls' = calls, trans' = trans, Advances(dialog, dialog'), astray \subseteq astray',
         \A x \in Res(r) : x \in Res(todo[t]) \/ x \notin Used
  PROVE  Onward
  <1>1. \A x \in Reserved' : x \in Reserved \/ x \in Res(r)
    BY ReservedNext
  <1>2. \A x \in Res(todo[t]) : x \in Reserved
    BY DEF Reserved
  <1> QED
    BY <1>1, <1>2 DEF Onward

LEMMA StepReady ==
  ASSUME Types, Good, NEW t \in Threads, NEW r,
         todo'[t] = r, \A u \in Threads : u # t => todo'[u] = todo[u],
         \A x \in Reserved : Waiting(dialog[x]) => Waiting(dialog'[x]),
         \A x \in Res(r) : x \in Res(todo[t]) \/ (x \in Calls /\ Waiting(dialog'[x]))
  PROVE  Reserved' \subseteq Ready'
  <1>1. \A x \in Reserved' : x \in CallIds /\ (x \in Reserved \/ x \in Res(r))
    BY ReservedNext, SetsNext
  <1>2. \A x \in Res(todo[t]) : x \in Reserved
    BY DEF Reserved
  <1>3. Reserved \subseteq Ready
    BY DEF Good
  <1> QED
    BY <1>1, <1>2, <1>3, Sets, SetsNext

LEMMA KeepStep ==
  ASSUME Types, Good, NEW t \in Threads, NEW r \in Seq(Step),
         todo'[t] = r, \A u \in Threads : u # t => todo'[u] = todo[u],
         calls' = calls, trans' = trans, Advances(dialog, dialog'), astray \subseteq astray',
         Shape(r) \/ Shape(r)',
         \A x \in Res(r) : x \in Res(todo[t]) \/ (x \notin Used /\ x \in Calls /\ Waiting(dialog'[x])),
         \A x \in Reserved : Waiting(dialog[x]) => Waiting(dialog'[x]),
         Mid(todo[t]) => Mid(r)
  PROVE  Good'
  <1>1. Onward
    BY StepOnward
  <1>2. Keeps
    BY <1>1, OnwardKeeps
  <1>3. Shape(r)'
    BY <1>2, ShapeKeeps
  <1>4. \A u \in Threads : u # t => Shape(todo[u])'
    BY <1>2, OthersKeep
  <1>5. Reserved' \subseteq Ready'
    BY StepReady
  <1>6. ASSUME \A u \in Threads : ~Mid(todo[u])' PROVE Sound(calls)'
    <2>1. \A u \in Threads : ~Mid(todo'[u])
      BY <1>6 DEF Mid
    <2>2. \A u \in Threads : ~Mid(todo[u])
      BY <2>1
    <2>3. Sound(calls)
      BY <2>2 DEF Good
    <2> QED
      BY <1>1, <2>3, OnwardSoundCalls
  <1> QED
    BY <1>3, <1>4, <1>5, <1>6, GoodStep

LEMMA NotMid ==
  ASSUME NEW q, q # <<>> => Head(q).do \notin {"DeleteOne", "AcceptCaller", "SelectCaller", "Update", "StopCall"}
  PROVE  ~Mid(q)
  BY DEF Mid, MidSteps

LEMMA QuietShape ==
  ASSUME NEW q \in Seq(Step), NoClaims(q)
  PROVE  Shape(q) /\ Res(q) = {} /\ ~Mid(q)
  <1>1. CASE q = <<>>
    BY <1>1 DEF Shape, Res, Mid
  <1>2. CASE q # <<>>
    <2>1. Head(q) = q[1] /\ Tail(q) \in Seq(Step) /\ DOMAIN q = 1 .. Len(q) /\ Len(q) \in Nat /\ Len(q) >= 1
      BY <1>2, First
    <2>2. Head(q).do \in QuietSteps
      BY <2>1 DEF NoClaims
    <2>3. Tail(q) # <<>> => Head(Tail(q)).do \in QuietSteps
      BY <1>2, <2>1, QuietTail
    <2>4. OnStopCall(q) /\ OnDelete(q) /\ OnSetStop(q)
      BY DEF OnStopCall, OnDelete, OnSetStop
    <2>5. Shape(q)
      BY <2>2, <2>4 DEF Shape, QuietSteps
    <2>6. Res(q) = {}
      BY <2>2 DEF Res, QuietSteps
    <2>7. ~Mid(q)
      BY <2>2, <2>3 DEF Mid, QuietSteps, MidSteps
    <2> QED
      BY <2>5, <2>6, <2>7
  <1> QED
    BY <1>1, <1>2

LEMMA QuietStep ==
  ASSUME Types, Good, NEW t \in Threads, NEW r \in Seq(Step), NoClaims(r), ~Mid(todo[t]),
         todo'[t] = r, \A u \in Threads : u # t => todo'[u] = todo[u],
         calls' = calls, trans' = trans, Advances(dialog, dialog'), astray \subseteq astray',
         \A x \in Reserved : Waiting(dialog[x]) => Waiting(dialog'[x])
  PROVE  Good'
  <1>1. Shape(r) /\ Res(r) = {}
    BY QuietShape
  <1> QED
    BY <1>1, KeepStep

(* The list of a thread that does a step of the kind k. *)
LEMMA ListOf ==
  ASSUME Types, Good, NEW t \in Threads, NEW k, Doing(t, k)
  PROVE  /\ todo[t] \in Seq(Step) /\ todo[t] # <<>> /\ Shape(todo[t])
         /\ Head(todo[t]) = todo[t][1] /\ Now(t) = todo[t][1] /\ todo[t][1].do = k /\ todo[t][1] \in Step
         /\ Tail(todo[t]) \in Seq(Step) /\ Len(todo[t]) \in Nat /\ Len(Tail(todo[t])) = Len(todo[t]) - 1
         /\ \A i \in 1 .. Len(Tail(todo[t])) : Tail(todo[t])[i] = todo[t][i + 1]
         /\ 1 \in 1 .. Len(todo[t])
         /\ Len(todo[t]) = 1 => Tail(todo[t]) = <<>>
  <1>1. todo[t] \in Seq(Step) /\ todo[t] # <<>> /\ Shape(todo[t]) /\ Now(t) = todo[t][1] /\ Now(t).do = k
    BY HeadOf DEF Good
  <1> QED
    BY <1>1, First

(* What is left when the only step of a list was done. *)
LEMMA OnlyStep ==
  ASSUME Types, NEW t \in Threads, todo[t] # <<>>, Len(todo[t]) = 1, NEW r \in Seq(Step), Then(t, r)
  PROVE  todo'[t] = r /\ \A u \in Threads : u # t => todo'[u] = todo[u]
  <1>1. todo[t] \in Seq(Step)
    BY DEF Types
  <1>2. todo'[t] = r \o Tail(todo[t]) /\ \A u \in Threads : u # t => todo'[u] = todo[u]
    BY ThenType
  <1>3. r \o Tail(todo[t]) = r
    BY <1>1, Alone
  <1> QED
    BY <1>2, <1>3

(* ... and when there is nothing to do first. *)
LEMMA NextStep ==
  ASSUME Types, NEW t \in Threads, todo[t] # <<>>, Then(t, <<>>)
  PROVE  todo'[t] = Tail(todo[t]) /\ \A u \in Threads : u # t => todo'[u] = todo[u]
  <1>1. todo[t] \in Seq(Step) /\ <<>> \in Seq(Step)
    BY EmptySeq DEF Types
  <1>2. todo'[t] = <<>> \o Tail(todo[t]) /\ \A u \in Threads : u # t => todo'[u] = todo[u]
    BY <1>1, ThenType
  <1>3. <<>> \o Tail(todo[t]) = Tail(todo[t])
    BY <1>1, Alone
  <1> QED
    BY <1>2, <1>3

(* What Shape says of the first step of a list. *)
LEMMA ShapeOf ==
  ASSUME NEW q, q # <<>>, Shape(q), NEW k, k = Head(q).do
  PROVE  /\ k \in {"EventIncomingCall", "CreateCall", "EventBlindTransfer"} => Len(q) = 1
         /\ k = "EventBlindTransfer" => q[1].call \in Going
         /\ k = "EventCallStart" => Len(q) = 1 /\ (trans[q[1].call] # None => Own(calls, Workable, q[1].call))
         /\ k = "AcceptCall" => Len(q) = 1 /\ q[1].call \in Used \ Reserved
         /\ k = "StartCall" => Len(q) = 1 /\ q[1].invite \in Used \ Reserved
         /\ k \in {"DeleteDialog", "DeleteTrans", "EventCallEnd"} => NoClaims(q)
         /\ k = "StopCall" => OnStopCall(q)
         /\ k = "Delete" => OnDelete(q)
         /\ k = "SetStop" => OnSetStop(q)
         /\ k = "Insert" => OnInsert(q)
         /\ k = "Transfer" => OnTransfer(q)
         /\ k \in {"CreatePort", "SendInvite"} => Len(q) = 1 /\ q[1].call \in Going
         /\ k = "InsertTrans" => Len(q) = 1 /\ q[1].recv \in Going /\ Own(calls, Workable, q[1].send)
         /\ k = "EventTransfer" => OnEventTransfer(q)
         /\ k = "SelectRefer" => OnSelectRefer(q)
         /\ k = "Refer" => Len(q) = 1 /\ Referring(q[1])
         /\ k = "Redial" => Len(q) = 1 /\ Redialing(q[1])
         /\ k \in {"SelectToRing", "SelectOld"} => Len(q) = 1 /\ Own(calls, Workable, q[1].call)
         /\ k = "SelectOld" => q[1].old \in Calls
         /\ k = "InsertOne" => OnInsertOne(q)
         /\ k = "DeleteOne" => OnDeleteOne(q)
         /\ k = "AcceptCaller" => OnAcceptCaller(q)
         /\ k = "SelectCaller" => OnSelectCaller(q)
         /\ k = "Update" => OnUpdate(q)
  BY DEF Shape

LoneKinds ==
  {"EventIncomingCall", "CreateCall", "EventBlindTransfer", "EventCallStart", "AcceptCall", "StartCall",
   "Transfer", "CreatePort", "SendInvite", "InsertTrans", "EventTransfer", "SelectRefer", "Refer", "Redial",
   "SelectToRing", "SelectOld", "AcceptCaller", "SelectCaller"}

LEMMA Lone ==
  ASSUME NEW q, q # <<>>, Shape(q), Head(q).do \in LoneKinds PROVE Len(q) = 1
  BY ShapeOf DEF LoneKinds, OnTransfer, OnEventTransfer, OnSelectRefer, OnAcceptCaller, OnSelectCaller

(* A step that is the last one but for such as claim nothing. *)
LEMMA QuietEnd ==
  ASSUME Types, Good, NEW t \in Threads, NEW k, Doing(t, k), k \in LoneKinds \ MidSteps,
         NEW r \in Seq(Step), NoClaims(r), Then(t, r),
         calls' = calls, trans' = trans, Advances(dialog, dialog'), astray \subseteq astray',
         \A x \in Reserved : Waiting(dialog[x]) => Waiting(dialog'[x])
  PROVE  Good'
  <1>1. todo[t] # <<>> /\ Shape(todo[t]) /\ Head(todo[t]).do = k
    BY ListOf
  <1>2. Len(todo[t]) = 1
    BY <1>1, Lone
  <1>3. todo'[t] = r /\ \A u \in Threads : u # t => todo'[u] = todo[u]
    BY <1>1, <1>2, OnlyStep
  <1>4. ~Mid(todo[t])
    BY <1>1 DEF Mid, MidSteps, LoneKinds
  <1> QED
    BY <1>3, <1>4, QuietStep

LEMMA QuietConcat ==
  ASSUME NEW a \in Seq(Step), NEW b \in Seq(Step), NoClaims(a), NoClaims(b)
  PROVE  a \o b \in Seq(Step) /\ NoClaims(a \o b)
  <1>1. a \o b \in Seq(Step) /\ Len(a \o b) = Len(a) + Len(b)
        /\ \A i \in 1 .. Len(a) + Len(b) : (a \o b)[i] = IF i <= Len(a) THEN a[i] ELSE b[i - Len(a)]
    BY ConcatProperties
  <1>2. Len(a) \in Nat /\ Len(b) \in Nat /\ DOMAIN a = 1 .. Len(a) /\ DOMAIN b = 1 .. Len(b)
        /\ DOMAIN (a \o b) = 1 .. Len(a) + Len(b)
    BY <1>1, LenProperties
  <1>3. \A i \in 1 .. Len(a) + Len(b) : i \in 1 .. Len(a) \/ (i > Len(a) /\ i - Len(a) \in 1 .. Len(b))
    BY <1>2
  <1>4. ASSUME NEW i \in 1 .. Len(a) + Len(b) PROVE (a \o b)[i].do \in QuietSteps
    <2>1. CASE i \in 1 .. Len(a)
      BY <1>1, <1>2, <2>1 DEF NoClaims
    <2>2. CASE i > Len(a) /\ i - Len(a) \in 1 .. Len(b)
      <3>1. (a \o b)[i] = b[i - Len(a)]
        BY <1>1, <1>2, <2>2
      <3> QED
        BY <1>2, <2>2, <3>1 DEF NoClaims
    <2> QED
      BY <1>3, <2>1, <2>2
  <1> QED
    BY <1>1, <1>2, <1>4 DEF NoClaims

LEMMA QuietLists ==
  /\ <<>> \in Seq(Step) /\ NoClaims(<<>>)
  /\ \A a \in Step : a.do \in QuietSteps => <<a>> \in Seq(Step) /\ NoClaims(<<a>>)
  /\ \A a, b \in Step : a.do \in QuietSteps /\ b.do \in QuietSteps => <<a, b>> \in Seq(Step) /\ NoClaims(<<a, b>>)
  <1>1. <<>> \in Seq(Step) /\ NoClaims(<<>>)
    BY EmptySeq DEF NoClaims
  <1>2. ASSUME NEW a \in Step, a.do \in QuietSteps PROVE <<a>> \in Seq(Step) /\ NoClaims(<<a>>)
    BY <1>2 DEF NoClaims
  <1>3. ASSUME NEW a \in Step, NEW b \in Step, a.do \in QuietSteps, b.do \in QuietSteps
        PROVE  <<a, b>> \in Seq(Step) /\ NoClaims(<<a, b>>)
    <2>1. <<a, b>> \in Seq(Step) /\ DOMAIN <<a, b>> = 1 .. 2 /\ <<a, b>>[1] = a /\ <<a, b>>[2] = b
      OBVIOUS
    <2>2. \A i \in 1 .. 2 : i = 1 \/ i = 2
      OBVIOUS
    <2> QED
      BY <1>3, <2>1, <2>2 DEF NoClaims
  <1> QED
    BY <1>1, <1>2, <1>3

LEMMA QuietNamed ==
  /\ \A x \in CallIds : StopCallStep(x).do = "StopCall" /\ DeleteDialogStep(x).do = "DeleteDialog"
  /\ \A x \in CallIds, b \in BOOLEAN : DeleteStep(x, b).do = "Delete"
  /\ \A x \in CallIds : <<StopCallStep(x)>> \in Seq(Step) /\ NoClaims(<<StopCallStep(x)>>)
  /\ \A x, y \in CallIds : <<StopCallStep(x), StopCallStep(y)>> \in Seq(Step) /\ NoClaims(<<StopCallStep(x), StopCallStep(y)>>)
  /\ \A x, y \in CallIds : <<StopCallStep(x), DeleteStep(y, TRUE)>> \in Seq(Step) /\ NoClaims(<<StopCallStep(x), DeleteStep(y, TRUE)>>)
  /\ \A x, y \in CallIds : <<DeleteStep(x, TRUE), StopCallStep(y)>> \in Seq(Step) /\ NoClaims(<<DeleteStep(x, TRUE), StopCallStep(y)>>)
  <1>1. /\ \A x \in CallIds : StopCallStep(x).do = "StopCall" /\ DeleteDialogStep(x).do = "DeleteDialog"
        /\ \A x \in CallIds, b \in BOOLEAN : DeleteStep(x, b).do = "Delete"
    BY DEF StopCallStep, DeleteDialogStep, DeleteStep
  <1>2. \A x \in CallIds : StopCallStep(x) \in Step /\ DeleteStep(x, TRUE) \in Step
                           /\ StopCallStep(x).do \in QuietSteps /\ DeleteStep(x, TRUE).do \in QuietSteps
    BY <1>1, MakesNamed DEF QuietSteps
  <1> QED
    BY <1>1, <1>2, QuietLists

(* A step of a list that claims nothing. *)
LEMMA QuietRest ==
  ASSUME Types, Good, NEW t \in Threads, todo[t] # <<>>, NoClaims(todo[t]),
         NEW r \in Seq(Step), NoClaims(r), Then(t, r),
         calls' = calls, trans' = trans, Advances(dialog, dialog'), astray \subseteq astray',
         \A x \in Reserved : Waiting(dialog[x]) => Waiting(dialog'[x])
  PROVE  Good'
  <1>1. todo[t] \in Seq(Step)
    BY DEF Types
  <1>2. Tail(todo[t]) \in Seq(Step) /\ NoClaims(Tail(todo[t])) /\ ~Mid(todo[t])
    BY <1>1, First, QuietTail, QuietShape
  <1>3. r \o Tail(todo[t]) \in Seq(Step) /\ NoClaims(r \o Tail(todo[t]))
    BY <1>2, QuietConcat
  <1>4. todo'[t] = r \o Tail(todo[t]) /\ \A u \in Threads : u # t => todo'[u] = todo[u]
    BY ThenType
  <1> QED
    BY <1>2, <1>3, <1>4, QuietStep

LEMMA RefuseGood == ASSUME Types, Good, NEW t \in Threads, Refuse(t) PROVE Good'
  <1>1. Now(t).call \in CallIds
    BY CallOf DEF Refuse, CallKinds
  <1>2. <<StopCallStep(Now(t).call)>> \in Seq(Step) /\ NoClaims(<<StopCallStep(Now(t).call)>>)
    BY <1>1, QuietNamed
  <1> QED
    BY <1>2, QuietEnd, AdvanceSame DEF Refuse, LoneKinds, MidSteps

LEMMA CreateCallFailsGood == ASSUME Types, Good, NEW t \in Threads, CreateCallFails(t) PROVE Good'
  <1>1. Now(t).call \in CallIds
    BY HeadOf, KindOf, Fields DEF CreateCallFails
  <1>2. <<StopCallStep(Now(t).call)>> \in Seq(Step) /\ NoClaims(<<StopCallStep(Now(t).call)>>)
    BY <1>1, QuietNamed
  <1> QED
    BY <1>2, QuietEnd, AdvanceSame DEF CreateCallFails, LoneKinds, MidSteps

LEMMA AcceptCallGood == ASSUME Types, Good, NEW t \in Threads, AcceptCall(t) PROVE Good'
  <1>1. Now(t).call \notin Reserved
    <2>1. todo[t] # <<>> /\ Shape(todo[t]) /\ Head(todo[t]).do = "AcceptCall" /\ Now(t) = todo[t][1]
      BY ListOf DEF AcceptCall
    <2> QED
      BY <2>1, ShapeOf
  <1>2. Advances(dialog, dialog') /\ \A x \in Reserved : Waiting(dialog[x]) => Waiting(dialog'[x])
    BY <1>1, AcceptCallDialog, Sets
  <1> QED
    BY <1>2, QuietLists, QuietEnd DEF AcceptCall, LoneKinds, MidSteps

LEMMA StartCallGood == ASSUME Types, Good, NEW t \in Threads, StartCall(t) PROVE Good'
  <1>1. Now(t).invite \notin Reserved
    <2>1. todo[t] # <<>> /\ Shape(todo[t]) /\ Head(todo[t]).do = "StartCall" /\ Now(t) = todo[t][1]
      BY ListOf DEF StartCall
    <2> QED
      BY <2>1, ShapeOf
  <1>2. Advances(dialog, dialog') /\ \A x \in Reserved : Waiting(dialog[x]) => Waiting(dialog'[x])
    BY <1>1, StartCallDialog, Sets
  <1> QED
    BY <1>2, QuietLists, QuietEnd DEF StartCall, LoneKinds, MidSteps

LEMMA StartCallFailsGood == ASSUME Types, Good, NEW t \in Threads, StartCallFails(t) PROVE Good'
  <1>1. Now(t).call \in CallIds
    BY HeadOf, KindOf, Fields DEF StartCallFails
  <1> DEFINE r == <<DeleteStep(Now(t).call, TRUE), StopCallStep(Now(t).call)>>
  <1>2. r \in Seq(Step) /\ NoClaims(r)
    BY <1>1, QuietNamed
  <1>3. Advances(dialog, dialog') /\ \A x \in Reserved : Waiting(dialog[x]) => Waiting(dialog'[x])
    BY StartCallFailsDialog, Sets
  <1> QED
    BY <1>2, <1>3, QuietEnd DEF StartCallFails, LoneKinds, MidSteps

LEMMA UnwantedGood == ASSUME Types, Good, NEW t \in Threads, Unwanted(t) PROVE Good'
  <1>1. Now(t).call \in CallIds
    BY CallOf DEF Unwanted, CallKinds
  <1>2. <<StopCallStep(Now(t).call)>> \in Seq(Step) /\ NoClaims(<<StopCallStep(Now(t).call)>>)
    BY <1>1, QuietNamed
  <1>3. astray \subseteq astray'
    BY DEF Unwanted
  <1> QED
    BY <1>2, <1>3, QuietEnd, AdvanceSame DEF Unwanted, LoneKinds, MidSteps

LEMMA StartTransCallFailsGood == ASSUME Types, Good, NEW t \in Threads, StartTransCallFails(t) PROVE Good'
  BY QuietLists, QuietEnd, AdvanceSame DEF StartTransCallFails, LoneKinds, MidSteps

LEMMA TransferFailsGood == ASSUME Types, Good, NEW t \in Threads, TransferFails(t) PROVE Good'
  <1>1. astray \subseteq astray'
    BY DEF TransferFails
  <1> QED
    BY <1>1, QuietLists, QuietEnd, AdvanceSame DEF TransferFails, LoneKinds, MidSteps

LEMMA RedialNobodyGood == ASSUME Types, Good, NEW t \in Threads, RedialNobody(t) PROVE Good'
  <1>1. Now(t).peer \in CallIds /\ Now(t).toPeer \in CallIds
    BY HeadOf, KindOf, Fields DEF RedialNobody
  <1> DEFINE r == <<StopCallStep(Now(t).peer), StopCallStep(Now(t).toPeer)>>
  <1>2. r \in Seq(Step) /\ NoClaims(r)
    BY <1>1, QuietNamed
  <1> QED
    BY <1>2, QuietEnd, AdvanceSame DEF RedialNobody, LoneKinds, MidSteps

LEMMA QuietKinds ==
  ASSUME Types, Good, NEW t \in Threads, NEW k \in {"DeleteDialog", "DeleteTrans", "EventCallEnd"}, Doing(t, k)
  PROVE  todo[t] # <<>> /\ NoClaims(todo[t])
  <1>1. todo[t] # <<>> /\ Shape(todo[t]) /\ Head(todo[t]).do = k
    BY ListOf
  <1> QED
    BY <1>1, ShapeOf

LEMMA DeleteDialogGood == ASSUME Types, Good, NEW t \in Threads, DeleteDialog(t) PROVE Good'
  <1>1. Advances(dialog, dialog') /\ \A x \in Reserved : Waiting(dialog[x]) => Waiting(dialog'[x])
    BY DeleteDialogDialog, Sets
  <1>2. todo[t] # <<>> /\ NoClaims(todo[t])
    BY QuietKinds DEF DeleteDialog
  <1> QED
    BY <1>1, <1>2, QuietLists, QuietRest DEF DeleteDialog

LEMMA EndPeerGood == ASSUME Types, Good, NEW t \in Threads, EndPeer(t) PROVE Good'
  <1>1. Now(t).call \in CallIds
    BY CallOf DEF EndPeer, CallKinds
  <1>2. calls[Now(t).call].peer \in CallIds
    BY <1>1, PeerOf DEF EndPeer
  <1> DEFINE r == <<StopCallStep(calls[Now(t).call].peer), DeleteStep(Now(t).call, TRUE)>>
  <1>3. r \in Seq(Step) /\ NoClaims(r)
    BY <1>1, <1>2, QuietNamed
  <1>4. todo[t] # <<>> /\ NoClaims(todo[t])
    BY QuietKinds DEF EndPeer
  <1>5. Then(t, r)
    BY DEF EndPeer
  <1> HIDE DEF r
  <1> QED
    BY <1>3, <1>4, <1>5, QuietRest, AdvanceSame DEF EndPeer

LEMMA EndTransferGood == ASSUME Types, Good, NEW t \in Threads, EndTransfer(t) PROVE Good'
  <1>1. Now(t).call \in CallIds
    BY CallOf DEF EndTransfer, CallKinds
  <1> DEFINE s == [do |-> "DeleteTrans", call |-> Now(t).call, stop |-> TRUE]
  <1>2. s \in Step /\ s.do = "DeleteTrans"
    BY <1>1, Makes
  <1>3. Then(t, <<s>>) /\ astray \subseteq astray'
    BY DEF EndTransfer
  <1> HIDE DEF s
  <1>4. <<s>> \in Seq(Step) /\ NoClaims(<<s>>)
    BY <1>2, QuietLists DEF QuietSteps
  <1>5. todo[t] # <<>> /\ NoClaims(todo[t])
    BY QuietKinds DEF EndTransfer
  <1> QED
    BY <1>3, <1>4, <1>5, QuietRest, AdvanceSame DEF EndTransfer

LEMMA EndAloneGood == ASSUME Types, Good, NEW t \in Threads, EndAlone(t) PROVE Good'
  <1>1. todo[t] # <<>> /\ NoClaims(todo[t])
    BY QuietKinds DEF EndAlone
  <1>2. astray \subseteq astray'
    BY DEF EndAlone
  <1> QED
    BY <1>1, <1>2, QuietLists, QuietRest, AdvanceSame DEF EndAlone

LEMMA RestOf ==
  ASSUME NEW q \in Seq(Step), q # <<>>
  PROVE  /\ Len(q) = 2 => Len(Tail(q)) = 1 /\ Tail(q)[1] = q[2] /\ Tail(q) # <<>> /\ Head(Tail(q)) = q[2]
         /\ Len(q) = 3 => Len(Tail(q)) = 2 /\ Tail(q)[1] = q[2] /\ Tail(q)[2] = q[3] /\ Tail(q) # <<>> /\ Head(Tail(q)) = q[2]
         /\ Len(q) = 4 => /\ Len(Tail(q)) = 3 /\ Tail(q)[1] = q[2] /\ Tail(q)[2] = q[3] /\ Tail(q)[3] = q[4]
                          /\ Tail(q) # <<>> /\ Head(Tail(q)) = q[2]
  <1> PICK r : r = Tail(q)
    OBVIOUS
  <1>1. r \in Seq(Step) /\ Len(r) = Len(q) - 1 /\ Len(q) \in Nat /\ \A i \in 1 .. Len(r) : r[i] = q[i + 1]
    BY First
  <1>2. Len(q) \in {2, 3, 4} => r # <<>>
    BY <1>1, EmptySeq
  <1>3. r # <<>> => Head(r) = r[1]
    BY <1>1, First
  <1>4. Len(q) = 2 => Len(r) = 1 /\ r[1] = q[2]
    BY <1>1
  <1>7. \A i \in 1 .. Len(r) : \A j \in Nat : j = i + 1 => r[i] = q[j]
    BY <1>1
  <1>5. Len(q) = 3 => Len(r) = 2 /\ r[1] = q[2] /\ r[2] = q[3]
    <2> SUFFICES ASSUME Len(q) = 3 PROVE Len(r) = 2 /\ r[1] = q[2] /\ r[2] = q[3]
      OBVIOUS
    <2>1. Len(r) = 2
      BY <1>1
    <2>3. 1 \in 1 .. 2 /\ 2 \in 1 .. 2 /\ 2 = 1 + 1 /\ 3 = 2 + 1 /\ 2 \in Nat /\ 3 \in Nat
      OBVIOUS
    <2>2. 1 \in 1 .. Len(r) /\ 2 \in 1 .. Len(r) /\ 2 = 1 + 1 /\ 3 = 2 + 1 /\ 2 \in Nat /\ 3 \in Nat
      BY <2>1, <2>3, Zenon
    <2> QED
      BY <1>7, <2>1, <2>2
  <1>6. Len(q) = 4 => Len(r) = 3 /\ r[1] = q[2] /\ r[2] = q[3] /\ r[3] = q[4]
    <2> SUFFICES ASSUME Len(q) = 4 PROVE Len(r) = 3 /\ r[1] = q[2] /\ r[2] = q[3] /\ r[3] = q[4]
      OBVIOUS
    <2>1. Len(r) = 3
      BY <1>1
    <2>3. 1 \in 1 .. 3 /\ 2 \in 1 .. 3 /\ 3 \in 1 .. 3 /\ 2 = 1 + 1 /\ 3 = 2 + 1 /\ 4 = 3 + 1
          /\ 2 \in Nat /\ 3 \in Nat /\ 4 \in Nat
      OBVIOUS
    <2>2. 1 \in 1 .. Len(r) /\ 2 \in 1 .. Len(r) /\ 3 \in 1 .. Len(r) /\ 2 = 1 + 1 /\ 3 = 2 + 1 /\ 4 = 3 + 1
          /\ 2 \in Nat /\ 3 \in Nat /\ 4 \in Nat
      BY <2>1, <2>3, Zenon
    <2> QED
      BY <1>7, <2>1, <2>2
  <1> QED
    BY <1>2, <1>3, <1>4, <1>5, <1>6

LEMMA SetStopGood == ASSUME Types, Good, NEW t \in Threads, SetStop(t) PROVE Good'
  <1> PICK q : q = todo[t]
    OBVIOUS
  <1> PICK r : r = Tail(q)
    OBVIOUS
  <1>1. /\ q \in Seq(Step) /\ q # <<>> /\ Shape(q) /\ Head(q).do = "SetStop" /\ Len(q) \in Nat
        /\ r \in Seq(Step) /\ Len(r) = Len(q) - 1 /\ \A i \in 1 .. Len(r) : r[i] = q[i + 1]
    BY ListOf DEF SetStop
  <1>2. todo'[t] = r /\ \A u \in Threads : u # t => todo'[u] = todo[u]
    BY <1>1, NextStep DEF SetStop
  <1>3. OnSetStop(q)
    BY <1>1, ShapeOf
  <1>4. ~Mid(q)
    BY <1>1, NotMid
  <1>5. CASE NoClaims(q)
    <2>1. NoClaims(r)
      BY <1>1, <1>5, QuietTail
    <2> QED
      BY <1>1, <1>2, <1>4, <2>1, QuietStep, AdvanceSame DEF SetStop
  <1>6. CASE Len(q) = 3 /\ MovedInsert(q[2]) /\ OnInsertMoved(r)
    <2>1. r # <<>> /\ Head(r) = q[2]
      BY <1>1, <1>6, RestOf
    <2>3. Shape(r) /\ Res(r) = {}
      BY <1>6, <2>1 DEF Shape, OnInsert, Res, MovedInsert
    <2> QED
      BY <1>1, <1>2, <1>4, <2>3, KeepStep, AdvanceSame DEF SetStop
  <1>7. CASE Len(q) = 3 /\ HalfReferred(q[2], q[3])
    <2>1. Len(r) = 2 /\ r[1] = q[2] /\ r[2] = q[3] /\ r # <<>>
      BY <1>1, <1>7, RestOf
    <2>2. Head(r) = r[1] /\ r[1].do = "Delete"
      BY <1>1, <1>7, <2>1, RestOf DEF HalfReferred
    <2>3. OnDelete(r)
      BY <1>7, <2>1 DEF OnDelete
    <2>4. Shape(r) /\ Res(r) = {}
      BY <2>2, <2>3 DEF Shape, Res
    <2> QED
      BY <1>1, <1>2, <1>4, <2>4, KeepStep, AdvanceSame DEF SetStop
  <1> QED
    BY <1>3, <1>5, <1>6, <1>7 DEF OnSetStop

LEMMA LoneStep ==
  ASSUME Types, Good, NEW t \in Threads, NEW k, Doing(t, k), k \in LoneKinds \ MidSteps,
         NEW r \in Seq(Step), Then(t, r), Shape(r) \/ Shape(r)',
         \A x \in Res(r) : x \in Res(todo[t]) \/ (x \notin Used /\ x \in Calls /\ Waiting(dialog'[x])),
         calls' = calls, trans' = trans, Advances(dialog, dialog'), astray \subseteq astray',
         \A x \in Reserved : Waiting(dialog[x]) => Waiting(dialog'[x])
  PROVE  Good'
  <1>1. todo[t] # <<>> /\ Shape(todo[t]) /\ Head(todo[t]).do = k
    BY ListOf
  <1>2. Len(todo[t]) = 1
    BY <1>1, Lone
  <1>3. todo'[t] = r /\ \A u \in Threads : u # t => todo'[u] = todo[u]
    BY <1>1, <1>2, OnlyStep
  <1>4. ~Mid(todo[t])
    BY <1>1 DEF Mid, MidSteps, LoneKinds
  <1> QED
    BY <1>3, <1>4, KeepStep

LEMMA SoundIf ==
  ASSUME Types, Good, NEW t \in Threads, ~Mid(todo[t]), \A u \in Threads : u # t => Modest(todo[u])
  PROVE  Sound(calls)
  <1>1. \A u \in Threads : ~Mid(todo[u])
    BY ModestMid DEF Types
  <1> QED
    BY <1>1 DEF Good

LEMMA ToWorkable ==
  ASSUME Types, Sound(calls), NEW x \in CallIds, NEW y \in CallIds, To(calls, x, y)
  PROVE  x \in Workable /\ y \in Workable /\ x \in Used \ Reserved /\ y \in Used \ Reserved
  <1>1. x \in Used /\ y \in Used
    BY DEF Sound, Settled
  <1>2. ~Unused(calls, x) /\ ~Unused(calls, y)
    BY DEF Unused, To
  <1>3. x \notin Reserved /\ y \notin Reserved
    BY <1>2 DEF Sound
  <1>4. (trans[x] # None => x \in Going) /\ (trans[y] # None => y \in Going)
    BY <1>2 DEF Sound
  <1> QED
    BY <1>1, <1>3, <1>4 DEF Workable

LEMMA StopCallGood == ASSUME Types, Good, NEW t \in Threads, StopCall(t) PROVE Good'
  <1> PICK q : q = todo[t]
    OBVIOUS
  <1> PICK r : r = Tail(q)
    OBVIOUS
  <1>1. /\ q \in Seq(Step) /\ q # <<>> /\ Shape(q) /\ Head(q).do = "StopCall" /\ Len(q) \in Nat
        /\ r \in Seq(Step)
    BY ListOf DEF StopCall
  <1>2. todo'[t] = r /\ \A u \in Threads : u # t => todo'[u] = todo[u]
    BY <1>1, NextStep DEF StopCall
  <1>3. OnStopCall(q)
    BY <1>1, ShapeOf
  <1>4. Advances(dialog, dialog') /\ \A x \in Reserved : Waiting(dialog[x]) => Waiting(dialog'[x])
    BY StopCallDialog, Sets
  <1>5. ASSUME Mid(q) PROVE Mid(r)
    <2>1. Tail(q) # <<>> /\ Head(Tail(q)).do = "AcceptCaller"
      BY <1>1, <1>5 DEF Mid, MidSteps
    <2> QED
      BY <2>1 DEF Mid, MidSteps
  <1>6. ASSUME Shape(r), Res(r) = {} PROVE Good'
    BY <1>1, <1>2, <1>4, <1>5, <1>6, KeepStep DEF StopCall
  <1>7. CASE NoClaims(q)
    <2>1. NoClaims(r)
      BY <1>1, <1>7, QuietTail
    <2> QED
      BY <1>1, <1>6, <2>1, QuietShape
  <1>8. CASE /\ Len(q) = 4
             /\ q[2].do = "Delete" /\ MovedInsert(q[3]) /\ q[4].do = "DeleteTrans"
             /\ To(calls, q[2].call, q[3].recv) /\ Own(calls, Workable, q[3].send)
    <2>1. Len(r) = 3 /\ r[1] = q[2] /\ r[2] = q[3] /\ r[3] = q[4] /\ r # <<>> /\ Head(r) = q[2]
      BY <1>1, <1>8, RestOf
    <2>2. OnDelete(r)
      BY <1>8, <2>1 DEF OnDelete
    <2>3. Shape(r) /\ Res(r) = {}
      BY <1>8, <2>1, <2>2 DEF Shape, Res
    <2> QED
      BY <1>6, <2>3
  <1>9. CASE Len(q) = 3 /\ q[2].do = "StopCall" /\ Redialing(q[3])
    <2>1. Len(r) = 2 /\ r[1] = q[2] /\ r[2] = q[3] /\ r # <<>> /\ Head(r) = q[2]
      BY <1>1, <1>9, RestOf
    <2>2. OnStopCall(r)
      BY <1>9, <2>1 DEF OnStopCall
    <2>3. Shape(r) /\ Res(r) = {}
      BY <1>9, <2>1, <2>2 DEF Shape, Res
    <2> QED
      BY <1>6, <2>3
  <1>10. CASE Len(q) = 2 /\ Redialing(q[2])
    <2>1. Len(r) = 1 /\ r[1] = q[2] /\ r # <<>> /\ Head(r) = q[2]
      BY <1>1, <1>10, RestOf
    <2>2. q[2].do = "Redial"
      BY <1>10 DEF Redialing
    <2>3. Shape(r) /\ Res(r) = {}
      BY <1>10, <2>1, <2>2 DEF Shape, Res
    <2> QED
      BY <1>6, <2>3
  <1>11. CASE /\ Len(q) = 2 /\ q[2].do = "AcceptCaller"
              /\ \E x \in Calls : Picked(q[2].call, x, q[2].caller)
    <2>1. Len(r) = 1 /\ r[1] = q[2] /\ r # <<>> /\ Head(r) = q[2]
      BY <1>1, <1>11, RestOf
    <2>2. OnAcceptCaller(r)
      BY <1>11, <2>1 DEF OnAcceptCaller
    <2>3. Shape(r) /\ Res(r) = {}
      BY <1>11, <2>1, <2>2 DEF Shape, Res
    <2> QED
      BY <1>6, <2>3
  <1> QED
    BY <1>3, <1>7, <1>8, <1>9, <1>10, <1>11 DEF OnStopCall

LEMMA AcceptPeerGood == ASSUME Types, Good, ~Crossing, NEW t \in Threads, AcceptPeer(t) PROVE Good'
  <1>1. Now(t).call \in CallIds
    BY CallOf DEF AcceptPeer, CallKinds
  <1>2. /\ todo[t] \in Seq(Step) /\ todo[t] # <<>> /\ Head(todo[t]).do = "EventCallStart"
        /\ todo[t][1].do = "EventCallStart" /\ 1 \in 1 .. Len(todo[t])
    BY ListOf DEF AcceptPeer
  <1>3. Has(t, TurnSteps)
    BY <1>2, LenProperties DEF Has, TurnSteps
  <1>4. Sound(calls)
    BY <1>2, <1>3, NotMid, NotCrossing, SoundIf
  <1>5. calls[Now(t).call].peer \in CallIds /\ To(calls, Now(t).call, calls[Now(t).call].peer)
    BY <1>1, PeerOf DEF AcceptPeer, To
  <1>6. calls[Now(t).call].peer \in Used \ Reserved
    BY <1>1, <1>4, <1>5, ToWorkable
  <1> DEFINE s == [do |-> "AcceptCall", call |-> calls[Now(t).call].peer]
  <1>7. s \in Step /\ s.do = "AcceptCall" /\ s.call \in Used \ Reserved
    BY <1>5, <1>6, Makes DEF CallKinds
  <1>8. Then(t, <<s>>)
    BY DEF AcceptPeer
  <1> HIDE DEF s
  <1>9. <<s>> \in Seq(Step) /\ Shape(<<s>>) /\ Res(<<s>>) = {}
    <2>1. <<s>> \in Seq(Step)
      BY <1>7
    <2>2. Len(<<s>>) = 1 /\ <<s>>[1] = s /\ Head(<<s>>) = s /\ <<s>> # <<>>
      BY One
    <2> PICK r : r = <<s>>
      OBVIOUS
    <2>3. Shape(r) /\ Res(r) = {}
      BY <1>7, <2>2 DEF Shape, Res
    <2> QED
      BY <2>1, <2>3
  <1> QED
    BY <1>8, <1>9, LoneStep, AdvanceSame DEF AcceptPeer, LoneKinds, MidSteps

LEMMA OneList ==
  ASSUME NEW s \in Step, NEW r, r = <<s>>
  PROVE  /\ r \in Seq(Step) /\ r # <<>> /\ Len(r) = 1 /\ r[1] = s /\ Head(r) = s
         /\ s.do \notin {"EventIncomingCall", "CreateCall", "Insert"} => Res(r) = {}
  <1>1. r \in Seq(Step) /\ r # <<>> /\ Len(r) = 1 /\ r[1] = s /\ Head(r) = s
    BY One
  <1>2. s.do \notin {"EventIncomingCall", "CreateCall", "Insert"} => Res(r) = {}
    BY <1>1 DEF Res
  <1> QED
    BY <1>1, <1>2

LEMMA ThreeList ==
  ASSUME NEW a \in Step, NEW b \in Step, NEW c \in Step, NEW r, r = <<a, b, c>>
  PROVE  r \in Seq(Step) /\ r # <<>> /\ Len(r) = 3 /\ r[1] = a /\ r[2] = b /\ r[3] = c /\ Head(r) = a
         /\ Tail(r) = <<b, c>>
  BY Three, Literals

LEMMA CreatePortGood == ASSUME Types, Good, NEW t \in Threads, CreatePort(t) PROVE Good'
  <1>1. todo[t] # <<>> /\ Now(t).call \in CallIds /\ Now(t) = Head(todo[t]) /\ Head(todo[t]).do = "EventIncomingCall"
    BY HeadOf, CallOf, ListOf DEF CreatePort, CallKinds
  <1>2. PICK p \in Ports : Then(t, <<[do |-> "CreateCall", call |-> Now(t).call, port |-> p]>>)
    BY DEF CreatePort
  <1> DEFINE s == [do |-> "CreateCall", call |-> Now(t).call, port |-> p]
  <1>3. s \in Step /\ s.do = "CreateCall" /\ s.call = Now(t).call
    BY <1>1, Makes
  <1>4. Then(t, <<s>>)
    BY <1>2
  <1> HIDE DEF s
  <1> PICK r : r = <<s>>
    OBVIOUS
  <1>5. r \in Seq(Step) /\ r # <<>> /\ Len(r) = 1 /\ Head(r) = s
    BY <1>3, OneList
  <1>6. Shape(r)
    BY <1>3, <1>5 DEF Shape
  <1>7. \A x \in Res(r) : x \in Res(todo[t])
    BY <1>1, <1>3, <1>5 DEF Res
  <1> QED
    BY <1>4, <1>5, <1>6, <1>7, LoneStep, AdvanceSame DEF CreatePort, LoneKinds, MidSteps

LEMMA SelectTransferorGood == ASSUME Types, Good, NEW t \in Threads, SelectTransferor(t) PROVE Good'
  <1>1. todo[t] # <<>> /\ Now(t).call \in CallIds /\ Now(t) = todo[t][1] /\ Head(todo[t]).do = "EventCallStart" /\ Shape(todo[t])
    BY HeadOf, CallOf, ListOf DEF SelectTransferor, CallKinds
  <1>2. Own(calls, Workable, Now(t).call)
    BY <1>1, ShapeOf DEF SelectTransferor
  <1> DEFINE s == [do |-> "Transfer", call |-> Now(t).call, from |-> trans[Now(t).call].peer, port |-> trans[Now(t).call].port - 2]
  <1>3. s \in Step /\ s.do = "Transfer" /\ s.call = Now(t).call
    BY <1>1, PeerOf, Makes DEF SelectTransferor
  <1>4. Then(t, <<s>>)
    BY DEF SelectTransferor
  <1> HIDE DEF s
  <1> PICK r : r = <<s>>
    OBVIOUS
  <1>5. r \in Seq(Step) /\ r # <<>> /\ Len(r) = 1 /\ Head(r) = s /\ r[1] = s /\ Res(r) = {}
    BY <1>3, OneList
  <1>6. Shape(r)
    BY <1>2, <1>3, <1>5 DEF Shape, OnTransfer
  <1> QED
    BY <1>4, <1>5, <1>6, LoneStep, AdvanceSame DEF SelectTransferor, LoneKinds, MidSteps

LEMMA BlindTransferGood == ASSUME Types, Good, NEW t \in Threads, BlindTransfer(t) PROVE Good'
  <1>1. Now(t).call \in CallIds
    BY CallOf DEF BlindTransfer, CallKinds
  <1>2. CASE calls[Now(t).call] = None
    <2>1. Then(t, <<>>)
      BY <1>2 DEF BlindTransfer
    <2> QED
      BY <2>1, QuietLists, QuietEnd, AdvanceSame DEF BlindTransfer, LoneKinds, MidSteps
  <1>3. CASE calls[Now(t).call] # None
    <2>1. Now(t).call \in Going
      <3>1. todo[t] # <<>> /\ Shape(todo[t]) /\ Head(todo[t]).do = "EventBlindTransfer" /\ Now(t) = todo[t][1]
        BY ListOf DEF BlindTransfer
      <3> QED
        BY <3>1, ShapeOf
    <2> DEFINE s == [do |-> "CreatePort", call |-> Now(t).call, peer |-> calls[Now(t).call].peer]
    <2>3. s \in Step /\ s.do = "CreatePort" /\ s.call = Now(t).call
      BY <1>1, <1>3, PeerOf, Makes
    <2>4. Then(t, <<s>>)
      BY <1>3 DEF BlindTransfer
    <2> HIDE DEF s
    <2> PICK r : r = <<s>>
      OBVIOUS
    <2>5. r \in Seq(Step) /\ r # <<>> /\ Len(r) = 1 /\ Head(r) = s /\ r[1] = s /\ Res(r) = {}
      BY <2>3, OneList
    <2>6. Shape(r)
      BY <2>1, <2>3, <2>5 DEF Shape
    <2> QED
      BY <2>4, <2>5, <2>6, LoneStep, AdvanceSame DEF BlindTransfer, LoneKinds, MidSteps
  <1> QED
    BY <1>2, <1>3

LEMMA CreateTransPortGood == ASSUME Types, Good, NEW t \in Threads, CreateTransPort(t) PROVE Good'
  <1>1. /\ todo[t] # <<>> /\ Shape(todo[t]) /\ Head(todo[t]).do = "CreatePort" /\ Now(t) = todo[t][1]
        /\ Now(t).call \in CallIds
    BY ListOf, HeadOf, KindOf, Fields DEF CreateTransPort
  <1>2. Now(t).call \in Going
    BY <1>1, ShapeOf
  <1>3. CASE Then(t, <<>>)
    BY <1>3, QuietLists, QuietEnd, AdvanceSame DEF CreateTransPort, LoneKinds, MidSteps
  <1>4. ASSUME NEW p \in Ports, Then(t, <<[do |-> "SendInvite", call |-> Now(t).call, port |-> p]>>)
        PROVE  Good'
    <2> DEFINE s == [do |-> "SendInvite", call |-> Now(t).call, port |-> p]
    <2>1. s \in Step /\ s.do = "SendInvite" /\ s.call = Now(t).call
      BY <1>1, Makes
    <2>2. Then(t, <<s>>)
      BY <1>4
    <2> HIDE DEF s
    <2> PICK r : r = <<s>>
      OBVIOUS
    <2>3. r \in Seq(Step) /\ r # <<>> /\ Len(r) = 1 /\ Head(r) = s /\ r[1] = s /\ Res(r) = {}
      BY <2>1, OneList
    <2>4. Shape(r)
      BY <1>2, <2>1, <2>3 DEF Shape
    <2> QED
      BY <2>2, <2>3, <2>4, LoneStep, AdvanceSame DEF CreateTransPort, LoneKinds, MidSteps
  <1> QED
    BY <1>3, <1>4 DEF CreateTransPort

LEMMA CreateCallGood == ASSUME Types, Good, NEW t \in Threads, CreateCall(t) PROVE Good'
  <1>1. PICK d \in Fresh :
           /\ dialog' = [dialog EXCEPT ![d] = Unconnected]
           /\ Then(t, <<InsertStep(Now(t).call, d, Now(t).port, FALSE),
                        [do |-> "StartCall", call |-> Now(t).call, invite |-> d]>>)
           /\ InsertStep(Now(t).call, d, Now(t).port, FALSE) \in Step
           /\ [do |-> "StartCall", call |-> Now(t).call, invite |-> d] \in Step
           /\ todo[t] # <<>> /\ Now(t).call \in CallIds
    BY CreateCallSteps
  <1> PICK c : c = Now(t).call
    OBVIOUS
  <1>2. /\ d \in Calls /\ d # NoCall /\ Advances(dialog, dialog') /\ dialog[d] = None /\ dialog'[d] = Unconnected
        /\ \A x \in CallIds : x # d => dialog'[x] = dialog[x]
    BY <1>1, FreshIs, NewDialog, NewDialogs
  <1>3. Waiting(dialog'[d]) /\ d \notin Used
    BY <1>2, NewDialogs, Distinct, Sets, Ids DEF Waiting
  <1>4. Now(t) = Head(todo[t]) /\ Head(todo[t]).do = "CreateCall" /\ c \in Res(todo[t])
    BY <1>1, ListOf DEF CreateCall, Res
  <1>5. c \in Reserved /\ Reserved \subseteq Ready
    BY <1>4 DEF Good, Reserved
  <1>6. \A x \in Reserved : x \in CallIds /\ x # d
    BY <1>2, <1>5, Sets, Distinct DEF Waiting
  <1> DEFINE s == InsertStep(Now(t).call, d, Now(t).port, FALSE)
             v == [do |-> "StartCall", call |-> Now(t).call, invite |-> d]
  <1>7. s.do = "Insert" /\ s.recv = c /\ s.send = d /\ s.moved = FALSE
    BY DEF InsertStep
  <1>8. s \in Step /\ v \in Step /\ v.do = "StartCall" /\ v.invite = d /\ Then(t, <<s, v>>)
    BY <1>1
  <1> HIDE DEF s, v
  <1> PICK r : r = <<s, v>>
    OBVIOUS
  <1>9. r \in Seq(Step) /\ r # <<>> /\ Len(r) = 2 /\ Head(r) = s /\ r[1] = s /\ r[2] = v
    BY <1>8, Two, Literals
  <1>10. OnInsertNew(r)
    BY <1>5, <1>6, <1>7, <1>8, <1>9 DEF OnInsertNew
  <1>11. Shape(r)
    BY <1>7, <1>9, <1>10 DEF Shape, OnInsert
  <1>12. \A x \in Res(r) : x = c \/ x = d
    BY <1>7, <1>9 DEF Res
  <1>13. \A x \in Reserved : Waiting(dialog[x]) => Waiting(dialog'[x])
    BY <1>2, <1>6
  <1> QED
    BY <1>2, <1>3, <1>4, <1>8, <1>9, <1>11, <1>12, <1>13, LoneStep DEF CreateCall, LoneKinds, MidSteps

(* The empty Call-ID, as StartCall leaves it when it fails.                *)
LEMMA NoCallClaim ==
  ASSUME Types, Good, Onward, Sound(calls), NoCall \in astray'
  PROVE  NoCall \in Lost' /\ Claim(calls', Workable', Lost', NoCall)
  <1>1. NoCall \in Used' /\ NoCall \in Used
    BY Sets, SetsNext, Ids
  <1>2. NoCall \in Past'
    BY <1>1, SetsNext, Ids DEF Onward, Advances, Acc
  <1>3. NoCall \in Lost'
    BY <1>2 DEF Lost
  <1>4. NoCall \notin Reserved
    BY Sets, Ids DEF Good
  <1>5. NoCall \notin Reserved'
    BY <1>1, <1>4 DEF Onward
  <1>6. trans[NoCall] = None
    BY Ids DEF Sound
  <1>7. NoCall \in Workable'
    BY <1>1, <1>5, <1>6 DEF Workable, Onward
  <1> QED
    BY <1>3, <1>7 DEF Claim

(* The thread is at a transfer or a pick-up, and so is no other.           *)
LEMMA MoverSound ==
  ASSUME Types, Good, ~Crossing, NEW t \in Threads, NEW k \in MoveSteps \ MidSteps, Doing(t, k)
  PROVE  Sound(calls) /\ \A u \in Threads : u # t => Modest(todo[u]) /\ ~Has(u, TurnSteps)
  <1>1. todo[t] \in Seq(Step) /\ todo[t] # <<>> /\ Head(todo[t]).do = k /\ todo[t][1].do = k /\ 1 \in 1 .. Len(todo[t])
    BY ListOf
  <1>2. Moves(t)
    BY <1>1, LenProperties DEF Moves, Has
  <1>3. ~Mid(todo[t])
    BY <1>1 DEF Mid, MidSteps, MoveSteps
  <1> QED
    BY <1>2, <1>3, NotCrossing, SoundIf

LEMMA TransferGood == ASSUME Types, Good, ~Crossing, NEW t \in Threads, Transfer(t) PROVE Good'
  <1> DEFINE x == Now(t).call
             f == Now(t).from
             i(p) == InsertStep(p, x, Now(t).port, TRUE)
             d == [do |-> "DeleteTrans", call |-> x, stop |-> FALSE]
             a == StopCallStep(f)
             b == DeleteStep(f, TRUE)
  <1>1. /\ x \in CallIds /\ f \in CallIds /\ todo[t] # <<>>
        /\ \A p \in CallIds : i(p) \in Step
        /\ d \in Step /\ a \in Step /\ b \in Step
        /\ calls[f] # None =>
             /\ calls[f].peer \in CallIds /\ astray' = astray
             /\ Then(t, <<a, b, i(calls[f].peer), d>>)
        /\ calls[f] = None =>
             astray' = astray \cup {x, NoCall} /\ Then(t, <<i(NoCall), d>>)
    BY TransferSteps
  <1>2. Own(calls, Workable, x)
    <2>1. todo[t] # <<>> /\ Shape(todo[t]) /\ Head(todo[t]).do = "Transfer" /\ Now(t) = todo[t][1]
      BY ListOf DEF Transfer
    <2> QED
      BY <2>1, ShapeOf DEF OnTransfer
  <1>3. d.do = "DeleteTrans"
    OBVIOUS
  <1>4. /\ a.do = "StopCall" /\ b.do = "Delete" /\ b.call = f
        /\ \A p \in CallIds : i(p).do = "Insert" /\ i(p).recv = p /\ i(p).send = x /\ i(p).moved = TRUE
    <2>1. a.do = "StopCall" /\ b.do = "Delete" /\ b.call = f
      BY DEF StopCallStep, DeleteStep
    <2>2. \A p \in CallIds : i(p).do = "Insert" /\ i(p).recv = p /\ i(p).send = x /\ i(p).moved = TRUE
      BY DEF InsertStep
    <2> QED
      BY <2>1, <2>2
  <1>5. calls' = calls /\ trans' = trans /\ dialog' = dialog /\ Doing(t, "Transfer")
    BY DEF Transfer
  <1> HIDE DEF a, b, d, i, f, x
  <1>6. CASE calls[f] # None
    <2> PICK y : y = i(calls[f].peer)
      OBVIOUS
    <2> PICK r : r = <<a, b, y, d>>
      OBVIOUS
    <2>0. y \in Step /\ y.do = "Insert" /\ y.recv = calls[f].peer /\ y.send = x /\ y.moved = TRUE
      BY <1>1, <1>4, <1>6
    <2>1. r \in Seq(Step) /\ r # <<>> /\ Len(r) = 4 /\ r[1] = a /\ r[2] = b /\ r[3] = y /\ r[4] = d /\ Head(r) = a
      BY <1>1, <2>0, Four, Literals
    <2>2. MovedInsert(y) /\ y.send = x /\ To(calls, b.call, y.recv)
      BY <1>4, <1>6, <2>0 DEF MovedInsert, To
    <2>3. OnStopCall(r)
      BY <1>2, <1>3, <1>4, <2>1, <2>2 DEF OnStopCall
    <2>4. Shape(r) /\ Res(r) = {}
      BY <1>4, <2>1, <2>3 DEF Shape, Res
    <2>5. Then(t, r) /\ astray \subseteq astray'
      BY <1>1, <1>6
    <2> QED
      BY <1>5, <2>1, <2>4, <2>5, LoneStep, AdvanceSame DEF LoneKinds, MidSteps
  <1>7. CASE calls[f] = None
    <2> PICK y : y = i(NoCall)
      OBVIOUS
    <2> PICK r : r = <<y, d>>
      OBVIOUS
    <2>0. y \in Step /\ y.do = "Insert" /\ y.recv = NoCall /\ y.send = x /\ y.moved = TRUE
      BY <1>1, <1>4, Ids
    <2>1. r \in Seq(Step) /\ r # <<>> /\ Len(r) = 2 /\ r[1] = y /\ r[2] = d /\ Head(r) = y /\ Tail(r) = <<d>>
      BY <1>1, <2>0, Two, Literals
    <2>2. NoClaims(Tail(r))
      BY <1>1, <1>3, <2>1, QuietLists DEF QuietSteps
    <2>3. Then(t, r) /\ NoCall \in astray' /\ astray \subseteq astray'
      BY <1>1, <1>7
    <2>4. Res(r) = {}
      BY <2>0, <2>1 DEF Res
    <2>5. Onward
      <3>1. todo'[t] = r /\ \A u \in Threads : u # t => todo'[u] = todo[u]
        <4>1. todo[t] # <<>> /\ Shape(todo[t]) /\ Head(todo[t]).do = "Transfer"
          BY <1>5, ListOf
        <4>2. Len(todo[t]) = 1
          BY <4>1, Lone DEF LoneKinds
        <4> QED
          BY <2>1, <2>3, <4>1, <4>2, OnlyStep
      <3> QED
        BY <1>5, <2>3, <2>4, <3>1, StepOnward, AdvanceSame
    <2>6. Sound(calls)
      BY <1>5, MoverSound DEF MoveSteps, MidSteps
    <2>7. NoCall \in Lost' /\ Claim(calls', Workable', Lost', NoCall)
      BY <2>3, <2>5, <2>6, NoCallClaim
    <2>8. Claim(calls', Workable', Lost', x)
      BY <1>2, <2>5, OnwardKeeps, KeepOwn, OwnClaim
    <2>9. OnInsertMoved(r)'
      BY <2>0, <2>1, <2>2, <2>7, <2>8 DEF OnInsertMoved
    <2>10. Shape(r)'
      BY <2>0, <2>1, <2>9 DEF Shape, OnInsert
    <2> QED
      BY <1>5, <2>1, <2>3, <2>4, <2>10, LoneStep, AdvanceSame DEF LoneKinds, MidSteps
  <1> QED
    BY <1>6, <1>7

LEMMA SelectTransferGood == ASSUME Types, Good, NEW t \in Threads, SelectTransfer(t) PROVE Good'
  <1>1. /\ todo[t] # <<>> /\ Shape(todo[t]) /\ Head(todo[t]).do = "EventTransfer" /\ Now(t) = todo[t][1]
        /\ Now(t).call \in CallIds /\ Now(t).to \in CallIds /\ Now(t).screened \in BOOLEAN
    BY ListOf, HeadOf, KindOf, Fields DEF SelectTransfer
  <1>2. Now(t).call # Now(t).to /\ ~To(calls, Now(t).call, Now(t).to)
    BY <1>1, ShapeOf DEF OnEventTransfer
  <1>3. CASE calls[Now(t).call] = None
    <2>1. Then(t, <<>>)
      BY <1>3 DEF SelectTransfer
    <2> QED
      BY <2>1, QuietLists, QuietEnd, AdvanceSame DEF SelectTransfer, LoneKinds, MidSteps
  <1>4. CASE calls[Now(t).call] # None
    <2> DEFINE s == [do |-> "SelectRefer", call |-> Now(t).call, to |-> Now(t).to,
                     screened |-> Now(t).screened, peer |-> calls[Now(t).call].peer]
    <2>1. calls[Now(t).call].peer \in CallIds
      BY <1>1, <1>4, PeerOf
    <2>2. s \in Step
      BY <1>1, <2>1, Makes
    <2>3. s.do = "SelectRefer" /\ s.call = Now(t).call /\ s.to = Now(t).to /\ s.peer = calls[Now(t).call].peer
      OBVIOUS
    <2>4. Then(t, <<s>>)
      BY <1>4 DEF SelectTransfer
    <2> HIDE DEF s
    <2> PICK r : r = <<s>>
      OBVIOUS
    <2>5. r \in Seq(Step) /\ r # <<>> /\ Len(r) = 1 /\ Head(r) = s /\ r[1] = s /\ Res(r) = {}
      BY <2>2, <2>3, OneList
    <2>6. To(calls, s.call, s.peer) /\ s.peer # s.to /\ s.call # s.to
      BY <1>2, <1>4, <2>3 DEF To
    <2>7. Shape(r)
      BY <2>3, <2>5, <2>6 DEF Shape, OnSelectRefer
    <2> QED
      BY <2>4, <2>5, <2>7, LoneStep, AdvanceSame DEF SelectTransfer, LoneKinds, MidSteps
  <1> QED
    BY <1>3, <1>4

LEMMA SelectReferToGood == ASSUME Types, Good, NEW t \in Threads, SelectReferTo(t) PROVE Good'
  <1>1. /\ todo[t] # <<>> /\ Shape(todo[t]) /\ Head(todo[t]).do = "SelectRefer" /\ Now(t) = todo[t][1]
        /\ Now(t).call \in CallIds /\ Now(t).to \in CallIds /\ Now(t).screened \in BOOLEAN /\ Now(t).peer \in CallIds
    BY ListOf, HeadOf, KindOf, Fields DEF SelectReferTo
  <1>2. Now(t).call # Now(t).to /\ Now(t).peer # Now(t).to /\ To(calls, Now(t).call, Now(t).peer)
    BY <1>1, ShapeOf DEF OnSelectRefer
  <1>3. CASE calls[Now(t).to] = None
    <2>1. Then(t, <<>>)
      BY <1>3 DEF SelectReferTo
    <2> QED
      BY <2>1, QuietLists, QuietEnd, AdvanceSame DEF SelectReferTo, LoneKinds, MidSteps
  <1>4. CASE calls[Now(t).to] # None
    <2> DEFINE a == DeleteStep(Now(t).call, TRUE)
               b == DeleteStep(Now(t).to, FALSE)
               s == [do |-> "Refer", call |-> Now(t).call, to |-> Now(t).to, screened |-> Now(t).screened,
                     peer |-> Now(t).peer, toPeer |-> calls[Now(t).to].peer,
                     port |-> calls[Now(t).to].port, owner |-> calls[Now(t).to].recv]
    <2>1. /\ calls[Now(t).to].peer \in CallIds /\ calls[Now(t).to].port \in Int
          /\ calls[Now(t).to].recv \in BOOLEAN
      BY <1>1, <1>4, PeerOf
    <2>2. s \in Step
      <3>1. todo[t] # <<>> /\ Now(t) \in Step /\ Now(t).do = "SelectRefer"
        BY HeadOf DEF SelectReferTo
      <3> QED
        BY <1>4, <3>1, KindOf, Fields, PeerOf, Makes
    <2>3. s.do = "Refer" /\ s.peer = Now(t).peer /\ s.toPeer = calls[Now(t).to].peer
      OBVIOUS
    <2>4. Then(t, <<a, b, s>>)
      BY <1>4 DEF SelectReferTo
    <2>5. a \in Step /\ b \in Step
      BY <1>1, MakesNamed
    <2>6. a.do = "Delete" /\ a.call = Now(t).call /\ b.do = "Delete" /\ b.call = Now(t).to /\ b.stop = FALSE
      BY DEF DeleteStep
    <2> HIDE DEF a, b, s
    <2> PICK r : r = <<a, b, s>>
      OBVIOUS
    <2>7. r \in Seq(Step) /\ r # <<>> /\ Len(r) = 3 /\ r[1] = a /\ r[2] = b /\ r[3] = s /\ Head(r) = a
      BY <2>2, <2>5, ThreeList
    <2>8. To(calls, a.call, s.peer) /\ To(calls, b.call, s.toPeer) /\ a.call # b.call /\ s.peer # b.call
      BY <1>2, <1>4, <2>3, <2>6 DEF To
    <2>9. OnDelete(r)
      BY <2>3, <2>6, <2>7, <2>8 DEF OnDelete
    <2>10. Shape(r) /\ Res(r) = {}
      BY <2>6, <2>7, <2>9 DEF Shape, Res
    <2> QED
      BY <2>4, <2>7, <2>10, LoneStep, AdvanceSame DEF SelectReferTo, LoneKinds, MidSteps
  <1> QED
    BY <1>3, <1>4

LEMMA ScreenedTransferGood == ASSUME Types, Good, NEW t \in Threads, ScreenedTransfer(t) PROVE Good'
  <1>1. /\ todo[t] # <<>> /\ Shape(todo[t]) /\ Head(todo[t]).do = "Refer" /\ Now(t) = todo[t][1]
        /\ Now(t).call \in CallIds /\ Now(t).to \in CallIds /\ Now(t).peer \in CallIds
        /\ Now(t).toPeer \in CallIds /\ Now(t).port \in Int
    BY ListOf, HeadOf, KindOf, Fields DEF ScreenedTransfer
  <1>2. Referring(Now(t))
    BY <1>1, ShapeOf
  <1> DEFINE s == InsertStep(Now(t).peer, Now(t).toPeer, Now(t).port, TRUE)
             a == StopCallStep(Now(t).call)
             b == StopCallStep(Now(t).to)
  <1>3. s.do = "Insert" /\ s.recv = Now(t).peer /\ s.send = Now(t).toPeer /\ s.moved = TRUE
    BY DEF InsertStep
  <1>4. s \in Step /\ a \in Step /\ b \in Step /\ a.do = "StopCall" /\ b.do = "StopCall"
    BY <1>1, MakesNamed, QuietNamed
  <1>5. Then(t, <<s, a, b>>)
    BY DEF ScreenedTransfer
  <1>6. NoClaims(<<a, b>>)
    BY <1>4, QuietLists DEF QuietSteps
  <1> HIDE DEF s, a, b
  <1> PICK r : r = <<s, a, b>>
    OBVIOUS
  <1>7. r \in Seq(Step) /\ r # <<>> /\ Len(r) = 3 /\ Head(r) = s /\ Tail(r) = <<a, b>>
    BY <1>4, ThreeList
  <1>8. OnInsertMoved(r)
    BY <1>2, <1>3, <1>6, <1>7 DEF OnInsertMoved, Referring
  <1>9. Shape(r) /\ Res(r) = {}
    BY <1>3, <1>7, <1>8 DEF Shape, OnInsert, Res
  <1> QED
    BY <1>5, <1>7, <1>9, LoneStep, AdvanceSame DEF ScreenedTransfer, LoneKinds, MidSteps

LEMMA UnscreenedTransferGood == ASSUME Types, Good, NEW t \in Threads, UnscreenedTransfer(t) PROVE Good'
  <1>1. /\ todo[t] # <<>> /\ Shape(todo[t]) /\ Head(todo[t]).do = "Refer" /\ Now(t) = todo[t][1]
        /\ Now(t) \in ReferStep /\ Now(t).call \in CallIds /\ Now(t).to \in CallIds
    BY ListOf, HeadOf, KindOf, Fields DEF UnscreenedTransfer
  <1>2. Referring(Now(t))
    BY <1>1, ShapeOf
  <1> DEFINE s == [Now(t) EXCEPT !.do = "Redial"]
             a == StopCallStep(Now(t).call)
             b == StopCallStep(Now(t).to)
  <1>3. s \in Step /\ s.do = "Redial" /\ s.peer = Now(t).peer
    BY <1>1, MakesRedial
  <1>4. a \in Step /\ b \in Step /\ a.do = "StopCall" /\ b.do = "StopCall"
    BY <1>1, MakesNamed, QuietNamed
  <1>5. Then(t, <<a, b, s>>)
    BY DEF UnscreenedTransfer
  <1> HIDE DEF s, a, b
  <1> PICK r : r = <<a, b, s>>
    OBVIOUS
  <1>6. r \in Seq(Step) /\ r # <<>> /\ Len(r) = 3 /\ r[2] = b /\ r[3] = s /\ Head(r) = a
    BY <1>3, <1>4, ThreeList
  <1>7. OnStopCall(r)
    BY <1>2, <1>3, <1>4, <1>6 DEF OnStopCall, Redialing, Referring
  <1>8. Shape(r) /\ Res(r) = {}
    BY <1>4, <1>6, <1>7 DEF Shape, Res
  <1> QED
    BY <1>5, <1>6, <1>8, LoneStep, AdvanceSame DEF UnscreenedTransfer, LoneKinds, MidSteps

LEMMA SelectToRingGood == ASSUME Types, Good, NEW t \in Threads, SelectToRing(t) PROVE Good'
  <1>1. /\ todo[t] # <<>> /\ Shape(todo[t]) /\ Head(todo[t]).do = "SelectToRing" /\ Now(t) = todo[t][1]
        /\ Now(t).call \in CallIds
    BY ListOf, CallOf DEF SelectToRing, CallKinds
  <1>2. Own(calls, Workable, Now(t).call)
    BY <1>1, ShapeOf
  <1>3. CASE Then(t, <<StopCallStep(Now(t).call)>>)
    <2>1. <<StopCallStep(Now(t).call)>> \in Seq(Step) /\ NoClaims(<<StopCallStep(Now(t).call)>>)
      BY <1>1, QuietNamed
    <2> QED
      BY <1>3, <2>1, QuietEnd, AdvanceSame DEF SelectToRing, LoneKinds, MidSteps
  <1>4. ASSUME NEW x \in Calls, Then(t, <<[do |-> "SelectOld", call |-> Now(t).call, old |-> x]>>)
        PROVE  Good'
    <2> DEFINE s == [do |-> "SelectOld", call |-> Now(t).call, old |-> x]
    <2>1. s \in Step /\ s.do = "SelectOld" /\ s.call = Now(t).call /\ s.old = x
      BY <1>1, Ids, Makes
    <2>2. Then(t, <<s>>)
      BY <1>4
    <2> HIDE DEF s
    <2> PICK r : r = <<s>>
      OBVIOUS
    <2>3. r \in Seq(Step) /\ r # <<>> /\ Len(r) = 1 /\ Head(r) = s /\ r[1] = s /\ Res(r) = {}
      BY <2>1, OneList
    <2>4. Shape(r)
      BY <1>2, <2>1, <2>3 DEF Shape
    <2> QED
      BY <2>2, <2>3, <2>4, LoneStep, AdvanceSame DEF SelectToRing, LoneKinds, MidSteps
  <1> QED
    BY <1>3, <1>4 DEF SelectToRing

LEMMA SelectOldGood == ASSUME Types, Good, NEW t \in Threads, SelectOld(t) PROVE Good'
  <1>1. /\ todo[t] # <<>> /\ Shape(todo[t]) /\ Head(todo[t]).do = "SelectOld" /\ Now(t) = todo[t][1]
        /\ Now(t).call \in CallIds
    BY ListOf, HeadOf, KindOf, Fields DEF SelectOld
  <1>2. Own(calls, Workable, Now(t).call) /\ Now(t).old \in Calls /\ Now(t).old \in CallIds
    BY <1>1, ShapeOf, Ids
  <1>3. CASE calls[Now(t).old] = None
    <2>1. Then(t, <<StopCallStep(Now(t).call)>>)
      BY <1>3 DEF SelectOld
    <2>2. <<StopCallStep(Now(t).call)>> \in Seq(Step) /\ NoClaims(<<StopCallStep(Now(t).call)>>)
      BY <1>1, QuietNamed
    <2> QED
      BY <2>1, <2>2, QuietEnd, AdvanceSame DEF SelectOld, LoneKinds, MidSteps
  <1>4. CASE calls[Now(t).old] # None
    <2>1. /\ calls[Now(t).old] \in CallInfo /\ calls[Now(t).old].peer \in CallIds
      BY <1>2, <1>4, PeerOf
    <2> DEFINE a == [do |-> "InsertOne", call |-> Now(t).call, info |-> calls[Now(t).old]]
               b == [do |-> "DeleteOne", call |-> Now(t).old]
               c == StopCallStep(Now(t).old)
               d == [do |-> "AcceptCaller", call |-> Now(t).call, caller |-> calls[Now(t).old].peer]
    <2>2. a \in Step /\ a.do = "InsertOne" /\ a.call = Now(t).call /\ a.info = calls[Now(t).old]
      BY <1>1, <2>1, Makes
    <2>3. b \in Step /\ b.do = "DeleteOne" /\ b.call = Now(t).old
      BY <1>2, Makes DEF CallKinds
    <2>4. c \in Step /\ c.do = "StopCall"
      BY <1>2, MakesNamed, QuietNamed
    <2>5. d \in Step /\ d.do = "AcceptCaller" /\ d.call = Now(t).call /\ d.caller = calls[Now(t).old].peer
      BY <1>1, <2>1, Makes
    <2>6. Then(t, <<a, b, c, d>>)
      BY <1>4 DEF SelectOld
    <2> HIDE DEF a, b, c, d
    <2> PICK r : r = <<a, b, c, d>>
      OBVIOUS
    <2>7. r \in Seq(Step) /\ r # <<>> /\ Len(r) = 4 /\ r[1] = a /\ r[2] = b /\ r[3] = c /\ r[4] = d /\ Head(r) = a
      BY <2>2, <2>3, <2>4, <2>5, Four, Literals
    <2>8. OnInsertOne(r)
      BY <1>2, <1>4, <2>2, <2>3, <2>4, <2>5, <2>7 DEF OnInsertOne
    <2>9. Shape(r) /\ Res(r) = {}
      BY <2>2, <2>7, <2>8 DEF Shape, Res
    <2> QED
      BY <2>6, <2>7, <2>9, LoneStep, AdvanceSame DEF SelectOld, LoneKinds, MidSteps
  <1> QED
    BY <1>3, <1>4

LEMMA SelectCallerGood == ASSUME Types, Good, NEW t \in Threads, SelectCaller(t) PROVE Good'
  <1>1. /\ todo[t] # <<>> /\ Shape(todo[t]) /\ Head(todo[t]).do = "SelectCaller" /\ Now(t) = todo[t][1]
        /\ Now(t).call \in CallIds /\ Now(t).caller \in CallIds
    BY ListOf, HeadOf, KindOf, Fields DEF SelectCaller
  <1>2. Len(todo[t]) = 1 /\ \E x \in Calls : Accepted(Now(t).call, x, Now(t).caller)
    BY <1>1, ShapeOf DEF OnSelectCaller
  <1> DEFINE a == [do |-> "Update", call |-> Now(t).caller, peer |-> Now(t).call]
             b == [do |-> "AcceptCall", call |-> Now(t).call]
  <1>3. a \in Step /\ a.do = "Update" /\ a.call = Now(t).caller /\ a.peer = Now(t).call
    BY <1>1, Makes
  <1>4. b \in Step /\ b.do = "AcceptCall" /\ b.call = Now(t).call
    BY <1>1, Makes DEF CallKinds
  <1>5. Then(t, <<a, b>>) /\ calls[Now(t).caller] # None
    BY DEF SelectCaller
  <1> HIDE DEF a, b
  <1> PICK r : r = <<a, b>>
    OBVIOUS
  <1>6. r \in Seq(Step) /\ r # <<>> /\ Len(r) = 2 /\ r[1] = a /\ r[2] = b /\ Head(r) = a
    BY <1>3, <1>4, Two, Literals
  <1>7. OnUpdate(r)
    BY <1>2, <1>3, <1>4, <1>5, <1>6 DEF OnUpdate
  <1>8. Shape(r) /\ Res(r) = {} /\ Mid(r)
    BY <1>3, <1>6, <1>7 DEF Shape, Res, Mid, MidSteps
  <1>9. todo'[t] = r /\ \A u \in Threads : u # t => todo'[u] = todo[u]
    BY <1>1, <1>2, <1>5, <1>6, OnlyStep
  <1> QED
    BY <1>6, <1>8, <1>9, KeepStep, AdvanceSame DEF SelectCaller

-----------------------------------------------------------------------------
(* What is received. *)

LEMMA IdleStep ==
  ASSUME Types, Good, NEW t \in Threads, MayStart(t), NEW s \in Step, Start(t, <<s>>), NEW r, r = <<s>>,
         Shape(r) \/ Shape(r)',
         \A x \in Res(r) : x \notin Used /\ x \in Calls /\ Waiting(dialog'[x]),
         calls' = calls, trans' = trans, Advances(dialog, dialog'), astray \subseteq astray',
         \A x \in Reserved : Waiting(dialog[x]) => Waiting(dialog'[x])
  PROVE  Good'
  <1>1. r \in Seq(Step) /\ todo'[t] = r /\ \A u \in Threads : u # t => todo'[u] = todo[u]
    BY OneStep1, OneList
  <1>2. ~Mid(todo[t])
    BY DEF MayStart, Idle, Mid
  <1> QED
    BY <1>1, <1>2, KeepStep

LEMMA RecvInviteGood == ASSUME Types, Good, NEW t \in Threads, NEW c \in Calls, RecvInvite(t, c) PROVE Good'
  <1>1. /\ Advances(dialog, dialog') /\ dialog[c] = None /\ dialog'[c] # None
        /\ Waiting(dialog'[c])
        /\ \A x \in CallIds : x # c => dialog'[x] = dialog[x]
    BY RecvInviteDialog
  <1> DEFINE s == [do |-> "EventIncomingCall", call |-> c]
  <1>2. s \in Step /\ s.do = "EventIncomingCall" /\ s.call = c
    BY Ids, Makes DEF CallKinds
  <1>3. Start(t, <<s>>) /\ MayStart(t)
    BY DEF RecvInvite
  <1> HIDE DEF s
  <1> PICK r : r = <<s>>
    OBVIOUS
  <1>4. r # <<>> /\ Len(r) = 1 /\ r[1] = s /\ Head(r) = s
    BY <1>2, OneList
  <1>5. Shape(r)
    BY <1>2, <1>4 DEF Shape
  <1>6. \A x \in Res(r) : x = c
    BY <1>2, <1>4 DEF Res
  <1>7. c \notin Used
    BY <1>1, Ids, Sets
  <1>8. \A x \in Reserved : Waiting(dialog[x]) => Waiting(dialog'[x])
    BY <1>1, Sets, Distinct DEF Waiting
  <1> QED
    BY <1>1, <1>2, <1>3, <1>5, <1>6, <1>7, <1>8, IdleStep DEF RecvInvite

LEMMA RecvOkGood ==
  ASSUME Types, Good, ~Crossing', NEW t \in Threads, NEW d \in Calls, RecvOk(t, d) PROVE Good'
  <1>1. /\ Advances(dialog, dialog') /\ dialog[d] # None /\ dialog[d] # Over
        /\ ~dialog[d].start /\ dialog[d].sent /\ dialog'[d].start /\ dialog'[d] \notin {None, Over}
        /\ \A x \in CallIds : x # d => dialog'[x] = dialog[x]
    BY RecvOkDialog
  <1>2. \A x \in Reserved : Waiting(dialog[x]) => Waiting(dialog'[x])
    BY <1>1, Sets DEF Waiting
  <1>3. CASE Start(t, <<StopCallStep(d)>>)
    <2>1. StopCallStep(d) \in Step
      BY Ids, MakesNamed
    <2> PICK r : r = <<StopCallStep(d)>>
      OBVIOUS
    <2>2. r \in Seq(Step) /\ NoClaims(r)
      BY Ids, QuietNamed
    <2> QED
      BY <1>1, <1>2, <1>3, <2>1, <2>2, QuietShape, IdleStep DEF RecvOk
  <1>4. CASE Start(t, <<[do |-> "EventCallStart", call |-> d]>>)
    <2> DEFINE s == [do |-> "EventCallStart", call |-> d]
    <2>1. s \in Step /\ s.do = "EventCallStart" /\ s.call = d
      BY Ids, Makes DEF CallKinds
    <2>2. Start(t, <<s>>)
      BY <1>4
    <2> HIDE DEF s
    <2> PICK r : r = <<s>>
      OBVIOUS
    <2>3. r \in Seq(Step) /\ r # <<>> /\ Len(r) = 1 /\ r[1] = s /\ Head(r) = s /\ Res(r) = {}
      BY <2>1, OneList
    <2>4. todo'[t] = r /\ \A u \in Threads : u # t => todo'[u] = todo[u]
      BY <2>1, <2>2, OneStep1
    <2>5. Has(t, TurnSteps)'
      <3>1. 1 \in DOMAIN r /\ r[1].do \in TurnSteps
        BY <2>1, <2>3, LenProperties DEF TurnSteps
      <3> QED
        BY <2>4, <3>1 DEF Has, TurnSteps
    <2>6. Sound(calls)
      <3>1. ~Mid(todo[t])
        BY DEF RecvOk, MayStart, Idle, Mid
      <3> QED
        BY <2>4, <2>5, <3>1, NotCrossingNext, SoundIf
    <2>7. Onward
      BY <1>1, <2>3, <2>4, StepOnward DEF RecvOk
    <2>8. ASSUME trans[d] # None PROVE Own(calls', Workable', d)
      <3>1. d \notin Going
        BY <1>1, Ids, Sets DEF Gone
      <3>2. d \in Used /\ d # NoCall /\ d \notin Reserved /\ Unused(calls, d)
        BY <2>6, <2>8, <3>1, Ids DEF Sound
      <3>3. d \in Used' /\ d \in Going'
        BY <1>1, Ids, SetsNext DEF Gone
      <3>4. d \in Workable'
        BY <2>7, <3>2, <3>3 DEF Onward, Workable
      <3> QED
        BY <2>7, <3>2, <3>4 DEF Own, Onward
    <2>9. Shape(r)'
      BY <2>1, <2>3, <2>7, <2>8 DEF Shape, Onward
    <2> QED
      BY <1>1, <1>2, <2>1, <2>2, <2>3, <2>9, IdleStep DEF RecvOk
  <1> QED
    BY <1>3, <1>4 DEF RecvOk

LEMMA EndGood ==
  ASSUME Types, Good, NEW t \in Threads, MayStart(t), NEW x \in Calls, Exists(x), End(t, x) PROVE Good'
  <1> DEFINE a == [do |-> "EventCallEnd", call |-> x]
             b == DeleteDialogStep(x)
  <1>1. a \in Step /\ a.do = "EventCallEnd"
    BY Ids, Makes DEF CallKinds
  <1>2. b \in Step /\ b.do = "DeleteDialog"
    BY Ids, MakesNamed, QuietNamed
  <1>3. todo'[t] = <<a, b>> /\ \A u \in Threads : u # t => todo'[u] = todo[u]
    BY EndList
  <1> HIDE DEF a, b
  <1>4. <<a, b>> \in Seq(Step) /\ NoClaims(<<a, b>>)
    BY <1>1, <1>2, QuietLists DEF QuietSteps
  <1>5. ~Mid(todo[t])
    BY DEF MayStart, Idle, Mid
  <1>6. Advances(dialog, dialog') /\ \A y \in Reserved : Waiting(dialog[y]) => Waiting(dialog'[y])
    BY EndDialog, Sets
  <1> QED
    BY <1>3, <1>4, <1>5, <1>6, QuietStep DEF End

LEMMA RecvReferGood == ASSUME Types, Good, NEW t \in Threads, NEW a \in Calls, RecvRefer(t, a) PROVE Good'
  <1> DEFINE s == [do |-> "EventBlindTransfer", call |-> a]
  <1>1. s \in Step /\ s.do = "EventBlindTransfer" /\ s.call = a
    BY Ids, Makes DEF CallKinds
  <1>2. Start(t, <<s>>) /\ MayStart(t)
    BY DEF RecvRefer
  <1> HIDE DEF s
  <1> PICK r : r = <<s>>
    OBVIOUS
  <1>3. r # <<>> /\ Len(r) = 1 /\ r[1] = s /\ Head(r) = s /\ Res(r) = {}
    BY <1>1, OneList
  <1>4. a \in Going
    BY Ids DEF RecvRefer, Going
  <1>5. Shape(r)
    BY <1>1, <1>3, <1>4 DEF Shape
  <1> QED
    BY <1>1, <1>2, <1>3, <1>5, IdleStep, AdvanceSame DEF RecvRefer

LEMMA RecvReferReplacesGood ==
  ASSUME Types, Good, NEW t \in Threads, NEW a \in Calls, NEW b \in Calls, RecvReferReplaces(t, a, b) PROVE Good'
  <1> DEFINE s == [do |-> "EventTransfer", call |-> a, to |-> b, screened |-> dialog[b].start]
  <1>1. s \in Step
    <2>1. dialog[b].start \in BOOLEAN
      BY Ids, DialogOf DEF RecvReferReplaces, Dialog
    <2> QED
      BY <2>1, Ids, Makes
  <1>2. s.do = "EventTransfer" /\ s.call = a /\ s.to = b
    OBVIOUS
  <1>3. Start(t, <<s>>) /\ MayStart(t)
    BY DEF RecvReferReplaces
  <1> HIDE DEF s
  <1> PICK r : r = <<s>>
    OBVIOUS
  <1>4. r # <<>> /\ Len(r) = 1 /\ r[1] = s /\ Head(r) = s /\ Res(r) = {}
    BY <1>1, <1>2, OneList
  <1>5. Exists(a) /\ dialog[a].start /\ b # a /\ (calls[a] # None => calls[a].peer # b)
    BY DEF RecvReferReplaces
  <1>6. a \in Used /\ a \notin Reserved
    <2>1. ~Waiting(dialog[a]) /\ dialog[a] # None
      BY <1>5 DEF Exists, Waiting
    <2> QED
      BY <2>1, Ids, Sets DEF Good
  <1>7. ~To(calls, a, b)
    BY <1>5 DEF To
  <1>8. Shape(r)
    BY <1>2, <1>4, <1>5, <1>6, <1>7 DEF Shape, OnEventTransfer
  <1> QED
    BY <1>1, <1>3, <1>4, <1>8, IdleStep, AdvanceSame DEF RecvReferReplaces

-----------------------------------------------------------------------------
(* Steps that give a call away, or take one over.                          *)

LEMMA ReservedUsed == ASSUME Types, Good PROVE \A x \in Reserved : x \in Used /\ x # NoCall /\ x \in CallIds
  BY Sets, Distinct, Ids DEF Good, Waiting

LEMMA NewOwn ==
  ASSUME Types, Good, Onward, Sound(calls), Reserved' \subseteq Reserved,
         NEW d \in Calls, dialog[d] = None, dialog'[d] # None
  PROVE  d \notin Used /\ Own(calls', Workable', d) /\ Claim(calls', Workable', Lost', d)
  <1>1. d \in CallIds /\ d # NoCall /\ d \notin Used /\ d \in Used'
    BY Ids, Sets, SetsNext
  <1>2. d \notin Reserved'
    BY <1>1, ReservedUsed
  <1>3. trans[d] = None
    BY <1>1 DEF Sound
  <1>4. d \in Workable'
    BY <1>1, <1>2, <1>3 DEF Onward, Workable
  <1>5. Unused(calls, d)
    BY <1>1, UnusedOutside DEF Sound, Types, Maps
  <1>6. Own(calls', Workable', d)
    BY <1>1, <1>4, <1>5 DEF Own, Onward
  <1> QED
    BY <1>1, <1>6, OwnClaim

LEMMA StartTransCallGood == ASSUME Types, Good, ~Crossing, NEW t \in Threads, StartTransCall(t) PROVE Good'
  <1>1. PICK d \in Fresh :
           /\ dialog' = [dialog EXCEPT ![d] = [Unconnected EXCEPT !.sent = TRUE]]
           /\ Then(t, <<[do |-> "InsertTrans", recv |-> Now(t).call, send |-> d, port |-> Now(t).port]>>)
           /\ [do |-> "InsertTrans", recv |-> Now(t).call, send |-> d, port |-> Now(t).port] \in Step
           /\ todo[t] # <<>>
    BY StartTransCallSteps
  <1> DEFINE v == [Unconnected EXCEPT !.sent = TRUE]
  <1>2. v \in Dialog
    BY NewDialogs
  <1>3. dialog' = [dialog EXCEPT ![d] = v]
    BY <1>1
  <1> HIDE DEF v
  <1>4. /\ d \in Calls /\ d # NoCall /\ Advances(dialog, dialog') /\ dialog[d] = None /\ dialog'[d] # None
        /\ \A x \in CallIds : x # d => dialog'[x] = dialog[x]
    BY <1>2, <1>3, FreshIs, NewDialog
  <1> DEFINE s == [do |-> "InsertTrans", recv |-> Now(t).call, send |-> d, port |-> Now(t).port]
  <1>5. s \in Step /\ Then(t, <<s>>)
    BY <1>1
  <1>6. s.do = "InsertTrans" /\ s.recv = Now(t).call /\ s.send = d
    OBVIOUS
  <1> HIDE DEF s
  <1> PICK r : r = <<s>>
    OBVIOUS
  <1>7. r \in Seq(Step) /\ r # <<>> /\ Len(r) = 1 /\ r[1] = s /\ Head(r) = s /\ Res(r) = {}
    BY <1>5, <1>6, OneList
  <1>8. /\ todo[t] # <<>> /\ Shape(todo[t]) /\ Head(todo[t]).do = "SendInvite" /\ Now(t) = todo[t][1]
        /\ Doing(t, "SendInvite")
    BY ListOf DEF StartTransCall
  <1>9. Now(t).call \in Going /\ Len(todo[t]) = 1
    BY <1>8, ShapeOf
  <1>10. todo'[t] = r /\ \A u \in Threads : u # t => todo'[u] = todo[u]
    BY <1>5, <1>7, <1>8, <1>9, OnlyStep
  <1>11. Onward
    BY <1>4, <1>7, <1>10, StepOnward DEF StartTransCall
  <1>12. Reserved' \subseteq Reserved
    BY <1>7, <1>10, ReservedNext
  <1>13. Sound(calls)
    BY <1>8, MoverSound DEF MoveSteps, MidSteps
  <1>14. Own(calls', Workable', d) /\ d \notin Used
    BY <1>4, <1>11, <1>12, <1>13, NewOwn
  <1>15. Now(t).call \in Going'
    BY <1>9, <1>11, OnwardSets
  <1>16. Shape(r)'
    BY <1>6, <1>7, <1>14, <1>15 DEF Shape
  <1>17. \A x \in Reserved : Waiting(dialog[x]) => Waiting(dialog'[x])
    BY <1>4, <1>14, ReservedUsed
  <1> QED
    BY <1>4, <1>5, <1>7, <1>8, <1>16, <1>17, LoneStep DEF StartTransCall, LoneKinds, MidSteps

LEMMA RedialGood == ASSUME Types, Good, ~Crossing, NEW t \in Threads, Redial(t) PROVE Good'
  <1>1. PICK d \in Fresh :
           /\ Advances(dialog, dialog') /\ dialog[d] = None /\ dialog'[d] # None
           /\ \A x \in CallIds : x # d /\ Waiting(dialog[x]) => Waiting(dialog'[x])
           /\ Then(t, <<InsertStep(d, Now(t).peer, Now(t).port, TRUE)>>)
           /\ InsertStep(d, Now(t).peer, Now(t).port, TRUE) \in Step
           /\ todo[t] # <<>> /\ Now(t) \in ReferStep
    BY RedialSteps
  <1> DEFINE s == InsertStep(d, Now(t).peer, Now(t).port, TRUE)
  <1>2. s \in Step /\ Then(t, <<s>>)
    BY <1>1
  <1>3. s.do = "Insert" /\ s.recv = d /\ s.send = Now(t).peer /\ s.moved = TRUE
    BY DEF InsertStep
  <1> HIDE DEF s
  <1> PICK r : r = <<s>>
    OBVIOUS
  <1>4. r \in Seq(Step) /\ r # <<>> /\ Len(r) = 1 /\ r[1] = s /\ Head(r) = s /\ Tail(r) = <<>>
    BY <1>2, OneList, One
  <1>5. Res(r) = {}
    BY <1>3, <1>4 DEF Res
  <1>6. /\ todo[t] # <<>> /\ Shape(todo[t]) /\ Head(todo[t]).do = "Redial" /\ Now(t) = todo[t][1]
        /\ Doing(t, "Redial")
    BY ListOf DEF Redial
  <1>7. Len(todo[t]) = 1 /\ Claim(calls, Workable, Lost, Now(t).peer)
    BY <1>6, ShapeOf DEF Redialing
  <1>8. todo'[t] = r /\ \A u \in Threads : u # t => todo'[u] = todo[u]
    BY <1>2, <1>4, <1>6, <1>7, OnlyStep
  <1>9. Onward
    BY <1>1, <1>5, <1>8, StepOnward DEF Redial
  <1>10. Reserved' \subseteq Reserved
    BY <1>5, <1>8, ReservedNext
  <1>11. Sound(calls)
    BY <1>6, MoverSound DEF MoveSteps, MidSteps
  <1>12. d \in Calls
    BY FreshIs
  <1>13. Claim(calls', Workable', Lost', d) /\ d \notin Used
    BY <1>1, <1>9, <1>10, <1>11, <1>12, NewOwn
  <1>14. Claim(calls', Workable', Lost', Now(t).peer)
    BY <1>7, <1>9, OnwardKeeps, KeepClaim
  <1>15. d # Now(t).peer
    BY <1>7, <1>13 DEF Claim, Workable
  <1>16. OnInsertMoved(r)'
    BY <1>3, <1>4, <1>13, <1>14, <1>15, QuietLists DEF OnInsertMoved
  <1>17. Shape(r)'
    BY <1>3, <1>4, <1>16 DEF Shape, OnInsert
  <1>18. \A x \in Reserved : Waiting(dialog[x]) => Waiting(dialog'[x])
    BY <1>1, <1>13, ReservedUsed
  <1> QED
    BY <1>1, <1>2, <1>4, <1>5, <1>6, <1>17, <1>18, LoneStep DEF Redial, LoneKinds, MidSteps

LEMMA RedialFailsGood == ASSUME Types, Good, ~Crossing, NEW t \in Threads, RedialFails(t) PROVE Good'
  <1>1. /\ todo[t] # <<>> /\ Shape(todo[t]) /\ Head(todo[t]).do = "Redial" /\ Now(t) = todo[t][1]
        /\ Doing(t, "Redial") /\ Now(t).peer \in CallIds /\ Now(t).toPeer \in CallIds /\ Now(t).port \in Int
    BY ListOf, HeadOf, KindOf, Fields DEF RedialFails
  <1> DEFINE s == InsertStep(NoCall, Now(t).peer, Now(t).port, TRUE)
  <1>2. s \in Step /\ Then(t, <<s>>)
    BY <1>1, Ids, MakesNamed DEF RedialFails
  <1>3. s.do = "Insert" /\ s.recv = NoCall /\ s.send = Now(t).peer /\ s.moved = TRUE
    BY DEF InsertStep
  <1> HIDE DEF s
  <1> PICK r : r = <<s>>
    OBVIOUS
  <1>4. r \in Seq(Step) /\ r # <<>> /\ Len(r) = 1 /\ r[1] = s /\ Head(r) = s /\ Tail(r) = <<>>
    BY <1>2, OneList, One
  <1>5. Res(r) = {}
    BY <1>3, <1>4 DEF Res
  <1>6. Len(todo[t]) = 1 /\ Claim(calls, Workable, Lost, Now(t).peer)
    BY <1>1, ShapeOf DEF Redialing
  <1>7. todo'[t] = r /\ \A u \in Threads : u # t => todo'[u] = todo[u]
    BY <1>1, <1>2, <1>4, <1>6, OnlyStep
  <1>8. Advances(dialog, dialog') /\ \A x \in Reserved : Waiting(dialog[x]) => Waiting(dialog'[x])
    BY <1>1, RedialFailsDialog, Sets DEF RedialFails
  <1>9. astray \subseteq astray' /\ NoCall \in astray'
    BY DEF RedialFails
  <1>10. Onward
    BY <1>5, <1>7, <1>8, <1>9, StepOnward DEF RedialFails
  <1>11. Sound(calls)
    BY <1>1, MoverSound DEF MoveSteps, MidSteps
  <1>12. NoCall \in Lost' /\ Claim(calls', Workable', Lost', NoCall)
    BY <1>9, <1>10, <1>11, NoCallClaim
  <1>13. Claim(calls', Workable', Lost', Now(t).peer)
    BY <1>6, <1>10, OnwardKeeps, KeepClaim
  <1>14. OnInsertMoved(r)'
    BY <1>3, <1>4, <1>12, <1>13, QuietLists DEF OnInsertMoved
  <1>15. Shape(r)'
    BY <1>3, <1>4, <1>14 DEF Shape, OnInsert
  <1> QED
    BY <1>1, <1>2, <1>4, <1>5, <1>8, <1>9, <1>15, LoneStep DEF RedialFails, LoneKinds, MidSteps

LEMMA PickUpGood == ASSUME Types, Good, ~Crossing', NEW t \in Threads, PickUp(t) PROVE Good'
  <1>1. /\ todo[t] # <<>> /\ Shape(todo[t]) /\ Head(todo[t]).do = "EventIncomingCall" /\ Now(t) = Head(todo[t])
        /\ Doing(t, "EventIncomingCall") /\ Now(t).call \in CallIds
    BY ListOf, CallOf DEF PickUp, CallKinds
  <1> PICK c : c = Now(t).call
    OBVIOUS
  <1> DEFINE s == [do |-> "SelectToRing", call |-> Now(t).call]
  <1>2. s \in Step /\ s.do = "SelectToRing" /\ s.call = c
    BY <1>1, Makes DEF CallKinds
  <1>3. Then(t, <<s>>)
    BY DEF PickUp
  <1> HIDE DEF s
  <1> PICK r : r = <<s>>
    OBVIOUS
  <1>4. r \in Seq(Step) /\ r # <<>> /\ Len(r) = 1 /\ r[1] = s /\ Head(r) = s /\ Res(r) = {}
    BY <1>2, OneList
  <1>5. Len(todo[t]) = 1 /\ ~Mid(todo[t])
    BY <1>1, ShapeOf, NotMid
  <1>6. todo'[t] = r /\ \A u \in Threads : u # t => todo'[u] = todo[u]
    BY <1>1, <1>3, <1>4, <1>5, OnlyStep
  <1>7. Moves(t)'
    <2>1. 1 \in DOMAIN r /\ r[1].do \in MoveSteps
      BY <1>2, <1>4, LenProperties DEF MoveSteps
    <2> QED
      BY <1>6, <2>1 DEF Moves, Has, MoveSteps
  <1>8. Sound(calls)
    BY <1>5, <1>6, <1>7, NotCrossingNext, SoundIf
  <1>9. Onward
    BY <1>4, <1>6, AdvanceSame, StepOnward DEF PickUp
  <1>10. c \in Res(todo[t])
    BY <1>1 DEF Res
  <1>11. c \in Reserved /\ c \notin Reserved'
    BY <1>4, <1>6, <1>10, ReservedIs
  <1>12. c \in Used /\ c # NoCall
    BY <1>11, ReservedUsed
  <1>13. Unused(calls, c) /\ (trans[c] # None => c \in Going)
    BY <1>1, <1>8, <1>11 DEF Sound
  <1>14. Own(calls', Workable', c)
    <2>1. c \in Used' /\ (c \in Going => c \in Going')
      BY <1>9, <1>12, OnwardSets
    <2>2. c \in Workable'
      BY <1>9, <1>11, <1>13, <2>1 DEF Workable, Onward
    <2> QED
      BY <1>9, <1>12, <1>13, <2>2 DEF Own, Onward
  <1>15. Shape(r)'
    BY <1>2, <1>4, <1>14 DEF Shape
  <1> QED
    BY <1>1, <1>3, <1>4, <1>15, LoneStep, AdvanceSame DEF PickUp, LoneKinds, MidSteps

(* The caller's entry in a pick-up, while another one could accept it yet. *)
LEMMA PickedCaller ==
  ASSUME Types, NEW c \in CallIds, NEW x \in Calls, NEW o \in CallIds, Picked(c, x, o), o \notin Lost
  PROVE  o \notin Reserved /\ (calls[o] # None => calls[o].peer = x)
  <1> DEFINE B == Back(calls, c, x)
  <1>1. x \in CallIds /\ c # x /\ To(calls, c, o) /\ Sound(B) /\ Unused(B, c) /\ calls[x] = None
    BY Ids DEF Picked, Virtual
  <1>2. B[c] = None /\ B[x] = calls[c] /\ \A z \in CallIds : z # c /\ z # x => B[z] = calls[z]
    BY <1>1, BackOf DEF Types, Maps
  <1> HIDE DEF B
  <1>3. To(B, x, o)
    BY <1>1, <1>2 DEF To
  <1>4. o # c
    BY <1>1, <1>3 DEF Unused
  <1>5. o \notin Reserved
    BY <1>1, <1>3 DEF Sound, Unused
  <1>6. ASSUME calls[o] # None PROVE calls[o].peer = x
    <2>1. o # x /\ B[o] = calls[o]
      BY <1>1, <1>2, <1>4, <1>6
    <2>2. Mutual(B, x, o)
      BY <1>1, <1>3, <1>6, <2>1 DEF Sound, Settled
    <2> QED
      BY <2>1, <2>2 DEF Mutual, To
  <1> QED
    BY <1>5, <1>6

LEMMA AcceptCallerGood == ASSUME Types, Good, NEW t \in Threads, AcceptCaller(t) PROVE Good'
  <1>1. /\ todo[t] # <<>> /\ Shape(todo[t]) /\ Head(todo[t]).do = "AcceptCaller" /\ Now(t) = todo[t][1]
        /\ Now(t).call \in CallIds /\ Now(t).caller \in CallIds
    BY ListOf, HeadOf, KindOf, Fields DEF AcceptCaller
  <1> PICK c : c = Now(t).call
    OBVIOUS
  <1> PICK o : o = Now(t).caller
    OBVIOUS
  <1>2. Len(todo[t]) = 1 /\ \E x \in Calls : Picked(c, x, o)
    BY <1>1, ShapeOf DEF OnAcceptCaller
  <1>3. PICK x \in Calls : Picked(c, x, o)
    BY <1>2
  <1>4. /\ Advances(dialog, dialog') /\ Acc(dialog[o]) /\ ~Acc(dialog'[o]) /\ dialog[o] # None
        /\ \A y \in CallIds : y # o => dialog'[y] = dialog[y]
    BY AcceptCallerDialog
  <1>5. o \notin Lost
    BY <1>1, <1>4, Sets
  <1>6. o \notin Reserved /\ (calls[o] # None => calls[o].peer = x)
    BY <1>1, <1>3, <1>5, PickedCaller
  <1> DEFINE s == [do |-> "SelectCaller", call |-> Now(t).call, caller |-> Now(t).caller]
  <1>7. s \in Step /\ s.do = "SelectCaller" /\ s.call = c /\ s.caller = o
    BY <1>1, Makes
  <1>8. Then(t, <<s>>)
    BY DEF AcceptCaller
  <1> HIDE DEF s
  <1> PICK r : r = <<s>>
    OBVIOUS
  <1>9. r \in Seq(Step) /\ r # <<>> /\ Len(r) = 1 /\ r[1] = s /\ Head(r) = s /\ Res(r) = {}
    BY <1>7, OneList
  <1>10. todo'[t] = r /\ \A u \in Threads : u # t => todo'[u] = todo[u]
    BY <1>1, <1>2, <1>8, <1>9, OnlyStep
  <1>11. Onward
    BY <1>4, <1>9, <1>10, StepOnward DEF AcceptCaller
  <1>12. Picked(c, x, o)'
    BY <1>1, <1>3, <1>11, Ids, OnwardVirtual
  <1>13. o \in Past'
    BY <1>1, <1>4, <1>11, Sets, SetsNext, OnwardSets
  <1>14. Accepted(c, x, o)'
    BY <1>6, <1>11, <1>12, <1>13 DEF Accepted, Onward
  <1>15. OnSelectCaller(r)'
    BY <1>7, <1>9, <1>14 DEF OnSelectCaller
  <1>16. Shape(r)' /\ Mid(r)
    BY <1>7, <1>9, <1>15 DEF Shape, Mid, MidSteps
  <1>17. \A y \in Reserved : Waiting(dialog[y]) => Waiting(dialog'[y])
    BY <1>4, <1>6, Sets
  <1> QED
    BY <1>4, <1>9, <1>10, <1>16, <1>17, KeepStep DEF AcceptCaller

-----------------------------------------------------------------------------
(* Steps that change the maps of entries.                                  *)

LEMMA QuietShapeNext ==
  ASSUME NEW q \in Seq(Step), NoClaims(q)
  PROVE  Shape(q)'
  <1>1. CASE q = <<>>
    BY <1>1 DEF Shape
  <1>2. CASE q # <<>>
    <2>1. Head(q) = q[1] /\ DOMAIN q = 1 .. Len(q) /\ Len(q) \in Nat /\ Len(q) >= 1
      BY <1>2, First
    <2>2. Head(q).do \in QuietSteps
      BY <2>1 DEF NoClaims
    <2>3. OnStopCall(q)' /\ OnDelete(q)' /\ OnSetStop(q)'
      BY DEF OnStopCall, OnDelete, OnSetStop
    <2> QED
      BY <2>2, <2>3 DEF Shape, QuietSteps
  <1> QED
    BY <1>1, <1>2

LEMMA StaySets ==
  ASSUME dialog' = dialog
  PROVE  Used' = Used /\ Past' = Past /\ Going' = Going /\ Ready' = Ready
  BY DEF Used, Past, Going, Ready, Acceptable, Exists

LEMMA StayReserved ==
  ASSUME NEW t \in Threads, NEW r, todo'[t] = r, \A u \in Threads : u # t => todo'[u] = todo[u],
         Res(todo[t]) = {}, Res(r) = {}
  PROVE  Reserved' = Reserved
  <1>1. \A x \in Reserved' : x \in Reserved
    BY ReservedNext
  <1>2. \A x \in Reserved : \E u \in Threads : u # t /\ x \in Res(todo[u])
    BY DEF Reserved
  <1>3. \A x \in Reserved : \E u \in Threads : x \in Res(todo'[u])
    BY <1>2
  <1>4. \A x \in Reserved : x \in Reserved'
    BY <1>3 DEF Reserved, Res
  <1> QED
    BY <1>1, <1>4

(* The thread t is alone at a transfer or a pick-up.                       *)
LEMMA MapStep ==
  ASSUME Types, Good, NEW t \in Threads, NEW r \in Seq(Step),
         todo'[t] = r, \A u \in Threads : u # t => todo'[u] = todo[u],
         dialog' = dialog, Res(todo[t]) = {}, Res(r) = {}, Shape(r)', ~Mid(r) => Sound(calls)',
         \A u \in Threads : u # t => Modest(todo[u]),
         \/ \A u \in Threads : u # t => ~Has(u, TurnSteps)
         \/ \A x \in CallIds : /\ trans'[x] # None => trans[x] # None
                               /\ Own(calls, Workable, x) => Own(calls', Workable', x)
  PROVE  Good'
  <1>1. Used' = Used /\ Ready' = Ready /\ Reserved' = Reserved
    BY StaySets, StayReserved
  <1>2. \A u \in Threads : u # t => Shape(todo[u])'
    BY <1>1, ModestKeeps
  <1>3. Reserved' \subseteq Ready'
    BY <1>1 DEF Good
  <1>4. (\A u \in Threads : ~Mid(todo[u])') => Sound(calls)'
    BY DEF Mid
  <1> QED
    BY <1>2, <1>3, <1>4, GoodStep

(* What Sound says of the map m goes for the map n as well.                *)
LEMMA SoundStep ==
  ASSUME NEW m, Sound(m), dialog' = dialog, trans' = trans, astray' = astray, Reserved' \subseteq Reserved,
         Settled(calls', Used, Lost, astray),
         \A x \in Reserved' : Unused(m, x) => Unused(calls', x),
         \A x \in CallIds : trans[x] # None /\ x \notin Going /\ x \notin Reserved /\ Unused(m, x) => Unused(calls', x)
  PROVE  Sound(calls)'
  <1>1. Used' = Used /\ Past' = Past /\ Going' = Going /\ Lost' = Lost
    BY StaySets DEF Lost
  <1>2. Settled(calls', Used', Lost', astray')
    BY <1>1
  <1>3. \A x \in Reserved' : Unused(calls', x)
    BY DEF Sound
  <1>4. \A x \in CallIds : trans'[x] # None =>
          x \in Used' \ {NoCall} /\ (x \in Going' \/ (x \notin Reserved' /\ Unused(calls', x)))
    BY <1>1 DEF Sound
  <1> QED
    BY <1>2, <1>3, <1>4 DEF Sound

LEMMA InsertMovedGood ==
  ASSUME Types, Good, ~Crossing, NEW t \in Threads, InsertCalls(t), Now(t).moved PROVE Good'
  <1> PICK q : q = todo[t]
    OBVIOUS
  <1> PICK r : r = Tail(q)
    OBVIOUS
  <1>1. /\ q \in Seq(Step) /\ q # <<>> /\ Shape(q) /\ Head(q).do = "Insert" /\ r \in Seq(Step)
        /\ Now(t) = Head(q) /\ Now(t) = q[1] /\ 1 \in 1 .. Len(q) /\ Doing(t, "Insert")
    BY ListOf DEF InsertCalls
  <1>2. Now(t).recv \in CallIds /\ Now(t).send \in CallIds /\ Now(t).port \in Int
    BY HeadOf, KindOf, Fields DEF InsertCalls
  <1> PICK x : x = Now(t).recv
    OBVIOUS
  <1> PICK y : y = Now(t).send
    OBVIOUS
  <1>3. todo'[t] = r /\ \A u \in Threads : u # t => todo'[u] = todo[u]
    BY <1>1, NextStep DEF InsertCalls
  <1>4. /\ Claim(calls, Workable, Lost, x) /\ Claim(calls, Workable, Lost, y)
        /\ x # y \/ x \in Lost
        /\ NoClaims(r)
    BY <1>1, ShapeOf DEF OnInsert, OnInsertMoved
  <1>5. Moves(t)
    BY <1>1, LenProperties DEF Moves
  <1>6. ~Mid(q) /\ Res(q) = {}
    BY <1>1, NotMid DEF Res
  <1>7. Sound(calls) /\ \A u \in Threads : u # t => Modest(todo[u]) /\ ~Has(u, TurnSteps)
    BY <1>5, <1>6, NotCrossing, SoundIf
  <1>8. Res(r) = {} /\ Shape(r)'
    BY <1>1, <1>4, QuietShape, QuietShapeNext
  <1>9. /\ dialog' = dialog /\ trans' = trans /\ astray' = astray
        /\ calls' = Inserted(calls, x, y, Now(t).port)
    BY DEF InsertCalls
  <1>10. calls \in Maps
    BY DEF Types, Maps
  <1>11. Settled(calls', Used, Lost, astray)
    BY <1>2, <1>4, <1>7, <1>9, <1>10, SettledInserted, Sets DEF Sound
  <1>12. \A z \in CallIds : z # x /\ z # y /\ Unused(calls, z) => Unused(calls', z)
    BY <1>2, <1>9, <1>10, InsertedKeeps
  <1>13. x \in Workable /\ y \in Workable
    BY <1>4 DEF Claim
  <1>14. Reserved' = Reserved
    BY <1>3, <1>6, <1>8, StayReserved
  <1>15. \A z \in Reserved' : Unused(calls, z) => Unused(calls', z)
    BY <1>12, <1>13, <1>14, ReservedUsed DEF Workable
  <1>16. \A z \in CallIds : trans[z] # None /\ z \notin Going /\ z \notin Reserved /\ Unused(calls, z) => Unused(calls', z)
    BY <1>12, <1>13 DEF Workable
  <1>17. Sound(calls)'
    BY <1>7, <1>9, <1>11, <1>14, <1>15, <1>16, SoundStep
  <1> QED
    BY <1>1, <1>3, <1>6, <1>7, <1>8, <1>9, <1>17, MapStep

LEMMA InsertedRest ==
  ASSUME NEW m \in Maps, NEW r \in CallIds, NEW s \in CallIds, NEW p \in Int
  PROVE  /\ Inserted(m, r, s, p) \in Maps
         /\ \A z \in CallIds : z \notin {r, s} \/ m[z] # None => Inserted(m, r, s, p)[z] = m[z]
  <1> DEFINE i == [peer |-> s, recv |-> TRUE, port |-> p]
             j == [peer |-> r, recv |-> FALSE, port |-> p + 2]
  <1>1. /\ Inserted(m, r, s, p) \in Maps
        /\ \A z \in CallIds : z \notin {r, s} \/ m[z] # None => Inserted(m, r, s, p)[z] = m[z]
        /\ m[r] = None => Inserted(m, r, s, p)[r] = i
        /\ m[s] = None /\ r # s => Inserted(m, r, s, p)[s] = j
    BY InsertedMap
  <1> HIDE DEF i, j
  <1> QED
    BY <1>1

(* The entries of a new call: those of the other threads stay right,       *)
(* whatever these are at.                                                  *)
NewEntries(c, d, p) ==
  /\ c \in Reserved /\ d \in Reserved /\ c # d /\ p \in Int
  /\ dialog' = dialog /\ trans' = trans /\ astray' = astray
  /\ calls' = Inserted(calls, c, d, p)
  /\ Reserved' \subseteq Reserved /\ c \notin Reserved' /\ d \notin Reserved'

LEMMA NewSound ==
  ASSUME Types, Good, NEW c, NEW d, NEW p, NewEntries(c, d, p), NEW m \in Maps, Sound(m)
  PROVE  /\ Settled(Inserted(m, c, d, p), Used', Lost', astray')
         /\ \A x \in Reserved' : Unused(Inserted(m, c, d, p), x)
         /\ \A x \in CallIds : trans'[x] # None =>
              x \in Used' \ {NoCall} /\ (x \in Going' \/ (x \notin Reserved' /\ Unused(Inserted(m, c, d, p), x)))
  <1>1. Used' = Used /\ Past' = Past /\ Going' = Going /\ Lost' = Lost /\ astray' = astray
    BY StaySets DEF Lost, NewEntries
  <1>2. /\ c \in CallIds /\ d \in CallIds /\ c \in Used /\ d \in Used /\ c # NoCall /\ d # NoCall
        /\ c # d /\ p \in Int
    BY ReservedUsed DEF NewEntries
  <1>3. Unused(m, c) /\ Unused(m, d)
    BY DEF Sound, NewEntries
  <1>4. Claim(m, Used, Lost, c) /\ Claim(m, Used, Lost, d)
    BY <1>2, <1>3 DEF Claim, Unused
  <1> PICK n : n = Inserted(m, c, d, p)
    OBVIOUS
  <1>5. Settled(n, Used, Lost, astray)
    BY <1>2, <1>4, SettledInserted DEF Sound
  <1>6. \A x \in CallIds : x # c /\ x # d /\ Unused(m, x) => Unused(n, x)
    BY <1>2, InsertedKeeps
  <1>7. \A x \in Reserved' : x \in CallIds /\ x # c /\ x # d /\ x \in Reserved
    BY ReservedUsed DEF NewEntries
  <1>8. \A x \in Reserved' : Unused(n, x)
    BY <1>6, <1>7 DEF Sound
  <1>9. ASSUME NEW x \in CallIds, trans'[x] # None
        PROVE  x \in Used' \ {NoCall} /\ (x \in Going' \/ (x \notin Reserved' /\ Unused(n, x)))
    <2>1. trans[x] # None
      BY <1>9 DEF NewEntries
    <2>2. x \in Used \ {NoCall} /\ (x \in Going \/ (x \notin Reserved /\ Unused(m, x)))
      BY <2>1 DEF Sound
    <2>3. x \notin Reserved => x # c /\ x # d /\ x \notin Reserved'
      BY DEF NewEntries
    <2> QED
      BY <1>1, <1>6, <2>2, <2>3
  <1> QED
    BY <1>1, <1>5, <1>8, <1>9

LEMMA NewSoundCalls ==
  ASSUME Types, Good, NEW c, NEW d, NEW p, NewEntries(c, d, p), Sound(calls)
  PROVE  Sound(calls)'
  <1>1. calls \in Maps /\ calls' = Inserted(calls, c, d, p)
    BY DEF Types, Maps, NewEntries
  <1> PICK m : m = calls
    OBVIOUS
  <1> PICK n : n = calls'
    OBVIOUS
  <1>2. n = Inserted(m, c, d, p)
    BY <1>1
  <1>3. m \in Maps /\ Sound(m)
    BY <1>1
  <1>4. /\ Settled(n, Used', Lost', astray')
        /\ \A x \in Reserved' : Unused(n, x)
        /\ \A x \in CallIds : trans'[x] # None =>
             x \in Used' \ {NoCall} /\ (x \in Going' \/ (x \notin Reserved' /\ Unused(n, x)))
    BY <1>2, <1>3, NewSound
  <1> QED
    BY <1>4 DEF Sound

LEMMA NewKeepsPickUp ==
  ASSUME Types, Good, NEW c, NEW d, NEW p, NewEntries(c, d, p),
         NEW b \in CallIds, NEW x \in CallIds, NEW o \in CallIds
  PROVE  /\ Virtual(b, x, o) => Virtual(b, x, o)'
         /\ Picked(b, x, o) => Picked(b, x, o)'
         /\ Accepted(b, x, o) => Accepted(b, x, o)'
  <1>1. /\ c \in CallIds /\ d \in CallIds /\ c # d /\ p \in Int
        /\ calls \in Maps /\ calls' = Inserted(calls, c, d, p)
    BY ReservedUsed DEF NewEntries, Types, Maps
  <1>2. /\ calls' \in Maps
        /\ \A z \in CallIds : z \notin {c, d} \/ calls[z] # None => calls'[z] = calls[z]
    BY <1>1, InsertedRest
  <1>3. Used' = Used /\ Past' = Past /\ Going' = Going
    BY StaySets DEF NewEntries
  <1>4. ASSUME Virtual(b, x, o) PROVE Virtual(b, x, o)' /\ {b, x, o} \cap {c, d} = {}
    <2>1. /\ b \in Workable \ {NoCall} /\ x \in Calls /\ b # x /\ o \in CallIds
          /\ To(calls, b, o) /\ Sound(Back(calls, b, x)) /\ Unused(Back(calls, b, x), b)
      BY <1>4 DEF Virtual
    <2> PICK m : m = Back(calls, b, x)
      OBVIOUS
    <2>2. m \in Maps /\ m[x] = calls[b]
      BY <1>1, <2>1, BackOf
    <2>3. To(m, x, o)
      BY <2>1, <2>2 DEF To
    <2>4. x \notin Reserved /\ o \notin Reserved /\ b \notin Reserved
      BY <2>1, <2>3 DEF Sound, Unused, Workable, To
    <2>5. {b, x, o} \cap {c, d} = {}
      BY <2>4 DEF NewEntries
    <2> PICK n : n = Inserted(m, c, d, p)
      OBVIOUS
    <2>6. Back(calls', b, x) = n
      BY <1>1, <2>1, <2>5, BackInserted
    <2>7. Sound(m)
      BY <2>1
    <2>8. /\ Settled(n, Used', Lost', astray')
          /\ \A z \in Reserved' : Unused(n, z)
          /\ \A z \in CallIds : trans'[z] # None =>
               z \in Used' \ {NoCall} /\ (z \in Going' \/ (z \notin Reserved' /\ Unused(n, z)))
      BY <2>2, <2>7, NewSound
    <2>9. Sound(Back(calls, b, x))'
      BY <2>6, <2>8 DEF Sound
    <2>10. Unused(n, b)
      BY <1>1, <2>1, <2>2, <2>5, InsertedKeeps
    <2>11. b \in Workable' \ {NoCall}
      BY <1>3, <2>1 DEF Workable, NewEntries
    <2>12. To(calls', b, o)
      BY <1>2, <2>1, <2>5 DEF To
    <2> QED
      BY <2>1, <2>5, <2>6, <2>9, <2>10, <2>11, <2>12 DEF Virtual
  <1>5. ASSUME Picked(b, x, o) PROVE Picked(b, x, o)' /\ {b, x, o} \cap {c, d} = {}
    BY <1>2, <1>4, <1>5 DEF Picked
  <1>6. ASSUME Accepted(b, x, o) PROVE Accepted(b, x, o)'
    BY <1>2, <1>3, <1>5, <1>6 DEF Accepted
  <1> QED
    BY <1>4, <1>5, <1>6

LEMMA NewKeeps ==
  ASSUME Types, Good, NEW c, NEW d, NEW p, NewEntries(c, d, p)
  PROVE  Keeps
  <1>1. /\ c \in CallIds /\ d \in CallIds /\ c # d /\ p \in Int /\ c \in Reserved /\ d \in Reserved
        /\ calls \in Maps /\ calls' = Inserted(calls, c, d, p)
    BY ReservedUsed DEF NewEntries, Types, Maps
  <1>2. Used' = Used /\ Past' = Past /\ Going' = Going /\ Lost' = Lost /\ Workable \subseteq Workable'
        /\ Used \ Reserved \subseteq Used' \ Reserved'
    <2>1. Used' = Used /\ Past' = Past /\ Going' = Going
      BY StaySets DEF NewEntries
    <2> QED
      BY <2>1 DEF Lost, Workable, NewEntries
  <1>3. \A x \in CallIds : Own(calls, Workable, x) => Own(calls', Workable', x)
    <2> SUFFICES ASSUME NEW x \in CallIds, Own(calls, Workable, x) PROVE Own(calls', Workable', x)
      OBVIOUS
    <2>1. x # c /\ x # d
      BY <1>1 DEF Own, Workable
    <2>2. Own(calls', Workable, x)
      BY <1>1, <2>1, InsertedKeeps
    <2> QED
      BY <1>2, <2>2 DEF Own
  <1>4. \A x \in CallIds : Claim(calls, Workable, Lost, x) => Claim(calls', Workable', Lost', x)
    <2> SUFFICES ASSUME NEW x \in CallIds, Claim(calls, Workable, Lost, x) PROVE Claim(calls', Workable', Lost', x)
      OBVIOUS
    <2>1. x # c /\ x # d
      BY <1>1 DEF Claim, Workable
    <2>2. Claim(calls', Workable, Lost, x)
      BY <1>1, <2>1, InsertedKeeps
    <2> QED
      BY <1>2, <2>2 DEF Claim
  <1>5. \A x \in CallIds : calls[x] # None => calls'[x] = calls[x]
    BY <1>1, InsertedRest
  <1>6. \A x \in Used \ Reserved, y \in CallIds : To(calls', x, y) => To(calls, x, y)
    <2> SUFFICES ASSUME NEW x \in Used \ Reserved, NEW y \in CallIds, To(calls', x, y) PROVE To(calls, x, y)
      OBVIOUS
    <2>1. x \in CallIds /\ x # c /\ x # d
      BY <1>1, Sets
    <2> QED
      BY <1>1, <2>1, InsertedTo
  <1>7. \A x \in CallIds : trans'[x] # None => trans[x] # None
    BY DEF NewEntries
  <1>8. \A b, x, o \in CallIds : /\ Virtual(b, x, o) => Virtual(b, x, o)'
                                 /\ Picked(b, x, o) => Picked(b, x, o)'
                                 /\ Accepted(b, x, o) => Accepted(b, x, o)'
    BY NewKeepsPickUp
  <1> QED
    BY <1>2, <1>3, <1>4, <1>5, <1>6, <1>7, <1>8 DEF Keeps

LEMMA InsertNewGood ==
  ASSUME Types, Good, NEW t \in Threads, InsertCalls(t), ~Now(t).moved PROVE Good'
  <1> PICK q : q = todo[t]
    OBVIOUS
  <1> PICK r : r = Tail(q)
    OBVIOUS
  <1>1. /\ q \in Seq(Step) /\ q # <<>> /\ Shape(q) /\ Head(q).do = "Insert" /\ r \in Seq(Step)
        /\ Now(t) = Head(q) /\ Now(t) = q[1] /\ Head(q) = q[1]
    BY ListOf DEF InsertCalls
  <1>2. Now(t).recv \in CallIds /\ Now(t).send \in CallIds /\ Now(t).port \in Int
    BY HeadOf, KindOf, Fields DEF InsertCalls
  <1> PICK c : c = Now(t).recv
    OBVIOUS
  <1> PICK d : d = Now(t).send
    OBVIOUS
  <1>3. todo'[t] = r /\ \A u \in Threads : u # t => todo'[u] = todo[u]
    BY <1>1, NextStep DEF InsertCalls
  <1>4. Len(q) = 2 /\ c # d /\ q[2].do = "StartCall" /\ q[2].invite = d
    BY <1>1, ShapeOf DEF OnInsert, OnInsertNew
  <1>5. Len(r) = 1 /\ r[1] = q[2] /\ r # <<>> /\ Head(r) = q[2]
    BY <1>1, <1>4, RestOf
  <1>6. Res(r) = {} /\ c \in Res(todo[t]) /\ d \in Res(todo[t])
    BY <1>1, <1>2, <1>4, <1>5 DEF Res
  <1>7. c \in Reserved /\ c \notin Reserved' /\ d \in Reserved /\ d \notin Reserved'
    BY <1>3, <1>6, ReservedIs
  <1>8. Reserved' \subseteq Reserved
    BY <1>3, <1>6, ReservedNext
  <1>9. NewEntries(c, d, Now(t).port)
    BY <1>2, <1>4, <1>7, <1>8 DEF NewEntries, InsertCalls
  <1>10. Keeps
    BY <1>9, NewKeeps
  <1>11. \A u \in Threads : u # t => Shape(todo[u])'
    BY <1>3, <1>10, OthersKeep
  <1>12. dialog' = dialog
    BY DEF InsertCalls
  <1>13. Used' = Used /\ Ready' = Ready
    BY <1>12, StaySets
  <1>14. d \in Used' \ Reserved'
    BY <1>7, <1>13, ReservedUsed
  <1>15. Shape(r)'
    BY <1>4, <1>5, <1>14 DEF Shape
  <1>16. Reserved' \subseteq Ready'
    BY <1>8, <1>13 DEF Good
  <1>17. ASSUME \A u \in Threads : ~Mid(todo[u])' PROVE Sound(calls)'
    <2>1. \A u \in Threads : ~Mid(todo'[u])
      BY <1>17 DEF Mid
    <2>2. ~Mid(todo[t])
      BY <1>1, NotMid
    <2>3. \A u \in Threads : ~Mid(todo[u])
      BY <1>3, <2>1, <2>2
    <2>4. Sound(calls)
      BY <2>3 DEF Good
    <2> QED
      BY <1>9, <2>4, NewSoundCalls
  <1> QED
    BY <1>1, <1>3, <1>6, <1>11, <1>15, <1>16, <1>17, GoodStep

(* The list after a pair of entries was deleted: the port may have to be   *)
(* stopped first.                                                          *)
Deleted(q, r) ==
  \/ r = Tail(q)
  \/ \E s \in Step : s.do = "SetStop" /\ q[1].stop /\ r = <<s>> \o Tail(q)

LEMMA DeleteList ==
  ASSUME Types, NEW t \in Threads, todo[t] # <<>>, todo[t] \in Seq(Step), Now(t) = todo[t][1], NEW p \in Int,
         Then(t, IF Now(t).stop /\ p # NoPort THEN <<[do |-> "SetStop", port |-> p]>> ELSE <<>>)
  PROVE  /\ todo'[t] \in Seq(Step) /\ Deleted(todo[t], todo'[t])
         /\ \A u \in Threads : u # t => todo'[u] = todo[u]
  <1> DEFINE s == [do |-> "SetStop", port |-> p]
  <1>1. s \in Step /\ s.do = "SetStop"
    BY Makes
  <1>2. Tail(todo[t]) \in Seq(Step)
    BY First
  <1>3. CASE Now(t).stop /\ p # NoPort
    <2>1. Then(t, <<s>>)
      BY <1>3
    <2> HIDE DEF s
    <2>2. <<s>> \in Seq(Step)
      BY <1>1
    <2>3. todo'[t] = <<s>> \o Tail(todo[t]) /\ \A u \in Threads : u # t => todo'[u] = todo[u]
      BY <2>1, <2>2, ThenType
    <2>4. todo'[t] \in Seq(Step)
      BY <1>1, <1>2, <2>3, Join
    <2> QED
      BY <1>1, <1>3, <2>3, <2>4 DEF Deleted
  <1>4. CASE ~(Now(t).stop /\ p # NoPort)
    <2>1. Then(t, <<>>)
      BY <1>4
    <2>2. todo'[t] = Tail(todo[t]) /\ \A u \in Threads : u # t => todo'[u] = todo[u]
      BY <2>1, NextStep
    <2> QED
      BY <1>2, <2>2 DEF Deleted
  <1> QED
    BY <1>3, <1>4

LEMMA DeletedQuiet ==
  ASSUME NEW q \in Seq(Step), q # <<>>, NoClaims(q), NEW r, Deleted(q, r)
  PROVE  NoClaims(r)
  <1>1. Tail(q) \in Seq(Step) /\ NoClaims(Tail(q))
    BY First, QuietTail
  <1>2. ASSUME NEW s \in Step, s.do = "SetStop", r = <<s>> \o Tail(q) PROVE NoClaims(r)
    BY <1>1, <1>2, QuietJoin DEF QuietSteps
  <1> QED
    BY <1>1, <1>2 DEF Deleted

LEMMA Joined ==
  ASSUME NEW a \in Step, NEW r \in Seq(Step), NEW v, v = <<a>> \o r
  PROVE  /\ v # <<>> /\ Len(v) = Len(r) + 1 /\ Head(v) = a /\ Tail(v) = r
         /\ \A i \in 1 .. Len(r) : v[i + 1] = r[i]
  <1>1. v # <<>> /\ Len(v) = Len(r) + 1 /\ Head(v) = a /\ Tail(v) = r
    BY Join, Zenon
  <1>2. \A i \in 1 .. Len(r) : v[i + 1] = r[i]
    OBVIOUS
  <1> QED
    BY <1>1, <1>2

(* A list of three steps once the first one, a deletion, was done.         *)
LEMMA DeletedThree ==
  ASSUME NEW q \in Seq(Step), q # <<>>, Len(q) = 3, NEW r \in Seq(Step), Deleted(q, r)
  PROVE  /\ r # <<>>
         /\ \/ Len(r) = 2 /\ Head(r) = q[2] /\ r[1] = q[2] /\ r[2] = q[3] /\ r = Tail(q)
            \/ /\ Len(r) = 3 /\ Head(r).do = "SetStop" /\ r[2] = q[2] /\ r[3] = q[3]
               /\ Tail(r) = Tail(q)
  <1> PICK w : w = Tail(q)
    OBVIOUS
  <1>1. w \in Seq(Step) /\ Len(w) = 2 /\ w[1] = q[2] /\ w[2] = q[3] /\ w # <<>> /\ Head(w) = q[2]
    BY First, RestOf
  <1>2. CASE r = w
    BY <1>1, <1>2
  <1>3. ASSUME NEW s \in Step, s.do = "SetStop", r = <<s>> \o w
        PROVE  r # <<>> /\ Len(r) = 3 /\ Head(r).do = "SetStop" /\ r[2] = q[2] /\ r[3] = q[3] /\ Tail(r) = w
    <2>1. /\ r # <<>> /\ Len(r) = Len(w) + 1 /\ Head(r) = s /\ Tail(r) = w
          /\ \A n \in 1 .. Len(w) : r[n + 1] = w[n]
      <3>1. \A v : v = <<s>> \o w => /\ v # <<>> /\ Len(v) = Len(w) + 1 /\ Head(v) = s /\ Tail(v) = w
                                    /\ \A n \in 1 .. Len(w) : v[n + 1] = w[n]
        BY <1>1, Joined
      <3> QED
        BY <1>3, <3>1, Zenon
    <2>2. Len(r) = 3
      BY <1>1, <2>1
    <2>3. r[2] = w[1] /\ r[3] = w[2]
      BY <2>1, <2>2, RestOf
    <2> QED
      BY <1>1, <1>3, <2>1, <2>2, <2>3
  <1> QED
    BY <1>2, <1>3 DEF Deleted

LEMMA DeleteCallsGood == ASSUME Types, Good, ~Crossing, NEW t \in Threads, DeleteCalls(t) PROVE Good'
  <1> PICK q : q = todo[t]
    OBVIOUS
  <1> PICK r : r = todo'[t]
    OBVIOUS
  <1> PICK f : f = Now(t).call
    OBVIOUS
  <1>1. /\ q \in Seq(Step) /\ q # <<>> /\ Shape(q) /\ Head(q).do = "Delete" /\ Now(t) = q[1] /\ Head(q) = q[1]
        /\ 1 \in 1 .. Len(q) /\ f \in CallIds /\ Now(t).stop \in BOOLEAN
    BY ListOf, HeadOf, KindOf, Fields DEF DeleteCalls
  <1>2. calls \in Maps
    BY DEF Types, Maps
  <1>3. ErasedPort(calls, f) \in Int /\ Erased(calls, f) \in Maps
    BY <1>1, <1>2, ErasedMap
  <1>4. /\ r \in Seq(Step) /\ Deleted(q, r)
        /\ \A u \in Threads : u # t => todo'[u] = todo[u]
    BY <1>1, <1>3, DeleteList DEF DeleteCalls
  <1>5. calls' = Erased(calls, f) /\ dialog' = dialog /\ trans' = trans /\ astray' = astray
    BY DEF DeleteCalls
  <1>6. Has(t, TurnSteps)
    BY <1>1, LenProperties DEF Has, TurnSteps
  <1>7. ~Mid(q) /\ Res(q) = {}
    BY <1>1, NotMid DEF Res
  <1>8. Sound(calls) /\ \A u \in Threads : u # t => Modest(todo[u])
    BY <1>6, <1>7, NotCrossing, SoundIf
  <1>9. Settled(calls', Used, Lost, astray)
    BY <1>1, <1>2, <1>5, <1>8, SettledErased DEF Sound
  <1>10. \A x \in CallIds : /\ Unused(calls, x) => Unused(calls', x)
                            /\ \A W : Own(calls, W, x) => Own(calls', W, x)
    BY <1>1, <1>2, <1>5, ErasedKeeps
  <1>11. ASSUME Res(r) = {}, Shape(r)' PROVE Good'
    <2>1. Reserved' = Reserved
      BY <1>4, <1>7, <1>11, StayReserved
    <2>2. Sound(calls)'
      BY <1>5, <1>8, <1>9, <1>10, <2>1, Sets, SoundStep
    <2>3. Workable' = Workable
      BY <1>5, <2>1, StaySets DEF Workable
    <2> QED
      BY <1>4, <1>5, <1>7, <1>8, <1>10, <1>11, <2>2, <2>3, MapStep
  <1>12. Res(r) = {} => Workable' = Workable
    BY <1>4, <1>5, <1>7, StayReserved, StaySets DEF Workable
  <1>13. Lost' = Lost
    BY <1>5, StaySets DEF Lost
  <1>14. OnDelete(q)
    BY <1>1, ShapeOf
  <1>15. CASE NoClaims(q)
    <2>1. NoClaims(r)
      BY <1>1, <1>4, <1>15, DeletedQuiet
    <2> QED
      BY <1>4, <1>11, <2>1, QuietShape, QuietShapeNext
  <1>16. CASE /\ Len(q) = 3
              /\ MovedInsert(q[2]) /\ q[3].do = "DeleteTrans"
              /\ To(calls, q[1].call, q[2].recv) /\ Own(calls, Workable, q[2].send)
    <2> PICK w : w = Tail(q)
      OBVIOUS
    <2> PICK i : i = q[2]
      OBVIOUS
    <2>1. w \in Seq(Step) /\ Len(w) = 2 /\ w[1] = i /\ w[2] = q[3] /\ w # <<>> /\ Head(w) = i
      BY <1>1, <1>16, First, RestOf
    <2>2. NoClaims(Tail(w))
      <3>1. Tail(w) \in Seq(Step) /\ Len(Tail(w)) = 1 /\ Tail(w)[1] = q[3]
        BY <2>1, First, RestOf
      <3>2. DOMAIN Tail(w) = 1 .. 1
        BY <3>1, LenProperties
      <3> PICK v : v = Tail(w)
        OBVIOUS
      <3>3. v[1] = q[3] /\ DOMAIN v = 1 .. 1
        BY <3>1, <3>2
      <3>4. \A n \in DOMAIN v : n = 1
        BY <3>3
      <3>5. \A n \in DOMAIN v : v[n].do = "DeleteTrans"
        BY <1>16, <3>3, <3>4
      <3>6. NoClaims(v)
        BY <3>5 DEF NoClaims, QuietSteps
      <3> QED
        BY <3>6
    <2>3. /\ r # <<>>
          /\ \/ Len(r) = 2 /\ Head(r) = i /\ r = w
             \/ Len(r) = 3 /\ Head(r).do = "SetStop" /\ r[2] = i /\ Tail(r) = w
      BY <1>1, <1>4, <1>16, DeletedThree
    <2>4. Res(r) = {}
      BY <1>16, <2>3 DEF Res, MovedInsert
    <2>5. Workable' = Workable /\ f = q[1].call
      BY <1>1, <1>12, <2>4
    <2>6. To(calls, f, i.recv) /\ i.recv \in CallIds /\ i.recv \in Workable
      BY <1>1, <1>2, <1>8, <1>16, <2>5, MapOf, ToWorkable
    <2>7. Claim(calls', Workable', Lost', i.recv)
      BY <1>1, <1>2, <1>5, <1>8, <1>13, <2>5, <2>6, ErasedFrees DEF Sound
    <2>8. Own(calls, Workable, i.send) /\ i.send \in CallIds
      BY <1>16, Sets DEF Own
    <2>9. Claim(calls', Workable', Lost', i.send)
      BY <1>10, <2>5, <2>8, OwnClaim
    <2>10. i.recv # i.send
      BY <1>1, <2>6, <2>8 DEF Own, Unused
    <2>11. OnInsertMoved(w)'
      BY <2>1, <2>2, <2>7, <2>9, <2>10 DEF OnInsertMoved
    <2>12. Shape(r)'
      <3>1. CASE Len(r) = 2 /\ Head(r) = i /\ r = w
        BY <1>16, <2>3, <2>11, <3>1 DEF Shape, OnInsert, MovedInsert
      <3>2. CASE Len(r) = 3 /\ Head(r).do = "SetStop" /\ r[2] = i /\ Tail(r) = w
        <4>1. OnInsertMoved(Tail(r))'
          BY <2>11, <3>2 DEF OnInsertMoved
        <4>2. OnSetStop(r)'
          BY <1>16, <3>2, <4>1 DEF OnSetStop
        <4> QED
          BY <3>2, <4>2 DEF Shape
      <3> QED
        BY <2>3, <3>1, <3>2
    <2> QED
      BY <1>11, <2>4, <2>12
  <1>17. CASE /\ Len(q) = 3
              /\ q[2].do = "Delete" /\ ~q[2].stop /\ q[3].do = "Refer"
              /\ q[1].call # q[2].call /\ q[3].peer # q[2].call
              /\ To(calls, q[1].call, q[3].peer) /\ To(calls, q[2].call, q[3].toPeer)
    <2> PICK b : b = q[2]
      OBVIOUS
    <2> PICK s : s = q[3]
      OBVIOUS
    <2>1. /\ r # <<>>
          /\ \/ Len(r) = 2 /\ Head(r) = b /\ r[1] = b /\ r[2] = s
             \/ Len(r) = 3 /\ Head(r).do = "SetStop" /\ r[2] = b /\ r[3] = s
      BY <1>1, <1>4, <1>17, DeletedThree
    <2>2. Res(r) = {}
      BY <1>17, <2>1 DEF Res
    <2>3. Workable' = Workable /\ f = q[1].call
      BY <1>1, <1>12, <2>2
    <2>4. b.call \in CallIds
      BY <1>1, <1>17, StepAt
    <2>5. To(calls, f, s.peer) /\ s.peer \in CallIds /\ s.peer \in Workable
      BY <1>1, <1>2, <1>8, <1>17, <2>3, MapOf, ToWorkable
    <2>6. Claim(calls', Workable', Lost', s.peer)
      BY <1>1, <1>2, <1>5, <1>8, <1>13, <2>3, <2>5, ErasedFrees DEF Sound
    <2>7. ~To(calls, f, b.call) /\ b.call # f
      BY <1>17, <2>3, <2>5 DEF To
    <2>8. To(calls', b.call, s.toPeer)
      BY <1>1, <1>2, <1>5, <1>17, <2>4, <2>7, ErasedTo
    <2>9. s.peer # s.toPeer \/ s.peer \in Lost'
      <3>1. ASSUME s.peer = s.toPeer PROVE s.peer \in Lost
        <4>1. To(calls, b.call, s.peer)
          BY <1>17, <3>1
        <4> QED
          BY <1>1, <1>8, <2>4, <2>5, <2>7, <4>1 DEF Sound, Settled
      <3> QED
        BY <1>13, <3>1
    <2>10. HalfReferred(b, s)'
      BY <1>17, <2>6, <2>8, <2>9 DEF HalfReferred
    <2>11. Shape(r)'
      <3>1. CASE Len(r) = 2 /\ Head(r) = b /\ r[1] = b /\ r[2] = s
        <4>1. HalfReferred(r[1], r[2])'
          BY <2>10, <3>1 DEF HalfReferred
        <4>2. OnDelete(r)'
          BY <3>1, <4>1 DEF OnDelete
        <4> QED
          BY <1>17, <3>1, <4>2 DEF Shape
      <3>2. CASE Len(r) = 3 /\ Head(r).do = "SetStop" /\ r[2] = b /\ r[3] = s
        <4>1. HalfReferred(r[2], r[3])'
          BY <2>10, <3>2 DEF HalfReferred
        <4>2. OnSetStop(r)'
          BY <3>2, <4>1 DEF OnSetStop
        <4> QED
          BY <3>2, <4>2 DEF Shape
      <3> QED
        BY <2>1, <3>1, <3>2
    <2> QED
      BY <1>11, <2>2, <2>11
  <1>18. CASE Len(q) = 2 /\ HalfReferred(q[1], q[2])
    <2> PICK s : s = q[2]
      OBVIOUS
    <2>1. /\ q[1].do = "Delete" /\ s.do = "Refer" /\ ~q[1].stop
          /\ To(calls, q[1].call, s.toPeer)
          /\ Claim(calls, Workable, Lost, s.peer)
          /\ s.peer # s.toPeer \/ s.peer \in Lost
      BY <1>18 DEF HalfReferred
    <2>2. r = Tail(q)
      BY <1>4, <2>1 DEF Deleted
    <2>3. Len(r) = 1 /\ r[1] = s /\ r # <<>> /\ Head(r) = s
      BY <1>1, <1>18, <2>2, RestOf
    <2>4. Res(r) = {}
      BY <2>1, <2>3 DEF Res
    <2>5. Workable' = Workable /\ f = q[1].call
      BY <1>1, <1>12, <2>4
    <2>6. To(calls, f, s.toPeer) /\ s.toPeer \in CallIds /\ s.toPeer \in Workable
      BY <1>1, <1>2, <1>8, <2>1, <2>5, MapOf, ToWorkable
    <2>7. Claim(calls', Workable', Lost', s.toPeer)
      BY <1>1, <1>2, <1>5, <1>8, <1>13, <2>5, <2>6, ErasedFrees DEF Sound
    <2>8. s.peer \in CallIds
      BY <2>1, Sets DEF Claim
    <2>9. Claim(calls', Workable', Lost', s.peer)
      BY <1>1, <1>2, <1>5, <1>13, <2>1, <2>5, <2>8, ErasedKeeps
    <2>10. Referring(s)'
      BY <1>13, <2>1, <2>7, <2>9 DEF Referring
    <2>11. Referring(r[1])'
      BY <2>3, <2>10 DEF Referring
    <2>12. Shape(r)'
      BY <2>1, <2>3, <2>11 DEF Shape
    <2> QED
      BY <1>11, <2>4, <2>12
  <1> QED
    BY <1>14, <1>15, <1>16, <1>17, <1>18 DEF OnDelete

LEMMA InsertTransGood == ASSUME Types, Good, ~Crossing, NEW t \in Threads, InsertTrans(t) PROVE Good'
  <1> PICK q : q = todo[t]
    OBVIOUS
  <1>1. /\ q \in Seq(Step) /\ q # <<>> /\ Shape(q) /\ Head(q).do = "InsertTrans" /\ Now(t) = q[1]
        /\ Doing(t, "InsertTrans")
    BY ListOf DEF InsertTrans
  <1>2. Now(t).recv \in CallIds /\ Now(t).send \in CallIds /\ Now(t).port \in Int
    BY HeadOf, KindOf, Fields DEF InsertTrans
  <1> PICK x : x = Now(t).recv
    OBVIOUS
  <1> PICK y : y = Now(t).send
    OBVIOUS
  <1>3. Len(q) = 1 /\ x \in Going /\ Own(calls, Workable, y)
    BY <1>1, ShapeOf
  <1>4. <<>> \in Seq(Step) /\ NoClaims(<<>>)
    BY QuietLists
  <1>5. todo'[t] = <<>> /\ \A u \in Threads : u # t => todo'[u] = todo[u]
    BY <1>1, <1>3, <1>4, OnlyStep DEF InsertTrans
  <1>6. Sound(calls) /\ \A u \in Threads : u # t => Modest(todo[u]) /\ ~Has(u, TurnSteps)
    BY <1>1, MoverSound DEF MoveSteps, MidSteps
  <1>7. Res(q) = {} /\ Res(<<>>) = {} /\ Shape(<<>>)'
    BY <1>1, <1>4, QuietShape, QuietShapeNext DEF Res
  <1>8. Reserved' = Reserved
    BY <1>5, <1>7, StayReserved
  <1>9. /\ dialog' = dialog /\ calls' = calls /\ astray' = astray
        /\ trans' = Inserted(trans, x, y, Now(t).port)
    BY DEF InsertTrans
  <1>10. Used' = Used /\ Past' = Past /\ Going' = Going /\ Lost' = Lost
    BY <1>9, StaySets DEF Lost
  <1>11. trans \in Maps
    BY DEF Types, Maps
  <1>12. \A z \in CallIds : z # x /\ z # y => trans'[z] = trans[z]
    <2> PICK p : p = Now(t).port
      OBVIOUS
    <2>1. \A z \in CallIds : z \notin {x, y} => Inserted(trans, x, y, p)[z] = trans[z]
      BY <1>2, <1>11, InsertedRest
    <2>2. trans' = Inserted(trans, x, y, p)
      BY <1>9
    <2> QED
      BY <2>1, <2>2
  <1>13. x \in Used \ {NoCall} /\ x \in Going
    BY <1>2, <1>3, Ids, Distinct, Sets DEF Gone, Going
  <1>14. y \in Used \ {NoCall} /\ y \notin Reserved /\ Unused(calls, y)
    BY <1>3 DEF Own, Workable
  <1>15. \A z \in CallIds : trans'[z] # None =>
           z \in Used \ {NoCall} /\ (z \in Going \/ (z \notin Reserved /\ Unused(calls, z)))
    BY <1>6, <1>12, <1>13, <1>14 DEF Sound
  <1>16. Sound(calls)'
    <2>1. Settled(calls', Used', Lost', astray')
      BY <1>6, <1>9, <1>10 DEF Sound
    <2>2. \A z \in Reserved' : Unused(calls', z)
      BY <1>6, <1>8, <1>9 DEF Sound
    <2>3. \A z \in CallIds : trans'[z] # None =>
            z \in Used' \ {NoCall} /\ (z \in Going' \/ (z \notin Reserved' /\ Unused(calls', z)))
      BY <1>8, <1>9, <1>10, <1>15
    <2> QED
      BY <2>1, <2>2, <2>3 DEF Sound
  <1> QED
    BY <1>4, <1>5, <1>6, <1>7, <1>9, <1>16, MapStep

LEMMA DeleteTransGood == ASSUME Types, Good, ~Crossing, NEW t \in Threads, DeleteTrans(t) PROVE Good'
  <1> PICK q : q = todo[t]
    OBVIOUS
  <1> PICK r : r = todo'[t]
    OBVIOUS
  <1> PICK x : x = Now(t).call
    OBVIOUS
  <1>1. /\ q \in Seq(Step) /\ q # <<>> /\ Shape(q) /\ Head(q).do = "DeleteTrans" /\ Now(t) = q[1]
        /\ x \in CallIds /\ Doing(t, "DeleteTrans") /\ NoClaims(q)
    BY ListOf, HeadOf, KindOf, Fields, QuietKinds DEF DeleteTrans
  <1>2. trans \in Maps
    BY DEF Types, Maps
  <1>3. ErasedPort(trans, x) \in Int /\ Erased(trans, x) \in Maps
    BY <1>1, <1>2, ErasedMap
  <1>4. /\ r \in Seq(Step) /\ Deleted(q, r)
        /\ \A u \in Threads : u # t => todo'[u] = todo[u]
    BY <1>1, <1>3, DeleteList DEF DeleteTrans
  <1>5. /\ dialog' = dialog /\ calls' = calls /\ astray' = astray
        /\ trans' = Erased(trans, x)
    BY DEF DeleteTrans
  <1>6. Sound(calls) /\ \A u \in Threads : u # t => Modest(todo[u]) /\ ~Has(u, TurnSteps)
    BY <1>1, MoverSound DEF MoveSteps, MidSteps
  <1>7. NoClaims(r)
    BY <1>1, <1>4, DeletedQuiet
  <1>8. Res(q) = {} /\ Res(r) = {} /\ Shape(r)'
    BY <1>1, <1>4, <1>7, QuietShape, QuietShapeNext
  <1>9. Reserved' = Reserved
    BY <1>4, <1>8, StayReserved
  <1>10. Used' = Used /\ Past' = Past /\ Going' = Going /\ Lost' = Lost
    BY <1>5, StaySets DEF Lost
  <1>11. \A z \in CallIds : trans'[z] # None => trans[z] # None
    BY <1>1, <1>2, <1>5, ErasedAt
  <1>12. Sound(calls)'
    <2>1. Settled(calls', Used', Lost', astray')
      BY <1>5, <1>6, <1>10 DEF Sound
    <2>2. \A z \in Reserved' : Unused(calls', z)
      BY <1>5, <1>6, <1>9 DEF Sound
    <2>3. \A z \in CallIds : trans'[z] # None =>
            z \in Used' \ {NoCall} /\ (z \in Going' \/ (z \notin Reserved' /\ Unused(calls', z)))
      BY <1>5, <1>6, <1>9, <1>10, <1>11 DEF Sound
    <2> QED
      BY <2>1, <2>2, <2>3 DEF Sound
  <1> QED
    BY <1>4, <1>5, <1>6, <1>8, <1>12, MapStep

LEMMA StaySound ==
  ASSUME NEW m, Sound(m), dialog' = dialog, trans' = trans, astray' = astray, Reserved' = Reserved
  PROVE  Sound(m)'
  <1>1. Used' = Used /\ Past' = Past /\ Going' = Going /\ Lost' = Lost
    BY StaySets DEF Lost
  <1> QED
    BY <1>1, SoundNext DEF Sound

(* c has got the entry of x, and what is left is to delete that of x.      *)
LEMMA InsertOneGood == ASSUME Types, Good, ~Crossing, NEW t \in Threads, InsertOne(t) PROVE Good'
  <1> PICK q : q = todo[t]
    OBVIOUS
  <1> PICK r : r = Tail(q)
    OBVIOUS
  <1>1. /\ q \in Seq(Step) /\ q # <<>> /\ Shape(q) /\ Head(q).do = "InsertOne" /\ r \in Seq(Step)
        /\ Now(t) = q[1] /\ Doing(t, "InsertOne")
    BY ListOf DEF InsertOne
  <1>2. Now(t).call \in CallIds /\ Now(t).info \in CallInfo
    BY HeadOf, KindOf, Fields DEF InsertOne
  <1> PICK c : c = Now(t).call
    OBVIOUS
  <1> PICK i : i = Now(t).info
    OBVIOUS
  <1> PICK x : x = q[2].call
    OBVIOUS
  <1> PICK o : o = i.peer
    OBVIOUS
  <1>3. OnInsertOne(q)
    BY <1>1, ShapeOf
  <1>4. /\ Len(q) = 4 /\ q[2].do = "DeleteOne" /\ q[3].do = "StopCall" /\ q[4].do = "AcceptCaller"
        /\ q[4].call = c /\ q[4].caller = o /\ x \in Calls /\ Own(calls, Workable, c)
        /\ i # None /\ calls[x] = i
    BY <1>1, <1>3 DEF OnInsertOne
  <1>5. x \in CallIds /\ c \in CallIds /\ o \in CallIds /\ c # x /\ calls[c] = None
    BY <1>2, <1>4, Ids, Infos DEF Own, Unused
  <1>6. todo'[t] = r /\ \A u \in Threads : u # t => todo'[u] = todo[u]
    BY <1>1, NextStep DEF InsertOne
  <1>7. /\ Len(r) = 3 /\ r[1] = q[2] /\ r[2] = q[3] /\ r[3] = q[4] /\ r # <<>> /\ Head(r) = q[2]
    BY <1>1, <1>4, RestOf
  <1>8. Res(q) = {} /\ Res(r) = {} /\ Mid(r)
    BY <1>1, <1>4, <1>7 DEF Res, Mid, MidSteps
  <1>9. Reserved' = Reserved
    BY <1>6, <1>8, StayReserved
  <1>10. Sound(calls) /\ \A u \in Threads : u # t => Modest(todo[u]) /\ ~Has(u, TurnSteps)
    BY <1>1, MoverSound DEF MoveSteps, MidSteps
  <1>11. dialog' = dialog /\ trans' = trans /\ astray' = astray /\ calls' = [calls EXCEPT ![c] = i]
    BY DEF InsertOne
  <1> PICK m : m = calls
    OBVIOUS
  <1> PICK n : n = calls'
    OBVIOUS
  <1>12. m \in Maps /\ n = [m EXCEPT ![c] = i]
    BY <1>11 DEF Types, Maps
  <1>13. n \in Maps /\ n[c] = i /\ \A z \in CallIds : z # c => n[z] = m[z]
    <2>1. m \in Maps /\ i \in CallInfo \cup {None}
      BY <1>2, <1>12
    <2> QED
      BY <1>5, <1>12, <2>1 DEF Maps
  <1>14. Back(n, c, x) = m
    <2>1. /\ Back(n, c, x) \in Maps /\ Back(n, c, x)[c] = None /\ Back(n, c, x)[x] = n[c]
          /\ \A z \in CallIds : z # c /\ z # x => Back(n, c, x)[z] = n[z]
      BY <1>5, <1>13, BackOf
    <2>2. \A z \in CallIds : Back(n, c, x)[z] = m[z]
      BY <1>4, <1>5, <1>13, <2>1
    <2> QED
      BY <1>12, <2>1, <2>2, SameMap
  <1>15. Sound(m)'
    BY <1>9, <1>10, <1>11, StaySound
  <1>16. Sound(Back(calls, c, x))'
    BY <1>14, <1>15 DEF Sound
  <1>17. Used' = Used /\ Going' = Going
    BY <1>11, StaySets
  <1>18. Workable' = Workable
    BY <1>9, <1>11, <1>17 DEF Workable
  <1>19. Unused(m, c) /\ c \in Workable \ {NoCall}
    BY <1>4 DEF Own
  <1>20. Virtual(c, x, o)'
    <2>1. To(n, c, o)
      BY <1>4, <1>13 DEF To
    <2> QED
      BY <1>4, <1>5, <1>14, <1>16, <1>18, <1>19, <2>1 DEF Virtual
  <1>21. OnDeleteOne(r)'
    BY <1>4, <1>7, <1>20 DEF OnDeleteOne
  <1>22. Shape(r)'
    BY <1>4, <1>7, <1>21 DEF Shape
  <1> QED
    BY <1>1, <1>6, <1>8, <1>10, <1>11, <1>22, MapStep

LEMMA DeleteOneGood == ASSUME Types, Good, ~Crossing, NEW t \in Threads, DeleteOne(t) PROVE Good'
  <1> PICK q : q = todo[t]
    OBVIOUS
  <1> PICK r : r = Tail(q)
    OBVIOUS
  <1>1. /\ q \in Seq(Step) /\ q # <<>> /\ Shape(q) /\ Head(q).do = "DeleteOne" /\ Head(q) = q[1] /\ r \in Seq(Step)
        /\ Now(t) = q[1] /\ 1 \in 1 .. Len(q)
    BY ListOf DEF DeleteOne
  <1> PICK x : x = Now(t).call
    OBVIOUS
  <1> PICK c : c = q[3].call
    OBVIOUS
  <1> PICK o : o = q[3].caller
    OBVIOUS
  <1>2. Len(q) = 3 /\ q[2].do = "StopCall" /\ q[3].do = "AcceptCaller" /\ Virtual(c, x, o)
    BY <1>1, ShapeOf DEF OnDeleteOne
  <1>3. todo'[t] = r /\ \A u \in Threads : u # t => todo'[u] = todo[u]
    BY <1>1, NextStep DEF DeleteOne
  <1>4. /\ Len(r) = 2 /\ r[1] = q[2] /\ r[2] = q[3] /\ r # <<>> /\ Head(r) = q[2]
        /\ Tail(r) # <<>> /\ Head(Tail(r)) = q[3]
    BY <1>1, <1>2, RestOf
  <1>5. Res(q) = {} /\ Res(r) = {} /\ Mid(r)
    BY <1>1, <1>2, <1>4 DEF Res, Mid
  <1>6. Reserved' = Reserved
    BY <1>3, <1>5, StayReserved
  <1>7. Moves(t)
    BY <1>1, LenProperties DEF Moves, Has, MoveSteps
  <1>8. \A u \in Threads : u # t => Modest(todo[u]) /\ ~Has(u, TurnSteps)
    BY <1>7, NotCrossing
  <1>9. dialog' = dialog /\ trans' = trans /\ astray' = astray /\ calls' = [calls EXCEPT ![x] = None]
    BY DEF DeleteOne
  <1> PICK m : m = calls
    OBVIOUS
  <1> PICK n : n = calls'
    OBVIOUS
  <1>10. m \in Maps /\ n = [m EXCEPT ![x] = None]
    BY <1>9 DEF Types, Maps
  <1>11. /\ c \in Workable \ {NoCall} /\ x \in Calls /\ c # x /\ o \in CallIds
         /\ To(m, c, o) /\ Sound(Back(m, c, x)) /\ Unused(Back(m, c, x), c)
    BY <1>2 DEF Virtual
  <1>12. x \in CallIds /\ c \in CallIds
    BY <1>11, Ids, Sets
  <1>13. n \in Maps /\ n[x] = None /\ \A z \in CallIds : z # x => n[z] = m[z]
    <2>1. m \in Maps /\ None \in CallInfo \cup {None}
      BY <1>10
    <2> QED
      BY <1>10, <1>12, <2>1 DEF Maps
  <1> PICK b : b = Back(m, c, x)
    OBVIOUS
  <1>14. Back(n, c, x) = b
    <2>1. /\ Back(n, c, x) \in Maps /\ Back(n, c, x)[c] = None /\ Back(n, c, x)[x] = n[c]
          /\ \A z \in CallIds : z # c /\ z # x => Back(n, c, x)[z] = n[z]
      BY <1>11, <1>12, <1>13, BackOf
    <2>2. /\ b \in Maps /\ b[c] = None /\ b[x] = m[c]
          /\ \A z \in CallIds : z # c /\ z # x => b[z] = m[z]
      <3>1. m \in Maps /\ c # x
        BY <1>10, <1>11
      <3>2. /\ Back(m, c, x) \in Maps /\ Back(m, c, x)[c] = None /\ Back(m, c, x)[x] = m[c]
            /\ \A z \in CallIds : z # c /\ z # x => Back(m, c, x)[z] = m[z]
        BY <1>12, <3>1, BackOf
      <3> QED
        BY <3>2, Zenon
    <2>3. \A z \in CallIds : Back(n, c, x)[z] = b[z]
      BY <1>11, <1>12, <1>13, <2>1, <2>2
    <2> QED
      BY <2>1, <2>2, <2>3, SameMap
  <1>15. Sound(b)'
    BY <1>6, <1>9, <1>11, StaySound
  <1>16. Sound(Back(calls, c, x))'
    BY <1>14, <1>15 DEF Sound
  <1>17. Used' = Used /\ Going' = Going
    BY <1>9, StaySets
  <1>18. Workable' = Workable
    BY <1>6, <1>9, <1>17 DEF Workable
  <1>19. To(n, c, o)
    BY <1>11, <1>12, <1>13 DEF To
  <1>20. Virtual(c, x, o)'
    BY <1>11, <1>14, <1>16, <1>18, <1>19 DEF Virtual
  <1>21. Picked(c, x, o)'
    BY <1>13, <1>20 DEF Picked
  <1>22. OnStopCall(r)'
    BY <1>2, <1>4, <1>11, <1>21 DEF OnStopCall
  <1>23. Shape(r)'
    BY <1>2, <1>4, <1>22 DEF Shape
  <1> QED
    BY <1>1, <1>3, <1>5, <1>8, <1>9, <1>23, MapStep

(* What the map before the pick-up does not know the map does not either.  *)
LEMMA PickedUnused ==
  ASSUME NEW m \in Maps, NEW c \in CallIds, NEW x \in CallIds, NEW o \in CallIds,
         c # x, m[x] = None, To(m, c, o), NEW z \in CallIds, z # c, Unused(Back(m, c, x), z)
  PROVE  Unused(m, z) /\ z # x /\ z # o
  <1>1. Back(m, c, x)[x] = m[c] /\ \A y \in CallIds : y # c /\ y # x => Back(m, c, x)[y] = m[y]
    BY BackOf
  <1>2. Back(m, c, x)[z] = None /\ \A y \in CallIds : ~To(Back(m, c, x), y, z)
    BY DEF Unused
  <1>3. z # x
    BY <1>1, <1>2 DEF To
  <1>4. z # o
    <2>1. To(Back(m, c, x), x, o)
      BY BackTo
    <2> QED
      BY <1>2, <2>1
  <1>5. m[z] = None
    BY <1>1, <1>2, <1>3
  <1>6. ASSUME NEW y \in CallIds PROVE ~To(m, y, z)
    <2>1. CASE y = c
      BY <1>4, <2>1 DEF To
    <2>2. CASE y = x
      BY <2>2 DEF To
    <2>3. CASE y # c /\ y # x
      <3>1. To(m, y, z) => To(Back(m, c, x), y, z)
        BY <2>3, BackTo
      <3> QED
        BY <1>2, <3>1
    <2> QED
      BY <2>1, <2>2, <2>3
  <1> QED
    BY <1>3, <1>4, <1>5, <1>6 DEF Unused

(* A caller that cannot be accepted any more: both entries are left.       *)
LEMMA FailedSound ==
  ASSUME Types, Good, dialog' = dialog, calls' = calls, trans' = trans, astray \subseteq astray', Reserved' = Reserved,
         NEW c, NEW x, NEW o, Picked(c, x, o), o \in astray', ~Acceptable(o)
  PROVE  Sound(calls)'
  <1> PICK m : m = calls
    OBVIOUS
  <1> PICK b : b = Back(m, c, x)
    OBVIOUS
  <1>1. m \in Maps
    BY DEF Types, Maps
  <1>2. /\ c \in Workable \ {NoCall} /\ x \in Calls /\ c # x /\ o \in CallIds
        /\ To(m, c, o) /\ Sound(b) /\ Unused(b, c) /\ m[x] = None
    BY DEF Picked, Virtual
  <1>3. c \in CallIds /\ x \in CallIds /\ c \in Used
    BY <1>2, Ids, Sets
  <1>4. Used' = Used /\ Past' = Past /\ Going' = Going
    BY StaySets
  <1>5. Settled(b, Used, Lost, astray)
    BY <1>2 DEF Sound
  <1>6. o \in Used
    <2>1. To(b, x, o)
      BY <1>1, <1>2, <1>3, BackTo
    <2> QED
      BY <1>2, <1>3, <1>5, <2>1 DEF Settled
  <1>7. o \in Lost' /\ Lost \subseteq Lost'
    BY <1>2, <1>4, <1>6 DEF Lost, Past
  <1>8. Settled(m, Used, Lost', astray')
    BY <1>1, <1>2, <1>3, <1>5, <1>7, PickedFails
  <1>9. \A z \in CallIds : z # c /\ Unused(b, z) => Unused(m, z)
    BY <1>1, <1>2, <1>3, PickedUnused
  <1>10. \A z \in Reserved : z # c /\ z \in CallIds
    BY <1>2, Sets DEF Workable
  <1>11. \A z \in Reserved' : Unused(m, z)
    BY <1>2, <1>9, <1>10 DEF Sound
  <1>12. \A z \in CallIds : trans'[z] # None =>
           z \in Used' \ {NoCall} /\ (z \in Going' \/ (z \notin Reserved' /\ Unused(m, z)))
    <2> SUFFICES ASSUME NEW z \in CallIds, trans[z] # None
                 PROVE  z \in Used \ {NoCall} /\ (z \in Going \/ (z \notin Reserved /\ Unused(m, z)))
      BY <1>4
    <2>1. z \in Used \ {NoCall} /\ (z \in Going \/ (z \notin Reserved /\ Unused(b, z)))
      BY <1>2 DEF Sound
    <2>2. z = c => z \in Going
      BY <1>2 DEF Workable
    <2> QED
      BY <1>9, <2>1, <2>2
  <1>13. Settled(m, Used', Lost', astray')
    BY <1>4, <1>8
  <1> QED
    BY <1>11, <1>12, <1>13 DEF Sound

LEMMA PickUpFailsGood == ASSUME Types, Good, NEW t \in Threads, PickUpFails(t) PROVE Good'
  <1> PICK q : q = todo[t]
    OBVIOUS
  <1> PICK c : c = Now(t).call
    OBVIOUS
  <1> PICK o : o = Now(t).caller
    OBVIOUS
  <1>1. PICK k \in {"AcceptCaller", "SelectCaller"} :
          /\ Doing(t, k)
          /\ k = "AcceptCaller" => ~Acceptable(o) /\ Then(t, <<StopCallStep(c)>>)
          /\ k = "SelectCaller" => calls[o] = None /\ Then(t, <<StopCallStep(o), StopCallStep(c)>>)
    BY DEF PickUpFails
  <1>2. /\ q \in Seq(Step) /\ q # <<>> /\ Shape(q) /\ Head(q).do = k /\ Now(t) = q[1]
        /\ c \in CallIds /\ o \in CallIds
    BY <1>1, ListOf, HeadOf, KindOf, Fields
  <1>3. Len(q) = 1 /\ (k = "AcceptCaller" => OnAcceptCaller(q)) /\ (k = "SelectCaller" => OnSelectCaller(q))
    BY <1>1, <1>2, ShapeOf DEF OnAcceptCaller, OnSelectCaller
  <1>4. ~Acceptable(o) /\ \E x \in Calls : Picked(c, x, o)
    <2>1. CASE k = "AcceptCaller"
      BY <1>1, <1>2, <1>3, <2>1 DEF OnAcceptCaller
    <2>2. CASE k = "SelectCaller"
      BY <1>2, <1>3, <2>2 DEF OnSelectCaller, Accepted, Past
    <2> QED
      BY <1>1, <2>1, <2>2
  <1>5. PICK x \in Calls : Picked(c, x, o)
    BY <1>4
  <1>6. PICK r \in Seq(Step) : Then(t, r) /\ NoClaims(r)
    BY <1>1, <1>2, QuietNamed
  <1>7. todo'[t] = r /\ \A u \in Threads : u # t => todo'[u] = todo[u]
    BY <1>2, <1>3, <1>6, OnlyStep
  <1>8. Res(q) = {} /\ Res(r) = {} /\ Shape(r)'
    BY <1>1, <1>2, <1>6, QuietShape, QuietShapeNext DEF Res
  <1>9. Reserved' = Reserved
    BY <1>7, <1>8, StayReserved
  <1>10. /\ dialog' = dialog /\ calls' = calls /\ trans' = trans /\ astray' = astray \cup {c, o}
    BY DEF PickUpFails
  <1>11. Sound(calls)'
    BY <1>4, <1>5, <1>9, <1>10, FailedSound
  <1>12. Onward
    BY <1>7, <1>8, <1>10, StepOnward, AdvanceSame
  <1>13. \A u \in Threads : u # t => Shape(todo[u])'
    BY <1>7, <1>12, OnwardKeeps, OthersKeep
  <1>14. Reserved' \subseteq Ready'
    BY <1>9, <1>10, StaySets DEF Good
  <1> QED
    BY <1>6, <1>7, <1>8, <1>11, <1>13, <1>14, GoodStep

LEMMA UpdateGood == ASSUME Types, Good, ~Crossing, NEW t \in Threads, Update(t) PROVE Good'
  <1> PICK q : q = todo[t]
    OBVIOUS
  <1> PICK r : r = Tail(q)
    OBVIOUS
  <1>1. /\ q \in Seq(Step) /\ q # <<>> /\ Shape(q) /\ Head(q).do = "Update" /\ Head(q) = q[1] /\ r \in Seq(Step)
        /\ Now(t) = q[1] /\ 1 \in 1 .. Len(q)
    BY ListOf DEF Update
  <1> PICK c : c = Now(t).peer
    OBVIOUS
  <1> PICK o : o = Now(t).call
    OBVIOUS
  <1>2. c \in CallIds /\ o \in CallIds
    BY HeadOf, KindOf, Fields DEF Update
  <1>3. /\ Len(q) = 2 /\ q[2].do = "AcceptCall" /\ q[2].call = c
        /\ \E x \in Calls : Accepted(c, x, o) /\ calls[o] # None
    BY <1>1, ShapeOf DEF OnUpdate
  <1>4. PICK x \in Calls : Accepted(c, x, o) /\ calls[o] # None
    BY <1>3
  <1>5. todo'[t] = r /\ \A u \in Threads : u # t => todo'[u] = todo[u]
    BY <1>1, NextStep DEF Update
  <1>6. Len(r) = 1 /\ r[1] = q[2] /\ r # <<>> /\ Head(r) = q[2]
    BY <1>1, <1>3, RestOf
  <1>7. Res(q) = {} /\ Res(r) = {}
    BY <1>1, <1>3, <1>6 DEF Res
  <1>8. Reserved' = Reserved
    BY <1>5, <1>7, StayReserved
  <1>9. Moves(t)
    BY <1>1, LenProperties DEF Moves, Has, MoveSteps
  <1>10. \A u \in Threads : u # t => Modest(todo[u]) /\ ~Has(u, TurnSteps)
    BY <1>9, NotCrossing
  <1> PICK m : m = calls
    OBVIOUS
  <1> PICK n : n = calls'
    OBVIOUS
  <1> PICK b : b = Back(m, c, x)
    OBVIOUS
  <1>11. dialog' = dialog /\ trans' = trans /\ astray' = astray /\ n = [m EXCEPT ![o] = Named(m[o], c)]
    BY <1>4 DEF Update, Named
  <1>12. m \in Maps /\ x \in CallIds /\ x # NoCall
    BY <1>4, Ids DEF Types, Maps
  <1>13. /\ c \in Workable \ {NoCall} /\ c # x
         /\ To(m, c, o) /\ Sound(b) /\ Unused(b, c) /\ m[x] = None /\ To(m, o, x)
    BY <1>4 DEF Accepted, Picked, Virtual, To
  <1>14. m[o] \in CallInfo
    BY <1>2, <1>4, <1>12, MapOf
  <1>15. Named(m[o], c) \in CallInfo /\ Named(m[o], c).peer = c
    BY <1>2, <1>14, NamedInfo
  <1>16. n \in Maps /\ n[o] = Named(m[o], c) /\ \A z \in CallIds : z # o => n[z] = m[z]
    BY <1>2, <1>11, <1>12, <1>15 DEF Maps
  <1>17. c \in Used
    BY <1>13, Sets
  <1>18. Settled(b, Used, Lost, astray)
    BY <1>13 DEF Sound
  <1>19. Settled(n, Used, Lost, astray)
    BY <1>2, <1>11, <1>12, <1>13, <1>16, <1>17, <1>18, PickedUpdates
  <1>20. ASSUME NEW z \in CallIds, z # c, Unused(b, z) PROVE Unused(n, z)
    <2>1. Unused(m, z) /\ z # o
      BY <1>2, <1>12, <1>13, <1>20, PickedUnused
    <2>2. n[z] = None
      BY <1>16, <2>1 DEF Unused
    <2>3. ASSUME NEW y \in CallIds PROVE ~To(n, y, z)
      <3>1. CASE y = o
        BY <1>15, <1>16, <1>20, <3>1 DEF To
      <3>2. CASE y # o
        BY <1>16, <2>1, <3>2 DEF To, Unused
      <3> QED
        BY <3>1, <3>2
    <2> QED
      BY <2>2, <2>3 DEF Unused
  <1>21. \A z \in Reserved' : Unused(b, z) => Unused(n, z)
    BY <1>8, <1>13, <1>20, Sets DEF Workable
  <1>22. \A z \in CallIds : trans[z] # None /\ z \notin Going /\ z \notin Reserved /\ Unused(b, z) => Unused(n, z)
    BY <1>13, <1>20 DEF Workable
  <1>23. Sound(calls)'
    BY <1>8, <1>11, <1>13, <1>19, <1>21, <1>22, SoundStep
  <1>24. c \in Used' \ Reserved'
    BY <1>8, <1>11, <1>13, <1>17, StaySets DEF Workable
  <1>25. Shape(r)'
    BY <1>3, <1>6, <1>24 DEF Shape
  <1> QED
    BY <1>1, <1>5, <1>7, <1>10, <1>11, <1>23, <1>25, MapStep

-----------------------------------------------------------------------------
(* The inductive invariant. *)

LEMMA ReceiveGood ==
  ASSUME Types, Good, ~Crossing', NEW t \in Threads, Receive(t) PROVE Good'
  <1>1. PICK x \in Calls :
          \/ RecvInvite(t, x) \/ RecvCancel(t, x)
          \/ RecvOk(t, x) \/ RecvError(t, x) \/ RecvBye(t, x) \/ RecvRefer(t, x)
          \/ \E y \in Calls : RecvReferReplaces(t, x, y)
    BY DEF Receive
  <1>2. CASE RecvInvite(t, x)
    BY <1>2, RecvInviteGood
  <1>3. CASE RecvCancel(t, x) \/ RecvBye(t, x) \/ RecvError(t, x)
    <2>1. MayStart(t)
      BY <1>3 DEF RecvCancel, RecvBye, RecvError
    <2> QED
      BY <1>3, <2>1, Enders, EndGood
  <1>4. CASE RecvOk(t, x)
    BY <1>4, RecvOkGood
  <1>5. CASE RecvRefer(t, x)
    BY <1>5, RecvReferGood
  <1>6. ASSUME NEW y \in Calls, RecvReferReplaces(t, x, y) PROVE Good'
    BY <1>6, RecvReferReplacesGood
  <1> QED
    BY <1>1, <1>2, <1>3, <1>4, <1>5, <1>6

LEMMA HandleGood ==
  ASSUME Types, Good, ~Crossing, ~Crossing', NEW t \in Threads, Handle(t) PROVE Good'
  <1>1. ASSUME StopCall(t) \/ DeleteDialog(t) \/ AcceptCall(t) \/ InsertCalls(t) \/ DeleteCalls(t) \/ InsertTrans(t)
                \/ DeleteTrans(t) \/ SetStop(t) \/ Refuse(t) \/ CreatePort(t) \/ CreateCall(t) \/ CreateCallFails(t) PROVE Good'
    BY <1>1, StopCallGood, DeleteDialogGood, AcceptCallGood, InsertMovedGood, InsertNewGood, DeleteCallsGood, InsertTransGood, DeleteTransGood, SetStopGood, RefuseGood, CreatePortGood, CreateCallGood, CreateCallFailsGood
  <1>2. ASSUME StartCall(t) \/ StartCallFails(t) \/ AcceptPeer(t) \/ SelectTransferor(t) \/ Transfer(t) \/ Unwanted(t)
                \/ EndPeer(t) \/ EndTransfer(t) \/ EndAlone(t) \/ BlindTransfer(t) \/ CreateTransPort(t) \/ StartTransCall(t) PROVE Good'
    BY <1>2, StartCallGood, StartCallFailsGood, AcceptPeerGood, SelectTransferorGood, TransferGood, UnwantedGood, EndPeerGood, EndTransferGood, EndAloneGood, BlindTransferGood, CreateTransPortGood, StartTransCallGood
  <1>3. ASSUME StartTransCallFails(t) \/ SelectTransfer(t) \/ SelectReferTo(t) \/ ScreenedTransfer(t) \/ UnscreenedTransfer(t) \/ TransferFails(t)
                \/ Redial(t) \/ RedialFails(t) \/ RedialNobody(t) \/ PickUp(t) \/ SelectToRing(t) \/ SelectOld(t) PROVE Good'
    BY <1>3, StartTransCallFailsGood, SelectTransferGood, SelectReferToGood, ScreenedTransferGood, UnscreenedTransferGood, TransferFailsGood, RedialGood, RedialFailsGood, RedialNobodyGood, PickUpGood, SelectToRingGood, SelectOldGood
  <1>4. ASSUME InsertOne(t) \/ DeleteOne(t) \/ AcceptCaller(t) \/ PickUpFails(t) \/ SelectCaller(t) \/ Update(t) PROVE Good'
    BY <1>4, InsertOneGood, DeleteOneGood, AcceptCallerGood, PickUpFailsGood, SelectCallerGood, UpdateGood
  <1> QED
    BY <1>1, <1>2, <1>3, <1>4 DEF Handle

LEMMA OtherGood ==
  ASSUME Types, Good,
         dialog' = dialog, calls' = calls, trans' = trans, todo' = todo, astray' = astray
  PROVE  Good'
  <1>1. \A u \in Threads : Res(todo[u])' = Res(todo[u])
    BY DEF Res
  <1>2. Reserved' = Reserved
    BY <1>1 DEF Reserved
  <1>3. Onward
    BY <1>2, AdvanceSame DEF Onward
  <1>4. \A u \in Threads : Shape(todo[u])'
    BY <1>3, OnwardKeeps, OthersKeep
  <1>5. Ready' = Ready
    BY StaySets
  <1>6. (\A u \in Threads : ~Mid(todo[u])') => Sound(calls)'
    <2>1. (\A u \in Threads : ~Mid(todo[u])') => \A u \in Threads : ~Mid(todo[u])
      BY DEF Mid
    <2> QED
      BY <1>3, <2>1, OnwardSoundCalls DEF Good
  <1> QED
    BY <1>1, <1>2, <1>4, <1>5, <1>6 DEF Good

LEMMA GoodKept == IInv /\ [Next]_vars => IInv'
  <1> SUFFICES ASSUME IInv, [Next]_vars PROVE IInv'
    OBVIOUS
  <1>1. Types /\ Types'
    BY TypesKept DEF IInv
  <1>2. ASSUME NEW t \in Threads, Receive(t) \/ Handle(t), ~crossed' PROVE ~Crossing' /\ Good'
    <2>1. crossed' = (crossed \/ Crossing')
      BY <1>2 DEF Receive, Handle, Crosses
    <2>2. ~crossed /\ ~Crossing'
      BY <1>2, <2>1
    <2>3. ~Crossing /\ Good
      BY <2>2 DEF IInv
    <2> QED
      BY <1>1, <1>2, <2>2, <2>3, ReceiveGood, HandleGood
  <1>3. ASSUME /\ dialog' = dialog /\ calls' = calls /\ trans' = trans /\ todo' = todo /\ astray' = astray
               /\ crossed' = crossed,
               ~crossed'
        PROVE  ~Crossing' /\ Good'
    <2>1. ~Crossing /\ Good
      BY <1>3 DEF IInv
    <2>2. ~Crossing'
      BY <1>3, <2>1 DEF Crossing, Moves, Has
    <2> QED
      BY <1>1, <1>3, <2>1, <2>2, OtherGood
  <1>4. CASE \E t \in Threads : Receive(t) \/ Handle(t)
    BY <1>1, <1>2, <1>4 DEF IInv
  <1>5. CASE \E p \in Ports : RtpThread(p)
    BY <1>1, <1>3, <1>5 DEF IInv, RtpThread
  <1>6. CASE UNCHANGED vars
    BY <1>1, <1>3, <1>6 DEF IInv, vars
  <1> QED
    BY <1>4, <1>5, <1>6 DEF Next

LEMMA GoodAtFirst == Init => IInv
  <1> SUFFICES ASSUME Init PROVE IInv
    OBVIOUS
  <1>1. Types
    BY TypesAtFirst
  <1>2. \A t \in Threads : todo[t] = <<>>
    BY DEF Init
  <1>3. DOMAIN <<>> = {}
    OBVIOUS
  <1>4. \A t \in Threads : ~Moves(t)
    BY <1>2, <1>3 DEF Moves, Has
  <1>5. ~Crossing
    BY <1>4 DEF Crossing
  <1>6. \A t \in Threads : Shape(todo[t]) /\ Res(todo[t]) = {}
    BY <1>2 DEF Shape, Res
  <1>7. Reserved = {}
    BY <1>6 DEF Reserved
  <1>8. \A x \in CallIds : calls[x] = None /\ trans[x] = None
    BY DEF Init
  <1>9. Sound(calls)
    BY <1>7, <1>8 DEF Sound, Settled, To
  <1>10. Good
    BY <1>6, <1>7, <1>9 DEF Good
  <1> QED
    BY <1>1, <1>5, <1>10 DEF IInv

LEMMA GoodAgrees == IInv => PeersAgree
  <1> SUFFICES ASSUME IInv, Quiet, ~crossed, NEW x \in CallIds, calls[x] # None
               PROVE  LET y == calls[x].peer
                      IN \/ {x, y} \cap astray # {}
                         \/ /\ calls[y] # None /\ calls[y].peer = x
                            /\ calls[y].recv # calls[x].recv
                            /\ calls[x].recv => calls[y].port = calls[x].port + 2
    BY DEF PeersAgree
  <1>1. Types /\ Good
    BY DEF IInv
  <1>2. \A t \in Threads : ~Mid(todo[t])
    BY DEF Quiet, Idle, Mid
  <1>3. Settled(calls, Used, Lost, astray)
    BY <1>1, <1>2 DEF Good, Sound
  <1> PICK y : y = calls[x].peer
    OBVIOUS
  <1>4. y \in CallIds /\ To(calls, x, y)
    BY <1>1, PeerOf DEF To
  <1>5. /\ x = NoCall \/ y = NoCall => NoCall \in Lost
        /\ Mutual(calls, x, y) \/ y \in Lost \/ x \in astray
        /\ Mutual(calls, x, y) /\ x # NoCall /\ y # NoCall => Fine(calls, x, y)
    BY <1>3, <1>4 DEF Settled
  <1>6. Lost \subseteq astray
    BY DEF Lost
  <1>7. CASE x \in astray \/ y \in astray
    BY <1>7
  <1>8. CASE x \notin astray /\ y \notin astray
    <2>1. Mutual(calls, x, y) /\ Fine(calls, x, y)
      BY <1>5, <1>6, <1>8
    <2> QED
      BY <2>1 DEF Mutual, Fine, To
  <1> QED
    BY <1>7, <1>8

(* Between callbacks two entries of gclsCallMap name each other, are for   *)
(* the INVITE that was received and for that sent, and lead to the same    *)
(* relay port, unless one of the calls went astray: whatever the UDP       *)
(* threads do at the same time, as long as no two of them are at a         *)
(* transfer or a pick-up (CCallMap, EventCallStart, EventCallEnd,          *)
(* EventTransfer, EventBlindTransfer, PickUp).                             *)
THEOREM EntriesAgree == Spec => []Consistent
  <1>1. Spec => []IInv
    BY GoodAtFirst, GoodKept, PTL DEF Spec
  <1>2. Spec => []TypeOK
    BY TypeCorrect
  <1>3. IInv /\ TypeOK => Consistent
    BY GoodAgrees DEF Consistent
  <1> QED
    BY <1>1, <1>2, <1>3, PTL
=============================================================================
