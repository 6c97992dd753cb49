------------------------ MODULE SipMessageLifeProofs ------------------------
(***************************************************************************)
(* Theorems about SipMessageLife: for any number of messages, any status   *)
(* codes and any finite number of connecting threads, m_iUseCount counts   *)
(* the uses of a message, nobody holds a message that was deleted, none is *)
(* deleted twice, and nothing is left when the stack has stopped, but for  *)
(* what two threads that count at once, a TLS thread that gives up, and    *)
(* the response SendTimeout is called with, whose use is not counted, do.  *)
(***************************************************************************)
EXTENDS SipMessageLife, FiniteSetTheorems, SequenceTheorems, TLAPS

-----------------------------------------------------------------------------
(* The inductive invariant.  Who keeps a message: the transaction or the   *)
(* delete queue.                                                           *)
Kept == Held \cup ToSet(queue)

Transactions ==
  [request : Messages, response : Messages \cup {Nil}, ack : Messages \cup {Nil},
   over : BOOLEAN]
Makings ==
  [step : {"connect", "failed", "write", "read"}, first : Messages,
   batch : Seq(Messages), seen : Int]

(* The transaction holds one message of each kind, and a thread has no     *)
(* batch before it has a connection or has failed to make one.             *)
ShapeInv ==
  /\ maker \in [Connectors -> {None} \cup Makings]
  /\ trans # None =>
       /\ Request(trans.request)
       /\ trans.response # Nil => Response(trans.response)
       /\ trans.ack # Nil => Ack(trans.ack)
  /\ \A c \in Connectors :
       maker[c] # None /\ maker[c].step \in {"connect", "failed"} => maker[c].batch = <<>>
  /\ run = "stopped" => trans = None /\ queue = <<>>

(* The count of a message is never too low, and is right unless the end of *)
(* a use was lost.                                                         *)
CountInv(m) ==
  m \notin spoilt =>
    /\ Uses(m) <= count[m]
    /\ m \notin stuck => count[m] = Uses(m)

(* What is kept is what is live, and what is used is kept.                 *)
KeptInv(m) ==
  /\ obj[m] = "none" <=> place[m] = "none"
  /\ place[m] = "none" => m \notin Kept /\ Uses(m) = 0
  /\ obj[m] = "live" => m \in Kept
  /\ m \notin spoilt =>
       /\ m \notin twice
       /\ m \in Kept => obj[m] = "live"
       /\ Uses(m) > 0 /\ run # "stopped" => m \in Kept

(* The response SendTimeout will be called with is a 200 of an INVITE      *)
(* server, which the transaction or the delete queue keeps: nothing else   *)
(* does, as its use is not counted.                                        *)
LateInv ==
  late # Nil =>
    /\ role = "IST" /\ Status[late] = Ok
    /\ late \notin spoilt => late \in Kept

(* A non-INVITE client sends one request, once: one thread connects for    *)
(* it, and who has read its count has read at least what it is.            *)
Sent(m) == place[m] \in {"used", "read", "gone"}

OneRequest ==
  \A m, n \in Messages :
    Request(m) /\ Request(n) /\ place[m] # "none" /\ place[n] # "none" => m = n

NobodyWaits ==
  waiting # Nil => waiting = <<>> /\ \E m \in Messages : Request(m) /\ Sent(m)

OneMaker == \A c, d \in Connectors : maker[c] # None /\ maker[d] # None => c = d

MakerReads(c) ==
  maker[c] # None =>
    /\ Request(maker[c].first) /\ Sent(maker[c].first) /\ maker[c].batch = <<>>
    /\ count[maker[c].first] = IF place[maker[c].first] = "gone" THEN 1 ELSE 2
    /\ maker[c].step = "read" =>
         maker[c].seen <= 2 /\ count[maker[c].first] <= maker[c].seen

OwnerReads(m) ==
  /\ place[m] \in {"used", "read"} => Request(m)
  /\ Request(m) =>
       /\ place[m] = "kept" => count[m] = 1
       /\ place[m] \in {"used", "read"} /\ (\A c \in Connectors : maker[c] = None) => count[m] = 1
       /\ place[m] = "read" => seen[m] <= 2 /\ count[m] <= seen[m]

ClientInv ==
  /\ spoilt = {} /\ OneRequest /\ NobodyWaits /\ OneMaker
  /\ \A c \in Connectors : MakerReads(c)
  /\ \A m \in Messages : OwnerReads(m)

LifeInv ==
  /\ TypeOK /\ ShapeInv
  /\ \A m \in Messages : CountInv(m) /\ KeptInv(m)
  /\ LateInv
  /\ role = "NICT" => ClientInv
-----------------------------------------------------------------------------
(* The uses of a message, as a function of what they depend on.            *)
Using == {"kept", "used", "read"}

UsersOf(m, p, w, mk) ==
  {<<"owner", Nil, 0>> : q \in {p} \cap Using}
    \cup (IF w = Nil THEN {} ELSE {<<"waits", Nil, i>> : i \in {j \in DOMAIN w : w[j] = m}})
    \cup UNION {{<<"first", c, 0>> : f \in {mk[c].first} \cap {m}} \cup
                {<<"batch", c, i>> : i \in {j \in DOMAIN mk[c].batch : mk[c].batch[j] = m}} :
                  c \in {d \in Connectors : mk[d] # None}}

UsesOf(m, p, w, mk) == Cardinality(UsersOf(m, p, w, mk))

Lines == {Nil} \cup Seq(Messages)
Threads == [Connectors -> {None} \cup Makings]

LEMMA UsesAre ==
  ASSUME NEW m \in Messages
  PROVE  /\ Uses(m) = UsesOf(m, place[m], waiting, maker)
         /\ Uses(m)' = UsesOf(m, place'[m], waiting', maker')
BY Zenon DEF Uses, UsesOf, Users, UsersOf, Owner, Waits, Makers, Using

LEMMA UserIs ==
  ASSUME NEW m, NEW p, NEW w, NEW mk, NEW t
  PROVE  t \in UsersOf(m, p, w, mk) <=>
           \/ p \in Using /\ t = <<"owner", Nil, 0>>
           \/ w # Nil /\ \E i \in DOMAIN w : w[i] = m /\ t = <<"waits", Nil, i>>
           \/ \E c \in Connectors : mk[c] # None /\ mk[c].first = m /\ t = <<"first", c, 0>>
           \/ \E c \in Connectors : mk[c] # None /\
                \E i \in DOMAIN mk[c].batch : mk[c].batch[i] = m /\ t = <<"batch", c, i>>
PROOF
  <1> DEFINE F(c) == {<<"first", c, 0>> : f \in {mk[c].first} \cap {m}}
             B(c) == {<<"batch", c, i>> : i \in {j \in DOMAIN mk[c].batch : mk[c].batch[j] = m}}
             D == {d \in Connectors : mk[d] # None}
             W == {<<"waits", Nil, i>> : i \in {j \in DOMAIN w : w[j] = m}}
             O == {<<"owner", Nil, 0>> : q \in {p} \cap Using}
  <1>1. t \in O <=> p \in Using /\ t = <<"owner", Nil, 0>>
    OBVIOUS
  <1>2. t \in W <=> \E i \in DOMAIN w : w[i] = m /\ t = <<"waits", Nil, i>>
    OBVIOUS
  <1>3. \A c : t \in F(c) <=> mk[c].first = m /\ t = <<"first", c, 0>>
    OBVIOUS
  <1>4. \A c : t \in B(c) <=> \E i \in DOMAIN mk[c].batch : mk[c].batch[i] = m /\ t = <<"batch", c, i>>
    OBVIOUS
  <1>5. t \in UNION {F(c) \cup B(c) : c \in D} <=> \E c \in D : t \in F(c) \/ t \in B(c)
    <2> HIDE DEF F, B, D
    <2> QED  OBVIOUS
  <1>6. UsersOf(m, p, w, mk) = O \cup (IF w = Nil THEN {} ELSE W) \cup UNION {F(c) \cup B(c) : c \in D}
    BY DEF UsersOf
  <1> HIDE DEF O, W, F, B
  <1> QED
    BY <1>1, <1>2, <1>3, <1>4, <1>5, <1>6

LEMMA NoneIsNone ==
  /\ None \notin Makings
  /\ None \notin Transactions
PROOF
  <1>1. DOMAIN None = {"none"}
    BY DEF None
  <1>2. \A x \in Makings : DOMAIN x = {"step", "first", "batch", "seen"}
    BY DEF Makings
  <1>3. \A x \in Transactions : DOMAIN x = {"request", "response", "ack", "over"}
    BY DEF Transactions
  <1> QED
    BY <1>1, <1>2, <1>3

LEMMA ImageFinite ==
  ASSUME NEW S, IsFiniteSet(S), NEW f, DOMAIN f = S
  PROVE  IsFiniteSet({f[x] : x \in S})
PROOF
  <1>1. [x \in S |-> f[x]] \in Surjection(S, {f[x] : x \in S})
    BY DEF Surjection
  <1> QED
    BY <1>1, FS_Surjection, Zenon

(* They are finitely many.                                                 *)
LEMMA UsersFinite ==
  ASSUME NEW m, NEW p, NEW w \in Lines, NEW mk \in Threads
  PROVE  /\ IsFiniteSet(UsersOf(m, p, w, mk))
         /\ UsesOf(m, p, w, mk) \in Nat
PROOF
  <1> DEFINE O == {<<"owner", Nil, 0>>}
             W(n) == {<<"waits", Nil, i>> : i \in 1 .. n}
             B(c, n) == {<<"batch", c, i>> : i \in 1 .. n} \cup {<<"first", c, 0>>}
             D == {d \in Connectors : mk[d] # None}
             All == O \cup (IF w = Nil THEN {} ELSE W(Len(w))) \cup UNION {B(c, Len(mk[c].batch)) : c \in D}
  <1>1. \A n \in Nat : IsFiniteSet(W(n))
    <2> TAKE n \in Nat
    <2>1. IsFiniteSet(1 .. n)
      BY FS_Interval
    <2> DEFINE f == [i \in 1 .. n |-> <<"waits", Nil, i>>]
    <2>2. IsFiniteSet({f[i] : i \in 1 .. n})
      BY <2>1, ImageFinite
    <2> QED
      BY <2>2
  <1>2. ASSUME NEW c \in Connectors, NEW n \in Nat PROVE IsFiniteSet(B(c, n))
    <2>1. IsFiniteSet(1 .. n)
      BY FS_Interval
    <2> DEFINE f == [i \in 1 .. n |-> <<"batch", c, i>>]
    <2>2. IsFiniteSet({f[i] : i \in 1 .. n})
      BY <2>1, ImageFinite
    <2>3. IsFiniteSet({<<"batch", c, i>> : i \in 1 .. n})
      BY <2>2
    <2> QED
      BY <2>3, FS_AddElement, Zenon
  <1>3. \A c \in D : Len(mk[c].batch) \in Nat /\ DOMAIN mk[c].batch = 1 .. Len(mk[c].batch)
    <2> TAKE c \in D
    <2>1. mk[c] \in Makings
      BY DEF Threads
    <2> QED
      BY <2>1, LenProperties DEF Makings
  <1>4. IsFiniteSet(UNION {B(c, Len(mk[c].batch)) : c \in D})
    <2>1. IsFiniteSet(D)
      BY FS_Subset, MessageAssumption
    <2> DEFINE f == [c \in D |-> B(c, Len(mk[c].batch))]
    <2>2. IsFiniteSet({f[c] : c \in D})
      <3> HIDE DEF f
      <3> QED  BY <2>1, ImageFinite DEF f
    <2>3. {f[c] : c \in D} = {B(c, Len(mk[c].batch)) : c \in D}
      <3> HIDE DEF B
      <3> QED  OBVIOUS
    <2>4. \A S \in {B(c, Len(mk[c].batch)) : c \in D} : IsFiniteSet(S)
      <3> HIDE DEF B
      <3> QED  BY <1>2, <1>3
    <2> QED
      BY <2>2, <2>3, <2>4, FS_UNION, Zenon
  <1>5. w # Nil => Len(w) \in Nat /\ DOMAIN w = 1 .. Len(w)
    BY LenProperties DEF Lines
  <1>6. IsFiniteSet(All)
    <2>1. IsFiniteSet(O)
      BY FS_Singleton
    <2>2. IsFiniteSet(IF w = Nil THEN {} ELSE W(Len(w)))
      BY <1>1, <1>5, FS_EmptySet
    <2> HIDE DEF O, W, B
    <2>3. IsFiniteSet(O \cup (IF w = Nil THEN {} ELSE W(Len(w))))
      BY <2>1, <2>2, FS_Union, Zenon
    <2> QED
      BY <2>3, <1>4, FS_Union, Zenon
  <1>7. UsersOf(m, p, w, mk) \subseteq All
    <2> SUFFICES ASSUME NEW t \in UsersOf(m, p, w, mk) PROVE t \in All
      OBVIOUS
    <2>1. CASE p \in Using /\ t = <<"owner", Nil, 0>>
      BY <2>1
    <2>2. CASE w # Nil /\ \E i \in DOMAIN w : w[i] = m /\ t = <<"waits", Nil, i>>
      BY <2>2, <1>5
    <2>3. CASE \E c \in Connectors : mk[c] # None /\ mk[c].first = m /\ t = <<"first", c, 0>>
      BY <2>3
    <2>4. CASE \E c \in Connectors : mk[c] # None /\
                 \E i \in DOMAIN mk[c].batch : mk[c].batch[i] = m /\ t = <<"batch", c, i>>
      <3>1. PICK c \in D : \E i \in DOMAIN mk[c].batch : t = <<"batch", c, i>>
        BY <2>4
      <3>2. t \in B(c, Len(mk[c].batch))
        BY <3>1, <1>3
      <3> QED
        BY <3>1, <3>2
    <2> HIDE DEF All
    <2> QED
      BY <2>1, <2>2, <2>3, <2>4, UserIs
  <1> QED
    BY <1>6, <1>7, FS_Subset, FS_CardinalityType DEF UsesOf

(* A set with as many elements.                                            *)
LEMMA SameNumber ==
  ASSUME NEW S, NEW T, IsFiniteSet(S), NEW f \in [S -> T],
         \A x, y \in S : f[x] = f[y] => x = y,
         \A z \in T : \E x \in S : f[x] = z
  PROVE  Cardinality(T) = Cardinality(S)
PROOF
  <1>1. f \in Bijection(S, T)
    BY DEF Bijection, Injection, Surjection, IsInjective
  <1> QED
    BY <1>1, FS_Bijection DEF ExistsBijection

(* Its own thread stops using the message.                                 *)
LEMMA EndOwnUse ==
  ASSUME NEW m, NEW p \in Using, NEW q, q \notin Using, NEW w \in Lines, NEW mk \in Threads
  PROVE  UsesOf(m, q, w, mk) = UsesOf(m, p, w, mk) - 1
PROOF
  <1>1. UsersOf(m, q, w, mk) = UsersOf(m, p, w, mk) \ {<<"owner", Nil, 0>>}
    BY UserIs
  <1>2. <<"owner", Nil, 0>> \in UsersOf(m, p, w, mk)
    BY UserIs
  <1> QED
    BY <1>1, <1>2, UsersFinite, FS_RemoveElement DEF UsesOf

(* It goes on using it, or not using it.                                   *)
LEMMA SameOwnUse ==
  ASSUME NEW m, NEW p, NEW q, NEW w, NEW mk, p \in Using <=> q \in Using
  PROVE  UsesOf(m, q, w, mk) = UsesOf(m, p, w, mk)
PROOF
  <1>1. \A u : u \in UsersOf(m, q, w, mk) <=> u \in UsersOf(m, p, w, mk)
    BY UserIs
  <1>2. UsersOf(m, q, w, mk) = UsersOf(m, p, w, mk)
    BY <1>1
  <1> QED
    BY <1>2 DEF UsesOf

(* A list of messages that wait has nothing in it when it is made.         *)
LEMMA NewLine ==
  ASSUME NEW m, NEW p, NEW mk
  PROVE  UsesOf(m, p, <<>>, mk) = UsesOf(m, p, Nil, mk)
PROOF
  <1>1. <<>> # Nil /\ DOMAIN <<>> = {}
    <2>1. <<>> \in Seq(Messages) /\ Len(<<>>) = 0
      OBVIOUS
    <2>2. DOMAIN <<>> = {}
      BY <2>1
    <2> QED
      BY <2>1, <2>2, MessageAssumption
  <1>2. \A u : u \in UsersOf(m, p, <<>>, mk) <=> u \in UsersOf(m, p, Nil, mk)
    BY <1>1, UserIs
  <1>3. UsersOf(m, p, <<>>, mk) = UsersOf(m, p, Nil, mk)
    BY <1>2
  <1> QED
    BY <1>3 DEF UsesOf

(* The places a message has in a sequence.                                 *)
PlacesIn(m, s) == {i \in DOMAIN s : s[i] = m}
Places(m, s) == Cardinality(PlacesIn(m, s))

LEMMA PlacesFinite ==
  ASSUME NEW m, NEW s \in Seq(Messages)
  PROVE  IsFiniteSet(PlacesIn(m, s)) /\ Places(m, s) \in Nat
PROOF
  <1>1. DOMAIN s = 1 .. Len(s) /\ Len(s) \in Nat
    OBVIOUS
  <1>2. IsFiniteSet(1 .. Len(s))
    BY <1>1, FS_Interval
  <1>3. IsFiniteSet(PlacesIn(m, s))
    BY <1>1, <1>2, FS_Subset DEF PlacesIn
  <1> QED
    BY <1>3, FS_CardinalityType DEF Places

LEMMA PlacesNone ==
  ASSUME NEW m, NEW s \in Seq(Messages), m \notin ToSet(s)
  PROVE  Places(m, s) = 0
PROOF
  <1>1. PlacesIn(m, s) = {}
    BY DEF PlacesIn, ToSet
  <1> QED
    BY <1>1, FS_EmptySet DEF Places

LEMMA PlacesEmpty ==
  ASSUME NEW m
  PROVE  Places(m, <<>>) = 0
PROOF
  <1>1. PlacesIn(m, <<>>) = {}
    BY DEF PlacesIn
  <1> QED
    BY <1>1, FS_EmptySet DEF Places

LEMMA PlacesAppend ==
  ASSUME NEW m, NEW s \in Seq(Messages), NEW x \in Messages
  PROVE  Places(m, Append(s, x)) = Places(m, s) + (IF x = m THEN 1 ELSE 0)
PROOF
  <1> DEFINE n == Len(s) + 1
  <1>1. /\ Len(s) \in Nat /\ DOMAIN s = 1 .. Len(s) /\ DOMAIN Append(s, x) = 1 .. n
        /\ \A i \in 1 .. Len(s) : Append(s, x)[i] = s[i]
        /\ Append(s, x)[n] = x
    OBVIOUS
  <1>2. n \notin 1 .. Len(s) /\ 1 .. n = 1 .. Len(s) \cup {n}
    BY <1>1
  <1> HIDE DEF n
  <1>3. PlacesIn(m, Append(s, x)) = PlacesIn(m, s) \cup (IF x = m THEN {n} ELSE {})
    BY <1>1, <1>2 DEF PlacesIn
  <1>4. n \notin PlacesIn(m, s)
    BY <1>1, <1>2 DEF PlacesIn
  <1>5. CASE x = m
    BY <1>3, <1>4, <1>5, PlacesFinite, FS_AddElement DEF Places
  <1>6. CASE x # m
    BY <1>3, <1>6, PlacesFinite DEF Places
  <1> QED
    BY <1>5, <1>6

LEMMA PlacesTail ==
  ASSUME NEW m, NEW s \in Seq(Messages), s # <<>>
  PROVE  Places(m, s) = Places(m, Tail(s)) + (IF Head(s) = m THEN 1 ELSE 0)
PROOF
  <1> DEFINE f == [i \in PlacesIn(m, Tail(s)) |-> i + 1]
  <1>1. /\ Tail(s) \in Seq(Messages) /\ Len(s) \in Nat \ {0} /\ DOMAIN s = 1 .. Len(s)
        /\ DOMAIN Tail(s) = 1 .. Len(s) - 1
        /\ \A i \in 1 .. Len(s) - 1 : Tail(s)[i] = s[i + 1]
        /\ Head(s) = s[1]
    BY HeadTailProperties, LenProperties, EmptySeq
  <1>2. \A i \in PlacesIn(m, Tail(s)) : i \in 1 .. Len(s) - 1 /\ i + 1 \in PlacesIn(m, s) \ {1}
    BY <1>1 DEF PlacesIn
  <1>3. \A j \in PlacesIn(m, s) \ {1} : j - 1 \in PlacesIn(m, Tail(s)) /\ (j - 1) + 1 = j
    BY <1>1 DEF PlacesIn
  <1>4. f \in [PlacesIn(m, Tail(s)) -> PlacesIn(m, s) \ {1}]
    BY <1>2
  <1>5. \A i, j \in PlacesIn(m, Tail(s)) : f[i] = f[j] => i = j
    BY <1>2
  <1>6. \A z \in PlacesIn(m, s) \ {1} : \E i \in PlacesIn(m, Tail(s)) : f[i] = z
    BY <1>3
  <1> HIDE DEF f
  <1>7. Cardinality(PlacesIn(m, s) \ {1}) = Places(m, Tail(s))
    BY <1>1, <1>4, <1>5, <1>6, PlacesFinite, SameNumber DEF Places
  <1>8. 1 \in PlacesIn(m, s) <=> Head(s) = m
    BY <1>1 DEF PlacesIn
  <1>9. IsFiniteSet(PlacesIn(m, s)) /\ Cardinality(PlacesIn(m, s)) \in Nat
    BY PlacesFinite DEF Places
  <1>10. Cardinality(PlacesIn(m, s) \ {1}) =
           IF 1 \in PlacesIn(m, s) THEN Cardinality(PlacesIn(m, s)) - 1 ELSE Cardinality(PlacesIn(m, s))
    BY <1>9, FS_RemoveElement, Zenon
  <1> QED
    BY <1>7, <1>8, <1>9, <1>10 DEF Places

(* Each place in the line, and in a batch, is a use.                       *)
LEMMA UnitedNumber ==
  ASSUME NEW S, IsFiniteSet(S), NEW I, IsFiniteSet(I), NEW f, DOMAIN f = I,
         \A i, j \in I : f[i] = f[j] => i = j, \A i \in I : f[i] \notin S
  PROVE  Cardinality(S \cup {f[i] : i \in I}) = Cardinality(S) + Cardinality(I)
PROOF
  <1> DEFINE T == {f[i] : i \in I}
             g == [i \in I |-> f[i]]
  <1>1. g \in [I -> T] /\ (\A i, j \in I : g[i] = g[j] => i = j) /\ \A z \in T : \E i \in I : g[i] = z
    OBVIOUS
  <1>2. IsFiniteSet(T)
    BY ImageFinite
  <1>3. S \cap T = {}
    OBVIOUS
  <1> HIDE DEF T, g
  <1>4. Cardinality(T) = Cardinality(I)
    BY <1>1, SameNumber
  <1>5. Cardinality(S \cup T) = Cardinality(S) + Cardinality(T) - Cardinality(S \cap T)
    BY <1>2, FS_Union
  <1>6. Cardinality(S) \in Nat /\ Cardinality(I) \in Nat
    BY FS_CardinalityType
  <1>7. Cardinality(S \cup T) = Cardinality(S) + Cardinality(I)
    <2>1. Cardinality(S \cap T) = 0
      BY <1>3, FS_EmptySet
    <2> QED
      BY <2>1, <1>4, <1>5, <1>6
  <1> QED
    BY <1>7 DEF T

LEMMA WaitUses ==
  ASSUME NEW m, NEW p, NEW w \in Seq(Messages), NEW mk \in Threads
  PROVE  UsesOf(m, p, w, mk) = UsesOf(m, p, Nil, mk) + Places(m, w)
PROOF
  <1> DEFINE S == UsersOf(m, p, Nil, mk)
             I == PlacesIn(m, w)
             f == [i \in I |-> <<"waits", Nil, i>>]
  <1>1. IsFiniteSet(S) /\ IsFiniteSet(I)
    BY UsersFinite, PlacesFinite DEF Lines
  <1>2. w # Nil
    BY MessageAssumption
  <1>3. \A i \in I : f[i] \notin S
    BY UserIs
  <1>4. \A i, j \in I : f[i] = f[j] => i = j
    OBVIOUS
  <1>5. UsersOf(m, p, w, mk) = S \cup {f[i] : i \in I}
    <2>1. ASSUME NEW u
          PROVE  u \in UsersOf(m, p, w, mk) <=>
                   u \in S \/ \E i \in I : u = <<"waits", Nil, i>>
      <3>1. u \in UsersOf(m, p, w, mk) <=>
              u \in S \/ \E i \in DOMAIN w : w[i] = m /\ u = <<"waits", Nil, i>>
        BY <1>2, UserIs
      <3> QED
        BY <3>1 DEF PlacesIn
    <2>2. \A u : u \in {f[i] : i \in I} <=> \E i \in I : u = <<"waits", Nil, i>>
      OBVIOUS
    <2> HIDE DEF S, I, f
    <2> QED
      BY <2>1, <2>2
  <1> HIDE DEF S, I
  <1>6. Cardinality(S \cup {f[i] : i \in I}) = Cardinality(S) + Cardinality(I)
    <2>1. DOMAIN f = I
      OBVIOUS
    <2> HIDE DEF f
    <2> QED  BY <2>1, <1>1, <1>3, <1>4, UnitedNumber
  <1> QED
    BY <1>5, <1>6 DEF S, I, UsesOf, Places

With(mk, c, r) == [mk EXCEPT ![c] = r]

LEMMA MakerUses ==
  ASSUME NEW m, NEW p, NEW w \in Lines, NEW mk \in Threads, NEW c \in Connectors,
         NEW r \in Makings
  PROVE  UsesOf(m, p, w, With(mk, c, r)) =
           UsesOf(m, p, w, With(mk, c, None)) + Places(m, r.batch)
             + (IF r.first = m THEN 1 ELSE 0)
PROOF
  <1> DEFINE mn == With(mk, c, None)
             mr == With(mk, c, r)
             S == UsersOf(m, p, w, mn)
             I == PlacesIn(m, r.batch)
             f == [i \in I |-> <<"batch", c, i>>]
             t == <<"first", c, 0>>
  <1>1. /\ mn \in Threads /\ mr \in Threads /\ mn[c] = None /\ mr[c] = r /\ r # None
        /\ \A d \in Connectors : d # c => mn[d] = mk[d] /\ mr[d] = mk[d]
        /\ r.batch \in Seq(Messages)
    BY NoneIsNone DEF Threads, Makings, With
  <1>2. IsFiniteSet(S) /\ IsFiniteSet(I)
    BY <1>1, UsersFinite, PlacesFinite
  <1>3. (\A i \in I : f[i] \notin S) /\ t \notin S \cup {f[i] : i \in I}
    <2> HIDE DEF mn, mr
    <2>1. \A i \in I : f[i] \notin S
      BY <1>1, UserIs
    <2>2. t \notin S
      BY <1>1, UserIs
    <2>3. t \notin {f[i] : i \in I}
      OBVIOUS
    <2> QED
      BY <2>1, <2>2, <2>3
  <1>4. \A i, j \in I : f[i] = f[j] => i = j
    OBVIOUS
  <1>5. UsersOf(m, p, w, mr) = S \cup {f[i] : i \in I} \cup (IF r.first = m THEN {t} ELSE {})
    <2> HIDE DEF mn, mr
    <2>1. ASSUME NEW u
          PROVE  u \in UsersOf(m, p, w, mr) <=>
                   u \in S \/ (r.first = m /\ u = t) \/ \E i \in I : u = <<"batch", c, i>>
      <3>1. u \in UsersOf(m, p, w, mr) <=>
              \/ u \in S \/ (r.first = m /\ u = t)
              \/ \E i \in DOMAIN r.batch : r.batch[i] = m /\ u = <<"batch", c, i>>
        <4> DEFINE Base == \/ p \in Using /\ u = <<"owner", Nil, 0>>
                           \/ w # Nil /\ \E i \in DOMAIN w : w[i] = m /\ u = <<"waits", Nil, i>>
                   ByFirst(v, d) == v[d] # None /\ v[d].first = m /\ u = <<"first", d, 0>>
                   ByBatch(v, d) == v[d] # None /\ \E i \in DOMAIN v[d].batch :
                                    v[d].batch[i] = m /\ u = <<"batch", d, i>>
        <4>1. \A v : u \in UsersOf(m, p, w, v) <=>
                Base \/ (\E d \in Connectors : ByFirst(v, d)) \/ (\E d \in Connectors : ByBatch(v, d))
          BY UserIs
        <4>2. \A d \in Connectors : d # c =>
                (ByFirst(mr, d) <=> ByFirst(mn, d)) /\ (ByBatch(mr, d) <=> ByBatch(mn, d))
          BY <1>1
        <4>3. ~ByFirst(mn, c) /\ ~ByBatch(mn, c)
          BY <1>1
        <4>4. /\ ByFirst(mr, c) <=> r.first = m /\ u = t
              /\ ByBatch(mr, c) <=> \E i \in DOMAIN r.batch : r.batch[i] = m /\ u = <<"batch", c, i>>
          BY <1>1
        <4> HIDE DEF Base, ByFirst, ByBatch
        <4> QED
          BY <4>1, <4>2, <4>3, <4>4
      <3> QED
        BY <3>1 DEF PlacesIn
    <2>2. \A u : u \in {f[i] : i \in I} <=> \E i \in I : u = <<"batch", c, i>>
      OBVIOUS
    <2> HIDE DEF S, I, f
    <2> QED
      BY <2>1, <2>2
  <1> HIDE DEF S, I, mn, mr, t
  <1>6. Cardinality(S \cup {f[i] : i \in I}) = Cardinality(S) + Cardinality(I)
    <2>1. DOMAIN f = I
      OBVIOUS
    <2> HIDE DEF f
    <2> QED  BY <2>1, <1>2, <1>3, <1>4, UnitedNumber
  <1>7. IsFiniteSet(S \cup {f[i] : i \in I})
    <2>1. IsFiniteSet({f[i] : i \in I})
      <3> HIDE DEF f
      <3> QED  BY <1>2, ImageFinite DEF f
    <2> QED
      BY <2>1, <1>2, FS_Union
  <1>8. Cardinality(UsersOf(m, p, w, mr)) =
          Cardinality(S) + Cardinality(I) + (IF r.first = m THEN 1 ELSE 0)
    <2> DEFINE T == S \cup {f[i] : i \in I}
    <2> HIDE DEF T
    <2>1. IsFiniteSet(T) /\ t \notin T /\ Cardinality(T) = Cardinality(S) + Cardinality(I)
            /\ UsersOf(m, p, w, mr) = T \cup (IF r.first = m THEN {t} ELSE {})
      BY <1>3, <1>5, <1>6, <1>7 DEF T
    <2>2. Cardinality(S) \in Nat /\ Cardinality(I) \in Nat
      BY <1>2, FS_CardinalityType
    <2>3. CASE r.first = m
      BY <2>1, <2>2, <2>3, FS_AddElement
    <2>4. CASE r.first # m
      BY <2>1, <2>2, <2>4
    <2> QED
      BY <2>3, <2>4
  <1> QED
    BY <1>8 DEF S, I, mn, mr, UsesOf, Places

(* What a connecting thread adds to the uses of a message.                 *)
Uses1(m, r) == Places(m, r.batch) + (IF r.first = m THEN 1 ELSE 0)

Rest(m, p, w, mk, c) == UsesOf(m, p, w, With(mk, c, None))

LEMMA ThreadUses ==
  ASSUME NEW m, NEW p, NEW w \in Lines, NEW mk \in Threads, NEW c \in Connectors
  PROVE  /\ Rest(m, p, w, mk, c) \in Nat
         /\ mk[c] = None => UsesOf(m, p, w, mk) = Rest(m, p, w, mk, c)
         /\ mk[c] # None => UsesOf(m, p, w, mk) = Rest(m, p, w, mk, c) + Uses1(m, mk[c])
         /\ \A r \in Makings :
              /\ Uses1(m, r) \in Nat
              /\ UsesOf(m, p, w, With(mk, c, r)) = Rest(m, p, w, mk, c) + Uses1(m, r)
PROOF
  <1>1. Rest(m, p, w, mk, c) \in Nat
    <2>1. With(mk, c, None) \in Threads
      BY DEF Threads, With
    <2> QED
      BY <2>1, UsersFinite DEF Rest
  <1>2. \A r \in Makings : Uses1(m, r) \in Nat
    <2> TAKE r \in Makings
    <2>1. r.batch \in Seq(Messages)
      BY DEF Makings
    <2> QED
      BY <2>1, PlacesFinite DEF Uses1
  <1>3. ASSUME NEW r \in Makings
        PROVE  UsesOf(m, p, w, With(mk, c, r)) = Rest(m, p, w, mk, c) + Uses1(m, r)
    <2>1. UsesOf(m, p, w, With(mk, c, r)) =
            Rest(m, p, w, mk, c) + Places(m, r.batch) + (IF r.first = m THEN 1 ELSE 0)
      BY MakerUses DEF Rest
    <2>2. Places(m, r.batch) \in Nat
      <3>1. r.batch \in Seq(Messages)
        BY DEF Makings
      <3> QED
        BY <3>1, PlacesFinite
    <2> QED
      BY <2>1, <2>2, <1>1 DEF Uses1
  <1>4. mk = With(mk, c, mk[c]) /\ mk[c] \in {None} \cup Makings
    BY DEF Threads, With
  <1>5. UsesOf(m, p, w, mk) = UsesOf(m, p, w, With(mk, c, mk[c]))
    BY <1>4
  <1>6. mk[c] = None => UsesOf(m, p, w, mk) = Rest(m, p, w, mk, c)
    BY <1>5 DEF Rest
  <1>7. mk[c] # None => UsesOf(m, p, w, mk) = Rest(m, p, w, mk, c) + Uses1(m, mk[c])
    BY <1>3, <1>4, <1>5
  <1> QED
    BY <1>1, <1>2, <1>3, <1>6, <1>7

(* Send of x adds a use of x and counts it, or does neither.               *)
LEMMA SendUses ==
  ASSUME TypeOK, ShapeInv, NEW x \in Messages, Send(x)
  PROVE  \E d \in {0, 1} :
           /\ count' = [count EXCEPT ![x] = @ + d]
           /\ \A n \in Messages : \A p : UsesOf(n, p, waiting', maker') =
                UsesOf(n, p, waiting, maker) + (IF n = x THEN d ELSE 0)
PROOF
  <1>0. /\ waiting \in Lines /\ maker \in Threads /\ count \in [Messages -> Int]
        /\ \A n \in Messages : \A p : UsesOf(n, p, waiting, maker) \in Nat
    BY UsersFinite DEF TypeOK, ShapeInv, Lines, Threads
  <1>1. CASE UNCHANGED <<count, connectVars>>
    <2>1. count' = [count EXCEPT ![x] = @ + 0]
      BY <1>0, <1>1
    <2>2. \A n \in Messages : \A p : UsesOf(n, p, waiting', maker') =
                UsesOf(n, p, waiting, maker) + (IF n = x THEN 0 ELSE 0)
      BY <1>0, <1>1 DEF connectVars
    <2> QED
      BY <2>1, <2>2
  <1>2. CASE /\ waiting = Nil
             /\ \E c \in Connectors :
                  maker[c] = None /\ maker' = [maker EXCEPT ![c] = Connecting(x)]
             /\ waiting' = <<>> /\ count' = Counted(x)
    <2>1. PICK c \in Connectors :
            maker[c] = None /\ maker' = [maker EXCEPT ![c] = Connecting(x)]
      BY <1>2
    <2>2. Connecting(x) \in Makings /\ Connecting(x).batch = <<>> /\ Connecting(x).first = x
      BY DEF Connecting, Makings
    <2>3. \A n \in Messages : Uses1(n, Connecting(x)) = IF n = x THEN 1 ELSE 0
      <3> TAKE n \in Messages
      <3>1. Places(n, <<>>) = 0
        BY PlacesEmpty
      <3> QED
        BY <3>1, <2>2 DEF Uses1
    <2>4. ASSUME NEW n \in Messages, NEW p
          PROVE  UsesOf(n, p, waiting', maker') =
                   UsesOf(n, p, waiting, maker) + (IF n = x THEN 1 ELSE 0)
      <3>1. UsesOf(n, p, Nil, maker') = UsesOf(n, p, Nil, maker) + Uses1(n, Connecting(x))
        <4>1. maker' = With(maker, c, Connecting(x)) /\ Nil \in Lines
          BY <2>1 DEF With, Lines
        <4>2. UsesOf(n, p, Nil, maker) = Rest(n, p, Nil, maker, c)
          <5>1. maker \in Threads /\ maker[c] = None
            BY <1>0, <2>1
          <5> QED
            BY <4>1, <5>1, ThreadUses
        <4>3. UsesOf(n, p, Nil, With(maker, c, Connecting(x))) =
                Rest(n, p, Nil, maker, c) + Uses1(n, Connecting(x))
          BY <4>1, <1>0, <2>2, ThreadUses
        <4> QED
          BY <4>1, <4>2, <4>3
      <3>2. UsesOf(n, p, <<>>, maker') = UsesOf(n, p, Nil, maker')
        BY NewLine
      <3> QED
        BY <1>2, <2>3, <3>1, <3>2
    <2> QED
      BY <2>4, <1>2 DEF Counted
  <1>3. CASE /\ waiting # Nil
             /\ waiting' = Append(waiting, x) /\ count' = Counted(x)
             /\ UNCHANGED maker
    <2>1. waiting \in Seq(Messages) /\ waiting' \in Seq(Messages)
      BY <1>0, <1>3 DEF Lines
    <2>2. ASSUME NEW n \in Messages, NEW p
          PROVE  UsesOf(n, p, waiting', maker') =
                   UsesOf(n, p, waiting, maker) + (IF n = x THEN 1 ELSE 0)
      <3>1. UsesOf(n, p, waiting, maker) = UsesOf(n, p, Nil, maker) + Places(n, waiting)
        BY <1>0, <2>1, WaitUses
      <3>2. UsesOf(n, p, waiting', maker) = UsesOf(n, p, Nil, maker) + Places(n, waiting')
        BY <1>0, <2>1, WaitUses
      <3>3. Places(n, waiting') = Places(n, waiting) + (IF n = x THEN 1 ELSE 0)
        BY <1>3, <2>1, PlacesAppend
      <3>4. UsesOf(n, p, Nil, maker) \in Nat /\ Places(n, waiting) \in Nat
        BY <1>0, <2>1, UsersFinite, PlacesFinite DEF Lines
      <3> QED
        BY <1>3, <3>1, <3>2, <3>3, <3>4
    <2> QED
      BY <2>2, <1>3 DEF Counted
  <1> QED
    BY <1>1, <1>2, <1>3 DEF Send

(* The messages that wait become the batch of a thread that has none: each *)
(* is used as before.                                                      *)
LEMMA TakeUses ==
  ASSUME TypeOK, ShapeInv, NEW c \in Connectors, maker[c] # None,
         maker[c].step \in {"connect", "failed"},
         Step(c, Writing(c)), waiting' = Nil
  PROVE  /\ Writing(c) \in Makings
         /\ \A n \in Messages : \A p :
              UsesOf(n, p, waiting', maker') = UsesOf(n, p, waiting, maker)
PROOF
  <1> DEFINE w == IF waiting = Nil THEN <<>> ELSE waiting
  <1>1. /\ waiting \in Lines /\ maker \in Threads
        /\ maker[c] \in Makings /\ maker[c].batch = <<>>
    BY DEF TypeOK, ShapeInv, Lines, Threads
  <1>2. w \in Seq(Messages)
    BY <1>1 DEF Lines
  <1>3. /\ Writing(c) \in Makings /\ Writing(c).first = maker[c].first
        /\ Writing(c).batch = w
    <2> HIDE DEF w
    <2>1. Writing(c) = [maker[c] EXCEPT !.step = "write", !.batch = w]
      BY DEF Writing, w
    <2> QED
      BY <1>1, <1>2, <2>1 DEF Makings
  <1> HIDE DEF w
  <1>4. ASSUME NEW n \in Messages, NEW p
        PROVE  UsesOf(n, p, waiting', maker') = UsesOf(n, p, waiting, maker)
    <2>1. UsesOf(n, p, Nil, maker') + Uses1(n, maker[c]) =
            UsesOf(n, p, Nil, maker) + Uses1(n, Writing(c))
      <3>1. maker' = With(maker, c, Writing(c)) /\ Nil \in Lines
        BY DEF Lines, With, Step
      <3> QED
        BY <1>1, <1>3, <3>1, ThreadUses
    <2>2. Places(n, <<>>) = 0
      BY PlacesEmpty
    <2>3. Uses1(n, Writing(c)) = Uses1(n, maker[c]) + Places(n, w)
      BY <1>1, <1>2, <1>3, <2>2, PlacesFinite DEF Uses1
    <2>4. UsesOf(n, p, waiting, maker) = UsesOf(n, p, Nil, maker) + Places(n, w)
      <3>1. CASE waiting = Nil
        <4>1. UsesOf(n, p, Nil, maker) \in Nat
          BY <1>1, UsersFinite DEF Lines
        <4> QED
          BY <3>1, <2>2, <4>1 DEF w
      <3>2. CASE waiting # Nil
        BY <3>2, <1>1, <1>2, WaitUses DEF w
      <3> QED
        BY <3>1, <3>2
    <2>5. /\ UsesOf(n, p, Nil, maker') \in Nat /\ UsesOf(n, p, Nil, maker) \in Nat
          /\ Uses1(n, maker[c]) \in Nat /\ Places(n, w) \in Nat
      <3>1. maker' \in Threads
        BY <1>1, <1>3 DEF Step, Threads
      <3>2. Uses1(n, maker[c]) \in Nat
        BY <1>1, ThreadUses
      <3> QED
        BY <1>1, <1>2, <3>1, <3>2, UsersFinite, PlacesFinite DEF Lines
    <2> QED
      <3>1. UsesOf(n, p, Nil, maker') = UsesOf(n, p, Nil, maker) + Places(n, w)
        <4>1. PICK u \in Nat : u = UsesOf(n, p, Nil, maker')
          BY <2>5
        <4>2. PICK v \in Nat : v = UsesOf(n, p, Nil, maker)
          BY <2>5
        <4>3. PICK a \in Nat : a = Uses1(n, maker[c])
          BY <2>5
        <4>4. PICK b \in Nat : b = Places(n, w)
          BY <2>5
        <4>5. u + a = v + (a + b)
          BY <2>1, <2>3, <4>1, <4>2, <4>3, <4>4
        <4>6. u = v + b
          BY <4>5
        <4> QED
          BY <4>6, <4>1, <4>2, <4>4
      <3> QED
        BY <2>4, <3>1
  <1> QED
    BY <1>3, <1>4

Renewed(x, t, i, b) == [x EXCEPT !.step = t, !.seen = i, !.batch = b]

LEMMA NextMaking ==
  ASSUME NEW x \in Makings, NEW t \in {"connect", "failed", "write", "read"},
         NEW i \in Int, NEW b \in Seq(Messages)
  PROVE  Renewed(x, t, i, b) \in Makings
BY DEF Makings, Renewed

(* A step of a thread that has made or failed to make a connection.        *)
LEMMA StepUses ==
  ASSUME TypeOK, ShapeInv, NEW c \in Connectors, maker[c] # None,
         NEW r \in {None} \cup Makings, Step(c, r), NEW n \in Messages, NEW p
  PROVE  /\ Uses1(n, maker[c]) \in Nat /\ UsesOf(n, p, waiting, maker) \in Nat
         /\ r = None =>
              UsesOf(n, p, waiting, maker) = UsesOf(n, p, waiting, maker') + Uses1(n, maker[c])
         /\ r # None => Uses1(n, r) \in Nat /\
              UsesOf(n, p, waiting, maker') =
                (UsesOf(n, p, waiting, maker) - Uses1(n, maker[c])) + Uses1(n, r)
         /\ UsesOf(n, p, waiting, maker') \in Nat
PROOF
  <1>1. /\ waiting \in Lines /\ maker \in Threads /\ maker[c] \in Makings
        /\ maker' = With(maker, c, r) /\ maker' \in Threads
    BY DEF TypeOK, ShapeInv, Lines, Threads, Step, With
  <1> DEFINE R == Rest(n, p, waiting, maker, c)
  <1>2. /\ R \in Nat /\ Uses1(n, maker[c]) \in Nat
        /\ UsesOf(n, p, waiting, maker) = R + Uses1(n, maker[c])
    BY <1>1, ThreadUses
  <1>3. r = None => UsesOf(n, p, waiting, maker') = R
    BY <1>1 DEF Rest
  <1>4. r # None => Uses1(n, r) \in Nat /\ UsesOf(n, p, waiting, maker') = R + Uses1(n, r)
    BY <1>1, ThreadUses
  <1> HIDE DEF R
  <1>5. UsesOf(n, p, waiting, maker) \in Nat /\ UsesOf(n, p, waiting, maker') \in Nat
    BY <1>1, UsersFinite
  <1> QED
    BY <1>2, <1>3, <1>4, <1>5

(* It uses what it did while it keeps its message and batch ...            *)
LEMMA SameStepUses ==
  ASSUME TypeOK, ShapeInv, NEW c \in Connectors, maker[c] # None, NEW r \in Makings,
         r.first = maker[c].first, r.batch = maker[c].batch, Step(c, r),
         NEW n \in Messages, NEW p
  PROVE  UsesOf(n, p, waiting, maker') = UsesOf(n, p, waiting, maker)
PROOF
  <1>1. Uses1(n, r) = Uses1(n, maker[c])
    BY DEF Uses1
  <1>2. r # None
    BY NoneIsNone
  <1> QED
    BY <1>1, <1>2, StepUses

(* ... and one message less when it has counted it down.                   *)
LEMMA DownUses ==
  ASSUME TypeOK, ShapeInv, NEW c \in Connectors, maker[c] # None,
         Step(c, IF maker[c].batch = <<>> THEN None
                 ELSE [maker[c] EXCEPT !.step = "write", !.seen = 0, !.batch = Tail(@)]),
         NEW n \in Messages, NEW p
  PROVE  UsesOf(n, p, waiting, maker') =
           UsesOf(n, p, waiting, maker) - (IF n = Current(c) THEN 1 ELSE 0)
PROOF
  <1>0. maker[c] \in Makings /\ maker[c].batch \in Seq(Messages)
    BY DEF ShapeInv, Makings
  <1>1. CASE maker[c].batch = <<>>
    <2>1. Uses1(n, maker[c]) = IF n = Current(c) THEN 1 ELSE 0
      BY <1>1, PlacesEmpty DEF Uses1, Current
    <2>2. Step(c, None)
      BY <1>1
    <2>3. UsesOf(n, p, waiting, maker) = UsesOf(n, p, waiting, maker') + Uses1(n, maker[c])
      BY <2>2, StepUses
    <2>4. UsesOf(n, p, waiting, maker') \in Nat
      BY <2>2, StepUses
    <2> QED
      BY <2>1, <2>3, <2>4
  <1>2. CASE maker[c].batch # <<>>
    <2> DEFINE r == [maker[c] EXCEPT !.step = "write", !.seen = 0, !.batch = Tail(@)]
    <2>1. r \in Makings /\ r.first = maker[c].first /\ r.batch = Tail(maker[c].batch)
      <3>1. Tail(maker[c].batch) \in Seq(Messages)
        BY <1>0, <1>2
      <3> DEFINE b == Tail(maker[c].batch)
      <3>3. r = [maker[c] EXCEPT !.step = "write", !.seen = 0, !.batch = b]
        OBVIOUS
      <3>0. b \in Seq(Messages)
        BY <3>1
      <3> HIDE DEF b
      <3>2. [maker[c] EXCEPT !.step = "write", !.seen = 0, !.batch = b] \in Makings
        <4>1. Renewed(maker[c], "write", 0, b) \in Makings
          <5>1. "write" \in {"connect", "failed", "write", "read"} /\ 0 \in Int
            OBVIOUS
          <5> QED
            BY <5>1, <1>0, <3>0, NextMaking, Zenon
        <4> QED
          BY <4>1 DEF Renewed
      <3>4. r.first = maker[c].first /\ r.batch = b
        BY <3>3, <1>0 DEF Makings
      <3> HIDE DEF r
      <3> QED
        BY <3>2, <3>3, <3>4 DEF b
    <2>2. Step(c, r)
      BY <1>2
    <2> HIDE DEF r
    <2>3. /\ Places(n, maker[c].batch) =
               Places(n, Tail(maker[c].batch)) + (IF Head(maker[c].batch) = n THEN 1 ELSE 0)
          /\ Places(n, Tail(maker[c].batch)) \in Nat
      <3>1. Tail(maker[c].batch) \in Seq(Messages)
        BY <1>0, <1>2
      <3> QED
        BY <3>1, <1>0, <1>2, PlacesTail, PlacesFinite
    <2>4. Uses1(n, maker[c]) = Uses1(n, r) + (IF n = Current(c) THEN 1 ELSE 0)
      BY <1>2, <2>1, <2>3 DEF Uses1, Current
    <2>5. r # None
      BY <2>1, NoneIsNone
    <2>6. /\ UsesOf(n, p, waiting, maker') =
               (UsesOf(n, p, waiting, maker) - Uses1(n, maker[c])) + Uses1(n, r)
          /\ Uses1(n, r) \in Nat /\ UsesOf(n, p, waiting, maker) \in Nat
      BY <2>1, <2>2, <2>5, StepUses
    <2> QED
      BY <2>4, <2>6
  <1> QED
    BY <1>1, <1>2

(* A batch that is given up: nobody uses its messages more than before.    *)
LEMMA DropUses ==
  ASSUME TypeOK, ShapeInv, NEW c \in Connectors, maker[c] # None,
         Step(c, [maker[c] EXCEPT !.batch = <<>>]), NEW n \in Messages, NEW p
  PROVE  /\ UsesOf(n, p, waiting, maker') <= UsesOf(n, p, waiting, maker)
         /\ n \notin ToSet(maker[c].batch) =>
              UsesOf(n, p, waiting, maker') = UsesOf(n, p, waiting, maker)
         /\ n \in ToSet(maker[c].batch) => UsesOf(n, p, waiting, maker) > 0
PROOF
  <1> DEFINE r == [maker[c] EXCEPT !.batch = <<>>]
  <1>1. /\ maker[c] \in Makings /\ maker[c].batch \in Seq(Messages)
        /\ r \in Makings /\ r.first = maker[c].first /\ r.batch = <<>>
    <2>1. maker[c] \in Makings
      BY DEF ShapeInv
    <2>2. <<>> \in Seq(Messages)
      OBVIOUS
    <2> QED
      BY <2>1, <2>2 DEF Makings
  <1>2. r # None /\ Step(c, r)
    BY <1>1, NoneIsNone
  <1> HIDE DEF r
  <1>3. /\ UsesOf(n, p, waiting, maker') =
             (UsesOf(n, p, waiting, maker) - Uses1(n, maker[c])) + Uses1(n, r)
        /\ Uses1(n, r) \in Nat /\ UsesOf(n, p, waiting, maker) \in Nat
        /\ UsesOf(n, p, waiting, maker') \in Nat
    BY <1>1, <1>2, StepUses
  <1>4. Places(n, maker[c].batch) \in Nat
    BY <1>1, PlacesFinite
  <1>5. Uses1(n, maker[c]) = Uses1(n, r) + Places(n, maker[c].batch)
    BY <1>1, <1>4, PlacesEmpty DEF Uses1
  <1>6. n \notin ToSet(maker[c].batch) => Places(n, maker[c].batch) = 0
    BY <1>1, PlacesNone
  <1>7. n \in ToSet(maker[c].batch) => Places(n, maker[c].batch) # 0
    <2>1. n \in ToSet(maker[c].batch) => PlacesIn(n, maker[c].batch) # {}
      BY DEF ToSet, PlacesIn
    <2> QED
      BY <1>1, <2>1, PlacesFinite, FS_EmptySet DEF Places
  <1> QED
    BY <1>3, <1>4, <1>5, <1>6, <1>7

-----------------------------------------------------------------------------
(* What a step does to the transaction.                                    *)
LEMMA HeldIs ==
  ASSUME TypeOK
  PROVE  /\ trans = None => Held = {}
         /\ trans # None =>
              trans \in Transactions /\ Held = {trans.request, trans.response, trans.ack} \ {Nil}
         /\ Held \subseteq Messages
         /\ Kept \subseteq Messages
PROOF
  <1>1. trans = None \/ trans \in Transactions
    BY DEF TypeOK, Transactions
  <1>2. Held \subseteq Messages
    BY <1>1 DEF Held, Transactions
  <1>3. ToSet(queue) \subseteq Messages
    BY DEF TypeOK, ToSet
  <1> QED
    BY <1>1, <1>2, <1>3 DEF Held, Kept

(* A message a transaction takes is put beside the others.                 *)
LEMMA StoringIs ==
  ASSUME TypeOK, ShapeInv, NEW m \in Messages, Accepts(m), trans' = Storing(m)
  PROVE  /\ trans' \in Transactions
         /\ Held' = (Held \ Replaced(m)) \cup {m}
         /\ Replaced(m) \subseteq Held
         /\ Request(trans'.request)
         /\ trans'.response # Nil => Response(trans'.response)
         /\ trans'.ack # Nil => Ack(trans'.ack)
PROOF
  <1>0. /\ m # Nil
        /\ trans = None \/ trans \in Transactions
        /\ \A x : Request(x) => ~Ack(x) /\ ~Response(x)
        /\ \A x : Ack(x) => ~Response(x)
    <2>1. m # Nil
      BY MessageAssumption
    <2>2. trans = None \/ trans \in Transactions
      BY DEF TypeOK, Transactions
    <2>3. \A x : Request(x) => ~Ack(x) /\ ~Response(x)
      BY DEF Request, Ack, Response
    <2>4. \A x : Ack(x) => ~Response(x)
      BY DEF Ack, Response
    <2> QED
      BY <2>1, <2>2, <2>3, <2>4
  <1>1. CASE Request(m)
    <2>1. trans = None /\ trans' = NewTransaction(m) /\ Replaced(m) = {}
      BY <1>0, <1>1 DEF Accepts, Storing, Replaced
    <2>2. trans' \in Transactions /\ trans'.request = m /\ trans'.response = Nil /\ trans'.ack = Nil
      BY <2>1 DEF NewTransaction, Transactions
    <2>3. trans' # None
      BY <2>2, NoneIsNone
    <2> QED
      BY <2>1, <2>2, <2>3, <1>0, <1>1 DEF Held
  <1>2. CASE Ack(m)
    <2>1. /\ trans \in Transactions /\ trans.ack = Nil /\ Replaced(m) = {} /\ trans # None
          /\ trans' = [trans EXCEPT !.ack = m, !.over = TRUE]
      BY <1>0, <1>2 DEF Accepts, Storing, Replaced
    <2>2. /\ trans' \in Transactions /\ trans'.request = trans.request
          /\ trans'.response = trans.response /\ trans'.ack = m
      BY <2>1 DEF Transactions
    <2>3. trans' # None
      BY <2>2, NoneIsNone
    <2>4. Held' = Held \cup {m}
      BY <2>1, <2>2, <2>3, <1>0 DEF Held
    <2> QED
      BY <2>1, <2>2, <2>4, <1>2 DEF ShapeInv
  <1>3. CASE Response(m)
    <2>1. /\ trans \in Transactions /\ Replaced(m) = {trans.response} \ {Nil} /\ trans # None
          /\ trans' = [trans EXCEPT !.response = m, !.over = @ \/ (role = "NICT" /\ Status[m] >= 200)]
      BY <1>0, <1>3 DEF Accepts, Storing, Replaced
    <2>2. /\ trans' \in Transactions /\ trans'.request = trans.request
          /\ trans'.response = m /\ trans'.ack = trans.ack
      BY <2>1 DEF Transactions
    <2>3. trans' # None
      BY <2>2, NoneIsNone
    <2>4. /\ Request(trans.request) /\ (trans.response # Nil => Response(trans.response))
          /\ trans.ack # Nil => Ack(trans.ack)
      BY <2>1 DEF ShapeInv
    <2>5. Held' = (Held \ Replaced(m)) \cup {m}
      BY <2>1, <2>2, <2>3, <2>4, <1>0 DEF Held
    <2>6. Replaced(m) \subseteq Held
      BY <2>1 DEF Held
    <2> QED
      BY <2>2, <2>4, <2>5, <2>6, <1>3
  <1> QED
    BY <1>1, <1>2, <1>3 DEF Accepts

-----------------------------------------------------------------------------
(* Counting.  What every state says of one message, with the uses as a     *)
(* number.                                                                 *)
Counts(n) ==
  /\ CountInv(n)' /\ Uses(n)' \in Nat
  /\ Uses(n)' > 0 => Uses(n) > 0 \/ n \in Held'

LEMMA CountFacts ==
  ASSUME LifeInv, Defined, NEW n \in Messages
  PROVE  /\ TypeOK /\ ShapeInv
         /\ spoilt = {} /\ count \in [Messages -> Int]
         /\ Uses(n) = UsesOf(n, place[n], waiting, maker) /\ Uses(n) \in Nat
         /\ Uses(n) <= count[n] /\ (n \notin stuck => count[n] = Uses(n))
         /\ place[n] = "none" => Uses(n) = 0
         /\ place \in [Messages -> {"none", "kept", "used", "read", "gone"}]
         /\ seen \in [Messages -> Int]
         /\ waiting \in Lines /\ maker \in Threads
PROOF
  <1>1. TypeOK /\ ShapeInv /\ CountInv(n) /\ KeptInv(n) /\ spoilt = {}
    BY DEF LifeInv, Defined
  <1>2. waiting \in Lines /\ maker \in Threads
    BY <1>1 DEF TypeOK, ShapeInv, Lines, Threads
  <1>3. Uses(n) = UsesOf(n, place[n], waiting, maker) /\ Uses(n) \in Nat
    BY <1>2, UsesAre, UsersFinite
  <1>4. /\ count \in [Messages -> Int] /\ seen \in [Messages -> Int]
        /\ place \in [Messages -> {"none", "kept", "used", "read", "gone"}]
    BY <1>1 DEF TypeOK
  <1> QED
    BY <1>1, <1>2, <1>3, <1>4 DEF CountInv, KeptInv

LEMMA CountSame ==
  ASSUME LifeInv, Defined, NEW n \in Messages, UNCHANGED <<count, connectVars, stuck>>,
         spoilt' = spoilt, place'[n] \in Using <=> place[n] \in Using
  PROVE  Counts(n)
PROOF
  <1>1. Uses(n)' = Uses(n)
    <2>1. Uses(n)' = UsesOf(n, place'[n], waiting, maker)
      BY UsesAre DEF connectVars
    <2> QED
      BY <2>1, CountFacts, SameOwnUse
  <1> QED
    BY <1>1, CountFacts DEF Counts, CountInv

LEMMA CountInsert ==
  ASSUME LifeInv, Defined, NEW m \in Messages, Insert(m), NEW n \in Messages
  PROVE  Counts(n)
PROOF
  <1>0. /\ place[m] = "none" /\ place' = [place EXCEPT ![m] = "kept"]
        /\ count' = [count EXCEPT ![m] = 1] /\ UNCHANGED <<waiting, maker, stuck>>
    BY DEF Insert, Begins, connectVars
  <1>1. Uses(n)' = UsesOf(n, place'[n], waiting, maker)
    BY <1>0, UsesAre
  <1>2. CASE n = m
    <2>1. place'[n] = "kept" /\ count'[n] = 1
      BY <1>0, <1>2, CountFacts
    <2>2. UsesOf(n, "none", waiting, maker) = UsesOf(n, "kept", waiting, maker) - 1
      BY CountFacts, EndOwnUse DEF Using
    <2>3. UsesOf(n, "none", waiting, maker) = 0
      BY <1>0, <1>2, CountFacts
    <2>4. UsesOf(n, "kept", waiting, maker) \in Nat
      BY CountFacts, UsersFinite
    <2>5. Uses(n)' = 1
      BY <1>1, <2>1, <2>2, <2>3, <2>4
    <2>6. n \in Held'
      BY <1>2, CountFacts, StoringIs DEF Insert
    <2> QED
      BY <2>1, <2>5, <2>6 DEF Counts, CountInv
  <1>3. CASE n # m
    <2>1. place'[n] = place[n] /\ count'[n] = count[n]
      BY <1>0, <1>3, CountFacts
    <2> QED
      BY <1>0, <1>1, <2>1, CountFacts DEF Counts, CountInv
  <1> QED
    BY <1>2, <1>3

LEMMA CountSend ==
  ASSUME LifeInv, Defined, NEW x \in Messages, Send(x), UNCHANGED <<spoilt, stuck>>,
         Uses(x) > 0 \/ x \in Held',
         NEW n \in Messages, place'[n] \in Using <=> place[n] \in Using
  PROVE  Counts(n)
PROOF
  <1>1. PICK d \in {0, 1} :
          /\ count' = [count EXCEPT ![x] = @ + d]
          /\ \A k \in Messages : \A p : UsesOf(k, p, waiting', maker') =
               UsesOf(k, p, waiting, maker) + (IF k = x THEN d ELSE 0)
    BY CountFacts, SendUses
  <1>2. Uses(n)' = UsesOf(n, place'[n], waiting, maker) + (IF n = x THEN d ELSE 0)
    BY <1>1, UsesAre
  <1>3. UsesOf(n, place'[n], waiting, maker) = Uses(n)
    BY CountFacts, SameOwnUse
  <1>4. count'[n] = count[n] + (IF n = x THEN d ELSE 0)
    BY <1>1, CountFacts
  <1>5. Uses(n) \in Nat /\ count[n] \in Int
    BY CountFacts
  <1>6. Uses(n)' \in Nat /\ (Uses(n)' > 0 => Uses(n) > 0 \/ n = x)
    BY <1>2, <1>3, <1>5
  <1>7. CountInv(n)'
    <2>1. Uses(n)' <= count'[n]
      BY <1>2, <1>3, <1>4, <1>5, CountFacts
    <2>2. n \notin stuck => count'[n] = Uses(n)'
      BY <1>2, <1>3, <1>4, <1>5, CountFacts
    <2> QED
      BY <2>1, <2>2 DEF CountInv
  <1> QED
    BY <1>6, <1>7 DEF Counts

LEMMA CountEndOwn ==
  ASSUME LifeInv, Defined, NEW m \in Messages, place[m] \in Using,
         place' = [place EXCEPT ![m] = "gone"], UNCHANGED connectVars,
         NEW r \in Int, count' = [count EXCEPT ![m] = r - 1], Lost(m, r), NEW n \in Messages
  PROVE  Counts(n)
PROOF
  <1>1. Uses(n)' = UsesOf(n, place'[n], waiting, maker)
    BY UsesAre DEF connectVars
  <1>2. CASE n = m
    <2>1. place'[n] = "gone" /\ count'[n] = r - 1
      BY <1>2, CountFacts
    <2>2. Uses(n)' = Uses(n) - 1 /\ Uses(n)' \in Nat
      <3>1. UsesOf(n, "gone", waiting, maker) = UsesOf(n, place[n], waiting, maker) - 1
        BY <1>2, CountFacts, EndOwnUse DEF Using
      <3>2. UsesOf(n, "gone", waiting, maker) \in Nat
        BY CountFacts, UsersFinite
      <3> QED
        BY <1>1, <2>1, <3>1, <3>2, CountFacts
    <2>3. n \notin spoilt' => count[n] <= r
      BY <1>2, CountFacts DEF Lost
    <2>4. n \notin stuck' => n \notin stuck /\ count[n] >= r
      BY <1>2, CountFacts DEF Lost
    <2>5. /\ n \notin spoilt' => Uses(n)' <= count'[n]
          /\ n \notin spoilt' /\ n \notin stuck' => count'[n] = Uses(n)'
      BY <2>1, <2>2, <2>3, <2>4, CountFacts
    <2> QED
      BY <2>2, <2>5, CountFacts DEF Counts, CountInv
  <1>3. CASE n # m
    <2>1. place'[n] = place[n] /\ count'[n] = count[n]
      BY <1>3, CountFacts
    <2>2. n \in stuck => n \in stuck'
      BY DEF Lost
    <2>3. Uses(n)' = Uses(n)
      BY <1>1, <2>1, CountFacts
    <2> QED
      BY <2>1, <2>2, <2>3, CountFacts DEF Counts, CountInv
  <1> QED
    BY <1>2, <1>3

LEMMA CountMaker ==
  ASSUME LifeInv, Defined, UNCHANGED <<place, count, stuck>>, spoilt' = spoilt,
         NEW n \in Messages,
         UsesOf(n, place[n], waiting', maker') = UsesOf(n, place[n], waiting, maker)
  PROVE  Counts(n)
PROOF
  <1>1. Uses(n)' = Uses(n)
    BY UsesAre
  <1> QED
    BY <1>1, CountFacts DEF Counts, CountInv

LEMMA CountWriteMaker ==
  ASSUME LifeInv, Defined, NEW c \in Connectors, WriteMakerCount(c), NEW n \in Messages
  PROVE  Counts(n)
PROOF
  <1>0. /\ TypeOK /\ ShapeInv /\ maker[c] # None /\ maker[c] \in Makings
        /\ count' = [count EXCEPT ![Current(c)] = maker[c].seen - 1]
        /\ Lost(Current(c), maker[c].seen)
        /\ Step(c, IF maker[c].batch = <<>> THEN None
                   ELSE [maker[c] EXCEPT !.step = "write", !.seen = 0, !.batch = Tail(@)])
        /\ UNCHANGED <<place, waiting>>
    BY CountFacts DEF WriteMakerCount, ownerVars, Threads
  <1>1. maker[c].seen \in Int
    BY <1>0 DEF Makings
  <1>2. UsesOf(n, place[n], waiting, maker') =
          UsesOf(n, place[n], waiting, maker) - (IF n = Current(c) THEN 1 ELSE 0)
    BY <1>0, DownUses
  <1>3. UsesOf(n, place[n], waiting, maker') \in Nat
    <2>1. maker' \in Threads
      <3> DEFINE r == IF maker[c].batch = <<>> THEN None
                      ELSE [maker[c] EXCEPT !.step = "write", !.seen = 0, !.batch = Tail(@)]
      <3>1. r \in {None} \cup Makings
        <4>1. CASE maker[c].batch # <<>>
          <5>1. maker[c].batch \in Seq(Messages)
            BY <1>0 DEF Makings
          <5>2. Tail(maker[c].batch) \in Seq(Messages)
            BY <4>1, <5>1
          <5>3. "write" \in {"connect", "failed", "write", "read"} /\ 0 \in Int
            OBVIOUS
          <5>4. Renewed(maker[c], "write", 0, Tail(maker[c].batch)) \in Makings
            BY <1>0, <5>2, <5>3, NextMaking, Zenon
          <5> QED
            BY <4>1, <5>4 DEF Renewed
        <4> QED
          BY <4>1
      <3> HIDE DEF r
      <3>2. maker' = [maker EXCEPT ![c] = r]
        BY <1>0 DEF Step, r
      <3> QED
        BY <3>1, <3>2, CountFacts DEF Threads
    <2> QED
      BY <2>1, CountFacts, UsersFinite
  <1>4. Uses(n)' = Uses(n) - (IF n = Current(c) THEN 1 ELSE 0) /\ Uses(n)' \in Nat
    BY <1>0, <1>2, <1>3, UsesAre
  <1>5. CASE n = Current(c)
    <2>1. count'[n] = maker[c].seen - 1
      BY <1>0, <1>5, CountFacts
    <2>3. n \notin spoilt' => count[n] <= maker[c].seen
      BY <1>0, <1>5, <1>1, CountFacts DEF Lost
    <2>4. n \notin stuck' => n \notin stuck /\ count[n] >= maker[c].seen
      BY <1>0, <1>5, <1>1, CountFacts DEF Lost
    <2>5. /\ n \notin spoilt' => Uses(n)' <= count'[n]
          /\ n \notin spoilt' /\ n \notin stuck' => count'[n] = Uses(n)'
      BY <1>1, <1>4, <1>5, <2>1, <2>3, <2>4, CountFacts
    <2> QED
      BY <1>4, <1>5, <2>5, CountFacts DEF Counts, CountInv
  <1>6. CASE n # Current(c)
    <2>1. count'[n] = count[n]
      BY <1>0, <1>6, CountFacts
    <2>2. n \in stuck => n \in stuck'
      BY <1>0 DEF Lost
    <2>3. Uses(n)' = Uses(n)
      BY <1>4, <1>6, CountFacts
    <2> QED
      BY <2>1, <2>2, <2>3, CountFacts DEF Counts, CountInv
  <1> QED
    BY <1>5, <1>6

LEMMA CountMake ==
  ASSUME LifeInv, Defined, NEW c \in Connectors, Make(c), NEW n \in Messages
  PROVE  Counts(n)
PROOF
  <1>0. TypeOK /\ ShapeInv /\ maker \in Threads
    BY CountFacts
  <1>1. CASE Connect(c) \/ TakeAfterFailure(c)
    <2>1. /\ maker[c] # None /\ maker[c].step \in {"connect", "failed"}
          /\ Step(c, Writing(c)) /\ waiting' = Nil
          /\ UNCHANGED <<place, count, stuck>> /\ spoilt' = spoilt
      BY <1>1 DEF Connect, TakeAfterFailure, ownerVars, historyVars
    <2>2. UsesOf(n, place[n], waiting', maker') = UsesOf(n, place[n], waiting, maker)
      BY <1>0, <2>1, TakeUses
    <2> QED
      BY <2>1, <2>2, CountMaker
  <1>2. CASE FailConnect(c) \/ ReadMakerCount(c)
    <2>1. /\ maker[c] # None /\ maker[c] \in Makings
          /\ UNCHANGED <<waiting, place, count, stuck>> /\ spoilt' = spoilt
      BY <1>0, <1>2 DEF FailConnect, ReadMakerCount, ownerVars, historyVars, Threads
    <2>2. PICK r \in Makings :
            r.first = maker[c].first /\ r.batch = maker[c].batch /\ Step(c, r)
      <3>1. CASE FailConnect(c)
        <4>1. [maker[c] EXCEPT !.step = "failed"] \in Makings
          BY <2>1 DEF Makings
        <4>2. /\ [maker[c] EXCEPT !.step = "failed"].first = maker[c].first
              /\ [maker[c] EXCEPT !.step = "failed"].batch = maker[c].batch
          BY <2>1 DEF Makings
        <4> QED
          BY <3>1, <4>1, <4>2 DEF FailConnect
      <3>2. CASE ReadMakerCount(c)
        <4>0. count[Current(c)] \in Int
          <5>1. Current(c) \in Messages
            <6>1. maker[c].batch \in Seq(Messages) /\ maker[c].first \in Messages
              BY <2>1 DEF Makings
            <6> QED
              BY <6>1, HeadTailProperties DEF Current
          <5> QED
            BY <5>1, CountFacts
        <4> DEFINE k == count[Current(c)]
                   r == [maker[c] EXCEPT !.step = "read", !.seen = k]
        <4>1. k \in Int
          BY <4>0
        <4>2. Step(c, r)
          BY <3>2 DEF ReadMakerCount
        <4> HIDE DEF k
        <4>3. r \in Makings /\ r.first = maker[c].first /\ r.batch = maker[c].batch
          BY <2>1, <4>1 DEF Makings
        <4> QED
          BY <4>2, <4>3
      <3> QED
        BY <1>2, <3>1, <3>2
    <2>3. UsesOf(n, place[n], waiting, maker') = UsesOf(n, place[n], waiting, maker)
      BY <1>0, <2>1, <2>2, SameStepUses
    <2> QED
      BY <2>1, <2>3, CountMaker
  <1>3. CASE WriteMakerCount(c)
    BY <1>3, CountWriteMaker
  <1>4. CASE Abandon(c)
    <2>1. /\ maker[c] # None /\ Step(c, [maker[c] EXCEPT !.batch = <<>>])
          /\ UNCHANGED <<waiting, place, count>>
          /\ spoilt' = spoilt \cup ToSet(maker[c].batch)
          /\ stuck' = stuck \cup ToSet(maker[c].batch)
      BY <1>4 DEF Abandon, ownerVars
    <2>2. /\ UsesOf(n, place[n], waiting, maker') <= UsesOf(n, place[n], waiting, maker)
          /\ n \notin ToSet(maker[c].batch) =>
               UsesOf(n, place[n], waiting, maker') = UsesOf(n, place[n], waiting, maker)
      BY <1>0, <2>1, DropUses
    <2>3. Uses(n)' = UsesOf(n, place[n], waiting, maker')
      BY <2>1, UsesAre
    <2>4. Uses(n)' \in Nat
      <3>1. maker' \in Threads
        <4>1. maker[c] \in Makings /\ <<>> \in Seq(Messages)
          BY <1>0, <2>1 DEF Threads
        <4>2. [maker[c] EXCEPT !.batch = <<>>] \in Makings
          BY <4>1 DEF Makings
        <4> QED
          BY <1>0, <2>1, <4>2 DEF Step, Threads
      <3> QED
        BY <2>3, <3>1, CountFacts, UsersFinite
    <2> QED
      BY <2>1, <2>2, <2>3, <2>4, CountFacts DEF Counts, CountInv
  <1> QED
    BY <1>1, <1>2, <1>3, <1>4 DEF Make

LEMMA CountNext ==
  ASSUME LifeInv, Next, NEW n \in Messages
  PROVE  Counts(n)
PROOF
  <1>0. Defined
    BY DEF Next, Progress
  <1>1. ASSUME NEW m \in Messages, Handle(m) PROVE Counts(n)
    <2>0. ~(Insert(m)) =>
            /\ place[m] = "none" /\ place' = [place EXCEPT ![m] = "gone"]
            /\ UNCHANGED <<spoilt, stuck>>
      BY <1>1 DEF Handle, DiscardAckOfRefusal, DiscardRepeated, DiscardOther, Discard, Begins
    <2>1. ~(Insert(m)) => (place'[n] \in Using <=> place[n] \in Using)
      BY <2>0, <1>0, CountFacts DEF Using
    <2>2. CASE Insert(m)
      BY <1>0, <2>2, CountInsert
    <2>3. CASE ~Insert(m) /\ (DiscardAckOfRefusal(m) \/ DiscardOther(m))
      <3>1. UNCHANGED <<count, connectVars, stuck>>
        BY <2>0, <2>3 DEF DiscardAckOfRefusal, DiscardOther
      <3> QED
        BY <1>0, <2>0, <2>1, <2>3, <3>1, CountSame
    <2>4. CASE ~Insert(m) /\ DiscardRepeated(m)
      <3>1. trans' = trans /\ Answered /\ Send(trans.response)
        BY <2>4 DEF DiscardRepeated, Repeats
      <3>2. trans.response \in Held' /\ trans.response \in Messages
        BY <1>0, <3>1, CountFacts, HeldIs DEF Held, Answered
      <3> QED
        BY <1>0, <2>0, <2>1, <2>4, <3>1, <3>2, CountSend
    <2> QED
      BY <1>1, <2>2, <2>3, <2>4 DEF Handle
  <1>2. ASSUME NEW m \in Messages, Finish(m) PROVE Counts(n)
    <2>1. CASE CountDown(m)
      <3>1. Lost(m, count[m])
        BY <1>0, <2>1, CountFacts DEF CountDown, Lost, historyVars
      <3>2. count[m] \in Int
        BY <1>0, CountFacts
      <3>3. /\ place[m] \in Using /\ place' = [place EXCEPT ![m] = "gone"]
            /\ UNCHANGED connectVars /\ count' = [count EXCEPT ![m] = count[m] - 1]
        BY <2>1 DEF CountDown, Using
      <3> QED
        BY <1>0, <3>1, <3>2, <3>3, CountEndOwn
    <2>2. CASE Use(m)
      <3>1. Uses(m) > 0
        <4>1. UsesOf(m, "gone", waiting, maker) = UsesOf(m, place[m], waiting, maker) - 1
          BY <1>0, <2>2, CountFacts, EndOwnUse DEF Use, Using
        <4>2. UsesOf(m, "gone", waiting, maker) \in Nat
          BY <1>0, CountFacts, UsersFinite
        <4> QED
          BY <1>0, <4>1, <4>2, CountFacts
      <3>2. place'[n] \in Using <=> place[n] \in Using
        BY <1>0, <2>2, CountFacts DEF Use, Using
      <3> QED
        BY <1>0, <2>2, <3>1, <3>2, CountSend DEF Use, historyVars
    <2>3. CASE ReadCount(m)
      <3>1. place'[n] \in Using <=> place[n] \in Using
        BY <1>0, <2>3, CountFacts DEF ReadCount, Using
      <3> QED
        BY <1>0, <2>3, <3>1, CountSame DEF ReadCount, historyVars
    <2>4. CASE WriteCount(m)
      <3>1. /\ place[m] \in Using /\ place' = [place EXCEPT ![m] = "gone"]
            /\ UNCHANGED connectVars /\ count' = [count EXCEPT ![m] = seen[m] - 1]
            /\ Lost(m, seen[m])
        BY <2>4 DEF WriteCount, Using
      <3>2. seen[m] \in Int
        BY <1>0, CountFacts
      <3> QED
        BY <1>0, <3>1, <3>2, CountEndOwn
    <2> QED
      BY <1>2, <2>1, <2>2, <2>3, <2>4 DEF Finish
  <1>3. ASSUME NEW c \in Connectors, Make(c) PROVE Counts(n)
    BY <1>0, <1>3, CountMake
  <1>4. CASE Delete \/ GiveUp \/ Stop \/ SendTimeout \/ DeleteTimeout \/ DeleteAll
    <2>1. UNCHANGED <<count, connectVars, stuck, place>> /\ spoilt' = spoilt
      BY <1>4 DEF Delete, GiveUp, Stop, SendTimeout, DeleteTimeout, DeleteAll, ownerVars,
                  historyVars
    <2> QED
      BY <1>0, <2>1, CountSame
  <1> QED
    BY <1>1, <1>2, <1>3, <1>4 DEF Next, Progress

-----------------------------------------------------------------------------
(* Keeping.  The delete queue.                                             *)
LEMMA SetToSeqIs ==
  ASSUME NEW S, IsFiniteSet(S)
  PROVE  /\ SetToSeq(S) \in Seq(S) /\ IsInjective(SetToSeq(S))
         /\ ToSet(SetToSeq(S)) = S
PROOF
  <1> DEFINE n == Cardinality(S)
  <1>1. n \in Nat /\ ExistsBijection(1 .. n, S)
    BY FS_CardinalityType
  <1>2. \E f \in [1 .. n -> S] : IsInjective(f)
    BY <1>1 DEF ExistsBijection, Bijection, Injection
  <1>3. SetToSeq(S) \in [1 .. n -> S] /\ IsInjective(SetToSeq(S))
    BY <1>2 DEF SetToSeq
  <1> DEFINE q == SetToSeq(S)
  <1> HIDE DEF q, n
  <1>4. q \in [1 .. n -> S] /\ IsInjective(q)
    BY <1>3 DEF q, n
  <1>5. q \in Seq(S)
    BY <1>1, <1>4
  <1>6. IsFiniteSet(1 .. n) /\ Cardinality(1 .. n) = n
    BY <1>1, FS_Interval
  <1>7. q \in Surjection(1 .. n, S)
    <2>1. q \in Injection(1 .. n, S)
      BY <1>4 DEF Injection
    <2>2. Cardinality(1 .. n) = Cardinality(S)
      BY <1>6 DEF n
    <2> QED
      BY <2>1, <2>2, FS_Injection
  <1>8. ToSet(q) = S
    BY <1>4, <1>7 DEF Surjection, ToSet
  <1> QED
    BY <1>4, <1>5, <1>8 DEF q

LEMMA QueuedBehind ==
  ASSUME NEW q \in Seq(Messages), IsInjective(q), NEW S \in SUBSET Messages, IsFiniteSet(S),
         ToSet(q) \cap S = {}
  PROVE  LET r == q \o SetToSeq(S) IN
         r \in Seq(Messages) /\ IsInjective(r) /\ ToSet(r) = ToSet(q) \cup S
PROOF
  <1> DEFINE t == SetToSeq(S)
             r == q \o t
  <1>1. t \in Seq(S) /\ IsInjective(t) /\ ToSet(t) = S
    BY SetToSeqIs
  <1>2. t \in Seq(Messages)
    BY <1>1, SeqMonotonic
  <1> HIDE DEF t
  <1>3. /\ r \in Seq(Messages) /\ DOMAIN r = 1 .. Len(q) + Len(t)
        /\ \A i \in 1 .. Len(q) + Len(t) : r[i] = IF i <= Len(q) THEN q[i] ELSE t[i - Len(q)]
    BY <1>2, ConcatProperties, LenProperties
  <1>4. /\ Len(q) \in Nat /\ Len(t) \in Nat /\ DOMAIN q = 1 .. Len(q) /\ DOMAIN t = 1 .. Len(t)
    BY <1>2, LenProperties
  <1> HIDE DEF r
  <1>5. \A i \in 1 .. Len(q) : i \in DOMAIN r /\ r[i] = q[i]
    BY <1>3, <1>4
  <1>6. \A i \in 1 .. Len(t) : i + Len(q) \in DOMAIN r /\ r[i + Len(q)] = t[i]
    <2> TAKE i \in 1 .. Len(t)
    <2>1. i + Len(q) \in 1 .. Len(q) + Len(t) /\ ~(i + Len(q) <= Len(q)) /\ (i + Len(q)) - Len(q) = i
      BY <1>4
    <2> QED
      BY <2>1, <1>3
  <1>7. \A i \in DOMAIN r : \/ i \in 1 .. Len(q) /\ r[i] = q[i]
                            \/ i - Len(q) \in 1 .. Len(t) /\ r[i] = t[i - Len(q)]
    BY <1>3, <1>4
  <1>8. ToSet(r) = ToSet(q) \cup S
    <2>1. ToSet(r) \subseteq ToSet(q) \cup S
      BY <1>1, <1>4, <1>7 DEF ToSet
    <2>2. ToSet(q) \subseteq ToSet(r)
      BY <1>4, <1>5 DEF ToSet
    <2>3. S \subseteq ToSet(r)
      BY <1>1, <1>4, <1>6 DEF ToSet
    <2> QED
      BY <2>1, <2>2, <2>3
  <1>9. ASSUME NEW i \in DOMAIN r, NEW j \in DOMAIN r, r[i] = r[j] PROVE i = j
    <2>1. CASE i \in 1 .. Len(q) /\ j \in 1 .. Len(q)
      BY <2>1, <1>4, <1>5, <1>9 DEF IsInjective
    <2>2. CASE i \notin 1 .. Len(q) /\ j \notin 1 .. Len(q)
      <3>1. /\ i - Len(q) \in DOMAIN t /\ j - Len(q) \in DOMAIN t
            /\ t[i - Len(q)] = t[j - Len(q)]
        BY <2>2, <1>4, <1>7, <1>9
      <3>2. i - Len(q) = j - Len(q)
        BY <3>1, <1>1 DEF IsInjective
      <3>3. i \in Int /\ j \in Int
        BY <1>3, <1>4
      <3> QED
        BY <3>2, <3>3, <1>4
    <2>3. CASE i \in 1 .. Len(q) /\ j \notin 1 .. Len(q)
      <3>1. r[i] \in ToSet(q) /\ r[j] \in ToSet(t)
        BY <2>3, <1>4, <1>5, <1>7 DEF ToSet
      <3> QED
        BY <3>1, <1>1, <1>9
    <2>4. CASE j \in 1 .. Len(q) /\ i \notin 1 .. Len(q)
      <3>1. r[j] \in ToSet(q) /\ r[i] \in ToSet(t)
        BY <2>4, <1>4, <1>5, <1>7 DEF ToSet
      <3> QED
        BY <3>1, <1>1, <1>9
    <2> QED
      BY <2>1, <2>2, <2>3, <2>4
  <1>10. IsInjective(r)
    BY <1>9 DEF IsInjective
  <1> QED
    BY <1>3, <1>8, <1>10 DEF r, t

LEMMA DroppedFront ==
  ASSUME NEW q \in Seq(Messages), IsInjective(q), NEW n \in 1 .. Len(q)
  PROVE  LET r == SubSeq(q, n + 1, Len(q)) IN
         /\ r \in Seq(Messages) /\ IsInjective(r)
         /\ ToSet(r) = ToSet(q) \ {q[i] : i \in 1 .. n}
PROOF
  <1> DEFINE r == SubSeq(q, n + 1, Len(q))
  <1>1. Len(q) \in Nat /\ DOMAIN q = 1 .. Len(q) /\ n \in Nat /\ n >= 1 /\ n <= Len(q)
    BY LenProperties
  <1>2. \A i \in n + 1 .. Len(q) : q[i] \in Messages
    BY <1>1, ElementOfSeq
  <1>3. /\ r \in Seq(Messages) /\ Len(r) = IF n + 1 <= Len(q) THEN Len(q) - (n + 1) + 1 ELSE 0
        /\ \A i \in 1 .. Len(q) - (n + 1) + 1 : r[i] = q[(n + 1) + i - 1]
    BY <1>1, <1>2, SubSeqProperties
  <1> HIDE DEF r
  <1>4. DOMAIN r = 1 .. Len(q) - n
    <2>1. Len(r) = Len(q) - n
      BY <1>1, <1>3
    <2> QED
      BY <2>1, <1>3, LenProperties
  <1>5. \A i \in 1 .. Len(q) - n : n + i \in 1 .. Len(q) /\ n + i \notin 1 .. n /\ r[i] = q[n + i]
    <2> TAKE i \in 1 .. Len(q) - n
    <2>1. (n + 1) + i - 1 = n + i /\ i \in 1 .. Len(q) - (n + 1) + 1
      BY <1>1
    <2>2. r[i] = q[n + i]
      BY <2>1, <1>3
    <2>3. n + i \in 1 .. Len(q) /\ n + i \notin 1 .. n
      BY <1>1
    <2> QED
      BY <2>2, <2>3
  <1>6. IsInjective(r)
    BY <1>1, <1>4, <1>5 DEF IsInjective
  <1>7. \A i \in 1 .. Len(q) : i \notin 1 .. n => i - n \in 1 .. Len(q) - n /\ n + (i - n) = i
    BY <1>1
  <1>8. ToSet(r) \subseteq ToSet(q) \ {q[i] : i \in 1 .. n}
    <2> SUFFICES ASSUME NEW i \in 1 .. Len(q) - n
                 PROVE  r[i] \in ToSet(q) /\ ~\E j \in 1 .. n : r[i] = q[j]
      BY <1>4 DEF ToSet
    <2>1. r[i] = q[n + i] /\ n + i \in DOMAIN q /\ n + i \notin 1 .. n
      BY <1>1, <1>5
    <2>2. \A j \in 1 .. n : j \in DOMAIN q
      BY <1>1
    <2> QED
      BY <2>1, <2>2 DEF ToSet, IsInjective
  <1>9. ToSet(q) \ {q[i] : i \in 1 .. n} \subseteq ToSet(r)
    <2> SUFFICES ASSUME NEW i \in 1 .. Len(q), i \notin 1 .. n PROVE q[i] \in ToSet(r)
      BY <1>1 DEF ToSet
    <2>1. i - n \in DOMAIN r /\ r[i - n] = q[i]
      BY <1>4, <1>5, <1>7
    <2> QED
      BY <2>1 DEF ToSet
  <1> QED
    BY <1>3, <1>6, <1>8, <1>9 DEF r

(* Retire of messages of the transaction puts those in use into the queue, *)
(* and deletes none twice.                                                 *)
LEMMA RetireIs ==
  ASSUME LifeInv, Defined, NEW s, s \subseteq Held, Retire(s)
  PROVE  /\ queue' \in Seq(Messages) /\ IsInjective(queue')
         /\ ToSet(queue') = ToSet(queue) \cup (s \ Unused(s))
         /\ twice' = twice
         /\ Unused(s) \subseteq s
         /\ \A n \in Unused(s) : n \in Messages /\ Uses(n) = 0
PROOF
  <1>1. /\ TypeOK /\ \A n \in Messages : KeptInv(n) /\ CountInv(n)
        /\ spoilt = {}
    BY DEF LifeInv, Defined
  <1>2. /\ queue \in Seq(Messages) /\ IsInjective(queue) /\ ToSet(queue) \cap Held = {}
        /\ Held \subseteq Messages
    BY <1>1, HeldIs DEF TypeOK
  <1>3. IsFiniteSet(Held)
    <2>1. IsFiniteSet({trans.request, trans.response, trans.ack})
      <3>1. IsFiniteSet({trans.request} \cup {trans.response})
        BY FS_Singleton, FS_AddElement
      <3>2. IsFiniteSet(({trans.request} \cup {trans.response}) \cup {trans.ack})
        BY <3>1, FS_AddElement
      <3>3. ({trans.request} \cup {trans.response}) \cup {trans.ack} =
              {trans.request, trans.response, trans.ack}
        OBVIOUS
      <3> QED
        BY <3>2, <3>3
    <2>2. Held \subseteq {trans.request, trans.response, trans.ack}
      BY DEF Held
    <2> QED
      BY <2>1, <2>2, FS_Subset
  <1> DEFINE S == s \ Unused(s)
  <1>4. S \in SUBSET Messages /\ IsFiniteSet(S) /\ ToSet(queue) \cap S = {}
    <2>1. S \in SUBSET Held
      OBVIOUS
    <2> QED
      BY <2>1, <1>2, <1>3, FS_Subset
  <1>5. queue' = queue \o SetToSeq(S)
    BY DEF Retire
  <1> HIDE DEF S
  <1>6. queue' \in Seq(Messages) /\ IsInjective(queue') /\ ToSet(queue') = ToSet(queue) \cup S
    BY <1>2, <1>4, <1>5, QueuedBehind
  <1>7. twice' = twice
    <2>1. \A n \in s : obj[n] = "live"
      BY <1>1, <1>2 DEF KeptInv, Kept
    <2>2. \A n \in Unused(s) : obj[n] # "freed"
      BY <2>1 DEF Unused
    <2>3. TwiceFreed(Unused(s)) = twice
      BY <2>2 DEF TwiceFreed
    <2> QED
      BY <2>3 DEF Retire
  <1>8. \A n \in Unused(s) : n \in Messages /\ n \in s /\ Uses(n) = 0
    <2> TAKE n \in Unused(s)
    <2>1. n \in s /\ n \in Messages /\ count[n] = 0
      BY <1>2 DEF Unused
    <2>2. Uses(n) <= 0
      BY <2>1, <1>1 DEF CountInv
    <2>3. Uses(n) \in Nat
      BY <2>1, CountFacts
    <2> QED
      BY <2>1, <2>2, <2>3
  <1> QED
    BY <1>6, <1>7, <1>8 DEF S

(* A step that deletes F, takes N and deletes D, which it did not take.    *)
LEMMA KeptShape ==
  ASSUME LifeInv, Defined, NEW n \in Messages, Counts(n), NEW F, NEW N, NEW D,
         Kept' = (Kept \ F) \cup N,
         n \in N => obj'[n] = "live",
         n \in F \cup D => obj'[n] = "freed",
         n \notin N \cup F \cup D => obj'[n] = obj[n],
         n \in F => n \in Kept /\ (Uses(n) = 0 \/ run' = "stopped"),
         n \in N \cup D => place[n] = "none" /\ place'[n] # "none",
         n \notin N \cup D => (place'[n] = "none" <=> place[n] = "none"),
         twice' = twice, n \in spoilt => n \in spoilt', run' # "stopped" => run # "stopped"
  PROVE  KeptInv(n)'
PROOF
  <1>1. KeptInv(n) /\ spoilt = {}
    BY DEF LifeInv, Defined
  <1>2. Uses(n) \in Nat /\ Uses(n)' \in Nat /\ (Uses(n)' > 0 => Uses(n) > 0 \/ n \in Held')
    BY CountFacts DEF Counts
  <1>3. Held' \subseteq Kept'
    BY DEF Kept
  <1>4. (obj[n] = "none" <=> place[n] = "none")' 
    BY <1>1 DEF KeptInv
  <1>5. place'[n] = "none" => n \notin Kept' /\ Uses(n)' = 0
    BY <1>1, <1>2, <1>3 DEF KeptInv
  <1>6. obj'[n] = "live" => n \in Kept'
    BY <1>1 DEF KeptInv
  <1>7. n \notin spoilt' => n \notin twice'
    BY <1>1 DEF KeptInv
  <1>8. n \in Kept' => obj'[n] = "live"
    BY <1>1 DEF KeptInv
  <1>9. Uses(n)' > 0 /\ run' # "stopped" => n \in Kept'
    BY <1>1, <1>2, <1>3 DEF KeptInv
  <1> QED
    BY <1>4, <1>5, <1>6, <1>7, <1>8, <1>9 DEF KeptInv

(* A step that leaves alone who keeps what.                                *)
LEMMA KeptSame ==
  ASSUME LifeInv, Defined, NEW n \in Messages, Counts(n),
         Held' = Held, UNCHANGED <<obj, queue, twice>>,
         place'[n] = "none" <=> place[n] = "none", n \in spoilt => n \in spoilt',
         run' # "stopped" => run # "stopped"
  PROVE  KeptInv(n)'
PROOF
  <1>1. KeptInv(n) /\ spoilt = {}
    BY DEF LifeInv, Defined
  <1>2. Uses(n) \in Nat /\ Uses(n)' \in Nat /\ (Uses(n)' > 0 => Uses(n) > 0 \/ n \in Held)
    BY CountFacts DEF Counts
  <1>3. Kept' = Kept /\ Held \subseteq Kept
    BY DEF Kept
  <1> QED
    BY <1>1, <1>2, <1>3 DEF KeptInv

LEMMA KeptHandle ==
  ASSUME LifeInv, Defined, NEW m \in Messages, Handle(m), NEW n \in Messages, Counts(n)
  PROVE  KeptInv(n)'
PROOF
  <1>0. /\ TypeOK /\ ShapeInv /\ place[m] = "none" /\ m \notin Kept
        /\ spoilt \subseteq spoilt' /\ run' = run
        /\ obj \in [Messages -> {"none", "live", "freed"}]
        /\ place \in [Messages -> {"none", "kept", "used", "read", "gone"}]
    <2>1. /\ place[m] = "none" /\ spoilt \subseteq spoilt' /\ run' = run
      BY DEF Handle, Insert, DiscardAckOfRefusal, DiscardRepeated, DiscardOther, Discard, Begins
    <2>2. TypeOK /\ ShapeInv /\ KeptInv(m)
      BY DEF LifeInv
    <2> QED
      BY <2>1, <2>2 DEF KeptInv, TypeOK
  <1>1. CASE Insert(m)
    <2> DEFINE F == Unused(Replaced(m))
    <2>1. /\ Held' = (Held \ Replaced(m)) \cup {m} /\ Replaced(m) \subseteq Held
      BY <1>0, <1>1, StoringIs DEF Insert
    <2>2. /\ ToSet(queue') = ToSet(queue) \cup (Replaced(m) \ F)
          /\ twice' = twice /\ F \subseteq Replaced(m)
          /\ \A k \in F : Uses(k) = 0
      BY <1>1, <2>1, RetireIs DEF Insert
    <2>3. /\ obj' = FreedAndNew(F, m) /\ place' = [place EXCEPT ![m] = "kept"]
      BY <1>1 DEF Insert
    <2> HIDE DEF F
    <2>4. ToSet(queue) \cap Held = {}
      BY <1>0 DEF TypeOK
    <2>5. Kept' = (Kept \ F) \cup {m}
      BY <2>1, <2>2, <2>4 DEF Kept
    <2>6. m \notin F /\ F \subseteq Kept
      BY <1>0, <2>1, <2>2 DEF Kept
    <2>7. /\ n = m => obj'[n] = "live"
          /\ n \in F => obj'[n] = "freed"
          /\ n \notin {m} \cup F => obj'[n] = obj[n]
      BY <1>0, <2>3, <2>6 DEF FreedAndNew, Freed
    <2>8. /\ n = m => place[n] = "none" /\ place'[n] # "none"
          /\ n # m => place'[n] = place[n]
      BY <1>0, <2>3
    <2> QED
      BY <1>0, <2>2, <2>5, <2>6, <2>7, <2>8, KeptShape
  <1>2. CASE DiscardAckOfRefusal(m)
    <2> DEFINE F == Unused(Held)
    <2>1. /\ ToSet(queue') = ToSet(queue) \cup (Held \ F)
          /\ twice' = twice /\ F \subseteq Held
          /\ \A k \in F : Uses(k) = 0
      BY <1>2, RetireIs DEF DiscardAckOfRefusal
    <2>2. /\ obj' = Freed(F \cup {m}) /\ place' = [place EXCEPT ![m] = "gone"] /\ trans' = None
      BY <1>2 DEF DiscardAckOfRefusal, Discard
    <2> HIDE DEF F
    <2>3. Held' = {} /\ ToSet(queue) \cap Held = {}
      BY <1>0, <2>2 DEF Held, TypeOK
    <2>4. Kept' = (Kept \ F) \cup {}
      BY <2>1, <2>3 DEF Kept
    <2>5. F \subseteq Kept
      BY <2>1 DEF Kept
    <2>6. /\ n \in F \cup {m} => obj'[n] = "freed"
          /\ n \notin F \cup {m} => obj'[n] = obj[n]
      BY <2>2 DEF Freed
    <2>7. /\ n = m => place[n] = "none" /\ place'[n] # "none"
          /\ n # m => place'[n] = place[n]
      BY <1>0, <2>2
    <2> QED
      BY <1>0, <2>1, <2>4, <2>5, <2>6, <2>7, KeptShape
  <1>3. CASE DiscardRepeated(m) \/ DiscardOther(m)
    <2>1. /\ obj' = Freed({m}) /\ place' = [place EXCEPT ![m] = "gone"]
          /\ UNCHANGED <<twice, queue, trans>>
      BY <1>3 DEF DiscardRepeated, DiscardOther, Discard
    <2>2. Kept' = (Kept \ {}) \cup {}
      BY <2>1 DEF Kept, Held
    <2>3. /\ n = m => obj'[n] = "freed"
          /\ n # m => obj'[n] = obj[n]
      BY <2>1 DEF Freed
    <2>4. /\ n = m => place[n] = "none" /\ place'[n] # "none"
          /\ n # m => place'[n] = place[n]
      BY <1>0, <2>1
    <2> QED
      BY <1>0, <2>1, <2>2, <2>3, <2>4, KeptShape
  <1> QED
    BY <1>1, <1>2, <1>3 DEF Handle

LEMMA KeptNext ==
  ASSUME LifeInv, Next, NEW n \in Messages
  PROVE  KeptInv(n)'
PROOF
  <1>0. /\ Defined /\ TypeOK /\ ShapeInv
        /\ obj \in [Messages -> {"none", "live", "freed"}]
        /\ place \in [Messages -> {"none", "kept", "used", "read", "gone"}]
    BY DEF Next, Progress, LifeInv, TypeOK
  <1>1. Counts(n)
    BY CountNext
  <1>2. ASSUME NEW m \in Messages, Handle(m) PROVE KeptInv(n)'
    BY <1>0, <1>1, <1>2, KeptHandle
  <1>3. ASSUME NEW m \in Messages, Finish(m) PROVE KeptInv(n)'
    <2>1. /\ UNCHANGED <<obj, queue, twice, trans, run>>
          /\ place[m] # "none" /\ \E p \in {"used", "read", "gone"} : place' = [place EXCEPT ![m] = p]
          /\ n \in spoilt => n \in spoilt'
      BY <1>3 DEF Finish, CountDown, Use, ReadCount, WriteCount, historyVars, Lost
    <2>2. place'[n] = "none" <=> place[n] = "none"
      BY <1>0, <2>1
    <2> QED
      BY <1>0, <1>1, <2>1, <2>2, KeptSame DEF Held
  <1>4. ASSUME NEW c \in Connectors, Make(c) PROVE KeptInv(n)'
    <2>1. CASE Abandon(c)
      <3> DEFINE rest == ToSet(maker[c].batch)
      <3>1. /\ maker[c] # None /\ Step(c, [maker[c] EXCEPT !.batch = <<>>])
            /\ obj' = Freed(rest) /\ twice' = TwiceFreed(rest) /\ spoilt' = spoilt \cup rest
            /\ UNCHANGED <<place, trans, queue, run>>
        BY <2>1 DEF Abandon, ownerVars
      <3>2. n \in rest => Uses(n) > 0
        <4>1. n \in rest => UsesOf(n, place[n], waiting, maker) > 0
          BY <1>0, <3>1, DropUses
        <4> QED
          BY <1>0, <4>1, CountFacts
      <3> HIDE DEF rest
      <3>3. /\ n \in rest => obj'[n] = "freed" /\ n \in spoilt'
            /\ n \notin rest => obj'[n] = obj[n] /\ (n \in twice' => n \in twice)
        BY <3>1 DEF Freed, TwiceFreed
      <3>4. KeptInv(n) /\ spoilt = {}
        BY <1>0 DEF LifeInv, Defined
      <3>5. /\ Uses(n) \in Nat /\ Uses(n)' \in Nat /\ (Uses(n)' > 0 => Uses(n) > 0 \/ n \in Held)
            /\ Kept' = Kept /\ Held \subseteq Kept
        BY <1>0, <1>1, <3>1, CountFacts DEF Counts, Held, Kept
      <3>6. CASE n \in rest
        BY <3>1, <3>2, <3>3, <3>4, <3>5, <3>6 DEF KeptInv
      <3>7. CASE n \notin rest
        BY <3>1, <3>3, <3>4, <3>5, <3>7 DEF KeptInv
      <3> QED
        BY <3>6, <3>7
    <2>2. CASE ~Abandon(c)
      <3>1. /\ UNCHANGED <<obj, queue, twice, trans, run, place>>
            /\ n \in spoilt => n \in spoilt'
        BY <1>4, <2>2 DEF Make, Connect, FailConnect, TakeAfterFailure, ReadMakerCount,
                          WriteMakerCount, historyVars, ownerVars, Lost
      <3> QED
        BY <1>0, <1>1, <3>1, KeptSame DEF Held
    <2> QED
      BY <2>1, <2>2
  <1>5. CASE Delete
    <2> DEFINE F == Unused(Held)
    <2>1. /\ ToSet(queue') = ToSet(queue) \cup (Held \ F)
          /\ twice' = twice /\ F \subseteq Held
          /\ \A k \in F : Uses(k) = 0
      BY <1>0, <1>5, RetireIs DEF Delete
    <2>2. /\ obj' = Freed(F) /\ trans' = None /\ UNCHANGED <<place, spoilt, run>>
      BY <1>5 DEF Delete, ownerVars
    <2> HIDE DEF F
    <2>3. Held' = {} /\ ToSet(queue) \cap Held = {}
      BY <1>0, <2>2 DEF Held, TypeOK
    <2>4. Kept' = (Kept \ F) \cup {}
      BY <2>1, <2>3 DEF Kept
    <2>5. F \subseteq Kept
      BY <2>1 DEF Kept
    <2>6. /\ n \in F => obj'[n] = "freed"
          /\ n \notin F => obj'[n] = obj[n]
      BY <2>2 DEF Freed
    <2> QED
      BY <1>0, <1>1, <2>1, <2>2, <2>4, <2>5, <2>6, KeptShape
  <1>6. CASE DeleteTimeout
    <2>1. PICK k \in 1 .. Len(queue) :
            LET due == {queue[i] : i \in 1 .. k} IN
            /\ \A m \in due : Deletable(m)
            /\ obj' = Freed(due) /\ twice' = TwiceFreed(due)
            /\ queue' = SubSeq(queue, k + 1, Len(queue))
      BY <1>6 DEF DeleteTimeout
    <2> DEFINE F == {queue[i] : i \in 1 .. k}
    <2>2. queue \in Seq(Messages) /\ IsInjective(queue)
      BY <1>0 DEF TypeOK
    <2>3. ToSet(queue') = ToSet(queue) \ F
      BY <2>1, <2>2, DroppedFront
    <2>4. F \subseteq ToSet(queue) /\ F \subseteq Messages
      BY <2>2 DEF ToSet
    <2>5. (\A m \in F : count[m] <= 0) /\ obj' = Freed(F) /\ twice' = TwiceFreed(F)
      BY <2>1 DEF Deletable
    <2>6. UNCHANGED <<trans, place, spoilt, run>>
      BY <1>6 DEF DeleteTimeout, ownerVars
    <2> HIDE DEF F
    <2>7. \A m \in F : obj[m] = "live"
      BY <1>0, <2>4 DEF LifeInv, KeptInv, Kept, Defined
    <2>8. twice' = twice
      BY <2>5, <2>7 DEF TwiceFreed
    <2>9. n \in F => Uses(n) = 0
      BY <1>0, <2>5, CountFacts
    <2>10. Kept' = (Kept \ F) \cup {}
      <3>1. ToSet(queue) \cap Held = {}
        BY <1>0 DEF TypeOK
      <3>2. Held' = Held
        BY <2>6 DEF Held
      <3> QED
        BY <2>3, <2>4, <3>1, <3>2 DEF Kept
    <2>11. F \subseteq Kept
      BY <2>4 DEF Kept
    <2>12. /\ n \in F => obj'[n] = "freed"
           /\ n \notin F => obj'[n] = obj[n]
      BY <2>5 DEF Freed
    <2> QED
      BY <1>0, <1>1, <2>6, <2>8, <2>9, <2>10, <2>11, <2>12, KeptShape
  <1>7. CASE DeleteAll
    <2>1. /\ obj' = Freed(Kept) /\ twice' = TwiceFreed(Kept) /\ trans' = None /\ queue' = <<>>
          /\ run' = "stopped" /\ UNCHANGED <<place, spoilt>>
      BY <1>7 DEF DeleteAll, Kept, ownerVars
    <2>2. Kept' = (Kept \ Kept) \cup {}
      BY <2>1 DEF Kept, Held, ToSet
    <2>3. Kept \subseteq Messages
      BY <1>0, HeldIs
    <2>4. \A m \in Kept : obj[m] = "live"
      BY <1>0, <2>3 DEF LifeInv, KeptInv, Defined
    <2>5. twice' = twice
      BY <2>1, <2>4 DEF TwiceFreed
    <2>6. /\ n \in Kept => obj'[n] = "freed"
          /\ n \notin Kept => obj'[n] = obj[n]
      BY <2>1 DEF Freed
    <2> QED
      BY <1>0, <1>1, <2>1, <2>2, <2>5, <2>6, KeptShape
  <1>8. CASE GiveUp \/ SendTimeout \/ Stop
    <2>1. /\ UNCHANGED <<obj, queue, twice, place, spoilt>> /\ (run' # "stopped" => run # "stopped")
      BY <1>8 DEF GiveUp, SendTimeout, Stop, ownerVars, historyVars
    <2>2. Held' = Held
      <3>1. CASE GiveUp
        <4>1. trans # None /\ trans' = [trans EXCEPT !.over = TRUE]
          BY <3>1 DEF GiveUp, Answered
        <4>2. trans \in Transactions
          BY <1>0, <4>1, HeldIs
        <4>3. /\ trans'.request = trans.request /\ trans'.response = trans.response
              /\ trans'.ack = trans.ack /\ trans' \in Transactions
          BY <4>1, <4>2 DEF Transactions
        <4>4. trans' # None
          BY <4>3, NoneIsNone
        <4> QED
          BY <4>1, <4>3, <4>4 DEF Held
      <3>2. CASE SendTimeout \/ Stop
        BY <3>2 DEF SendTimeout, Stop, Held
      <3> QED
        BY <1>8, <3>1, <3>2
    <2> QED
      BY <1>0, <1>1, <2>1, <2>2, KeptSame
  <1> QED
    BY <1>2, <1>3, <1>4, <1>5, <1>6, <1>7, <1>8 DEF Next, Progress

-----------------------------------------------------------------------------
(* Types.                                                                  *)
LEMMA FreedType ==
  ASSUME NEW s, NEW m \in Messages, obj \in [Messages -> {"none", "live", "freed"}]
  PROVE  /\ Freed(s) \in [Messages -> {"none", "live", "freed"}]
         /\ FreedAndNew(s, m) \in [Messages -> {"none", "live", "freed"}]
PROOF
  <1>1. Freed(s) \in [Messages -> {"none", "live", "freed"}]
    BY DEF Freed
  <1> QED
    BY <1>1 DEF FreedAndNew

(* What Send does.                                                         *)
LEMMA SendType ==
  ASSUME LifeInv, Defined, NEW x \in Messages, Send(x)
  PROVE  /\ count' \in [Messages -> Int] /\ waiting' \in Lines /\ maker' \in Threads
         /\ \A c \in Connectors :
              maker'[c] # None /\ maker'[c].step \in {"connect", "failed"} =>
                maker'[c].batch = <<>>
PROOF
  <1>1. /\ count \in [Messages -> Int] /\ waiting \in Lines /\ maker \in Threads
        /\ ShapeInv
    BY CountFacts
  <1>2. CASE UNCHANGED <<count, connectVars>>
    BY <1>1, <1>2 DEF connectVars, ShapeInv
  <1>3. CASE /\ waiting = Nil
             /\ \E c \in Connectors :
                  maker[c] = None /\ maker' = [maker EXCEPT ![c] = Connecting(x)]
             /\ waiting' = <<>> /\ count' = Counted(x)
    <2>1. PICK c \in Connectors : maker' = [maker EXCEPT ![c] = Connecting(x)]
      BY <1>3
    <2>2. Connecting(x) \in Makings /\ Connecting(x).batch = <<>>
      BY DEF Connecting, Makings
    <2>3. maker' \in Threads
      BY <1>1, <2>1, <2>2 DEF Threads
    <2>4. waiting' \in Lines
      BY <1>3 DEF Lines
    <2>5. count' \in [Messages -> Int]
      BY <1>1, <1>3 DEF Counted
    <2>6. \A d \in Connectors : maker'[d] = IF d = c THEN Connecting(x) ELSE maker[d]
      BY <1>1, <2>1 DEF Threads
    <2> QED
      BY <1>1, <2>2, <2>3, <2>4, <2>5, <2>6 DEF ShapeInv
  <1>4. CASE /\ waiting # Nil
             /\ waiting' = Append(waiting, x) /\ count' = Counted(x)
             /\ UNCHANGED maker
    <2>1. waiting \in Seq(Messages)
      BY <1>1, <1>4 DEF Lines
    <2>2. waiting' \in Lines
      BY <1>4, <2>1 DEF Lines
    <2>3. count' \in [Messages -> Int]
      BY <1>1, <1>4 DEF Counted
    <2> QED
      BY <1>1, <1>4, <2>2, <2>3 DEF ShapeInv
  <1> QED
    BY <1>2, <1>3, <1>4 DEF Send

(* The variables a connecting thread changes.                              *)
LEMMA MakeType ==
  ASSUME LifeInv, Defined, NEW c \in Connectors, Make(c)
  PROVE  /\ count' \in [Messages -> Int] /\ waiting' \in Lines /\ maker' \in Threads
         /\ obj' \in [Messages -> {"none", "live", "freed"}]
         /\ twice' \cup spoilt' \cup stuck' \subseteq Messages
         /\ \A d \in Connectors :
              maker'[d] # None /\ maker'[d].step \in {"connect", "failed"} =>
                maker'[d].batch = <<>>
         /\ UNCHANGED <<role, transport, place, seen, trans, queue, late, run>>
PROOF
  <1>0. /\ TypeOK /\ ShapeInv
        /\ count \in [Messages -> Int] /\ waiting \in Lines /\ maker \in Threads
        /\ obj \in [Messages -> {"none", "live", "freed"}]
        /\ twice \cup spoilt \cup stuck \subseteq Messages
    <2>1. TypeOK /\ ShapeInv
      BY DEF LifeInv
    <2> QED
      BY <2>1 DEF TypeOK, ShapeInv, Lines, Threads
  <1>1. UNCHANGED <<role, transport, place, seen, trans, queue, late, run>>
    BY DEF Make, Connect, FailConnect, TakeAfterFailure, ReadMakerCount, WriteMakerCount,
           Abandon, ownerVars
  <1>2. maker[c] # None /\ maker[c] \in Makings
    BY <1>0 DEF Threads, Make, Connect, FailConnect, TakeAfterFailure, ReadMakerCount,
                WriteMakerCount, Abandon
  <1>3. maker[c].batch \in Seq(Messages) /\ maker[c].first \in Messages /\ maker[c].seen \in Int
        /\ Current(c) \in Messages
    <2>1. maker[c].batch \in Seq(Messages) /\ maker[c].first \in Messages /\ maker[c].seen \in Int
      BY <1>2 DEF Makings
    <2> QED
      BY <2>1, HeadTailProperties DEF Current
  <1>4. PICK r \in {None} \cup Makings :
          /\ Step(c, r)
          /\ r # None /\ r.step \in {"connect", "failed"} => r.batch = <<>>
    <2>1. CASE Connect(c) \/ TakeAfterFailure(c)
      <3>1. /\ maker[c].step \in {"connect", "failed"}
            /\ Step(c, Writing(c)) /\ waiting' = Nil
        BY <2>1 DEF Connect, TakeAfterFailure
      <3>2. Writing(c) \in Makings
        BY <1>0, <1>2, <3>1, TakeUses
      <3>3. Writing(c).step = "write"
        <4> DEFINE w == IF waiting = Nil THEN <<>> ELSE waiting
        <4>1. Writing(c) = [maker[c] EXCEPT !.step = "write", !.batch = w]
          BY DEF Writing
        <4> HIDE DEF w
        <4> QED
          BY <4>1, <1>2 DEF Makings
      <3> QED
        BY <3>1, <3>2, <3>3
    <2>2. CASE FailConnect(c)
      <3>1. /\ [maker[c] EXCEPT !.step = "failed"] \in Makings
            /\ [maker[c] EXCEPT !.step = "failed"].batch = maker[c].batch
        BY <1>2 DEF Makings
      <3>2. maker[c].batch = <<>> /\ Step(c, [maker[c] EXCEPT !.step = "failed"])
        BY <1>0, <2>2 DEF FailConnect, ShapeInv
      <3> QED
        BY <3>1, <3>2
    <2>3. CASE ReadMakerCount(c)
      <3> DEFINE k == count[Current(c)]
                 r == [maker[c] EXCEPT !.step = "read", !.seen = k]
      <3>1. k \in Int
        BY <1>0, <1>3
      <3>2. Step(c, r)
        BY <2>3 DEF ReadMakerCount
      <3> HIDE DEF k
      <3>3. r \in Makings /\ r.step = "read"
        BY <1>2, <3>1 DEF Makings
      <3> QED
        BY <3>2, <3>3
    <2>4. CASE WriteMakerCount(c)
      <3>1. CASE maker[c].batch = <<>>
        BY <2>4, <3>1 DEF WriteMakerCount
      <3>2. CASE maker[c].batch # <<>>
        <4>1. Tail(maker[c].batch) \in Seq(Messages)
          BY <1>3, <3>2
        <4> DEFINE b == Tail(maker[c].batch)
                   r == Renewed(maker[c], "write", 0, b)
        <4>2. Step(c, r)
          BY <2>4, <3>2 DEF WriteMakerCount, Renewed
        <4>3. b \in Seq(Messages)
          BY <4>1
        <4> HIDE DEF b
        <4>4. "write" \in {"connect", "failed", "write", "read"} /\ 0 \in Int
          OBVIOUS
        <4>5. r \in Makings
          BY <1>2, <4>3, <4>4, NextMaking, Zenon
        <4>6. r.step = "write"
          BY <1>2 DEF Makings, Renewed
        <4> QED
          BY <4>2, <4>5, <4>6
      <3> QED
        BY <3>1, <3>2
    <2>5. CASE Abandon(c)
      <3>1. <<>> \in Seq(Messages)
        OBVIOUS
      <3>2. /\ [maker[c] EXCEPT !.batch = <<>>] \in Makings
            /\ [maker[c] EXCEPT !.batch = <<>>].batch = <<>>
        BY <1>2, <3>1 DEF Makings
      <3> QED
        BY <2>5, <3>2 DEF Abandon
    <2> QED
      BY <2>1, <2>2, <2>3, <2>4, <2>5 DEF Make
  <1>5. /\ maker' \in Threads
        /\ \A d \in Connectors : maker'[d] = IF d = c THEN r ELSE maker[d]
    BY <1>0, <1>4 DEF Step, Threads
  <1>6. \A d \in Connectors :
              maker'[d] # None /\ maker'[d].step \in {"connect", "failed"} =>
                maker'[d].batch = <<>>
    BY <1>0, <1>4, <1>5 DEF ShapeInv
  <1>7. count' \in [Messages -> Int]
    <2>1. CASE WriteMakerCount(c)
      <3>1. maker[c].seen - 1 \in Int
        BY <1>3
      <3> QED
        BY <1>0, <2>1, <3>1 DEF WriteMakerCount
    <2>2. CASE ~WriteMakerCount(c)
      BY <1>0, <2>2 DEF Make, Connect, FailConnect, TakeAfterFailure, ReadMakerCount, Abandon
    <2> QED
      BY <2>1, <2>2
  <1>8. waiting' \in Lines
    <2>1. waiting' \in {waiting, Nil}
      BY DEF Make, Connect, FailConnect, TakeAfterFailure, ReadMakerCount, WriteMakerCount, Abandon
    <2> QED
      BY <1>0, <2>1 DEF Lines
  <1>9. /\ obj' \in [Messages -> {"none", "live", "freed"}]
        /\ twice' \cup spoilt' \cup stuck' \subseteq Messages
    <2>1. CASE Abandon(c)
      <3>1. ToSet(maker[c].batch) \subseteq Messages
        BY <1>3 DEF ToSet
      <3>2. obj' = Freed(ToSet(maker[c].batch))
        BY <2>1 DEF Abandon
      <3>3. obj' \in [Messages -> {"none", "live", "freed"}]
        BY <1>0, <1>3, <3>2, FreedType
      <3> QED
        BY <1>0, <2>1, <3>1, <3>3 DEF Abandon, TwiceFreed
    <2>2. CASE ~Abandon(c)
      <3>1. UNCHANGED <<obj, twice>>
        BY <2>2 DEF Make, Connect, FailConnect, TakeAfterFailure, ReadMakerCount,
                    WriteMakerCount, historyVars
      <3>2. spoilt' \subseteq spoilt \cup {Current(c)} /\ stuck' \subseteq stuck \cup {Current(c)}
        BY <2>2 DEF Make, Connect, FailConnect, TakeAfterFailure, ReadMakerCount,
                    WriteMakerCount, historyVars, Lost
      <3> QED
        BY <1>0, <1>3, <3>1, <3>2
    <2> QED
      BY <2>1, <2>2
  <1> QED
    BY <1>1, <1>5, <1>6, <1>7, <1>8, <1>9

LEMMA TypeFacts ==
  ASSUME LifeInv
  PROVE  /\ TypeOK /\ ShapeInv
         /\ role \in Roles /\ transport \in Transports
         /\ obj \in [Messages -> {"none", "live", "freed"}]
         /\ count \in [Messages -> Int] /\ seen \in [Messages -> Int]
         /\ place \in [Messages -> {"none", "kept", "used", "read", "gone"}]
         /\ trans = None \/ trans \in Transactions
         /\ queue \in Seq(Messages) /\ IsInjective(queue) /\ ToSet(queue) \cap Held = {}
         /\ waiting \in Lines /\ maker \in Threads
         /\ late \in Messages \cup {Nil}
         /\ twice \subseteq Messages /\ spoilt \subseteq Messages /\ stuck \subseteq Messages
         /\ run \in {"up", "stopping", "stopped"}
PROOF
  <1>1. TypeOK /\ ShapeInv
    BY DEF LifeInv
  <1> QED
    BY <1>1 DEF TypeOK, ShapeInv, Lines, Threads, Transactions

(* All of them together.                                                   *)
LEMMA TypeOf ==
  ASSUME /\ UNCHANGED <<role, transport>>
         /\ obj' \in [Messages -> {"none", "live", "freed"}]
         /\ count' \in [Messages -> Int] /\ seen' \in [Messages -> Int]
         /\ place' \in [Messages -> {"none", "kept", "used", "read", "gone"}]
         /\ trans' = None \/ trans' \in Transactions
         /\ queue' \in Seq(Messages) /\ IsInjective(queue') /\ ToSet(queue') \cap Held' = {}
         /\ waiting' \in Lines /\ maker' \in Threads
         /\ late' \in Messages \cup {Nil}
         /\ twice' \subseteq Messages /\ spoilt' \subseteq Messages /\ stuck' \subseteq Messages
         /\ run' \in {"up", "stopping", "stopped"},
         trans' # None =>
           /\ Request(trans'.request)
           /\ trans'.response # Nil => Response(trans'.response)
           /\ trans'.ack # Nil => Ack(trans'.ack),
         \A c \in Connectors :
           maker'[c] # None /\ maker'[c].step \in {"connect", "failed"} => maker'[c].batch = <<>>,
         run' = "stopped" => trans' = None /\ queue' = <<>>,
         LifeInv
  PROVE  TypeOK' /\ ShapeInv'
PROOF
  <1>1. role' \in Roles /\ transport' \in Transports
    BY TypeFacts
  <1>2. TypeOK'
    BY <1>1 DEF TypeOK, Lines, Transactions
  <1>3. ShapeInv'
    BY DEF ShapeInv, Threads
  <1> QED
    BY <1>2, <1>3

LEMMA TypeHandle ==
  ASSUME LifeInv, Defined, NEW m \in Messages, Handle(m)
  PROVE  TypeOK' /\ ShapeInv'
PROOF
  <1>0. /\ place[m] = "none" /\ (run = "up" \/ Status[m] = ConnectError)
        /\ UNCHANGED <<role, transport, seen, late, stuck, run>>
        /\ spoilt' \subseteq spoilt \cup {late} /\ Nil \notin spoilt'
        /\ m \notin Kept
    <2>1. /\ place[m] = "none" /\ (run = "up" \/ Status[m] = ConnectError)
          /\ UNCHANGED <<role, transport, seen, late, stuck, run>>
      BY DEF Handle, Insert, DiscardAckOfRefusal, DiscardRepeated, DiscardOther, Discard, Begins
    <2>2. KeptInv(m)
      BY DEF LifeInv
    <2>3. Nil \notin Unused(Replaced(m))
      BY DEF Unused, Replaced
    <2>4. Nil \notin spoilt
      BY TypeFacts, MessageAssumption
    <2>5. spoilt' \subseteq spoilt \cup {late} /\ Nil \notin spoilt'
      BY <2>3, <2>4 DEF Handle, Insert, DiscardAckOfRefusal, DiscardRepeated, DiscardOther, Discard
    <2> QED
      BY <2>1, <2>2, <2>5 DEF KeptInv
  <1>1. CASE Insert(m)
    <2>1. /\ Accepts(m) /\ trans' = Storing(m) /\ Retire(Replaced(m))
          /\ obj' = FreedAndNew(Unused(Replaced(m)), m)
          /\ count' = [count EXCEPT ![m] = 1]
          /\ place' = [place EXCEPT ![m] = "kept"] /\ UNCHANGED <<waiting, maker>>
      BY <1>1 DEF Insert, connectVars
    <2>2. /\ trans' \in Transactions
          /\ Held' = (Held \ Replaced(m)) \cup {m}
          /\ Replaced(m) \subseteq Held
          /\ Request(trans'.request)
          /\ trans'.response # Nil => Response(trans'.response)
          /\ trans'.ack # Nil => Ack(trans'.ack)
      BY <2>1, TypeFacts, StoringIs
    <2>3. /\ queue' \in Seq(Messages) /\ IsInjective(queue')
          /\ ToSet(queue') = ToSet(queue) \cup (Replaced(m) \ Unused(Replaced(m)))
          /\ twice' = twice
      BY <2>1, <2>2, RetireIs
    <2>4. ToSet(queue') \cap Held' = {}
      BY <1>0, <2>2, <2>3, TypeFacts DEF Kept
    <2>5. run # "stopped"
      <3>1. CASE run = "up"
        BY <3>1
      <3>2. CASE Status[m] = ConnectError
        <4>1. ~Request(m) /\ ~Ack(m)
          BY <3>2 DEF Request, Ack, ConnectError
        <4>2. trans # None
          BY <2>1, <4>1 DEF Accepts
        <4> QED
          BY <4>2, TypeFacts DEF ShapeInv
      <3> QED
        BY <1>0, <3>1, <3>2
    <2>6. obj' \in [Messages -> {"none", "live", "freed"}]
      BY <2>1, TypeFacts, FreedType
    <2>7. /\ count' \in [Messages -> Int]
          /\ place' \in [Messages -> {"none", "kept", "used", "read", "gone"}]
      BY <2>1, TypeFacts
    <2>8. \A c \in Connectors :
           maker'[c] # None /\ maker'[c].step \in {"connect", "failed"} => maker'[c].batch = <<>>
      BY <2>1, TypeFacts DEF ShapeInv
    <2>9. /\ seen' \in [Messages -> Int] /\ waiting' \in Lines /\ maker' \in Threads
          /\ late' \in Messages \cup {Nil}
          /\ twice' \subseteq Messages /\ spoilt' \subseteq Messages /\ stuck' \subseteq Messages
          /\ run' \in {"up", "stopping", "stopped"} /\ run' # "stopped"
      BY <1>0, <2>1, <2>3, <2>5, TypeFacts
    <2> QED
      BY <1>0, <2>2, <2>3, <2>4, <2>6, <2>7, <2>8, <2>9, TypeOf
  <1>2. CASE DiscardAckOfRefusal(m) \/ DiscardOther(m) \/ DiscardRepeated(m)
    <2>1. /\ place' = [place EXCEPT ![m] = "gone"]
          /\ \E s : obj' = Freed(s)
      BY <1>2 DEF DiscardAckOfRefusal, DiscardOther, DiscardRepeated, Discard
    <2>2. obj' \in [Messages -> {"none", "live", "freed"}]
      <3>1. PICK s : obj' = Freed(s)
        BY <2>1
      <3> QED
        BY <3>1, TypeFacts, FreedType
    <2>3. place' \in [Messages -> {"none", "kept", "used", "read", "gone"}]
      BY <2>1, TypeFacts
    <2>4. /\ count' \in [Messages -> Int] /\ waiting' \in Lines /\ maker' \in Threads
          /\ \A c \in Connectors :
               maker'[c] # None /\ maker'[c].step \in {"connect", "failed"} =>
                 maker'[c].batch = <<>>
      <3>1. CASE DiscardRepeated(m)
        <4>1. Answered /\ Send(trans.response)
          BY <3>1 DEF DiscardRepeated, Repeats
        <4>2. trans.response \in Messages
          BY <4>1, TypeFacts DEF Answered, Transactions
        <4> QED
          BY <4>1, <4>2, SendType
      <3>2. CASE DiscardAckOfRefusal(m) \/ DiscardOther(m)
        <4>1. UNCHANGED <<count, waiting, maker>>
          BY <3>2 DEF DiscardAckOfRefusal, DiscardOther, connectVars
        <4> QED
          BY <4>1, TypeFacts DEF ShapeInv
      <3> QED
        BY <1>2, <3>1, <3>2
    <2>5. /\ queue' \in Seq(Messages) /\ IsInjective(queue') /\ ToSet(queue') \cap Held' = {}
          /\ trans' = None \/ trans' \in Transactions
          /\ twice' = twice
          /\ run = "stopped" => trans' = None /\ queue' = <<>>
          /\ trans' # None =>
               /\ Request(trans'.request)
               /\ trans'.response # Nil => Response(trans'.response)
               /\ trans'.ack # Nil => Ack(trans'.ack)
      <3>1. CASE DiscardAckOfRefusal(m)
        <4>1. trans' = None /\ Retire(Held) /\ trans # None
          BY <3>1 DEF DiscardAckOfRefusal, EndsRefusal, Answered
        <4>2. queue' \in Seq(Messages) /\ IsInjective(queue') /\ twice' = twice
          BY <4>1, RetireIs
        <4>3. Held' = {}
          BY <4>1 DEF Held
        <4>4. run # "stopped"
          BY <4>1, TypeFacts DEF ShapeInv
        <4> QED
          BY <4>1, <4>2, <4>3, <4>4
      <3>2. CASE DiscardOther(m) \/ DiscardRepeated(m)
        <4>1. UNCHANGED <<queue, trans, twice>>
          BY <3>2 DEF DiscardOther, DiscardRepeated
        <4> QED
          BY <4>1, TypeFacts DEF ShapeInv, Held
      <3> QED
        BY <1>2, <3>1, <3>2
    <2>6. /\ seen' \in [Messages -> Int] /\ late' \in Messages \cup {Nil}
          /\ twice' \subseteq Messages /\ spoilt' \subseteq Messages /\ stuck' \subseteq Messages
          /\ run' \in {"up", "stopping", "stopped"}
      BY <1>0, <2>5, TypeFacts
    <2> QED
      BY <1>0, <2>2, <2>3, <2>4, <2>5, <2>6, TypeOf
  <1> QED
    BY <1>1, <1>2 DEF Handle

LEMMA TypeNext ==
  ASSUME LifeInv, Next
  PROVE  TypeOK' /\ ShapeInv'
PROOF
  <1>0. Defined
    BY DEF Next, Progress
  <1>1. ASSUME NEW m \in Messages, Handle(m) PROVE TypeOK' /\ ShapeInv'
    BY <1>0, <1>1, TypeHandle
  <1>2. ASSUME NEW m \in Messages, Finish(m) PROVE TypeOK' /\ ShapeInv'
    <2>1. /\ UNCHANGED <<role, transport, obj, trans, queue, late, twice, run>>
          /\ \E p \in {"used", "read", "gone"} : place' = [place EXCEPT ![m] = p]
      BY <1>2 DEF Finish, CountDown, Use, ReadCount, WriteCount, historyVars
    <2>2. place' \in [Messages -> {"none", "kept", "used", "read", "gone"}]
      BY <2>1, TypeFacts
    <2>3. count[m] \in Int /\ seen[m] \in Int
      BY TypeFacts
    <2>4. seen' \in [Messages -> Int]
      <3>1. CASE ReadCount(m)
        BY <2>3, <3>1, TypeFacts DEF ReadCount
      <3>2. CASE WriteCount(m)
        BY <3>2, TypeFacts DEF WriteCount
      <3>3. CASE CountDown(m) \/ Use(m)
        BY <3>3, TypeFacts DEF CountDown, Use
      <3> QED
        BY <1>2, <3>1, <3>2, <3>3 DEF Finish
    <2>5. /\ count' \in [Messages -> Int] /\ waiting' \in Lines /\ maker' \in Threads
          /\ \A c \in Connectors :
               maker'[c] # None /\ maker'[c].step \in {"connect", "failed"} =>
                 maker'[c].batch = <<>>
      <3>1. CASE Use(m)
        BY <1>0, <3>1, SendType DEF Use
      <3>2. CASE CountDown(m) \/ WriteCount(m) \/ ReadCount(m)
        <4>1. UNCHANGED <<waiting, maker>>
          BY <3>2 DEF CountDown, WriteCount, ReadCount, connectVars
        <4>2. count' \in [Messages -> Int]
          <5>1. \A k \in Int : [count EXCEPT ![m] = k] \in [Messages -> Int]
            BY TypeFacts
          <5>2. count[m] - 1 \in Int /\ seen[m] - 1 \in Int
            BY <2>3
          <5>3. \/ count' = count \/ count' = [count EXCEPT ![m] = count[m] - 1]
                \/ count' = [count EXCEPT ![m] = seen[m] - 1]
            BY <3>2 DEF CountDown, WriteCount, ReadCount
          <5> QED
            BY <5>1, <5>2, <5>3, TypeFacts
        <4> QED
          BY <4>1, <4>2, TypeFacts DEF ShapeInv
      <3> QED
        BY <1>2, <3>1, <3>2 DEF Finish
    <2>6. spoilt' \subseteq Messages /\ stuck' \subseteq Messages
      <3>1. spoilt' \subseteq spoilt \cup {m} /\ stuck' \subseteq stuck \cup {m}
        BY <1>2 DEF Finish, CountDown, Use, ReadCount, WriteCount, historyVars, Lost
      <3> QED
        BY <3>1, TypeFacts
    <2>7. Held' = Held
      BY <2>1 DEF Held
    <2>8. /\ trans' # None =>
               /\ Request(trans'.request)
               /\ trans'.response # Nil => Response(trans'.response)
               /\ trans'.ack # Nil => Ack(trans'.ack)
          /\ run' = "stopped" => trans' = None /\ queue' = <<>>
      BY <2>1, TypeFacts DEF ShapeInv
    <2>9. /\ obj' \in [Messages -> {"none", "live", "freed"}]
          /\ trans' = None \/ trans' \in Transactions
          /\ queue' \in Seq(Messages) /\ IsInjective(queue') /\ ToSet(queue') \cap Held' = {}
          /\ late' \in Messages \cup {Nil} /\ twice' \subseteq Messages
          /\ run' \in {"up", "stopping", "stopped"}
      BY <2>1, <2>7, TypeFacts
    <2> QED
      BY <2>1, <2>2, <2>4, <2>5, <2>6, <2>8, <2>9, TypeOf
  <1>3. ASSUME NEW c \in Connectors, Make(c) PROVE TypeOK' /\ ShapeInv'
    <2>1. /\ count' \in [Messages -> Int] /\ waiting' \in Lines /\ maker' \in Threads
          /\ obj' \in [Messages -> {"none", "live", "freed"}]
          /\ twice' \cup spoilt' \cup stuck' \subseteq Messages
          /\ \A d \in Connectors :
               maker'[d] # None /\ maker'[d].step \in {"connect", "failed"} =>
                 maker'[d].batch = <<>>
          /\ UNCHANGED <<role, transport, place, seen, trans, queue, late, run>>
      BY <1>0, <1>3, MakeType
    <2>2. Held' = Held
      BY <2>1 DEF Held
    <2>3. /\ trans' # None =>
               /\ Request(trans'.request)
               /\ trans'.response # Nil => Response(trans'.response)
               /\ trans'.ack # Nil => Ack(trans'.ack)
          /\ run' = "stopped" => trans' = None /\ queue' = <<>>
      BY <2>1, TypeFacts DEF ShapeInv
    <2>4. /\ seen' \in [Messages -> Int]
          /\ place' \in [Messages -> {"none", "kept", "used", "read", "gone"}]
          /\ trans' = None \/ trans' \in Transactions
          /\ queue' \in Seq(Messages) /\ IsInjective(queue') /\ ToSet(queue') \cap Held' = {}
          /\ late' \in Messages \cup {Nil}
          /\ twice' \subseteq Messages /\ spoilt' \subseteq Messages /\ stuck' \subseteq Messages
          /\ run' \in {"up", "stopping", "stopped"}
      BY <2>1, <2>2, TypeFacts
    <2> QED
      BY <2>1, <2>3, <2>4, TypeOf
  <1>4. CASE Delete \/ GiveUp \/ Stop \/ SendTimeout \/ DeleteTimeout \/ DeleteAll
    <2>1. /\ UNCHANGED <<role, transport, count, place, seen, waiting, maker, spoilt, stuck>>
      BY <1>4 DEF Delete, GiveUp, Stop, SendTimeout, DeleteTimeout, DeleteAll, ownerVars,
                  connectVars, historyVars
    <2>2. obj' \in [Messages -> {"none", "live", "freed"}]
      <3>1. obj' = obj \/ \E s : obj' = Freed(s)
        BY <1>4 DEF Delete, GiveUp, Stop, SendTimeout, DeleteTimeout, DeleteAll
      <3> QED
        BY <3>1, TypeFacts DEF Freed
    <2>3. /\ queue' \in Seq(Messages) /\ IsInjective(queue') /\ ToSet(queue') \cap Held' = {}
          /\ trans' = None \/ trans' \in Transactions
          /\ twice' \subseteq Messages
          /\ run' = "stopped" => trans' = None /\ queue' = <<>>
          /\ trans' # None =>
               /\ Request(trans'.request)
               /\ trans'.response # Nil => Response(trans'.response)
               /\ trans'.ack # Nil => Ack(trans'.ack)
          /\ late' \in Messages \cup {Nil} /\ run' \in {"up", "stopping", "stopped"}
      <3>1. CASE Delete
        <4>1. trans' = None /\ Retire(Held) /\ run = "up" /\ run' = run /\ late' = late
          BY <3>1 DEF Delete
        <4>2. queue' \in Seq(Messages) /\ IsInjective(queue') /\ twice' = twice
          BY <1>0, <4>1, RetireIs
        <4>3. Held' = {}
          BY <4>1 DEF Held
        <4> QED
          BY <4>1, <4>2, <4>3, TypeFacts
      <3>2. CASE GiveUp
        <4>1. /\ trans # None /\ trans' = [trans EXCEPT !.over = TRUE] /\ run = "up" /\ run' = run
              /\ late' \in {trans.response, Nil} /\ UNCHANGED <<queue, twice>>
              /\ trans.response # Nil
          BY <3>2 DEF GiveUp, Answered, historyVars
        <4>2. trans \in Transactions
          BY <4>1, TypeFacts
        <4>3. /\ trans'.request = trans.request /\ trans'.response = trans.response
              /\ trans'.ack = trans.ack /\ trans' \in Transactions
          BY <4>1, <4>2 DEF Transactions
        <4>4. Held' = Held
          BY <4>1, <4>3, NoneIsNone DEF Held
        <4>5. late' \in Messages \cup {Nil}
          BY <4>1, <4>2 DEF Transactions
        <4>6. /\ Request(trans'.request)
              /\ trans'.response # Nil => Response(trans'.response)
              /\ trans'.ack # Nil => Ack(trans'.ack)
          BY <4>1, <4>3, TypeFacts DEF ShapeInv
        <4> QED
          BY <4>1, <4>3, <4>4, <4>5, <4>6, TypeFacts
      <3>3. CASE SendTimeout \/ Stop
        <4>1. /\ UNCHANGED <<trans, queue, twice>> /\ late' \in {late, Nil}
              /\ run' \in {run, "stopping"}
          BY <3>3 DEF SendTimeout, Stop, historyVars
        <4>2. Held' = Held
          BY <4>1 DEF Held
        <4> QED
          BY <4>1, <4>2, TypeFacts DEF ShapeInv
      <3>4. CASE DeleteTimeout
        <4>1. PICK k \in 1 .. Len(queue) :
                /\ queue' = SubSeq(queue, k + 1, Len(queue))
                /\ twice' = TwiceFreed({queue[i] : i \in 1 .. k})
          BY <3>4 DEF DeleteTimeout
        <4>2. UNCHANGED <<trans, run, late>> /\ run = "up"
          BY <3>4 DEF DeleteTimeout
        <4>3. /\ queue' \in Seq(Messages) /\ IsInjective(queue') /\ ToSet(queue') \subseteq ToSet(queue)
          BY <4>1, TypeFacts, DroppedFront
        <4>4. Held' = Held
          BY <4>2 DEF Held
        <4>5. {queue[i] : i \in 1 .. k} \subseteq Messages
          BY <4>1, TypeFacts
        <4>6. twice' \subseteq Messages
          BY <4>1, <4>5, TypeFacts DEF TwiceFreed
        <4> QED
          BY <4>2, <4>3, <4>4, <4>6, TypeFacts DEF ShapeInv
      <3>5. CASE DeleteAll
        <4>1. /\ trans' = None /\ queue' = <<>> /\ twice' = TwiceFreed(Kept) /\ run' = "stopped"
              /\ late' = late
          BY <3>5 DEF DeleteAll, Kept
        <4>2. /\ Held' = {} /\ queue' \in Seq(Messages) /\ IsInjective(queue')
          BY <4>1 DEF Held, IsInjective
        <4>3. Kept \subseteq Messages
          BY TypeFacts, HeldIs
        <4>4. twice' \subseteq Messages
          BY <4>1, <4>3, TypeFacts DEF TwiceFreed
        <4> QED
          BY <4>1, <4>2, <4>4, TypeFacts
      <3> QED
        BY <1>4, <3>1, <3>2, <3>3, <3>4, <3>5
    <2>4. /\ count' \in [Messages -> Int] /\ seen' \in [Messages -> Int]
          /\ place' \in [Messages -> {"none", "kept", "used", "read", "gone"}]
          /\ waiting' \in Lines /\ maker' \in Threads
          /\ spoilt' \subseteq Messages /\ stuck' \subseteq Messages
          /\ \A c \in Connectors :
               maker'[c] # None /\ maker'[c].step \in {"connect", "failed"} =>
                 maker'[c].batch = <<>>
      BY <2>1, TypeFacts DEF ShapeInv
    <2> QED
      BY <2>1, <2>2, <2>3, <2>4, TypeOf
  <1> QED
    BY <1>1, <1>2, <1>3, <1>4 DEF Next, Progress

-----------------------------------------------------------------------------
(* The non-INVITE client.                                                  *)
LEMMA ClientFacts ==
  ASSUME LifeInv, role = "NICT"
  PROVE  /\ spoilt = {} /\ OneRequest /\ NobodyWaits /\ OneMaker
         /\ \A c \in Connectors : MakerReads(c)
         /\ \A m \in Messages : OwnerReads(m)
BY DEF LifeInv, ClientInv

(* Before the request is sent nobody connects for it, nobody waits.        *)
LEMMA NotYetSent ==
  ASSUME LifeInv, role = "NICT", \A n \in Messages : Request(n) => ~Sent(n)
  PROVE  waiting = Nil /\ \A c \in Connectors : maker[c] = None
PROOF
  <1>1. waiting = Nil
    BY ClientFacts DEF NobodyWaits
  <1>2. \A c \in Connectors : maker[c] # None => maker[c].first \in Messages
    BY TypeFacts DEF Threads, Makings
  <1>3. \A c \in Connectors : maker[c] = None
    BY <1>2, ClientFacts DEF MakerReads
  <1> QED
    BY <1>1, <1>3

LEMMA ClientSame ==
  ASSUME LifeInv, role = "NICT", UNCHANGED <<waiting, maker, seen>>, spoilt' = spoilt,
         \A n \in Messages : Request(n) => place'[n] = place[n] /\ count'[n] = count[n],
         \A n \in Messages : ~Request(n) => place'[n] \notin {"used", "read"}
  PROVE  ClientInv'
PROOF
  <1>1. OneRequest'
    BY ClientFacts DEF OneRequest
  <1>2. \A n \in Messages : Request(n) => (Sent(n)' <=> Sent(n))
    BY DEF Sent
  <1>3. NobodyWaits'
    BY <1>2, ClientFacts DEF NobodyWaits
  <1>4. OneMaker'
    BY ClientFacts DEF OneMaker
  <1>5. ASSUME NEW c \in Connectors PROVE MakerReads(c)'
    <2>1. maker[c] # None => maker[c].first \in Messages /\ Request(maker[c].first)
      BY TypeFacts, ClientFacts DEF Threads, Makings, MakerReads
    <2>2. MakerReads(c)
      BY ClientFacts
    <2> QED
      BY <1>2, <2>1, <2>2 DEF MakerReads, Sent
  <1>6. ASSUME NEW n \in Messages PROVE OwnerReads(n)'
    <2>1. OwnerReads(n)
      BY ClientFacts
    <2> QED
      BY <2>1 DEF OwnerReads
  <1>7. spoilt' = {}
    BY ClientFacts
  <1> QED
    BY <1>1, <1>3, <1>4, <1>5, <1>6, <1>7 DEF ClientInv

(* Nobody has been sent, nobody connects and nobody waits.                 *)
LEMMA ClientNew ==
  ASSUME LifeInv, role = "NICT", UNCHANGED <<waiting, maker, seen>>, spoilt' = spoilt,
         NEW m \in Messages, Request(m),
         \A n \in Messages : Request(n) => place[n] = "none",
         \A n \in Messages : n # m => place'[n] = place[n],
         \/ place'[m] = "kept" /\ count'[m] = 1
         \/ place'[m] = "gone"
  PROVE  ClientInv'
PROOF
  <1>1. waiting = Nil /\ \A c \in Connectors : maker[c] = None
    BY NotYetSent DEF Sent
  <1>2. OneRequest'
    BY DEF OneRequest
  <1>3. NobodyWaits' /\ OneMaker' /\ \A c \in Connectors : MakerReads(c)'
    BY <1>1 DEF NobodyWaits, OneMaker, MakerReads
  <1>4. ASSUME NEW n \in Messages PROVE OwnerReads(n)'
    <2>1. OwnerReads(n)
      BY ClientFacts
    <2>2. CASE n = m
      BY <2>2 DEF OwnerReads
    <2>3. CASE n # m
      BY <2>1, <2>3 DEF OwnerReads
    <2> QED
      BY <2>2, <2>3
  <1>5. spoilt' = {}
    BY ClientFacts
  <1> QED
    BY <1>2, <1>3, <1>4, <1>5 DEF ClientInv

LEMMA ClientHandle ==
  ASSUME LifeInv, Defined, role = "NICT", NEW m \in Messages, Handle(m)
  PROVE  ClientInv'
PROOF
  <1>0. /\ place[m] = "none" /\ Due(m) /\ UNCHANGED <<seen, spoilt>>
        /\ ~Repeats(m)
    <2>1. Nil \notin Unused(Replaced(m))
      BY DEF Unused, Replaced
    <2>2. late = Nil
      BY DEF LifeInv, LateInv
    <2>3. Unused(Replaced(m)) \cap {late} = {}
      BY <2>1, <2>2
    <2> QED
      BY <2>3 DEF Handle, Insert, DiscardAckOfRefusal, DiscardRepeated, DiscardOther, Discard,
                  Begins, Repeats
  <1>1. UNCHANGED <<waiting, maker>>
    BY <1>0 DEF Handle, Insert, DiscardAckOfRefusal, DiscardRepeated, DiscardOther, connectVars
  <1>2. /\ \A n \in Messages : n # m => place'[n] = place[n] /\ count'[n] = count[n]
        /\ place'[m] \in {"kept", "gone"}
        /\ place'[m] = "kept" => count'[m] = 1
    <2>1. CASE Insert(m)
      <3>1. place' = [place EXCEPT ![m] = "kept"] /\ count' = [count EXCEPT ![m] = 1]
        BY <2>1 DEF Insert
      <3> QED
        BY <3>1, TypeFacts
    <2>2. CASE DiscardAckOfRefusal(m) \/ DiscardOther(m)
      <3>1. place' = [place EXCEPT ![m] = "gone"] /\ count' = count
        BY <2>2 DEF DiscardAckOfRefusal, DiscardOther, Discard
      <3> QED
        BY <3>1, TypeFacts
    <2> QED
      BY <1>0, <2>1, <2>2 DEF Handle, DiscardRepeated
  <1>3. CASE Request(m)
    <2>1. \A n \in Messages : Request(n) => place[n] = "none"
      <3>1. ~Ack(m) /\ ~Response(m) /\ Status[m] # ConnectError
        BY <1>3 DEF Request, Ack, Response, ConnectError
      <3>2. ~Started(Request)
        BY <1>0, <3>1 DEF Due
      <3> QED
        BY <3>2 DEF Started
    <2> QED
      BY <1>0, <1>1, <1>2, <1>3, <2>1, ClientNew
  <1>4. CASE ~Request(m)
    <2>1. \A n \in Messages : ~Request(n) => place'[n] \notin {"used", "read"}
      BY <1>2, ClientFacts DEF OwnerReads
    <2>2. \A n \in Messages : Request(n) => place'[n] = place[n] /\ count'[n] = count[n]
      BY <1>2, <1>4
    <2> QED
      BY <1>0, <1>1, <2>1, <2>2, ClientSame
  <1> QED
    BY <1>3, <1>4

(* The request is sent: it is used, and a thread may connect for it.       *)
LEMMA ClientUse ==
  ASSUME LifeInv, Defined, role = "NICT", NEW m \in Messages, Use(m)
  PROVE  ClientInv'
PROOF
  <1>1. /\ Request(m) /\ place[m] = "kept" /\ Send(m) /\ place' = [place EXCEPT ![m] = "used"]
        /\ seen' = seen /\ spoilt' = spoilt
    BY DEF Use, Sends, historyVars
  <1>2. \A n \in Messages : Request(n) /\ place[n] # "none" => n = m
    BY <1>1, ClientFacts DEF OneRequest
  <1>3. waiting = Nil /\ \A c \in Connectors : maker[c] = None
    BY <1>1, <1>2, NotYetSent DEF Sent
  <1>4. /\ place'[m] = "used" /\ \A n \in Messages : n # m => place'[n] = place[n]
        /\ count[m] = 1 /\ m # Nil
    BY <1>1, TypeFacts, ClientFacts, MessageAssumption DEF OwnerReads
  <1>5. OneRequest'
    BY <1>2, <1>4 DEF OneRequest
  <1>6. Request(m) /\ Sent(m)'
    BY <1>1, <1>4 DEF Sent
  <1>7. \A n \in Messages : n # m => (Request(n) => place'[n] = "none") /\
                                     place'[n] \notin {"used", "read"}
    <2>1. \A n \in Messages : OwnerReads(n)
      BY ClientFacts
    <2> QED
      BY <2>1, <1>2, <1>4 DEF OwnerReads
  <1>8. CASE UNCHANGED <<count, connectVars>>
    <2>1. NobodyWaits' /\ OneMaker' /\ \A c \in Connectors : MakerReads(c)'
      BY <1>3, <1>8 DEF NobodyWaits, OneMaker, MakerReads, connectVars
    <2>2. ASSUME NEW n \in Messages PROVE OwnerReads(n)'
      BY <1>1, <1>4, <1>7, <1>8 DEF OwnerReads
    <2> QED
      BY <1>1, <1>5, <2>1, <2>2, ClientFacts DEF ClientInv
  <1>9. CASE /\ \E c \in Connectors : maker' = [maker EXCEPT ![c] = Connecting(m)]
             /\ waiting' = <<>> /\ count' = Counted(m)
    <2>1. PICK c \in Connectors : maker' = [maker EXCEPT ![c] = Connecting(m)]
      BY <1>9
    <2>2. \A d \in Connectors : maker'[d] = IF d = c THEN Connecting(m) ELSE None
      BY <1>3, <2>1, TypeFacts DEF Threads
    <2>3. count'[m] = 2
      BY <1>4, <1>9, TypeFacts DEF Counted
    <2>4. /\ Connecting(m) # None /\ Connecting(m).first = m /\ Connecting(m).batch = <<>>
          /\ Connecting(m).step = "connect"
      <3>1. Connecting(m) \in Makings
        BY DEF Connecting, Makings
      <3> QED
        BY <3>1, NoneIsNone DEF Connecting
    <2>5. NobodyWaits'
      BY <1>6, <1>9 DEF NobodyWaits
    <2>6. OneMaker'
      BY <2>2 DEF OneMaker
    <2>7. ASSUME NEW d \in Connectors PROVE MakerReads(d)'
      BY <1>4, <1>6, <2>2, <2>3, <2>4 DEF MakerReads
    <2>8. ASSUME NEW n \in Messages PROVE OwnerReads(n)'
      <3>1. maker'[c] # None
        BY <2>2, <2>4
      <3> QED
        BY <3>1, <1>1, <1>4, <1>7 DEF OwnerReads
    <2> QED
      BY <1>1, <1>5, <2>5, <2>6, <2>7, <2>8, ClientFacts DEF ClientInv
  <1> QED
    BY <1>1, <1>3, <1>8, <1>9 DEF Send

LEMMA ClientOwn ==
  ASSUME LifeInv, Defined, role = "NICT", NEW m \in Messages,
         CountDown(m) \/ ReadCount(m) \/ WriteCount(m)
  PROVE  ClientInv'
PROOF
  <1>0. /\ spoilt = {} /\ OneRequest /\ NobodyWaits /\ OneMaker
        /\ \A c \in Connectors : MakerReads(c)
        /\ OwnerReads(m) /\ count[m] \in Int /\ seen[m] \in Int
    BY ClientFacts, TypeFacts
  <1>1. CASE CountDown(m)
    <2>1. /\ ~Request(m) /\ place' = [place EXCEPT ![m] = "gone"]
          /\ count' = [count EXCEPT ![m] = @ - 1]
          /\ UNCHANGED <<waiting, maker, seen>> /\ spoilt' = spoilt
      BY <1>1 DEF CountDown, Sends, connectVars, historyVars
    <2>2. \A n \in Messages : n # m => place'[n] = place[n] /\ count'[n] = count[n]
      BY <2>1, TypeFacts
    <2>3. \A n \in Messages : ~Request(n) => place'[n] \notin {"used", "read"}
      BY <2>1, <2>2, TypeFacts, ClientFacts DEF OwnerReads
    <2> QED
      BY <2>1, <2>2, <2>3, ClientSame
  <1>2. CASE ReadCount(m) \/ WriteCount(m)
    <2>1. /\ Request(m) /\ place[m] \in {"used", "read"}
          /\ UNCHANGED <<waiting, maker>>
      BY <1>0, <1>2 DEF ReadCount, WriteCount, OwnerReads, connectVars
    <2>2. \A n \in Messages : Request(n) /\ place[n] # "none" => n = m
      BY <1>0, <2>1 DEF OneRequest
    <2>3. \A c \in Connectors : maker[c] # None => maker[c].first = m
      <3>1. \A c \in Connectors : maker[c] # None => maker[c].first \in Messages
        BY TypeFacts DEF Threads, Makings
      <3> QED
        BY <3>1, <1>0, <2>2 DEF MakerReads, Sent
    <2>4. \A n \in Messages : n # m => (Request(n) => place[n] = "none") /\
                                       place[n] \notin {"used", "read"}
      BY <2>2, ClientFacts DEF OwnerReads
    <2>5. count[m] = IF \A c \in Connectors : maker[c] = None THEN 1 ELSE 2
      BY <1>0, <2>1, <2>3 DEF MakerReads, OwnerReads
    <2>6. /\ \A n \in Messages : n # m => /\ place'[n] = place[n] /\ seen'[n] = seen[n]
                                          /\ count'[n] = count[n]
          /\ place'[m] \in {"read", "gone"} /\ spoilt' = {}
          /\ place'[m] = "read" => count'[m] = count[m] /\ seen'[m] = count[m]
          /\ place'[m] = "gone" => count'[m] \in {0, 1} /\ (count[m] = 2 => count'[m] = 1)
      <3>1. CASE ReadCount(m)
        <4>1. /\ place' = [place EXCEPT ![m] = "read"] /\ seen' = [seen EXCEPT ![m] = count[m]]
              /\ count' = count /\ spoilt' = spoilt
          BY <3>1 DEF ReadCount, historyVars
        <4> QED
          BY <4>1, <1>0, TypeFacts
      <3>2. CASE WriteCount(m)
        <4>1. /\ place[m] = "read" /\ place' = [place EXCEPT ![m] = "gone"]
              /\ seen' = [seen EXCEPT ![m] = 0]
              /\ count' = [count EXCEPT ![m] = seen[m] - 1] /\ Lost(m, seen[m])
          BY <3>2 DEF WriteCount
        <4>2. seen[m] <= 2 /\ count[m] <= seen[m]
          BY <1>0, <2>1, <4>1 DEF OwnerReads
        <4>3. spoilt' = {}
          BY <1>0, <4>1, <4>2 DEF Lost
        <4>4. count[m] \in {1, 2}
          BY <2>5
        <4>5. seen[m] \in {1, 2} /\ (count[m] = 2 => seen[m] = 2)
          BY <1>0, <4>2, <4>4
        <4>6. count'[m] = seen[m] - 1 /\ place'[m] = "gone"
          BY <4>1, TypeFacts
        <4>7. \A n \in Messages : n # m => /\ place'[n] = place[n] /\ seen'[n] = seen[n]
                                           /\ count'[n] = count[n]
          BY <4>1, TypeFacts
        <4> QED
          BY <4>3, <4>5, <4>6, <4>7
      <3> QED
        BY <1>2, <3>1, <3>2
    <2>7. OneRequest'
      BY <2>1, <2>2, <2>6 DEF OneRequest
    <2>8. Sent(m)' /\ NobodyWaits'
      <3>1. Sent(m)'
        BY <2>6 DEF Sent
      <3> QED
        BY <3>1, <1>0, <2>1 DEF NobodyWaits
    <2>9. OneMaker'
      BY <1>0, <2>1 DEF OneMaker
    <2>10. ASSUME NEW c \in Connectors PROVE MakerReads(c)'
      <3>1. SUFFICES ASSUME maker[c] # None PROVE MakerReads(c)'
        BY <2>1 DEF MakerReads
      <3>2. maker[c].first = m /\ count[m] = 2 /\ MakerReads(c)
        BY <1>0, <2>3, <2>5, <3>1
      <3>3. count'[m] = IF place'[m] = "gone" THEN 1 ELSE 2
        BY <2>6, <3>2
      <3>4. maker[c].step = "read" => maker[c].seen <= 2 /\ 2 <= maker[c].seen
        BY <3>1, <3>2 DEF MakerReads
      <3>5. maker[c].seen \in Int
        BY <3>1, TypeFacts DEF Threads, Makings
      <3>6. maker[c].step = "read" => maker[c].seen <= 2 /\ count'[m] <= maker[c].seen
        BY <3>3, <3>4, <3>5
      <3>7. maker[c].batch = <<>>
        BY <3>1, <3>2 DEF MakerReads
      <3> QED
        BY <2>1, <2>8, <3>2, <3>3, <3>6, <3>7 DEF MakerReads
    <2>11. ASSUME NEW n \in Messages PROVE OwnerReads(n)'
      <3>1. CASE n = m
        BY <1>0, <2>1, <2>5, <2>6, <3>1 DEF OwnerReads
      <3>2. CASE n # m
        BY <2>4, <2>6, <3>2 DEF OwnerReads
      <3> QED
        BY <3>1, <3>2
    <2> QED
      BY <2>6, <2>7, <2>8, <2>9, <2>10, <2>11 DEF ClientInv
  <1> QED
    BY <1>1, <1>2

LEMMA ClientMake ==
  ASSUME LifeInv, Defined, role = "NICT", NEW c \in Connectors, Make(c)
  PROVE  ClientInv'
PROOF
  <1>0. /\ spoilt = {} /\ OneRequest /\ NobodyWaits /\ OneMaker /\ MakerReads(c)
        /\ maker[c] # None /\ maker[c] \in Makings
    <2>1. maker[c] # None
      BY DEF Make, Connect, FailConnect, TakeAfterFailure, ReadMakerCount, WriteMakerCount, Abandon
    <2> QED
      BY <2>1, ClientFacts, TypeFacts DEF Threads
  <1>a. maker[c].first \in Messages
    BY <1>0 DEF Makings
  <1>b. PICK m \in Messages : m = maker[c].first
    BY <1>a
  <1>1. /\ m \in Messages /\ Request(m) /\ Sent(m) /\ maker[c].batch = <<>> /\ Current(c) = m
        /\ count[m] = (IF place[m] = "gone" THEN 1 ELSE 2) /\ maker[c].seen \in Int
        /\ maker[c].step = "read" => maker[c].seen <= 2 /\ count[m] <= maker[c].seen
    BY <1>0, <1>b DEF MakerReads, Makings, Current
  <1>2. /\ \A d \in Connectors : d # c => maker[d] = None
        /\ \A n \in Messages : Request(n) /\ place[n] # "none" => n = m
    BY <1>0, <1>1 DEF OneMaker, OneRequest, Sent
  <1>3. \A n \in Messages : n # m => (Request(n) => place[n] = "none") /\
                                     place[n] \notin {"used", "read"}
    BY <1>2, ClientFacts DEF OwnerReads
  <1>4. UNCHANGED <<place, seen>>
    BY MakeType
  <1>5. OneRequest' /\ Sent(m)'
    BY <1>0, <1>1, <1>4 DEF OneRequest, Sent
  <1>6. CASE WriteMakerCount(c)
    <2>1. /\ maker' = [maker EXCEPT ![c] = None] /\ waiting' = waiting
          /\ count' = [count EXCEPT ![m] = maker[c].seen - 1] /\ Lost(m, maker[c].seen)
          /\ maker[c].step = "read"
      BY <1>1, <1>6, <1>b DEF WriteMakerCount, Step
    <2>2. /\ count'[m] = maker[c].seen - 1 /\ maker[c].seen <= 2 /\ count[m] <= maker[c].seen
          /\ \A n \in Messages : n # m => count'[n] = count[n]
      BY <1>1, <2>1, TypeFacts
    <2>3. spoilt' = {}
      BY <1>0, <1>1, <2>1, <2>2 DEF Lost
    <2>4. \A d \in Connectors : maker'[d] = None
      BY <1>2, <2>1, TypeFacts DEF Threads
    <2>5. NobodyWaits' /\ OneMaker' /\ \A d \in Connectors : MakerReads(d)'
      BY <1>0, <1>1, <1>5, <2>1, <2>4 DEF NobodyWaits, OneMaker, MakerReads
    <2>6. place[m] # "gone" => count'[m] = 1
      BY <1>1, <2>2
    <2>7. ASSUME NEW n \in Messages PROVE OwnerReads(n)'
      <3>0. OwnerReads(n)
        BY ClientFacts
      <3>1. CASE n = m
        <4>1. place[m] # "kept"
          BY <1>1 DEF Sent
        <4>2. place[m] = "read" => seen[m] <= 2 /\ 2 <= seen[m]
          BY <1>1, <3>0, <3>1 DEF OwnerReads
        <4>3. seen[m] \in Int
          BY <1>1, TypeFacts
        <4>4. place[m] = "read" => seen[m] <= 2 /\ count'[m] <= seen[m]
          BY <2>6, <4>2, <4>3
        <4> QED
          BY <1>1, <1>4, <2>6, <3>1, <4>1, <4>4 DEF OwnerReads
      <3>2. CASE n # m
        BY <1>3, <1>4, <3>2 DEF OwnerReads
      <3> QED
        BY <3>1, <3>2
    <2> QED
      BY <1>5, <2>3, <2>5, <2>7 DEF ClientInv
  <1>7. CASE ~WriteMakerCount(c)
    <2>1. ~Abandon(c)
      BY <1>1 DEF Abandon
    <2>2. count' = count /\ spoilt' = {} /\ waiting' \in {waiting, Nil}
      BY <1>0, <1>7, <2>1 DEF Make, Connect, FailConnect, TakeAfterFailure, ReadMakerCount,
                              historyVars
    <2>3. PICK r \in Makings :
            /\ Step(c, r) /\ r.first = m /\ r.batch = <<>>
            /\ r.step = "read" => r.seen = count[m]
      <3>1. CASE Connect(c) \/ TakeAfterFailure(c)
        <4>1. waiting = Nil \/ waiting = <<>>
          BY <1>0 DEF NobodyWaits
        <4>2. Writing(c) = [maker[c] EXCEPT !.step = "write", !.batch = <<>>]
          BY <4>1 DEF Writing
        <4>3. <<>> \in Seq(Messages)
          OBVIOUS
        <4>4. /\ Writing(c).first = m /\ Writing(c).batch = <<>> /\ Writing(c).step = "write"
          BY <1>0, <1>b, <4>2 DEF Makings
        <4>5. /\ Step(c, Writing(c)) /\ maker[c].step \in {"connect", "failed"} /\ waiting' = Nil
          BY <3>1 DEF Connect, TakeAfterFailure
        <4>6. Writing(c) \in Makings
          BY <1>0, <4>5, TypeFacts, TakeUses
        <4> QED
          BY <4>4, <4>5, <4>6
      <3>2. CASE FailConnect(c)
        <4>1. LET r == [maker[c] EXCEPT !.step = "failed"] IN
              r \in Makings /\ r.first = m /\ r.batch = maker[c].batch /\ r.step = "failed"
          BY <1>0, <1>b DEF Makings
        <4> QED
          BY <1>1, <3>2, <4>1 DEF FailConnect
      <3>3. CASE ReadMakerCount(c)
        <4> DEFINE k == count[m]
                   r == [maker[c] EXCEPT !.step = "read", !.seen = k]
        <4>1. k \in Int
          BY <1>1, TypeFacts
        <4>2. Step(c, r)
          BY <1>1, <1>b, <3>3 DEF ReadMakerCount
        <4> HIDE DEF k
        <4>3. r \in Makings /\ r.first = m /\ r.batch = maker[c].batch /\ r.seen = k
          BY <1>0, <1>b, <4>1 DEF Makings
        <4> QED
          BY <1>1, <4>2, <4>3 DEF k
      <3> QED
        BY <1>7, <2>1, <3>1, <3>2, <3>3 DEF Make
    <2>4. \A d \in Connectors : maker'[d] = IF d = c THEN r ELSE None
      BY <1>2, <2>3, TypeFacts DEF Step, Threads
    <2>5. NobodyWaits'
      <3>1. waiting' # Nil => waiting' = <<>>
        BY <1>0, <2>2 DEF NobodyWaits
      <3> QED
        BY <3>1, <1>1, <1>5 DEF NobodyWaits
    <2>6. OneMaker'
      BY <2>4 DEF OneMaker
    <2>7. r # None
      BY <2>3, NoneIsNone
    <2>8. MakerReads(c)'
      <3>1. maker'[c] = r
        BY <2>4
      <3>2. count'[m] = (IF place'[m] = "gone" THEN 1 ELSE 2) /\ count'[m] <= 2
        BY <1>1, <1>4, <2>2
      <3>3. r.step = "read" => r.seen <= 2 /\ count'[m] <= r.seen
        BY <2>2, <2>3, <3>2
      <3> QED
        BY <1>1, <1>5, <2>3, <3>1, <3>2, <3>3 DEF MakerReads
    <2>9. \A d \in Connectors : d # c => MakerReads(d)'
      BY <2>4 DEF MakerReads
    <2>10. ASSUME NEW n \in Messages PROVE OwnerReads(n)'
      <3>0. OwnerReads(n) /\ maker'[c] # None
        BY <2>4, <2>7, ClientFacts
      <3>1. CASE n = m
        BY <1>1, <1>4, <2>2, <3>0, <3>1 DEF OwnerReads
      <3>2. CASE n # m
        BY <1>3, <1>4, <3>2 DEF OwnerReads
      <3> QED
        BY <3>1, <3>2
    <2> QED
      BY <1>5, <2>2, <2>5, <2>6, <2>8, <2>9, <2>10 DEF ClientInv
  <1> QED
    BY <1>6, <1>7

LEMMA ClientNext ==
  ASSUME LifeInv, Next, role = "NICT"
  PROVE  ClientInv'
PROOF
  <1>0. Defined
    BY DEF Next, Progress
  <1>1. ASSUME NEW m \in Messages, Handle(m) PROVE ClientInv'
    BY <1>0, <1>1, ClientHandle
  <1>2. ASSUME NEW m \in Messages, Finish(m) PROVE ClientInv'
    BY <1>0, <1>2, ClientUse, ClientOwn DEF Finish
  <1>3. ASSUME NEW c \in Connectors, Make(c) PROVE ClientInv'
    BY <1>0, <1>3, ClientMake
  <1>4. CASE Delete \/ GiveUp \/ Stop \/ SendTimeout \/ DeleteTimeout \/ DeleteAll
    <2>1. UNCHANGED <<count, place, seen, waiting, maker>> /\ spoilt' = spoilt
      BY <1>4 DEF Delete, GiveUp, Stop, SendTimeout, DeleteTimeout, DeleteAll, ownerVars,
                  connectVars, historyVars
    <2>2. \A n \in Messages : ~Request(n) => place'[n] \notin {"used", "read"}
      BY <2>1, ClientFacts DEF OwnerReads
    <2> QED
      BY <2>1, <2>2, ClientSame
  <1> QED
    BY <1>1, <1>2, <1>3, <1>4 DEF Next, Progress

-----------------------------------------------------------------------------
(* The response SendTimeout will be called with.                           *)
LEMMA LateHandle ==
  ASSUME LifeInv, Defined, NEW m \in Messages, Handle(m)
  PROVE  LateInv'
PROOF
  <1>0. /\ UNCHANGED <<role, late>> /\ spoilt = {}
        /\ ToSet(queue) \cap Held = {}
    BY TypeFacts DEF Handle, Insert, DiscardAckOfRefusal, DiscardRepeated, DiscardOther, Discard,
                     Begins, Defined
  <1> SUFFICES ASSUME late # Nil, late \notin spoilt' PROVE late \in Kept'
    BY <1>0 DEF LifeInv, LateInv
  <1>1. late \in Held \cup ToSet(queue) /\ Status[late] = Ok
    BY <1>0 DEF LifeInv, LateInv, Kept
  <1>2. CASE Insert(m)
    <2>1. late \notin Unused(Replaced(m))
      BY <1>2 DEF Insert
    <2>2. Held' = (Held \ Replaced(m)) \cup {m} /\ Replaced(m) \subseteq Held
      BY <1>2, TypeFacts, StoringIs DEF Insert
    <2>3. ToSet(queue') = ToSet(queue) \cup (Replaced(m) \ Unused(Replaced(m)))
      BY <1>2, <2>2, RetireIs DEF Insert
    <2> QED
      BY <1>1, <2>1, <2>2, <2>3 DEF Kept
  <1>3. CASE DiscardAckOfRefusal(m)
    <2>1. trans # None /\ Status[trans.response] = Unauthorized /\ Retire(Held)
      BY <1>3 DEF DiscardAckOfRefusal, EndsRefusal, Answered
    <2>2. ToSet(queue') = ToSet(queue) \cup (Held \ Unused(Held))
      BY <2>1, RetireIs
    <2>3. late \notin Held
      <3>1. \A x \in Held : x = trans.request \/ x = trans.response \/ (x = trans.ack /\ x # Nil)
        BY <2>1 DEF Held
      <3>2. Status[trans.request] = 0 /\ (trans.ack # Nil => Status[trans.ack] = -1)
        BY <2>1, TypeFacts DEF ShapeInv, Request, Ack
      <3> QED
        BY <2>1, <3>1, <3>2, <1>1 DEF Ok, Unauthorized
    <2> QED
      BY <1>1, <2>2, <2>3 DEF Kept
  <1>4. CASE DiscardRepeated(m) \/ DiscardOther(m)
    <2>1. UNCHANGED <<queue, trans>>
      BY <1>4 DEF DiscardRepeated, DiscardOther
    <2> QED
      BY <1>1, <2>1 DEF Kept, Held
  <1> QED
    BY <1>2, <1>3, <1>4 DEF Handle

LEMMA LateNext ==
  ASSUME LifeInv, Next
  PROVE  LateInv'
PROOF
  <1>0. Defined
    BY DEF Next, Progress
  <1>1. ASSUME NEW m \in Messages, Handle(m) PROVE LateInv'
    BY <1>0, <1>1, LateHandle
  <1>2. ASSUME NEW m \in Messages, Finish(m) PROVE LateInv'
    <2>1. UNCHANGED <<role, late, trans, queue>> /\ spoilt \subseteq spoilt'
      BY <1>2 DEF Finish, CountDown, Use, ReadCount, WriteCount, historyVars, Lost
    <2> QED
      BY <2>1 DEF LifeInv, LateInv, Kept, Held
  <1>3. ASSUME NEW c \in Connectors, Make(c) PROVE LateInv'
    <2>1. UNCHANGED <<role, late, trans, queue>> /\ spoilt \subseteq spoilt'
      BY <1>3 DEF Make, Connect, FailConnect, TakeAfterFailure, ReadMakerCount, WriteMakerCount,
                  Abandon, historyVars, Lost
    <2> QED
      BY <2>1 DEF LifeInv, LateInv, Kept, Held
  <1>4. CASE GiveUp
    <2>1. /\ role' = role /\ role = "IST" /\ trans # None /\ trans.response # Nil
          /\ trans' = [trans EXCEPT !.over = TRUE] /\ queue' = queue
          /\ late' = IF Status[trans.response] = Ok THEN trans.response ELSE Nil
      BY <1>4 DEF GiveUp, Answered
    <2>2. trans \in Transactions
      BY <2>1, TypeFacts
    <2>3. trans'.response = trans.response /\ trans' \in Transactions
      BY <2>1, <2>2 DEF Transactions
    <2>4. trans' # None
      BY <2>3, NoneIsNone
    <2>5. trans.response \in Kept'
      BY <2>1, <2>3, <2>4 DEF Held, Kept
    <2> QED
      BY <2>1, <2>5 DEF LateInv
  <1>5. CASE Delete \/ DeleteTimeout \/ SendTimeout \/ DeleteAll
    BY <1>5 DEF Delete, DeleteTimeout, SendTimeout, DeleteAll, ThreadsEnded, LateInv
  <1>6. CASE Stop
    <2>1. UNCHANGED <<role, late, trans, queue, spoilt>>
      BY <1>6 DEF Stop, historyVars
    <2> QED
      BY <2>1 DEF LifeInv, LateInv, Kept, Held
  <1> QED
    BY <1>1, <1>2, <1>3, <1>4, <1>5, <1>6 DEF Next, Progress

-----------------------------------------------------------------------------
(* The theorems.                                                           *)
LEMMA LifeInit == Init => LifeInv
PROOF
  <1> SUFFICES ASSUME Init PROVE LifeInv
    OBVIOUS
  <1>1. /\ trans = None /\ queue = <<>> /\ waiting = Nil /\ maker = [c \in Connectors |-> None]
        /\ obj = [m \in Messages |-> "none"] /\ count = [m \in Messages |-> 0]
        /\ place = [m \in Messages |-> "none"] /\ seen = count
        /\ late = Nil /\ twice = {} /\ spoilt = {} /\ stuck = {} /\ run = "up"
    BY DEF Init
  <1>2. Held = {} /\ ToSet(queue) = {} /\ Kept = {}
    BY <1>1 DEF Held, ToSet, Kept
  <1>3. TypeOK
    <2>1. queue \in Seq(Messages) /\ IsInjective(queue)
      BY <1>1 DEF IsInjective
    <2>2. /\ obj \in [Messages -> {"none", "live", "freed"}]
          /\ count \in [Messages -> Int] /\ seen \in [Messages -> Int]
          /\ place \in [Messages -> {"none", "kept", "used", "read", "gone"}]
      BY <1>1
    <2> QED
      BY <1>1, <1>2, <2>1, <2>2 DEF TypeOK, Init
  <1>4. ShapeInv
    BY <1>1 DEF ShapeInv
  <1>5. ASSUME NEW m \in Messages PROVE Uses(m) = 0
    <2>1. UsersOf(m, "none", Nil, maker) = {}
      <3>1. \A t : t \notin UsersOf(m, "none", Nil, maker)
        BY <1>1, UserIs DEF Using
      <3> QED
        BY <3>1
    <2>2. UsesOf(m, "none", Nil, maker) = 0
      BY <2>1, FS_EmptySet DEF UsesOf
    <2> QED
      BY <1>1, <2>2, UsesAre
  <1>6. \A m \in Messages : CountInv(m) /\ KeptInv(m)
    BY <1>1, <1>2, <1>5 DEF CountInv, KeptInv
  <1>7. ClientInv
    BY <1>1 DEF ClientInv, OneRequest, NobodyWaits, OneMaker, MakerReads, OwnerReads
  <1>8. LateInv
    BY <1>1 DEF LateInv
  <1> QED
    BY <1>3, <1>4, <1>6, <1>7, <1>8 DEF LifeInv

LEMMA LifeNext == LifeInv /\ [Next]_vars => LifeInv'
PROOF
  <1> SUFFICES ASSUME LifeInv, [Next]_vars PROVE LifeInv'
    OBVIOUS
  <1>1. CASE Next
    <2>1. TypeOK' /\ ShapeInv'
      BY <1>1, TypeNext
    <2>2. \A m \in Messages : CountInv(m)' /\ KeptInv(m)'
      BY <1>1, CountNext, KeptNext DEF Counts
    <2>3. role' = "NICT" => ClientInv'
      <3>1. role' = role
        BY <1>1 DEF Next, Progress, Handle, Insert, DiscardAckOfRefusal, DiscardRepeated,
          DiscardOther, Discard, Begins, Finish, CountDown, Use, ReadCount, WriteCount, Make,
          Connect, FailConnect, TakeAfterFailure, ReadMakerCount, WriteMakerCount, Abandon,
          Delete, GiveUp, Stop, SendTimeout, DeleteTimeout, DeleteAll
      <3> QED
        BY <3>1, <1>1, ClientNext
    <2>4. LateInv'
      BY <1>1, LateNext
    <2> QED
      BY <2>1, <2>2, <2>3, <2>4 DEF LifeInv
  <1>2. CASE UNCHANGED vars
    <2>1. UNCHANGED <<role, transport, obj, count, place, seen, trans, queue, waiting, maker, late,
                      twice, spoilt, stuck, run>>
      BY <1>2 DEF vars, ownerVars, connectVars, historyVars
    <2>2. TypeOK' /\ ShapeInv'
      BY <2>1, TypeFacts DEF TypeOK, ShapeInv, Held
    <2>3. ASSUME NEW m \in Messages PROVE CountInv(m)' /\ KeptInv(m)'
      <3>1. Uses(m)' = Uses(m)
        BY <2>1, UsesAre
      <3>2. Held' = Held /\ Kept' = Kept
        BY <2>1 DEF Held, Kept
      <3>3. CountInv(m) /\ KeptInv(m)
        BY DEF LifeInv
      <3> QED
        BY <2>1, <3>1, <3>2, <3>3 DEF CountInv, KeptInv
    <2>4. role = "NICT" => ClientInv'
      <3>1. role = "NICT" => \A n \in Messages : ~Request(n) => place'[n] \notin {"used", "read"}
        BY <2>1, ClientFacts DEF OwnerReads
      <3> QED
        BY <2>1, <3>1, ClientSame
    <2>5. LateInv'
      BY <2>1 DEF LifeInv, LateInv, Kept, Held
    <2> QED
      BY <2>1, <2>2, <2>3, <2>4, <2>5 DEF LifeInv
  <1> QED
    BY <1>1, <1>2

LEMMA Life == Spec => []LifeInv
BY LifeInit, LifeNext, PTL DEF Spec

(* "The number of uses of the object" (SipMessage.h): every variable has   *)
(* its type, and m_iUseCount is the number of threads and lists that use   *)
(* the message, but for the messages two threads counted at a time or a    *)
(* TLS thread gave up on.                                                  *)
THEOREM CountIsRight == Spec => []Consistent
PROOF
  <1>1. LifeInv => Consistent
    BY DEF LifeInv, CountInv, Consistent, CountIsUses
  <1> QED
    BY <1>1, Life, PTL

(* Whoever has a message, a thread, a list, the transaction, the delete    *)
(* queue or the stack thread on its way to SendTimeout, has one that was   *)
(* not deleted, and none is deleted twice: a non-INVITE client always; an  *)
(* INVITE server as long as no two threads count a use at a time, no TLS   *)
(* thread gives up on the message and none but the stack thread, on its    *)
(* way to SendTimeout, still has it when another response replaces it.     *)
THEOREM NoUseAfterDelete == Spec => []UsedIsLive
PROOF
  <1>1. LifeInv => UsedIsLive
    <2> SUFFICES ASSUME LifeInv, NEW m \in Messages, role = "IST" => m \notin spoilt
                 PROVE  /\ m \notin twice
                        /\ run # "stopped" /\
                             (Uses(m) > 0 \/ m = late \/ m \in Held \cup ToSet(queue))
                             => obj[m] = "live"
      BY DEF UsedIsLive
    <2>1. role \in {"IST", "NICT"}
      BY TypeFacts, MessageAssumption
    <2>2. m \notin spoilt
      BY <2>1, ClientFacts
    <2>3. KeptInv(m)
      BY DEF LifeInv
    <2>4. m = late => m \in Kept
      BY <2>2, MessageAssumption DEF LifeInv, LateInv
    <2> QED
      BY <2>2, <2>3, <2>4 DEF KeptInv, Kept
  <1> QED
    BY <1>1, Life, PTL

(* When the stack is stopped every message was deleted, but what an        *)
(* application was still sending.                                          *)
THEOREM NothingLeaks == Spec => []StopFreesAll
PROOF
  <1>1. LifeInv => StopFreesAll
    <2> SUFFICES ASSUME LifeInv, run = "stopped", NEW m \in Messages PROVE obj[m] # "live"
      BY DEF StopFreesAll
    <2>1. trans = None /\ queue = <<>>
      BY TypeFacts DEF ShapeInv
    <2>2. Kept = {}
      BY <2>1 DEF Kept, Held, ToSet
    <2>3. KeptInv(m)
      BY DEF LifeInv
    <2> QED
      BY <2>2, <2>3 DEF KeptInv
  <1> QED
    BY <1>1, Life, PTL
=============================================================================
