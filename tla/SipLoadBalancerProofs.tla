----------------------- MODULE SipLoadBalancerProofs -----------------------
(***************************************************************************)
(* Proofs about the load balancer, for every set of servers, of users and  *)
(* of threads, every server list and any number of reloads.                *)
(***************************************************************************)
EXTENDS SipLoadBalancer, SequenceTheorems, TLAPS

Entries == [server : Servers, use : BOOLEAN]
Elements == [server : Servers, use : BOOLEAN, delete : BOOLEAN]
Tasks == [at : {"idle", "insert", "next", "store", "select"},
          user : Users \cup {None}, server : Servers \cup {None}]

(* A server has one place in the list. *)
Unique(l) == \A i, j \in DOMAIN l : l[i].server = l[j].server => i = j
ServersOf(l) == {l[i].server : i \in DOMAIN l}

LEMMA ListedIn == \A s : Listed(s) <=> s \in ServersOf(list)
  BY DEF Listed, Places, ServersOf

LEMMA UnmarkedType ==
  ASSUME NEW c \in Entries
  PROVE  Unmarked(c) \in Elements /\ Unmarked(c).server = c.server
  BY DEF Entries, Elements, Unmarked

(* A list whose elements change, but not their servers. *)
LEMMA ChangedList ==
  ASSUME NEW S, NEW l \in Seq(S), NEW m, DOMAIN m = DOMAIN l, m = [i \in DOMAIN l |-> m[i]],
         \A i \in DOMAIN l : m[i] \in Elements /\ m[i].server = l[i].server
  PROVE  /\ m \in Seq(Elements) /\ ServersOf(m) = ServersOf(l)
         /\ Unique(l) => Unique(m)
  <1>1. Len(l) \in Nat /\ DOMAIN l = 1 .. Len(l)
    OBVIOUS
  <1>2. m \in [1 .. Len(l) -> Elements]
    BY <1>1
  <1>3. m \in Seq(Elements)
    BY <1>1, <1>2
  <1> QED
    BY <1>3 DEF ServersOf, Unique

LEMMA InsertedList ==
  ASSUME NEW l \in Seq(Elements), Unique(l), NEW c \in Entries
  PROVE  /\ Inserted(l, c) \in Seq(Elements) /\ Unique(Inserted(l, c))
         /\ ServersOf(l) \subseteq ServersOf(Inserted(l, c))
  <1>1. CASE Places(l, c.server) = {}
    <2> DEFINE m == Append(l, Unmarked(c))
    <2>1. Inserted(l, c) = m
      BY <1>1 DEF Inserted
    <2>2. /\ m \in Seq(Elements) /\ Len(m) = Len(l) + 1 /\ Len(l) \in Nat
          /\ m[Len(l) + 1] = Unmarked(c) /\ \A i \in 1 .. Len(l) : m[i] = l[i]
          /\ DOMAIN m = 1 .. Len(l) + 1 /\ DOMAIN l = 1 .. Len(l)
      BY UnmarkedType
    <2>3. Unmarked(c).server = c.server /\ \A i \in DOMAIN l : l[i].server # c.server
      BY <1>1, UnmarkedType DEF Places
    <2> HIDE DEF m
    <2>4. Unique(m)
      BY <2>2, <2>3 DEF Unique
    <2>5. ServersOf(l) \subseteq ServersOf(m)
      BY <2>2 DEF ServersOf
    <2> QED
      BY <2>1, <2>2, <2>4, <2>5
  <1>2. CASE Places(l, c.server) # {}
    <2> DEFINE m == [i \in DOMAIN l |-> IF l[i].server = c.server THEN Unmarked(c) ELSE l[i]]
    <2>1. Inserted(l, c) = m
      BY <1>2 DEF Inserted
    <2>2. /\ DOMAIN m = DOMAIN l /\ m = [i \in DOMAIN l |-> m[i]]
          /\ \A i \in DOMAIN l : m[i] \in Elements /\ m[i].server = l[i].server
      BY UnmarkedType
    <2> HIDE DEF m
    <2> QED
      BY <2>1, <2>2, ChangedList
  <1> QED
    BY <1>1, <1>2

LEMMA RemovedList ==
  ASSUME NEW l \in Seq(Elements), Unique(l), NEW p \in DOMAIN l
  PROVE  /\ RemoveAt(l, p) \in Seq(Elements) /\ Unique(RemoveAt(l, p))
         /\ ServersOf(RemoveAt(l, p)) = ServersOf(l) \ {l[p].server}
         /\ Len(RemoveAt(l, p)) = Len(l) - 1
         /\ \A i \in 1 .. Len(l) - 1 : RemoveAt(l, p)[i] = IF i < p THEN l[i] ELSE l[i + 1]
  <1> DEFINE m == RemoveAt(l, p)
  <1>1. p \in 1 .. Len(l) /\ Len(l) \in Nat /\ DOMAIN l = 1 .. Len(l)
    OBVIOUS
  <1>2. /\ m \in Seq(Elements) /\ Len(m) = Len(l) - 1
        /\ \A i \in 1 .. Len(l) - 1 : m[i] = IF i < p THEN l[i] ELSE l[i + 1]
    <2> DEFINE a == SubSeq(l, 1, p - 1)
               b == SubSeq(l, p + 1, Len(l))
    <2>1. /\ a \in Seq(Elements) /\ Len(a) = p - 1
          /\ \A i \in 1 .. p - 1 : a[i] = l[i]
      BY <1>1, SubSeqProperties
    <2>2. /\ b \in Seq(Elements) /\ Len(b) = Len(l) - p
          /\ \A i \in 1 .. Len(l) - p : b[i] = l[p + i]
      BY <1>1, SubSeqProperties
    <2>3. m = a \o b
      BY DEF RemoveAt
    <2> HIDE DEF a, b, m
    <2>4. m \in Seq(Elements) /\ Len(m) = Len(l) - 1
      <3>1. m \in Seq(Elements) /\ Len(m) = (p - 1) + (Len(l) - p)
        <4>1. a \o b \in Seq(Elements) /\ Len(a \o b) = Len(a) + Len(b)
          BY <2>1, <2>2, ConcatProperties
        <4> QED
          BY <2>1, <2>2, <2>3, <4>1
      <3> QED
        BY <1>1, <3>1
    <2>5. ASSUME NEW i \in 1 .. Len(l) - 1 PROVE m[i] = IF i < p THEN l[i] ELSE l[i + 1]
      <3>1. CASE i < p
        BY <1>1, <2>1, <2>2, <2>3, <3>1
      <3>2. CASE i >= p
        <4>1. m[i] = b[i - (p - 1)]
          BY <1>1, <2>1, <2>2, <2>3, <3>2
        <4>2. i - (p - 1) \in 1 .. Len(l) - p /\ p + (i - (p - 1)) = i + 1
          BY <1>1, <3>2
        <4> QED
          BY <1>1, <2>2, <3>2, <4>1, <4>2
      <3> QED
        BY <1>1, <3>1, <3>2
    <2> QED
      BY <2>4, <2>5
  <1> HIDE DEF m
  <1>3. DOMAIN m = 1 .. Len(l) - 1
    BY <1>1, <1>2
  <1>4. \A i \in DOMAIN m : \E k \in DOMAIN l : k # p /\ m[i] = l[k] /\ k = IF i < p THEN i ELSE i + 1
    BY <1>1, <1>2, <1>3
  <1>5. \A k \in DOMAIN l : k # p => \E i \in DOMAIN m : m[i] = l[k]
    <2>1. ASSUME NEW k \in DOMAIN l, k < p PROVE k \in DOMAIN m /\ m[k] = l[k]
      BY <1>1, <1>2, <1>3, <2>1
    <2>2. ASSUME NEW k \in DOMAIN l, k > p PROVE k - 1 \in DOMAIN m /\ m[k - 1] = l[k]
      BY <1>1, <1>2, <1>3, <2>2
    <2> QED
      BY <1>1, <2>1, <2>2
  <1>6. Unique(m)
    BY <1>1, <1>3, <1>4 DEF Unique
  <1>7. ServersOf(m) = ServersOf(l) \ {l[p].server}
    BY <1>4, <1>5 DEF ServersOf, Unique
  <1> QED
    BY <1>2, <1>6, <1>7 DEF m

-----------------------------------------------------------------------------
(* AssignedIsListed rests on the two mutexes: the server that a worker has *)
(* chosen for a new user stays in the list, as the worker keeps the users' *)
(* mutex, which DeleteSipServer takes.                                     *)
WorkerInv(w) ==
  /\ worker[w] \in Tasks
  /\ worker[w].at \in {"next", "store"} <=> userMutex = w
  /\ worker[w].at # "idle" => worker[w].user \in Users
  /\ worker[w].at \in {"insert", "next"} => worker[w].server = None
  /\ worker[w].at = "store" /\ worker[w].server # None => Listed(worker[w].server)

MainInv ==
  /\ main \in [at : {"idle", "insert", "delete"}, todo : Seq(Entries), pos : Nat]
  /\ main.at = "delete" => main.pos > 0
  /\ serverMutex = IF main.at = "delete" THEN Main ELSE None

ListInv ==
  /\ list \in Seq(Elements) /\ Unique(list)
  /\ users \in [Users -> Servers \cup {None}]
  /\ AssignedIsListed

Counters ==
  /\ index \in Nat /\ crashed \in BOOLEAN
  /\ requests \in 0 .. MaxRequests /\ reloads \in 0 .. MaxReloads

BalancerInv ==
  /\ ListInv /\ MainInv /\ Counters
  /\ userMutex \in Workers \cup {None}
  /\ worker = [w \in Workers |-> worker[w]] /\ \A w \in Workers : WorkerInv(w)

LEMMA InvConsistent == BalancerInv => Consistent
  <1> SUFFICES ASSUME BalancerInv PROVE Consistent
    OBVIOUS
  <1>1. worker \in [Workers -> Tasks]
    BY DEF BalancerInv, WorkerInv
  <1>2. \A s \in Servers : \A i, j \in Places(list, s) : i = j
    BY DEF BalancerInv, ListInv, Unique, Places
  <1>3. serverMutex \in {Main, None} /\ main.at \in {"idle", "insert", "delete"}
    BY DEF BalancerInv, MainInv
  <1> QED
    BY <1>1, <1>2, <1>3 DEF BalancerInv, ListInv, Counters, Consistent, TypeOK, Elements, Tasks

LEMMA InitInv == Init => BalancerInv
  <1> SUFFICES ASSUME Init PROVE BalancerInv
    OBVIOUS
  <1>1. PICK c \in Configs : list = [i \in DOMAIN c |-> Unmarked(c[i])]
    BY DEF Init
  <1>2. c \in Seq(Entries) /\ Unique(c)
    BY BalancerAssumption DEF Entries, Unique
  <1>3. \A i \in DOMAIN c : list[i] \in Elements /\ list[i].server = c[i].server
    BY <1>1, <1>2, UnmarkedType
  <1>4. list \in Seq(Elements) /\ Unique(list)
    BY <1>1, <1>2, <1>3, ChangedList
  <1>5. ListInv /\ Counters
    <2>1. Counters
      <3>1. 0 \in 0 .. MaxRequests /\ 0 \in 0 .. MaxReloads
        BY BalancerAssumption
      <3> QED
        BY <3>1 DEF Init, Counters
    <2>2. users \in [Users -> Servers \cup {None}] /\ AssignedIsListed
      BY DEF Init, AssignedIsListed
    <2> QED
      BY <1>4, <2>1, <2>2 DEF ListInv
  <1>6. MainInv
    BY DEF Init, MainInv, AtRest
  <1>7. \A w \in Workers : WorkerInv(w)
    BY BalancerAssumption DEF Init, WorkerInv, Idle, Tasks
  <1> QED
    BY <1>5, <1>6, <1>7 DEF Init, BalancerInv

(* A step of one worker that leaves the list and the main thread alone. *)
LEMMA WorkerStep ==
  ASSUME BalancerInv, NEW w \in Workers, NEW x,
         worker' = [worker EXCEPT ![w] = x], WorkerInv(w)', userMutex' \in Workers \cup {None},
         \A v \in Workers \ {w} : userMutex' = v <=> userMutex = v,
         UNCHANGED <<list, main, serverMutex>>, Counters',
         users' \in [Users -> Servers \cup {None}], AssignedIsListed'
  PROVE  BalancerInv'
  <1>1. \A v \in Workers \ {w} : worker'[v] = worker[v]
    BY DEF BalancerInv
  <1>2. \A v \in Workers \ {w} : WorkerInv(v)'
    BY <1>1 DEF BalancerInv, WorkerInv, Listed, Places
  <1>3. worker' = [v \in Workers |-> worker'[v]]
    BY DEF BalancerInv
  <1> QED
    BY <1>2, <1>3 DEF BalancerInv, ListInv, MainInv

(* A step of the main thread that changes neither the list nor the users. *)
LEMMA MainStep ==
  ASSUME BalancerInv, MainInv', Counters', UNCHANGED <<list, users, userMutex, worker>>
  PROVE  BalancerInv'
  BY DEF BalancerInv, ListInv, WorkerInv, AssignedIsListed, Listed, Places

(* A step of the main thread after which no server that is assigned or     *)
(* about to be is missing.                                                 *)
LEMMA ListStep ==
  ASSUME BalancerInv, MainInv', Counters', UNCHANGED <<userMutex, worker>>,
         list' \in Seq(Elements), Unique(list'),
         users' \in [Users -> Servers \cup {None}],
         \A u \in Users : users'[u] # None => users'[u] = users[u] /\ Listed(users[u])',
         userMutex = None \/ \A s : Listed(s) => Listed(s)'
  PROVE  BalancerInv'
  <1>1. \A w \in Workers : WorkerInv(w)'
    <2>1. CASE userMutex = None
      BY <2>1, BalancerAssumption DEF BalancerInv, WorkerInv
    <2>2. CASE \A s : Listed(s) => Listed(s)'
      BY <2>2 DEF BalancerInv, WorkerInv
    <2> QED
      BY <2>1, <2>2
  <1> QED
    BY <1>1 DEF BalancerInv, ListInv, AssignedIsListed

LEMMA StepInv == BalancerInv /\ [Next]_vars => BalancerInv'
  <1> SUFFICES ASSUME BalancerInv, [Next]_vars PROVE BalancerInv'
    OBVIOUS
  <1>0. /\ ListInv /\ MainInv /\ Counters
        /\ userMutex \in Workers \cup {None}
        /\ \A w \in Workers : WorkerInv(w)
        /\ None \notin Servers \cup Workers /\ Main \notin Workers \cup {None}
    BY BalancerAssumption DEF BalancerInv
  <1>a. ASSUME NEW w \in Workers, NEW x, worker' = [worker EXCEPT ![w] = x]
        PROVE  worker'[w] = x
    BY <1>a DEF BalancerInv
  <1>1. ASSUME NEW w \in Workers, NEW u \in Users, NEW s \in Servers \cup {None},
               RecvRequest(w, u, s)
        PROVE  BalancerInv'
    <2> DEFINE x == [at |-> IF Listed(s) THEN "select" ELSE "insert", user |-> u, server |-> None]
    <2>1. worker' = [worker EXCEPT ![w] = x] /\ worker'[w] = x
      BY <1>1, <1>a DEF RecvRequest
    <2>2. x \in Tasks /\ x.at \in {"select", "insert"} /\ x.user = u /\ x.server = None
      BY DEF Tasks
    <2>3. Counters'
      <3>1. requests' \in 0 .. MaxRequests
        BY <1>0, <1>1, BalancerAssumption DEF RecvRequest, Counters
      <3> QED
        BY <1>0, <1>1, <3>1 DEF RecvRequest, Counters
    <2> HIDE DEF x
    <2>4. WorkerInv(w)'
      BY <1>0, <1>1, <2>1, <2>2 DEF RecvRequest, WorkerInv
    <2> QED
      BY <1>0, <1>1, <2>1, <2>3, <2>4, WorkerStep
         DEF RecvRequest, ListInv, AssignedIsListed, Listed, Places
  <1>2. ASSUME NEW w \in Workers, Insert(w) PROVE BalancerInv'
    <2>1. PICK a \in {"next", "select"} :
            /\ worker' = [worker EXCEPT ![w] = [worker[w] EXCEPT !.at = a]]
            /\ userMutex' = IF a = "next" THEN w ELSE userMutex
            /\ userMutex = None
            /\ UNCHANGED <<list, users, main, serverMutex, index, crashed, requests, reloads>>
      BY <1>2 DEF Insert, Goes, Kept
    <2>2. worker'[w] = [worker[w] EXCEPT !.at = a]
      BY <1>a, <2>1
    <2>3. worker[w] \in Tasks /\ worker[w].at = "insert"
      BY <1>0, <1>2 DEF Insert, WorkerInv
    <2>4. /\ worker'[w] \in Tasks /\ worker'[w].at = a
          /\ worker'[w].user = worker[w].user /\ worker'[w].server = worker[w].server
      BY <2>2, <2>3 DEF Tasks
    <2>5. WorkerInv(w)'
      BY <1>0, <2>1, <2>3, <2>4 DEF WorkerInv
    <2> QED
      BY <1>0, <2>1, <2>5, WorkerStep DEF ListInv, Counters, AssignedIsListed, Listed, Places
  <1>3. ASSUME NEW w \in Workers, SelectNext(w) PROVE BalancerInv'
    <2>1. worker[w] \in Tasks /\ worker[w].at = "next" /\ worker[w].server = None
          /\ userMutex = w /\ worker[w].user \in Users
      BY <1>0, <1>3 DEF SelectNext, WorkerInv
    <2>2. UNCHANGED <<list, users, userMutex, main, serverMutex, crashed, requests, reloads>>
      BY <1>3 DEF SelectNext
    <2>3. Len(list) \in Nat /\ (list # <<>> => Len(list) > 0) /\ DOMAIN list = 1 .. Len(list)
          /\ index \in Nat
      BY <1>0 DEF ListInv, Counters
    <2>4. Counters'
      <3>1. Following(index) \in Nat
        BY <2>3 DEF Following
      <3> QED
        BY <1>0, <1>3, <3>1 DEF SelectNext, Counters
    <2>5. PICK s \in Servers \cup {None} :
            /\ worker' = [worker EXCEPT ![w] = [worker[w] EXCEPT !.at = "store", !.server = s]]
            /\ s # None => Listed(s)
      <3>1. CASE list = <<>>
        <4>1. worker' = [worker EXCEPT ![w] = [worker[w] EXCEPT !.at = "store"]]
          BY <1>3, <3>1 DEF SelectNext, Goes
        <4>2. [worker[w] EXCEPT !.at = "store"] = [worker[w] EXCEPT !.at = "store", !.server = None]
          BY <2>1 DEF Tasks
        <4> QED
          BY <4>1, <4>2
      <3>2. CASE list # <<>>
        <4> DEFINE i == IF index >= Len(list) THEN 1 ELSE index + 1
        <4>1. i \in DOMAIN list
          BY <2>3, <3>2
        <4>2. worker' = [worker EXCEPT ![w] =
                           [worker[w] EXCEPT !.at = "store", !.server = list[i].server]]
          BY <1>3, <3>2 DEF SelectNext
        <4> HIDE DEF i
        <4>3. list[i].server \in Servers
          <5>1. list[i] \in Elements
            BY <1>0, <4>1 DEF ListInv
          <5> QED
            BY <5>1 DEF Elements
        <4>4. Listed(list[i].server)
          BY <4>1 DEF Listed, Places
        <4> QED
          BY <4>2, <4>3, <4>4
      <3> QED
        BY <3>1, <3>2
    <2>6. worker'[w] = [worker[w] EXCEPT !.at = "store", !.server = s]
      BY <1>a, <2>5
    <2>7. /\ worker'[w] \in Tasks /\ worker'[w].at = "store"
          /\ worker'[w].user = worker[w].user /\ worker'[w].server = s
      BY <2>1, <2>6 DEF Tasks
    <2>8. WorkerInv(w)'
      BY <2>1, <2>2, <2>5, <2>7 DEF WorkerInv, Listed, Places
    <2> QED
      BY <1>0, <2>2, <2>4, <2>5, <2>8, WorkerStep DEF ListInv, AssignedIsListed, Listed, Places
  <1>4. ASSUME NEW w \in Workers, Store(w) PROVE BalancerInv'
    <2>1. worker[w] \in Tasks /\ worker[w].at = "store" /\ userMutex = w
          /\ worker[w].user \in Users
          /\ worker[w].server \in Servers \cup {None}
          /\ (worker[w].server # None => Listed(worker[w].server))
      BY <1>0, <1>4 DEF Store, WorkerInv, Tasks
    <2>2. /\ users' = [users EXCEPT ![worker[w].user] =
                         IF @ = None THEN worker[w].server ELSE @]
          /\ userMutex' = None
          /\ worker' = [worker EXCEPT ![w] = [worker[w] EXCEPT !.at = "select", !.server = None]]
          /\ UNCHANGED <<list, main, serverMutex, index, crashed, requests, reloads>>
      BY <1>4 DEF Store, Released
    <2>3. worker'[w] = [worker[w] EXCEPT !.at = "select", !.server = None]
      BY <1>a, <2>2
    <2>4. /\ worker'[w] \in Tasks /\ worker'[w].at = "select"
          /\ worker'[w].user = worker[w].user
      BY <2>1, <2>3 DEF Tasks
    <2>5. WorkerInv(w)'
      BY <1>0, <2>1, <2>2, <2>4 DEF WorkerInv
    <2>6. users' \in [Users -> Servers \cup {None}]
      BY <1>0, <2>1, <2>2 DEF ListInv
    <2>7. AssignedIsListed'
      <3>1. ASSUME NEW u \in Users, users'[u] # None PROVE Listed(users'[u])
        BY <1>0, <2>1, <2>2, <3>1 DEF ListInv, AssignedIsListed
      <3> QED
        BY <2>2, <3>1 DEF AssignedIsListed, Listed, Places
    <2> QED
      BY <1>0, <2>1, <2>2, <2>5, <2>6, <2>7, WorkerStep DEF Counters
  <1>5. ASSUME NEW w \in Workers, Forward(w) PROVE BalancerInv'
    <2>1. worker' = [worker EXCEPT ![w] = Idle] /\ worker'[w] = Idle
      BY <1>5, <1>a DEF Forward
    <2>2. Idle \in Tasks /\ Idle.at = "idle"
      BY DEF Idle, Tasks
    <2>3. UNCHANGED <<list, users, userMutex, main, serverMutex, index, crashed, requests, reloads>>
          /\ userMutex = None
      BY <1>5 DEF Forward
    <2>4. WorkerInv(w)'
      BY <1>0, <2>1, <2>2, <2>3 DEF WorkerInv
    <2> QED
      BY <1>0, <2>1, <2>3, <2>4, WorkerStep DEF ListInv, Counters, AssignedIsListed, Listed, Places
  <1>6. CASE SetDeleteAll
    <2>1. list' \in Seq(Elements) /\ Unique(list') /\ ServersOf(list') = ServersOf(list)
      <3>1. /\ list' = [i \in DOMAIN list |-> [list[i] EXCEPT !.delete = TRUE]]
            /\ list \in Seq(Elements)
        BY <1>0, <1>6 DEF SetDeleteAll, Marked, ListInv
      <3>2. \A i \in DOMAIN list : list'[i] \in Elements /\ list'[i].server = list[i].server
        <4>1. ASSUME NEW i \in DOMAIN list
              PROVE  LET e == [list[i] EXCEPT !.delete = TRUE]
                     IN  e \in Elements /\ e.server = list[i].server
          <5>1. list[i] \in Elements
            BY <3>1
          <5> QED
            BY <5>1 DEF Elements
        <4> QED
          BY <3>1, <4>1
      <3> QED
        BY <1>0, <3>1, <3>2, ChangedList DEF ListInv
    <2>2. MainInv'
      <3>1. file' \in Seq(Entries)
        BY <1>6, BalancerAssumption DEF SetDeleteAll, Entries
      <3> QED
        BY <1>0, <1>6, <3>1 DEF SetDeleteAll, MainInv
    <2>3. Counters'
      <3>1. reloads' \in 0 .. MaxReloads
        BY <1>0, <1>6, BalancerAssumption DEF SetDeleteAll, Counters
      <3> QED
        BY <1>0, <1>6, <3>1 DEF SetDeleteAll, Counters
    <2>4. \A s : Listed(s) => Listed(s)'
      BY <2>1 DEF Listed, Places, ServersOf
    <2> QED
      BY <1>0, <1>6, <2>1, <2>2, <2>3, <2>4, ListStep DEF SetDeleteAll, ListInv, AssignedIsListed
  <1>7. CASE InsertServer
    <2>1. main.todo \in Seq(Entries) /\ main.todo # <<>> /\ main.at = "insert"
      BY <1>0, <1>7 DEF InsertServer, MainInv
    <2>2. Head(main.todo) \in Entries /\ Tail(main.todo) \in Seq(Entries)
      BY <2>1
    <2>3. /\ list' \in Seq(Elements) /\ Unique(list')
          /\ ServersOf(list) \subseteq ServersOf(list')
      BY <1>0, <1>7, <2>2, InsertedList DEF InsertServer, ListInv
    <2>4. MainInv'
      BY <1>0, <1>7, <2>1, <2>2 DEF InsertServer, MainInv
    <2>5. \A s : Listed(s) => Listed(s)'
      BY <2>3 DEF Listed, Places, ServersOf
    <2> QED
      BY <1>0, <1>7, <2>3, <2>4, <2>5, ListStep
         DEF InsertServer, ListInv, AssignedIsListed, Counters
  <1>8. CASE BeginDelete
    <2>1. MainInv'
      <3>1. main' = [at |-> "delete", todo |-> <<>>, pos |-> 1] /\ serverMutex' = Main
        BY <1>8 DEF BeginDelete, AtRest
      <3>2. <<>> \in Seq(Entries)
        OBVIOUS
      <3> QED
        BY <3>1, <3>2 DEF MainInv
    <2> QED
      BY <1>0, <1>8, <2>1, MainStep DEF BeginDelete, Counters
  <1>9. CASE KeepServer
    <2>1. MainInv'
      BY <1>0, <1>9 DEF KeepServer, MainInv
    <2> QED
      BY <1>0, <1>9, <2>1, MainStep DEF KeepServer, Counters
  <1>10. CASE ForgetUsers
    <2>1. MainInv'
      BY <1>0, <1>10 DEF ForgetUsers, MainInv
    <2>2. users' \in [Users -> Servers \cup {None}]
          /\ \A u \in Users : users'[u] # None => users'[u] = users[u]
      BY <1>0, <1>10 DEF ForgetUsers, Without, ListInv
    <2> QED
      BY <1>0, <1>10, <2>1, <2>2, ListStep
         DEF ForgetUsers, ListInv, AssignedIsListed, Listed, Places, Counters
  <1>11. CASE DeleteServer
    <2>1. main.pos \in DOMAIN list /\ main.at = "delete"
      BY <1>0, <1>11 DEF DeleteServer, Looking, MainInv, ListInv
    <2>2. /\ list' \in Seq(Elements) /\ Unique(list')
          /\ ServersOf(list') = ServersOf(list) \ {Entry.server}
      BY <1>0, <1>11, <2>1, RemovedList DEF DeleteServer, ListInv, Entry
    <2>3. MainInv' /\ Counters'
      <3>1. \/ UNCHANGED main \/ main' = [main EXCEPT !.pos = @ + 1]
        BY <1>11 DEF DeleteServer
      <3>2. UNCHANGED serverMutex /\ crashed' \in BOOLEAN
        BY <1>0, <1>11 DEF DeleteServer, Counters
      <3> QED
        BY <1>0, <1>11, <3>1, <3>2 DEF DeleteServer, MainInv, Counters
    <2>4. users' = [u \in Users |-> IF users[u] = Entry.server THEN None ELSE users[u]]
      BY <1>11 DEF DeleteServer, Without
    <2>5. users' \in [Users -> Servers \cup {None}]
      BY <1>0, <2>4 DEF ListInv
    <2>6. ASSUME NEW u \in Users, users'[u] # None
          PROVE  users'[u] = users[u] /\ Listed(users[u])'
      <3>1. users'[u] = users[u] /\ users[u] # Entry.server
        BY <2>4, <2>6
      <3>2. users[u] \in ServersOf(list)
        BY <1>0, <2>6, <3>1, ListedIn DEF ListInv, AssignedIsListed
      <3>3. users[u] \in ServersOf(list')
        BY <2>2, <3>1, <3>2
      <3>4. \E i \in DOMAIN list' : list'[i].server = users[u]
        BY <3>3 DEF ServersOf
      <3>5. users'[u] = users[u] => Listed(users[u])'
        BY <3>1, <3>4 DEF Listed, Places
      <3> QED
        BY <3>1, <3>5
    <2> QED
      BY <1>0, <1>11, <2>2, <2>3, <2>5, <2>6, ListStep DEF DeleteServer
  <1>12. CASE EndDelete
    <2>1. MainInv'
      BY <1>0, <1>12 DEF EndDelete, MainInv, AtRest
    <2> QED
      BY <1>0, <1>12, <2>1, MainStep DEF EndDelete, Counters
  <1>13. CASE UNCHANGED vars
    BY <1>0, <1>13, MainStep DEF vars, MainInv, Counters
  <1> QED
    BY <1>1, <1>2, <1>3, <1>4, <1>5, <1>6, <1>7, <1>8, <1>9, <1>10, <1>11, <1>12, <1>13
       DEF Next, Work, Reload

(* No user is assigned to a server that is not in the list, although the   *)
(* server is chosen under one mutex and stored under another and the list  *)
(* is read again meanwhile: for any number of workers, servers, users and  *)
(* reloads.                                                                *)
THEOREM NobodyAssignedToDeleted == Spec => []Consistent
  BY InvConsistent, InitInv, StepInv, PTL DEF Spec

(* A user keeps his server until a reload has marked it for deletion or    *)
(* taken it out of use: m_clsMap.insert of a second request of the user    *)
(* changes nothing, and DeleteSipServer forgets the users of no other one. *)
THEOREM AssignmentLasts == Spec => UsersStay
  <1> DEFINE Stays(u) ==
        users[u] \in Servers /\ users'[u] # users[u] =>
          /\ users'[u] = None
          /\ \E i \in Places(list, users[u]) : list[i].delete \/ ~list[i].use
  <1>1. ASSUME BalancerInv, [Next]_vars, NEW u \in Users PROVE Stays(u)
    <2>0. users \in [Users -> Servers \cup {None}] /\ None \notin Servers
      BY <1>1, BalancerAssumption DEF BalancerInv, ListInv
    <2>1. ASSUME NEW w \in Workers, Store(w) PROVE Stays(u)
      BY <2>0, <2>1 DEF Store
    <2>2. CASE ForgetUsers \/ DeleteServer
      <3>1. main.pos \in DOMAIN list /\ (Entry.delete \/ ~Entry.use)
            /\ users' = [v \in Users |-> IF users[v] = Entry.server THEN None ELSE users[v]]
        BY <1>1, <2>2 DEF ForgetUsers, DeleteServer, Without, Looking,
                          BalancerInv, MainInv, ListInv
      <3>2. main.pos \in Places(list, Entry.server)
        BY <3>1 DEF Places, Entry
      <3> QED
        BY <2>0, <3>1, <3>2 DEF Entry
    <2>3. CASE UNCHANGED users
      BY <2>3
    <2> QED
      BY <1>1, <2>1, <2>2, <2>3 DEF Next, Work, Reload, vars, RecvRequest, Insert, SelectNext,
         Forward, SetDeleteAll, InsertServer, BeginDelete, KeepServer, EndDelete
  <1>2. BalancerInv /\ [Next]_vars => [\A u \in Users : Stays(u)]_vars
    BY <1>1
  <1> QED
    BY <1>2, InitInv, StepInv, PTL DEF Spec, UsersStay

-----------------------------------------------------------------------------
(* ListFollowsFile needs the whole reload.  While servers are inserted the *)
(* ones of the file that had their turn are in the list without a mark,    *)
(* and whatever else is not in the file is marked; while servers are       *)
(* deleted a server that is not in the file was skipped, or is marked and  *)
(* its place is still to come.                                             *)
Holds(l, e) == \E i \in DOMAIN l : l[i] = e
HoldsFile == \A j \in DOMAIN file : Holds(list, Unmarked(file[j]))
Turned == Len(file) - Len(main.todo)

InsertInv ==
  /\ Turned \in 0 .. Len(file)
  /\ \A j \in DOMAIN main.todo : main.todo[j] = file[Turned + j]
  /\ \A j \in 1 .. Turned : Holds(list, Unmarked(file[j]))
  /\ \A i \in DOMAIN list : list[i].delete \/ list[i].server \in ServersOf(file)

DeleteInv ==
  /\ HoldsFile
  /\ \A i \in DOMAIN list :
       \/ list[i].server \in ServersOf(file) \cup skipped
       \/ list[i].delete /\ main.pos <= i

IdleInv ==
  /\ HoldsFile
  /\ \A i \in DOMAIN list : list[i].server \in ServersOf(file) \cup skipped

FollowInv ==
  /\ file \in Seq(Entries) /\ Unique(file)
  /\ crashed => main.at = "delete"
  /\ main.at = "insert" => InsertInv
  /\ main.at = "delete" => DeleteInv
  /\ main.at = "idle" => IdleInv

LEMMA FollowInvFollows == FollowInv => ListFollowsFile
  BY DEF FollowInv, IdleInv, HoldsFile, Holds, ServersOf, ListFollowsFile, ReloadDone

(* What Insert does to the elements of the list. *)
LEMMA InsertedElements ==
  ASSUME NEW l \in Seq(Elements), NEW c \in Entries
  PROVE  /\ Holds(Inserted(l, c), Unmarked(c))
         /\ \A i \in DOMAIN l : l[i].server # c.server => Holds(Inserted(l, c), l[i])
         /\ \A i \in DOMAIN Inserted(l, c) :
              Inserted(l, c)[i] = Unmarked(c) \/ Holds(l, Inserted(l, c)[i])
  <1>1. CASE Places(l, c.server) = {}
    <2> DEFINE m == Append(l, Unmarked(c))
    <2>1. Inserted(l, c) = m
      BY <1>1 DEF Inserted
    <2>2. /\ Len(l) \in Nat /\ m[Len(l) + 1] = Unmarked(c) /\ \A i \in 1 .. Len(l) : m[i] = l[i]
          /\ DOMAIN m = 1 .. Len(l) + 1 /\ DOMAIN l = 1 .. Len(l)
      BY UnmarkedType
    <2> HIDE DEF m
    <2> QED
      BY <2>1, <2>2 DEF Holds
  <1>2. CASE Places(l, c.server) # {}
    <2> DEFINE m == [i \in DOMAIN l |-> IF l[i].server = c.server THEN Unmarked(c) ELSE l[i]]
    <2>1. Inserted(l, c) = m
      BY <1>2 DEF Inserted
    <2>2. PICK p \in DOMAIN l : l[p].server = c.server
      BY <1>2 DEF Places
    <2>3. /\ DOMAIN m = DOMAIN l
          /\ \A i \in DOMAIN l : m[i] = IF l[i].server = c.server THEN Unmarked(c) ELSE l[i]
      OBVIOUS
    <2> HIDE DEF m
    <2> QED
      BY <2>1, <2>2, <2>3 DEF Holds
  <1> QED
    BY <1>1, <1>2

LEMMA InitFollows == Init => FollowInv
  <1> SUFFICES ASSUME Init PROVE FollowInv
    OBVIOUS
  <1>1. file \in Configs /\ list = [i \in DOMAIN file |-> Unmarked(file[i])]
    BY DEF Init
  <1>2. file \in Seq(Entries) /\ Unique(file)
    BY <1>1, BalancerAssumption DEF Entries, Unique
  <1>3. DOMAIN list = DOMAIN file
        /\ \A i \in DOMAIN file : list[i] = Unmarked(file[i]) /\ list[i].server = file[i].server
    BY <1>1, <1>2, UnmarkedType
  <1>4. IdleInv
    BY <1>3 DEF IdleInv, HoldsFile, Holds, ServersOf
  <1> QED
    BY <1>2, <1>4 DEF Init, AtRest, FollowInv

LEMMA StepFollows == BalancerInv /\ FollowInv /\ [Next]_vars => FollowInv'
  <1> SUFFICES ASSUME BalancerInv, FollowInv, [Next]_vars PROVE FollowInv'
    OBVIOUS
  <1>0. /\ list \in Seq(Elements) /\ Unique(list)
        /\ Len(list) \in Nat /\ DOMAIN list = 1 .. Len(list)
        /\ main \in [at : {"idle", "insert", "delete"}, todo : Seq(Entries), pos : Nat]
        /\ file \in Seq(Entries) /\ Unique(file)
        /\ Len(file) \in Nat /\ DOMAIN file = 1 .. Len(file)
    BY DEF BalancerInv, ListInv, MainInv, FollowInv
  <1>1. CASE UNCHANGED <<file, list, main, crashed, skipped>>
    BY <1>1 DEF FollowInv, InsertInv, Turned, DeleteInv, IdleInv, HoldsFile, Holds
  <1>2. CASE SetDeleteAll /\ ~crashed
    <2>1. file' \in Seq(Entries) /\ Unique(file')
      BY <1>2, BalancerAssumption DEF SetDeleteAll, Entries, Unique
    <2>2. main' = [at |-> "insert", todo |-> file', pos |-> 0] /\ crashed' = crashed
      BY <1>2 DEF SetDeleteAll
    <2>3. DOMAIN list' = DOMAIN list /\ \A i \in DOMAIN list' : list'[i].delete
      <3>1. list' = [i \in DOMAIN list |-> [list[i] EXCEPT !.delete = TRUE]]
        BY <1>2 DEF SetDeleteAll, Marked
      <3>2. ASSUME NEW i \in DOMAIN list PROVE [list[i] EXCEPT !.delete = TRUE].delete
        <4>1. list[i] \in Elements
          BY <1>0
        <4> QED
          BY <4>1 DEF Elements
      <3> QED
        BY <3>1, <3>2
    <2>4. Turned' = 0
      <3>1. Len(file') \in Nat
        BY <2>1
      <3> QED
        BY <2>2, <3>1 DEF Turned
    <2>5. InsertInv'
      <3>1. Len(file') \in Nat /\ DOMAIN file' = 1 .. Len(file')
        BY <2>1
      <3> QED
        BY <2>2, <2>3, <2>4, <3>1 DEF InsertInv
    <2> QED
      BY <1>2, <2>1, <2>2, <2>5 DEF FollowInv
  <1>3. CASE InsertServer /\ ~crashed
    <2> DEFINE c == Head(main.todo)
               n == Turned
    <2>1. /\ main.at = "insert" /\ main.todo # <<>> /\ InsertInv
          /\ list' = Inserted(list, c) /\ main' = [main EXCEPT !.todo = Tail(main.todo)]
          /\ UNCHANGED <<file, crashed, skipped>>
      BY <1>3 DEF InsertServer, FollowInv
    <2>2. /\ main.todo \in Seq(Entries) /\ Len(main.todo) \in Nat \ {0}
          /\ DOMAIN main.todo = 1 .. Len(main.todo)
      BY <1>0, <2>1
    <2>3. /\ Tail(main.todo) \in Seq(Entries) /\ Len(Tail(main.todo)) = Len(main.todo) - 1
          /\ DOMAIN Tail(main.todo) = 1 .. Len(main.todo) - 1
          /\ \A j \in 1 .. Len(main.todo) - 1 : Tail(main.todo)[j] = main.todo[j + 1]
          /\ c = main.todo[1] /\ c \in Entries
      BY <2>1, <2>2
    <2>4. n \in 0 .. Len(file) /\ n = Len(file) - Len(main.todo) /\ n + 1 \in DOMAIN file
      BY <1>0, <2>1, <2>2 DEF InsertInv, Turned
    <2>5. c = file[n + 1] /\ c.server \in ServersOf(file)
      <3>1. main.todo[1] = file[Turned + 1]
        BY <2>1, <2>2 DEF InsertInv
      <3> QED
        BY <2>3, <2>4, <3>1 DEF ServersOf
    <2>6. main'.todo = Tail(main.todo) /\ main'.at = "insert"
      BY <1>0, <2>1
    <2>7. Turned' = n + 1
      BY <1>0, <2>1, <2>2, <2>3, <2>4, <2>6 DEF Turned
    <2> HIDE DEF c
    <2>8. \A j \in 1 .. n : file[j] \in Entries /\ file[j].server # c.server
      <3>1. \A j \in 1 .. n : j \in DOMAIN file /\ j # n + 1
        <4> HIDE DEF n
        <4>1. n \in 0 .. Len(file) /\ Len(file) \in Nat /\ DOMAIN file = 1 .. Len(file)
          BY <1>0, <2>4
        <4> QED
          BY <4>1
      <3>2. \A j \in DOMAIN file : j # n + 1 => file[j].server # file[n + 1].server
        BY <1>0, <2>4 DEF Unique
      <3> QED
        BY <1>0, <2>5, <3>1, <3>2
    <2>9. ASSUME NEW j \in 1 .. n + 1 PROVE Holds(list', Unmarked(file[j]))
      <3>1. CASE j = n + 1
        BY <1>0, <2>1, <2>3, <2>5, <3>1, InsertedElements
      <3>2. CASE j \in 1 .. n
        <4>1. PICK i \in DOMAIN list : list[i] = Unmarked(file[j])
          BY <2>1, <3>2 DEF InsertInv, Holds
        <4>2. file[j] \in Entries /\ file[j].server # c.server
          BY <2>8, <3>2
        <4>3. list[i].server # c.server
          BY <4>1, <4>2, UnmarkedType
        <4> QED
          BY <1>0, <2>1, <2>3, <4>1, <4>3, InsertedElements
      <3> QED
        BY <2>4, <3>1, <3>2
    <2>10. ASSUME NEW i \in DOMAIN list'
          PROVE  list'[i].delete \/ list'[i].server \in ServersOf(file)
      <3>1. list'[i] = Unmarked(c) \/ Holds(list, list'[i])
        <4>1. list \in Seq(Elements) /\ c \in Entries
          BY <1>0, <2>3
        <4>2. list' = Inserted(list, c)
          BY <2>1
        <4> QED
          BY <4>1, <4>2, InsertedElements
      <3> QED
        BY <2>1, <2>3, <2>5, <3>1, UnmarkedType DEF InsertInv, Holds
    <2>11. \A j \in DOMAIN main'.todo : main'.todo[j] = file'[Turned' + j]
      <3>1. ASSUME NEW j \in 1 .. Len(main.todo) - 1
            PROVE  Tail(main.todo)[j] = file[(n + 1) + j]
        <4>1. j + 1 \in DOMAIN main.todo /\ n + (j + 1) = (n + 1) + j
          BY <2>2, <2>4
        <4>2. main.todo[j + 1] = file[n + (j + 1)]
          BY <2>1, <4>1 DEF InsertInv
        <4> QED
          BY <2>3, <4>1, <4>2
      <3> QED
        BY <2>1, <2>3, <2>6, <2>7, <3>1
    <2>12. InsertInv'
      <3>1. n + 1 \in 0 .. Len(file)
        <4>1. n + 1 \in 1 .. Len(file)
          BY <1>0, <2>4
        <4> QED
          BY <4>1
      <3> QED
        BY <2>1, <2>7, <2>9, <2>10, <2>11, <3>1 DEF InsertInv
    <2> QED
      BY <1>0, <1>3, <2>1, <2>6, <2>12 DEF FollowInv
  <1>4. CASE BeginDelete /\ ~crashed
    <2>1. /\ main.at = "insert" /\ main.todo = <<>> /\ InsertInv
          /\ main' = [at |-> "delete", todo |-> <<>>, pos |-> 1]
          /\ UNCHANGED <<file, list, crashed>>
      BY <1>4 DEF BeginDelete, FollowInv, AtRest
    <2>2. Turned = Len(file)
      BY <1>0, <2>1 DEF Turned
    <2>3. DeleteInv'
      BY <1>0, <2>1, <2>2 DEF InsertInv, DeleteInv, HoldsFile, Holds, ServersOf
    <2> QED
      BY <1>0, <2>1, <2>3 DEF FollowInv
  <1>5. CASE (KeepServer \/ ForgetUsers) /\ ~crashed
    <2>1. /\ main.at = "delete" /\ ~Entry.delete /\ DeleteInv
          /\ main' = [main EXCEPT !.pos = main.pos + 1]
          /\ UNCHANGED <<file, list, crashed, skipped>>
      BY <1>0, <1>5 DEF KeepServer, ForgetUsers, Looking, FollowInv
    <2>2. main'.pos = main.pos + 1 /\ main'.at = "delete" /\ main.pos \in Nat
      BY <1>0, <2>1
    <2>3. DeleteInv'
      <3>1. ASSUME NEW i \in DOMAIN list
            PROVE  \/ list[i].server \in ServersOf(file) \cup skipped
                   \/ list[i].delete /\ main.pos + 1 <= i
        BY <1>0, <2>1, <2>2 DEF DeleteInv, Entry
      <3> QED
        BY <2>1, <2>2, <3>1 DEF DeleteInv, HoldsFile, Holds
    <2> QED
      BY <1>0, <2>1, <2>2, <2>3 DEF FollowInv
  <1>6. CASE DeleteServer /\ ~crashed
    <2> DEFINE p == main.pos
    <2>1. /\ main.at = "delete" /\ p \in DOMAIN list /\ list[p].delete /\ DeleteInv
          /\ list' = RemoveAt(list, p) /\ UNCHANGED file
      BY <1>0, <1>6 DEF DeleteServer, Looking, Entry, FollowInv, BalancerInv, MainInv
    <2>2. /\ DOMAIN list' = 1 .. Len(list) - 1
          /\ \A i \in 1 .. Len(list) - 1 : list'[i] = IF i < p THEN list[i] ELSE list[i + 1]
      <3> HIDE DEF p
      <3>1. /\ RemoveAt(list, p) \in Seq(Elements) /\ Len(RemoveAt(list, p)) = Len(list) - 1
            /\ \A i \in 1 .. Len(list) - 1 :
                 RemoveAt(list, p)[i] = IF i < p THEN list[i] ELSE list[i + 1]
        BY <1>0, <2>1, RemovedList
      <3>2. DOMAIN RemoveAt(list, p) = 1 .. Len(list) - 1
        BY <3>1
      <3> QED
        BY <2>1, <3>1, <3>2
    <2>3. \/ p = Len(list) /\ UNCHANGED <<main, skipped>>
          \/ /\ p < Len(list) /\ main'.at = "delete" /\ main'.pos = p + 1
             /\ skipped' = skipped \cup {list[p + 1].server}
      <3>1. p <= Len(list) /\ Len(list) \in Nat /\ p \in Nat
        BY <1>0, <2>1
      <3>2. CASE p = Len(list)
        BY <1>6, <3>2 DEF DeleteServer
      <3>3. CASE p # Len(list)
        <4>1. main' = [main EXCEPT !.pos = p + 1] /\ skipped' = skipped \cup {list[p + 1].server}
          BY <1>6, <3>3 DEF DeleteServer
        <4> QED
          BY <1>0, <2>1, <3>1, <3>3, <4>1
      <3> QED
        BY <3>2, <3>3
    <2>4. HoldsFile'
      <3> SUFFICES ASSUME NEW j \in DOMAIN file PROVE Holds(list', Unmarked(file[j]))
        BY <2>1 DEF HoldsFile
      <3>1. PICK i \in DOMAIN list : list[i] = Unmarked(file[j])
        BY <2>1 DEF DeleteInv, HoldsFile, Holds
      <3>2. i # p
        BY <2>1, <3>1 DEF Unmarked
      <3>3. CASE i < p
        <4>1. i \in DOMAIN list' /\ list'[i] = list[i]
          BY <1>0, <2>1, <2>2, <3>3
        <4> QED
          BY <3>1, <4>1 DEF Holds
      <3>4. CASE i > p
        <4>1. i - 1 \in DOMAIN list' /\ list'[i - 1] = list[i]
          BY <1>0, <2>1, <2>2, <3>4
        <4> QED
          BY <3>1, <4>1 DEF Holds
      <3> QED
        BY <1>0, <2>1, <3>2, <3>3, <3>4
    <2>5. ASSUME NEW i \in DOMAIN list'
          PROVE  \/ list'[i].server \in ServersOf(file) \cup skipped'
                 \/ list'[i].delete /\ main'.pos <= i
      <3>1. CASE i < p
        <4>1. i \in DOMAIN list /\ list'[i] = list[i] /\ ~(p <= i)
          BY <1>0, <2>1, <2>2, <3>1
        <4> QED
          BY <2>1, <2>3, <4>1 DEF DeleteInv
      <3>2. CASE i >= p
        <4>1. i + 1 \in DOMAIN list /\ list'[i] = list[i + 1] /\ p # Len(list) /\ p + 1 <= i + 1
          BY <1>0, <2>1, <2>2, <3>2
        <4>2. CASE i = p
          BY <2>3, <4>1, <4>2
        <4>3. CASE i > p
          <5>1. p + 1 <= i
            BY <1>0, <2>1, <2>2, <4>3
          <5> QED
            BY <2>1, <2>3, <4>1, <5>1 DEF DeleteInv
        <4> QED
          BY <1>0, <2>1, <2>2, <3>2, <4>2, <4>3
      <3> QED
        BY <1>0, <2>1, <2>2, <3>1, <3>2
    <2>6. DeleteInv' /\ main'.at = "delete"
      BY <2>1, <2>3, <2>4, <2>5 DEF DeleteInv
    <2> QED
      BY <1>0, <2>1, <2>6 DEF FollowInv
  <1>7. CASE EndDelete /\ ~crashed
    <2>1. /\ main.at = "delete" /\ main.pos > Len(list) /\ DeleteInv
          /\ main'.at = "idle" /\ UNCHANGED <<file, list, crashed, skipped>>
      BY <1>7 DEF EndDelete, AtRest, FollowInv
    <2>2. \A i \in DOMAIN list : ~(main.pos <= i)
      BY <1>0, <2>1
    <2>3. IdleInv'
      BY <2>1, <2>2 DEF DeleteInv, IdleInv, HoldsFile, Holds
    <2> QED
      BY <1>0, <1>7, <2>1, <2>3 DEF FollowInv
  <1> QED
    BY <1>1, <1>2, <1>3, <1>4, <1>5, <1>6, <1>7 DEF Next, Work, Reload, vars, RecvRequest, Insert,
       SelectNext, Store, Forward

(* When a reload has ended and the list was not left, the list holds the   *)
(* servers of the file as the file has them, and no others but those that  *)
(* stood behind a deleted server, which the iterator of DeleteIfSet passed *)
(* over: for every list before and every list in the file.                 *)
THEOREM ReloadFollowsFile == Spec => []ListFollowsFile
  BY InitInv, StepInv, InitFollows, StepFollows, FollowInvFollows, PTL DEF Spec
=============================================================================
