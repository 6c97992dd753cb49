-------------------------- MODULE SipLoadBalancer --------------------------
(***************************************************************************)
(* The load balancer: users and the SIP servers they are assigned to       *)
(* (SipServerMap.cpp, UserMap.cpp, SipServer.cpp, ReadSipServer of         *)
(* SipServerSetup.cpp).                                                    *)
(*                                                                         *)
(* The threads of the SIP stack handle requests; the main thread reads the *)
(* list of servers again when its file has changed.  Each of the two maps  *)
(* has a mutex: a request of a new user takes the one of the users and     *)
(* then the one of the servers, the reload takes them the other way round. *)
(*                                                                         *)
(* An operator named F_Fault is F with a fault seeded in it: no action     *)
(* uses it, and the properties are shown to notice it.                     *)
(***************************************************************************)
EXTENDS Naturals, Sequences, SequencesExt

CONSTANTS
  Servers,      \* addresses of SIP servers
  Users,        \* user names
  Workers,      \* the threads that call RecvRequest
  Configs,      \* the server lists the file may hold: sequences of [server, use]
  None,         \* no server, no thread, the address of a client
  Main,         \* the main thread
  MaxRequests,  \* bound: requests
  MaxReloads    \* bound: changes of the file

ASSUME BalancerAssumption ==
  /\ None \notin Servers \cup Workers /\ Main \notin Workers \cup {None}
  /\ Configs # {} /\ \A c \in Configs : c \in Seq([server : Servers, use : BOOLEAN])
  /\ \A c \in Configs : \A i, j \in DOMAIN c : c[i].server = c[j].server => i = j
  /\ MaxRequests \in Nat /\ MaxReloads \in Nat

VARIABLES
  file,         \* the server list in the file, as it was read last
  list,         \* m_clsList: the servers, each [server, use, delete]
  index,        \* m_iIndex
  users,        \* m_clsMap: the server of each user, or None if he is not known
  userMutex,    \* the thread that has the mutex of the users, or None
  serverMutex,  \* the thread that has the mutex of the servers, or None
  worker,       \* what each worker is doing: [at, user, server]
  main,         \* what the main thread is doing: [at, todo, pos]
  crashed,      \* DeleteIfSet left the list
  requests,     \* requests so far
  reloads,      \* changes of the file so far
  skipped       \* history: servers the last DeleteIfSet did not look at

vars == <<file, list, index, users, userMutex, serverMutex, worker, main, crashed,
          requests, reloads, skipped>>

Unmarked(c) == [server |-> c.server, use |-> c.use, delete |-> FALSE]
Places(l, s) == {i \in DOMAIN l : l[i].server = s}
Listed(s) == Places(list, s) # {}
Idle == [at |-> "idle", user |-> None, server |-> None]
AtRest == [at |-> "idle", todo |-> <<>>, pos |-> 0]

Init ==
  /\ \E c \in Configs : file = c /\ list = [i \in DOMAIN c |-> Unmarked(c[i])]
  /\ index = 0 /\ users = [u \in Users |-> None]
  /\ userMutex = None /\ serverMutex = None
  /\ worker = [w \in Workers |-> Idle] /\ main = AtRest
  /\ crashed = FALSE /\ requests = 0 /\ reloads = 0
  /\ skipped = {}

Goes(w, at) == worker' = [worker EXCEPT ![w].at = at]

-----------------------------------------------------------------------------
(* RecvRequest.                                                            *)

\* A request comes from a server of the list, or else from a client.
RecvRequest(w, u, from) ==
  /\ worker[w].at = "idle" /\ requests < MaxRequests /\ serverMutex = None
  /\ worker' = [worker EXCEPT ![w] =
                  [at |-> IF Listed(from) THEN "select" ELSE "insert", user |-> u,
                   server |-> None]]
  /\ requests' = requests + 1
  /\ UNCHANGED <<file, list, index, users, userMutex, serverMutex, main, crashed, reloads,
                 skipped>>

\* CUserMap::Insert: the mutex is kept while a server is selected for a new user.
Kept_Not(w) == None

Kept(w) == w

Insert(w) ==
  /\ worker[w].at = "insert" /\ userMutex = None
  /\ IF users[worker[w].user] = None THEN userMutex' = Kept(w) /\ Goes(w, "next")
     ELSE UNCHANGED userMutex /\ Goes(w, "select")
  /\ UNCHANGED <<file, list, index, users, serverMutex, main, crashed, requests, reloads,
                 skipped>>

\* SelectNext: the server at m_iIndex, which starts again at the end of the list.
Following(i) == IF i >= Len(list) THEN 1 ELSE i + 1

SelectNext(w) ==
  /\ worker[w].at = "next" /\ serverMutex = None
  /\ IF list = <<>> THEN UNCHANGED index /\ Goes(w, "store")
     ELSE /\ index' = Following(index)
          /\ LET s == list[IF index >= Len(list) THEN 1 ELSE index + 1].server IN
               /\ worker' = [worker EXCEPT ![w].at = "store", ![w].server = s]
  /\ UNCHANGED <<file, list, users, userMutex, serverMutex, main, crashed, requests, reloads,
                 skipped>>

\* The end of Insert: m_clsMap.insert, which changes nothing if the user is there.
Released_IfStored(w) == IF worker[w].server = None THEN userMutex ELSE None

Released(w) == None

Store(w) ==
  /\ worker[w].at = "store"
  /\ users' = [users EXCEPT ![worker[w].user] = IF @ = None THEN worker[w].server ELSE @]
  /\ userMutex' = Released(w)
  /\ worker' = [worker EXCEPT ![w].at = "select", ![w].server = None]
  /\ UNCHANGED <<file, list, index, serverMutex, main, crashed, requests, reloads, skipped>>

\* CUserMap::Select, and the request goes to the server or the client found, if any.
Forward(w) ==
  /\ worker[w].at = "select" /\ userMutex = None
  /\ worker' = [worker EXCEPT ![w] = Idle]
  /\ UNCHANGED <<file, list, index, users, userMutex, serverMutex, main, crashed, requests,
                 reloads, skipped>>

-----------------------------------------------------------------------------
(* ReadSipServer.                                                          *)

\* SetDeleteAll.
Marked(l) == [i \in DOMAIN l |-> [l[i] EXCEPT !.delete = TRUE]]

SetDeleteAll ==
  /\ main.at = "idle" /\ reloads < MaxReloads /\ serverMutex = None
  /\ file' \in Configs /\ main' = [at |-> "insert", todo |-> file', pos |-> 0]
  /\ list' = Marked(list) /\ reloads' = reloads + 1
  /\ UNCHANGED <<index, users, userMutex, serverMutex, worker, crashed, requests,
                 skipped>>

\* Insert: a server of the list loses its mark, another is appended.
Inserted_Marked(l, c) ==
  IF Places(l, c.server) = {} THEN Append(l, Unmarked(c))
  ELSE [i \in DOMAIN l |-> IF l[i].server = c.server THEN [l[i] EXCEPT !.use = c.use] ELSE l[i]]

Inserted(l, c) ==
  IF Places(l, c.server) = {} THEN Append(l, Unmarked(c))
  ELSE [i \in DOMAIN l |-> IF l[i].server = c.server THEN Unmarked(c) ELSE l[i]]

InsertServer ==
  /\ main.at = "insert" /\ main.todo # <<>> /\ serverMutex = None
  /\ list' = Inserted(list, Head(main.todo))
  /\ main' = [main EXCEPT !.todo = Tail(@)]
  /\ UNCHANGED <<file, index, users, userMutex, serverMutex, worker, crashed, requests, reloads,
                 skipped>>

\* DeleteIfSet keeps the mutex of the servers to its end.
BeginDelete ==
  /\ main.at = "insert" /\ main.todo = <<>> /\ serverMutex = None
  /\ serverMutex' = Main /\ main' = [AtRest EXCEPT !.at = "delete", !.pos = 1]
  /\ skipped' = {}
  /\ UNCHANGED <<file, list, index, users, userMutex, worker, crashed, requests, reloads>>

Looking == main.at = "delete" /\ main.pos <= Len(list)
Entry == list[main.pos]

KeepServer ==
  /\ Looking /\ ~Entry.delete /\ Entry.use
  /\ main' = [main EXCEPT !.pos = @ + 1]
  /\ UNCHANGED <<file, list, index, users, userMutex, serverMutex, worker, crashed, requests,
                 reloads, skipped>>

\* DeleteSipServer: the users of a server are forgotten.
Without_All(s) == [u \in Users |-> None]

Without(s) == [u \in Users |-> IF users[u] = s THEN None ELSE users[u]]

ForgetUsers ==
  /\ Looking /\ ~Entry.delete /\ ~Entry.use /\ userMutex = None
  /\ users' = Without(Entry.server)
  /\ main' = [main EXCEPT !.pos = @ + 1]
  /\ UNCHANGED <<file, list, index, userMutex, serverMutex, worker, crashed, requests, reloads,
                 skipped>>

\* erase moves the rest of the vector up, the iterator goes on behind the server that took
\* the place.  At the last place it is behind the end then and never meets it again.
DeleteServer ==
  /\ Looking /\ Entry.delete /\ userMutex = None
  /\ users' = Without(Entry.server)
  /\ list' = RemoveAt(list, main.pos)
  /\ IF main.pos = Len(list) THEN crashed' = TRUE /\ UNCHANGED <<main, skipped>>
     ELSE /\ main' = [main EXCEPT !.pos = @ + 1]
          /\ skipped' = skipped \cup {list[main.pos + 1].server}
          /\ UNCHANGED crashed
  /\ UNCHANGED <<file, index, userMutex, serverMutex, worker, requests, reloads>>

EndDelete ==
  /\ main.at = "delete" /\ main.pos > Len(list)
  /\ main' = AtRest /\ serverMutex' = None
  /\ UNCHANGED <<file, list, index, users, userMutex, worker, crashed, requests, reloads, skipped>>

-----------------------------------------------------------------------------

Work(w) == Insert(w) \/ SelectNext(w) \/ Store(w) \/ Forward(w)

Reload == InsertServer \/ BeginDelete \/ KeepServer \/ ForgetUsers \/ DeleteServer \/ EndDelete

Next ==
  /\ ~crashed
  /\ \/ \E w \in Workers, u \in Users, s \in Servers \cup {None} : RecvRequest(w, u, s)
     \/ \E w \in Workers : Work(w)
     \/ SetDeleteAll \/ Reload

Spec == Init /\ [][Next]_vars

\* Every thread goes on when it can.
FairSpec ==
  /\ Spec
  /\ \A w \in Workers : WF_vars(~crashed /\ Work(w))
  /\ WF_vars(~crashed /\ Reload)

-----------------------------------------------------------------------------
(* Properties.                                                             *)

\* The shape of the state.
TypeOK ==
  /\ list \in Seq([server : Servers, use : BOOLEAN, delete : BOOLEAN])
  /\ \A s \in Servers : \A i, j \in Places(list, s) : i = j
  /\ index \in Nat /\ users \in [Users -> Servers \cup {None}]
  /\ userMutex \in Workers \cup {None} /\ serverMutex \in {Main, None}
  /\ worker \in [Workers -> [at : {"idle", "insert", "next", "store", "select"},
                             user : Users \cup {None}, server : Servers \cup {None}]]
  /\ main.at \in {"idle", "insert", "delete"} /\ crashed \in BOOLEAN
  /\ requests \in 0 .. MaxRequests /\ reloads \in 0 .. MaxReloads

\* Every user is assigned to a server of the list: a server chosen from the list is not
\* deleted before the user has it, as Insert keeps the mutex of the users meanwhile.
AssignedIsListed == \A u \in Users : users[u] # None => Listed(users[u])

\* Every variable has its type, and every user a server of the list.
Consistent == TypeOK /\ AssignedIsListed

\* A user keeps his server until that is marked for deletion or is not in use.
UsersStay ==
  [][\A u \in Users :
       users[u] \in Servers /\ users'[u] # users[u] =>
         /\ users'[u] = None
         /\ \E i \in Places(list, users[u]) : list[i].delete \/ ~list[i].use]_vars

\* After a reload the servers of the file are in the list as the file has them, and no
\* others but those that DeleteIfSet did not look at.
ReloadDone == main.at = "idle" /\ ~crashed
ListFollowsFile ==
  ReloadDone =>
    /\ \A j \in DOMAIN file : \E i \in DOMAIN list : list[i] = Unmarked(file[j])
    /\ \A i \in DOMAIN list :
         list[i].server \in {file[j].server : j \in DOMAIN file} \cup skipped

\* A worker that keeps the users' mutex waits for the servers', and DeleteIfSet the other
\* way round.
Crossed ==
  /\ serverMutex = Main /\ Looking /\ (Entry.delete \/ ~Entry.use)
  /\ \E w \in Workers : userMutex = w /\ worker[w].at = "next"

\* A request is handled, and a reload ends, unless the two threads wait for each other or
\* the list was left.
OnlyCrossedWait ==
  (main.at # "idle" \/ \E w \in Workers : worker[w].at # "idle")
    ~> (crashed \/ Crossed \/ (main.at = "idle" /\ \A w \in Workers : worker[w].at = "idle"))
=============================================================================
