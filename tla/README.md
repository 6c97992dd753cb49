# cppsipstack in TLA+

A specification of the parts of cppsipstack in which order, time and concurrency
decide whether it is correct: the transactions, threads, connections and messages
of `SipStack`, the calls and registrations of `SipUserAgent`, the bridged calls of
`KSipServer` and the server list of `SipLoadBalancer`. TLC checks the modules on
small instances; TLAPS proves the main safety properties for every
instance.

    tlc -workers 2 -config ICT.cfg MCSipICTList      # a run of section 3
    tlapm SipInviteProofs.tla                       # the proofs of a module

File names below are relative to the root of the repository.

## 1. The system

`PROJECT.json` lists every component with its files and what is left out of it.

| part | state | operations | talks to |
|---|---|---|---|
| `SipStack`: transaction lists (ICT, IST, NICT, NIST) | a map from the key (branch, CSeq, method) to a transaction: request, last response, ACK, retransmission count, start / ring / stop time; one mutex per list | `Insert` (request, response or ACK), `DeleteCancel`, `Execute`, `DeleteAll` | sends through `CSipStack::Send`, reports through `RecvRequest`, `RecvResponse`, `SendTimeout` |
| `SipStack`: sending and receiving (`SipStackComm.hpp`, `SipStackCallBack.hpp`) | none but a message's use count | `SendSipMessage`, `RecvSipMessage`, `Send`, the callbacks | asks a list whether a message is new, then sends it or calls back, without the list's mutex |
| `SipStack`: threads | stop event, thread counts, sockets, `gclsSipQueue` with its condition variable | `Start`, `Stop`, the thread functions | UDP, TCP and TLS threads receive; with `m_iTcpCallBackThreadCount` workers the queue is between them and `RecvSipMessage`; the stack thread calls `Execute` of every list every 20 ms |
| `SipStack`: life of messages (`SipDeleteQueue`) | messages to delete later, a use count per message | `Insert`, `DeleteTimeout`, `DeleteAll` | the lists put what they drop in it, threads count their uses |
| `SipStack`: TCP and TLS sessions | socket map, connect map, per worker a session list, a socket count and a pipe | accept, connect, receive, close, send | a failed connection becomes a 660 response |
| `SipUserAgent`: calls | a map from Call-ID to dialog: CSeq, the unanswered INVITE, start / cancel / end time; one mutex | `StartCall`, `StopCall`, `AcceptCall`, `HoldCall`, transfers, ... and a handler per message | callback of the stack; calls the application back without its mutex |
| `SipUserAgent`: registration | a list of servers with login state and times, one mutex, a thread | insert, update, delete; the thread's loop; the response handler; `DeRegister` | REGISTER through the stack; `EventRegister` to the application |
| `KSipServer` | call map and transfer map (which dialogs belong together), RTP map (ports of the relay), user map, nonces | callbacks of `SipUserAgent`: incoming call, start, end, transfers, pick-up; REGISTER | a back-to-back user agent on top of `SipUserAgent`; registrar of its users |
| `SipLoadBalancer` | user map (user to server), server map, a mutex each | receive a request and forward it; reload the list of servers | stateless callbacks of the stack; a file |
| `SipPlatform` | mutexes, condition variable, sockets, logs | | used by all |
| parsers (`SipParser`, `SdpParser`, `XmlParser`, `HttpParser`, `StunParser`) | none | parse, format | |
| `TcpStack`, `HttpStack`, `ServerPlatform` | thread and session lists, dialogs | | a TCP server framework of its own |
| examples, clients, tools, tests, `Version2`, `Version3`, vendored libraries | | | not part of the stack |

How they interact: a receive thread parses a message and calls `RecvSipMessage`,
which asks the transaction list for the message's kind. `Insert` decides under
the list's mutex whether the message is new; only then, *without* the mutex, the
stack's callbacks run, in the first place those of `SipUserAgent`, which changes a dialog
under its own mutex and, *after releasing it*, sends messages and calls the
application. `KSipServer` is such an application: its callbacks look entries of its
maps up, release the mutex, and call `SipUserAgent` again. Timeouts take the same way:
`Execute` collects them under the mutex of a list and reports them afterwards.
Application threads call `SipUserAgent` at any time. So nearly every operation has
two or more steps between which any other thread may run.

What is hard, and what it means to be correct:

| part | hard | correct |
|---|---|---|
| transaction lists | timers race responses that are inserted or reported; ACKs are found without their key; indices into the table of times | the user learns exactly one outcome of each request; repeated messages are absorbed; a timeout excludes an answer; every transaction leaves the list |
| threads | a worker that checks the stop event and then waits; threads that count themselves late; one signal per message | `Stop` returns and leaves no thread behind; no message is left in the queue while a worker sleeps |
| life of messages | a count without a lock; a message that is stored in a list, held by a thread and waiting for a connection at the same time; Stop frees what is left | what is used is not freed, nothing is freed twice, everything is freed in the end |
| TCP and TLS sessions | a socket is looked up, and used when it may be closed and its number belong to another peer; four owners of a socket in turn; a connection that fails while messages wait for it | counts and maps agree with the sessions; every socket has one owner; a message reaches its peer or is answered with an error |
| calls | 200, CANCEL and BYE that cross; the application acts between two steps of a handler; the ACK is made from what the dialog sent last | both users have the call or neither; what the application stopped ends; no callback after the end of a call; each INVITE gets one final answer and each answer its ACK |
| registration | a response is matched by user and address only; `Stop` in the middle of a REGISTER; a registrar that forgets | who counts as logged in is known to the registrar; after `Stop` nobody is; who is logged out is logged in again |
| `KSipServer` | two dialogs and up to four map entries change one at a time, while their users answer, cancel, hang up and transfer | the entries of two calls name each other and one port; nobody is left alone in a call; no entry and no port stays behind |
| `SipLoadBalancer` | a server is chosen in one critical section and stored in another; two mutexes in two orders; deletion from a vector in a loop | nobody is assigned to a server that was deleted; users stay where they are |

Every place in this code that is hard to test is in `PROJECT.json` under
`hazards`, with its line, the properties about it and, where these have an exception,
what the exception is.

## 2. The modules

| module | models | source |
|---|---|---|
| `SipICTList` | INVITE client transactions, the threads that use them, the server and the network | `SipStack/SipICTList.cpp` |
| `SipISTList` | INVITE server transactions, the transaction user and the callers | `SipStack/SipISTList.cpp` |
| `SipNICTList` | non-INVITE client transactions, with an external server | `SipStack/SipNICTList.cpp` |
| `SipNISTList` | non-INVITE server transactions, with external clients | `SipStack/SipNISTList.cpp` |
| `SipNonInvite` | both over one network, in real time: extends the client's list, instantiates the server's | |
| `SipRequest` | the abstract promise: executed at most once, one outcome | |
| `SipStackThreads` | `Start`, `Stop`, thread life, queue and condition variable | `SipStack/SipStack.cpp`, `SipQueue.cpp`, `SipPlatform/SipMutex.cpp` |
| `SipMessageLife` | use counts, owners, `SipDeleteQueue` | `SipStack/SipStackComm.hpp`, `SipDeleteQueue.cpp`, `TcpConnectMap.cpp`, the lists |
| `SipTcp` | connections from accept or connect to close, messages that wait for one | `SipStack/SipTcp*.cpp`, `SipTls*.cpp`, `TcpThreadList.cpp`, `TcpSessionList.cpp`, `TcpSocketMap.cpp`, `TcpConnectMap.cpp` |
| `SipUserAgent` | a call between two user agents | `SipUserAgent/*.hpp`, `SipUserAgent.cpp`, `SipDialog.cpp` |
| `SipRegister` | a user agent that registers, and the registrar | `SipUserAgent/SipRegisterThread.cpp`, `SipUserAgentRegister.hpp`, `SipUserAgentLogin.hpp`; `KSipServer/SipServerRegister.hpp`, `UserMap.cpp`, `NonceMap.cpp` |
| `KSipCall` | the bridged calls of `KSipServer` | `KSipServer/SipServerUserAgent.hpp`, `SipServerPickUp.hpp`, `CallMap.cpp`, `TransCallMap.cpp`, `RtpMap.cpp` |
| `SipLoadBalancer` | users, servers, reload | `SipLoadBalancer/SipServerMap.cpp`, `UserMap.cpp`, `SipServer.cpp`, `SipServerSetup.cpp` |
| `...Proofs` | theorems about `SipICTList`, `SipISTList`, `SipNonInvite` and its two lists, `SipStackThreads`, `SipMessageLife`, `SipTcp`, `SipUserAgent`, `SipRegister`, `SipLoadBalancer`, `KSipCall`; those of `SipStackThreads` are in `SipTcpProofs`, those of `SipISTList` in `SipInviteProofs`; `SipAckRegisterProofs` has two more parts of the user agent, those of `SipRegister` and, apart from them, what is proved of ACKs in `SipUserAgent` | |
| `MC...` | instances for TLC | |

**Steps.** What the code does in one critical section is one action. What follows
the release of the mutex is another one: in the transaction lists `hand[t]` holds the message
a thread is about to report or send, `timeouts` the keys whose timeout the stack
thread is about to report; in `SipUserAgent` and `KSipCall` `todo` is the list of the
sends, callbacks and changes a handler still has to do; `SipTcp` and
`SipMessageLife` have the place each message's thread has got to; `SipLoadBalancer`, where
two mutexes nest, has the mutexes themselves. `Execute` is one action for a
whole pass over the map, as the mutex is held throughout.

**Transaction lists.** `trans` is the map. A transaction has the fields the
control depends on: the status of `m_pclsResponse` (0 for NULL), the ACK, and
`m_iReSendCount`. A time stamp is its age in ticks, which saturates above all
thresholds; `NoTime` is the stamp that was never set. `Tick` and `Execute` are
independent: a pass may be late or come twice in a tick, so no property depends
on punctuality except in `SipNonInvite`. Keys are never reused, as
branches are unique. An ACK remembers which INVITE it was made for (`ack`), which
is what the code cannot know and the properties ask. `InsertAck` chooses among
*all* transactions that the search of the code may find, as the order of the map
is that of random branches.
History variables: `acked`, `gaveUp` (ICT), `acked`, `failed`, `answer` (IST),
`dropped` (NICT), `chosen` (NIST), `told`.

**`SipNonInvite`** extends the client's list and instantiates the server's (`Server`) with the same
`wire`; its actions are `Exchange...`. Here time
is metric: a tick is 250 ms, a message lives `MaxDelay` ticks, and `Punctual` keeps
time from passing before both lists did what is due: the stack thread runs every
20 ms, a twelfth of a tick.

**`SipStackThreads`** has the threads' program counters. `Insert` wakes one waiting worker if
there is any, `Select` takes a message or waits, `Wake` takes one or goes back to
the loop, wakeups may be spurious. A thread counts itself in `Begin`, after it
was created, as in the code. The application starts the stack several times.

**`SipMessageLife`** follows the messages of one transaction (INVITE server or
non-INVITE client) and of one connection that is being made. `obj` is the memory of
a message, `count` its `m_iUseCount`. Counting down is two steps, `ReadCount` and
`WriteCount`, as the counter is a plain `int8_t`: what another thread counts in between
is lost. Timers may run out any time. `late` is the response the stack thread took out of
`Execute` for `SendTimeout` (`SipISTList.cpp:218`): it is used, but counted by nobody. What the
memory holds after something was freed in use or twice (`spoilt`) is undefined, so the behaviour
is not followed beyond that point; `stuck` names the messages whose count never comes down.

**`SipTcp`** has the kernel's descriptors, of which the lowest free number is
used again as soon as one is closed, the pipes and session lists of the workers and the thread of each
message: it looks a socket up and writes, or finds the peer in the connect map and
leaves the message there, or connects. TCP and TLS are two transports of
one module: over TLS the map's mutex is held while writing, over TCP it is not.
When a TLS thread fails, the messages before the one it could not write were written, that one and
those behind it are deleted. The listen thread looks at the stop event before it polls, so it may
accept once more after Stop (`run` goes from `stopping` to `deaf` with or without that); nobody
hands a socket to a worker that has ended, whose pipe is closed.
`leaked` names sockets that were forgotten: the one of a new connection whose
first write failed (`SipTcpClientThread.cpp:54`) and those still in a pipe at Stop.

**`SipUserAgent`** has one dialog per agent (calls share nothing), the client and
server transaction of each INVITE, and a network that reorders. Messages are not
lost: the transactions retransmit, what this amounts to is in the modules above;
their giving up is the feature `timeout`. Responses overtaken by a later one
are dropped. A scenario switches features on: `threads` (more than one thread per agent), `challenge` (401), `forward`
(302), `reinvite`, `refer` (any mid-call request: it takes a CSeq), `timeout`,
`prack` (the INVITE requires reliable 183s: `RingCall`, `SendPrack`).

**`SipRegister`** has the server entry of one user (`info`), the REGISTERs under way
(`regs`) and the registrar's entry (`binding`). Of the stack it keeps
what `SipRequest` promises: a REGISTER is handled at most once and has one outcome.
`doubts` is a history of what may make the two sides disagree: `deleted` if the
registrar lost the user by itself (expiry, which a refresh does not put off, see `UserMap.cpp:88`, or a
restart); `astray` if a message was lost, or a response was taken for that
of another REGISTER, which the code cannot tell apart.

**`KSipCall`** has dialogs reduced to what `StopCall`, `AcceptCall` and the handlers
make of them, `gclsCallMap`, `gclsTransCallMap` and the ports. Each callback is
a list of steps, one per map that is locked. Three histories name what goes
wrong: `crossed`, when a transfer or pick-up is overlapped by another thread's transfer,
answer or end of a call; `astray`, the Call-IDs whose entries were missed,
lost or left over (a CANCEL between `CreateCall` and `Insert`; a transfer that is
answered before its Call-ID is stored; an entry with an empty Call-ID; a transferor who
hangs up before the answer; a transfer or a pick-up that fails after it changed the entries);
`forgotten`, the ports no entry leads to.

**`SipLoadBalancer`** has both maps with their mutexes, and the main thread's reload:
mark all servers, insert those of the file, walk the vector and delete the
marked ones. `erase` in this loop moves the next element under the one that was
erased, so the walk skips it (`skipped`), and steps behind the end when it was the last (`crashed`;
nothing is promised from there).

An operator `F_Fault` is `F` with a plausible mistake: no action uses it, and
`PROJECT.json` pairs it with the property that notices it.

## 3. What the runs check

`CHECK_DEADLOCK FALSE` everywhere: each system may really stop (the stack was
stopped, the call is over, a bound is used up). `Consistent` is in each module the
type invariant and the invariants named in brackets (`RegisterConsistent` in `SipRegister`, whose `Init`, `Next`, `Spec` and
`TypeOK` are named likewise, so that one module can hold its proofs and those about ACKs).

| run | instance | states | properties |
|---|---|---|---|
| `ict` | 2 INVITEs of 2 calls, 1 receive thread, 180/200/401, 2 retransmissions, at most 2 responses to one INVITE and 1 to the other, order kept | 81 000 | `Consistent` (`AckIsOwn`), `TUSeesServerOrder`, `TimeoutExclusive`, `AckedNeverTimesOut`, `InvitesEnd` |
| `ict_one_call` | the same with one Call-ID | | *violates* `EveryInviteAnswered` |
| `ist` | 2 INVITEs of one call with CSeq 1 and 2, one delivered twice, 2 threads, 200/401 | 195 000 | `Consistent` (`CallAccounted`), `AnsweredTransactionsEnd` |
| `nict` | 1 request or CANCEL, 2 threads, 183/200/401, 3 retransmissions, reordering and loss | 17 000 | `Consistent` (`TimeoutExclusive`), `RequestsEnd` |
| `non_invite` | 1 request that may be a CANCEL, 1 client and 2 server threads, the real table of times (500 ms ... 32 s as 2 ... 128 ticks), delay of at most one tick | 454 000 | `ImplementsRequest` (refinement of `SipRequest`), `AnsweredTransactionsEnd` |
| `stack` | 2 workers, 2 receivers, 3 messages, 2 starts | 23 000 | `Consistent` (`NoMessageOverlooked`, `NoThreadOnClosedSockets`), `MessagesHandled`, `OnlyWaitersHoldStop` |
| `life` | INVITE twice, its ACK and two responses, or a request, two responses and a 660; UDP and TLS; 1 connecting thread | 122 000 | `Consistent` (`CountIsUses`), `UsedIsLive`, `StopFreesAll`, `QueueDrains` |
| `tcp` | TCP and TLS, 2 workers of one socket each, 3 descriptors, 2 peers, 2 messages to one of them | 334 000 | `Consistent` (`CountsAgree`, `MapNamesSession`, `ConnectMapServed`), `RightPeer`, `OneOwner`, `OutcomeExclusive`, `StopReturns` |
| `ua` | five scenarios: 2 threads, challenge, refer, CSeq up to 3; 2 threads, challenge, forward, reinvite, CSeq up to 2; 1 thread, challenge, refer, timeout, CSeq up to 3; 1 thread, prack, forward, refer, CSeq up to 3; 2 threads, challenge, forward, CSeq up to 2 | 455 000 | `Consistent` (`Agreement`, `PrackHasItsNumber`), `NothingAfterEnd`, `AcksMatch` (`AckNamesItsInvite`, `AnswersAcked`), `AnsweredOnce`, `StoppedCallEnds` |
| `register` | 1 user, 2 REGISTERs at a time, lifetimes of 1 and 2 ticks, one accident, Stop looks twice | 362 000 | `RegisterConsistent` (`LoggedInIsKnown`), `StopLeavesNothing`, `LoginAgain` |
| `bridge` | seven scenarios of up to 2 calls received and 3 sent, 2 blocks of ports, 2 threads: plain calls with failures, two calls, blind transfer, blind transfer twice, pick-up, attended transfer, redialled attended transfer | 137 000 | `Consistent` (`PeersAgree`), `NobodyAlone`, `RelayLasts`, `NothingLeft`, `CalleesEnd` |
| `balancer` | 2 workers, 2 users, 3 servers, five server lists (one empty, one with a server out of use), 2 reloads, 3 requests | 162 000 | `Consistent` (`AssignedIsListed`), `ListFollowsFile`, `UsersStay`, `OnlyCrossedWait` |

**Why the bounds are enough to be interesting.** Two INVITEs are what it takes to
confuse ACKs; a second response is what it takes to see a repetition or a
provisional before a final one; in `ict` and `ist` one
tick stands for every threshold, because `Execute` may come before or after any tick,
once or several times; in `nict` thresholds of one to three ticks put
timers before and after one another; `non_invite` has the times of the code. Retransmission tables of two or
three entries reach the end of the table, where the index could leave it. In
`stack` two of each kind suffice for a signal to be stolen and for a worker to be
woken for nothing. In `tcp` one socket per worker fills the workers, three descriptors
make the number of a closed one come back at once, and the second message finds the
first one's connection, or its attempt, in every state. In `life` the
second response is what replaces a stored one that is still being sent.
In `ua` CSeq 3 allows a challenged INVITE, a request inside
the call and another INVITE, or an INVITE, its PRACK and the INVITE that follows a 302. In `register` two REGISTERs are what it takes to
take one's response for the other's. In `bridge` a transfer of a transfer needs three calls
that are sent; a second block of ports is needed to see one lost. In `balancer` a list of three is what it takes to
skip an element and go on behind it. The `ist` run has no provisional responses: they change
nothing but the status.

**Where a property holds only under a restriction, that is a fact about the code:**

* `Agreement` holds without timeouts and re-INVITEs. A caller whose ring timer
  runs out sends no CANCEL, so the callee rings on; a re-INVITE that crosses a BYE
  becomes a new incoming call, because the To tag is not looked at.
* `StoppedCallEnds` holds without redirection: a 302 sets the end time
  although the call goes on, so that `StopCall` does nothing and returns true
  (`SipUserAgent.cpp:384`). It is checked in the scenario with timeouts.
* `AckNamesItsInvite` and `AnsweredOnce` hold with one thread and no re-INVITEs.
  With two, the application can answer a call while the 487 of its CANCEL is being
  sent, and a mid-call request or a re-INVITE can take the CSeq the next ACK is sent with.
* `AnswersAcked` holds where the number of an ACK is kept for it (`NumberKept`): without
  re-INVITEs, and without mid-call requests if there are two threads. An ACK with another CSeq
  leaves the answer unacknowledged.
* `NothingAfterEnd` holds with one thread and no re-INVITEs, for a user agent of which no transaction timed out:
  `EventIncomingCall` is called after the dialog was inserted, so a CANCEL may
  overtake it, a re-INVITE that a BYE overtakes is a new call, and `SendTimeout` reports an end
  that may have been reported. `EventPrack`
  is excepted: it is called even if there is no call (`SipUserAgentPrack.hpp:78`).
* `PrackHasItsNumber` holds with one PRACK for an INVITE: `SendPrack` gives a second one
  the CSeq of the first (`SipDialog.cpp:522`).
* `InvitesEnd` is about INVITEs of different calls (see the finding); `RequestsEnd`
  excepts requests that got a provisional response: the list
  then gives up without a word.
* `TUSeesServerOrder` needs responses in order: the list compares a status with the
  last one only.
* `CallAccounted` is about a 200: a rejection without an ACK just ends.
* `NoThreadOnClosedSockets` is checked for stacks that are stopped after every
  thread has begun to run (`Settled`): a thread counts itself only then.
  `OnlyWaitersHoldStop` excepts a worker that waits unsignalled: it checked the stop
  event before it was set and waited after the broadcast (`SipStack.cpp:385`), and
  then `_Stop` waits for ever.
* `ImplementsRequest` needs a network delay of at most 250 ms: with 500 ms a
  retransmission can arrive when timer J has ended, and is a new request.
* `CountIsUses` and `UsedIsLive` except what the plain counter loses and the TLS connection that
  deletes the messages queued behind one it cannot write (`SipTlsClientThread.cpp:85`),
  `UsedIsLive` also a response that is replaced on its way to `SendTimeout`, a use after free in
  the code: when a 200 was never acknowledged, `Execute` keeps it, releases the mutex and calls `SendTimeout`
  with it (`SipISTList.cpp:218` and `232`), without counting this use. If the application sends
  a response with a higher status in between (a 401 in the run), `Insert` gives the 200 to the delete
  queue, which keeps for a while only what has a count above 0 (`SipDeleteQueue.cpp:48`): the 200 is deleted at once.
  The model takes this step and ends there, as the 200 is then `spoilt`;
  `QueueDrains` excepts a message whose count never comes down: the queue is
  emptied in order, so it keeps all later ones.
* `RightPeer` is about TLS and `OutcomeExclusive` about TCP: each is false of the
  other transport. `OneOwner` excepts `leaked` sockets.
* `LoggedInIsKnown` speaks of moments when no REGISTER is under way, it and `StopLeavesNothing` of
  behaviours without the `doubts` they name.
* The properties of `bridge` except calls that were `crossed` or went `astray`, and
  ports that were `forgotten`: the exceptions are the races and failures listed
  above, each a fact about the code.
* `NobodyAlone` is checked without failures where there are pick-ups: a call may be picked up after its
  `Insert` and before its `StartCall`, and when that fails, `StopCall` ends the call of the caller
  who was accepted meanwhile (`SipServerUserAgent.hpp:283`).
* `OnlyCrossedWait` excepts a worker and the reload that each hold the mutex
  the other needs (`UserMap.cpp:69`, `SipServerMap.cpp:197`): they do wait for ever.

**Finding.** *An ACK may end another INVITE* (`ict_one_call`, `SipICTList.cpp:69`). The ACK of
a 2xx has its own branch; `Insert` gives it to the first INVITE of the Call-ID
that has no ACK, which is then neither repeated nor reported. The server side
compares the CSeq too, and its comment says why. `PROJECT.json` quotes it.

**Fairness.** Only what the scheduling of the code justifies: the stack thread keeps
calling `Execute` (`SipStackThread.cpp` loops until the stop event), time passes,
a thread that has something to do goes on, a poll times
out, a signalled worker runs, a connect ends. It is weak but for one: in `KSipCall` an
INVITE that was sent is answered in the end, as its transaction ends with a response or a timeout
(`SF(Answer)`: a thread may be busy each time). In `SipLoadBalancer` a thread that waits for a
mutex is just not enabled, so two that wait for each other wait for ever. Nothing makes an
application, a peer or an ACK come, a message arrive or a thread wake up without
a signal; `SipUserAgent` assumes that messages that are not lost arrive and that
timers fire (what the lists are shown to provide).

## 4. What is proved

| theorem | statement | argument |
|---|---|---|
| `SipInviteProofs!TypeCorrect` | `Spec => []TypeOK` | `TypeOK` is inductive. The one hard case is `Execute`: it counts a retransmission only if the transaction was not given up in the same pass (`ReSendType`), so the index stays in the table |
| `SipInviteProofs!TimerBExclusive` | `Spec => []TimeoutExclusive` | `TimeoutInv` |
| `SipInviteProofs!AckStaysHome` | one INVITE per call: `Spec => []Consistent` | `AckInv` |
| `SipInviteProofs!AckEndsTimers` | one INVITE per call: `Spec => AckedNeverTimesOut` | `AckInv` |
| `SipInviteProofs!ServerOrderKept` | one receive thread, order kept: `Spec => []TUSeesServerOrder` | `ServerOrderInv` |
| `SipInviteProofs!NoCallLost` | no two INVITEs of a call with one CSeq: `IST!Spec => []IST!Consistent` (`IST` is `SipISTList`) | `CallInv` |
| `SipNonInviteProofs!TimeoutAlone` | `Spec => []Consistent` | `TimeoutInv` |
| `SipNonInviteProofs!StoppedIffAnswered` | `Exchange => []Server!TypeOK` | the server's `TypeOK`, which says that the stop time is set iff a final response was accepted, is inductive; a step of the clients only adds requests to the wire |
| `SipNonInviteProofs!RequestRefined` | the network is fast enough for timer J: `Exchange => ImplementsRequest` | `RequestInv`, and each step is one of `SipRequest` or a stutter |
| `SipTcpProofs!QueueLookedAt` | `Stack!Spec => [](Stack!TypeOK /\ Stack!NoMessageOverlooked)` (`Stack` is `SipStackThreads`) | `RunCountInv` |
| `SipTcpProofs!SocketsOutliveThreads` | `Settled`: `Stack!Spec => []Stack!Consistent` | `SettledInv` |
| `SipMessageLifeProofs!CountIsRight` | `Spec => []Consistent` | `LifeInv` |
| `SipMessageLifeProofs!NoUseAfterDelete` | `Spec => []UsedIsLive` | `LifeInv` |
| `SipMessageLifeProofs!NothingLeaks` | `Spec => []StopFreesAll` | `LifeInv` |
| `SipTcpProofs!ConnectionsConsistent` | `Spec => []Consistent` | `CountInv`, `MapInv`, `QueueInv` |
| `SipTcpProofs!OneSocketOneOwner` | `Spec => []OneOwner` | `SocketInv` |
| `SipTcpProofs!OneOutcome` | `Spec => []OutcomeExclusive` | `FateInv` |
| `SipTcpProofs!TlsReachesPeer` | `Spec => []RightPeer` | `MapInv` |
| `SipUserAgentProofs!TypeCorrect` | `Spec => []TypeOK` | `Base` |
| `SipUserAgentProofs!PracksNumbered` | `Spec => []PrackHasItsNumber` | `Numbers` |
| `SipUserAgentProofs!AnswersKept` | `Spec => AnsweredOnce` | `OneAtATime` |
| `SipUserAgentProofs!NothingElseTold` | `Spec => []NothingAfterEnd` | `CallInv` |
| `SipUserAgentProofs!UsersAgree` | `Spec => []Consistent` | `AgreeInv` |
| `SipAckRegisterProofs!AnswersAreAcked` | `Spec => []AcksMatch` | `AckInv` |
| `SipAckRegisterProofs!LoggedInUserIsKnown` | `RegisterSpec => []RegisterConsistent` | `RegisterInv` |
| `SipAckRegisterProofs!StoppedAgentIsForgotten` | `RegisterSpec => []StopLeavesNothing` | `RegisterInv` |
| `KSipCallProofs!TypeCorrect` | `Spec => []TypeOK` | `Types` |
| `KSipCallProofs!EntriesAgree` | `Spec => []Consistent` | `IInv` |
| `SipLoadBalancerProofs!NobodyAssignedToDeleted` | `Spec => []Consistent` | `BalancerInv` |
| `SipLoadBalancerProofs!ReloadFollowsFile` | `Spec => []ListFollowsFile` | `FollowInv` |
| `SipLoadBalancerProofs!AssignmentLasts` | `Spec => UsersStay` | `BalancerInv` |

They hold for every set of keys, calls, threads, sockets, peers, messages, servers, users and expiries, every
retransmission table and timer value, and every network the modules allow.

*Client transactions.* `TimeoutExclusive` is not inductive: the 408 is reported after the transaction is
gone, so the proof needs to know that no thread held a response when it went.
`TimeoutInv` of the INVITE list adds that a transaction in the list was not given up, that
of an INVITE without a stored response the user heard nothing and no thread is
reporting anything (`SilentInv`), and that a given up INVITE has its timeout either
pending or reported (`GaveUpInv`). For other requests it says that threads hold only statuses a
server sent, that a request in the list has no timeout pending or
told, and that of a request that is not in the list yet, or in it without a response, nothing was told and
nobody holds anything. `AckInv` says of every transaction that its ACK is its own, and
that an acknowledged INVITE in the list has its stop time set: from then on
neither timer of `Execute` applies. `ServerOrderInv` follows one INVITE's responses from the server
to the user: as soon as a final one was told, is held by the thread or stored in the list, all that is still in the network,
held or stored has the status the server sent last, so nothing gets past the comparison with the stored status; and a
timeout is pending or told only of an INVITE that is not in the list.

*INVITE server transactions.* `CallInv` says what the two fields of a transaction
know about the history: one that was answered with 200 has 200 as its
status, and one whose stop time is set without a rejection was acknowledged,
has its failure pending or reported it.

*The refinement of `SipRequest`.* That a request is executed once is a matter of time: the server forgets it when timer J
ends, so every copy must be gone by then. `RequestInv` says that the server's answer is not older than the client's
transaction, nor older than a request on the wire by more than a retransmission time; with `InTime` (timer J is longer than the last of these times
and the delay of the network) a client which still sends, or a request still on the wire, finds the server's transaction
in its list. It says that one thread holds a request once, that the server has one final
answer, and that every final status on the wire, stored, held or told is this one. `TimeoutInv` of the client's list keeps a
timeout and an answer apart. With these, `Learn` and `Expire` of `SipRequest` are each taken once and never both, and
all other steps change nothing `SipRequest` sees.

*Threads.* Their proofs are in `SipTcpProofs`, with those of the connections the threads use. `RunCountInv` says that the counter equals the number of threads at the places where they
are counted; `NoMessageOverlooked` itself is inductive beside it; with `SettledInv` a thread
that runs is counted, so `_Stop`, which waits for the counts, waits for all of them.

*Messages.* The uses of a message are a set, one element for the transaction or thread that has it and one for each place in a
list of those that wait for a connection; `Uses` is its cardinality. So each step adds or
takes away one element, or moves some from the waiting list into a thread's batch, and the lemmas `Uses...` say what
that does to the number. `LifeInv` says that the count is never below the number of uses
and equal to it unless a message is `stuck` (`CountInv`); that a message is live exactly if the transaction or the delete queue
keeps it, once, and is kept as long as it is used (`KeptInv`); and that the response on its way to `SendTimeout`
is kept by one of the two, although nobody counts it (`LateInv`). All of this
is for messages that are not `spoilt`. That a non-INVITE client never spoils one needs `ClientInv`: it sends one request, one
thread connects for it and nobody waits behind it, so at most two threads count at a time, and who has read
the count has read at least what it is now: a lost update leaves it too high, never too low.

*Connections.* `OneOwner` counts owners only; to survive a step it needs `SocketInv`: a
command in a pipe, a session and a socket a thread writes to know the peer their
descriptor is connected to, none shares its descriptor with another, every open one has such an owner or is among
those the code forgets, and a worker that has ended has no session left. Its part `CountInv` lets a worker's count
fall one below what it has, as `DeleteAll` does at Stop, but not while the stack runs. That the map names sessions (`MapInv`)
rests on `SocketInv`: when a session is closed, no other that the map may name has its descriptor. `QueueInv` says that a message waits in the queue of its own
peer or in one thread's hands, never in both, so that emptying a queue touches no message that connects or is written;
`FateInv`, that nothing has become of a message before it is written or given up. `RightPeer` over TLS follows as the map
is read and the message written in one step.

*Calls.* What a thread has still to do is a list, but the order of its steps is fixed by what they are: an ACK or a
response comes first, `Delete` last (`Ordered`). So the proofs look at a list as a set, and each action is first
turned into what it does to these sets, to the dialogs, transactions and the wire (`...Does`). `Base` says who may have what: only
the caller has client transactions, only the callee has an INVITE to answer. `Numbers` says that the CSeq of the
dialog is not below that of any INVITE made or PRACK sent, and a PRACK's number lies between those of two INVITEs.
`OneAtATime` says of an INVITE with a final answer that the callee has no other answer to it to send, and no dialog that still
holds it but one that is about to be deleted. For the callbacks, `CallInv` follows the call from its first INVITE: each INVITE but
the last was answered with a final status that is not a 2xx (`Replaced`), a connected dialog's INVITE was accepted (`Accepted`), a
CANCEL or BYE that is sent or under way means that the other user has given the call up (`Over`, `CancelRight`),
and an end is told only of a dialog that is then deleted (`Endings`), after which none is made again.

That the two users agree says something of quiet states only, so `AgreeInv` says what stands for agreement in all
others. It holds with any number of threads, but only where no transaction times out and there are no re-INVITEs. Responses may overtake
each other, but what the client transaction holds is never above what the server transaction was given, and a final status that was given is on the wire or was
heard (`Heeded`). The callee hears of an end only from a caller who has let the call go (`LetsGo`). Only the
last INVITE is still the callee's concern, and a dialog whose INVITE has a final answer otherwise than by `AcceptCall` is about to be
deleted (`CalleeInv`); as long as the caller wants the call, that INVITE gets one final answer (`FinalInv`), since the CANCEL is what makes a second one
possible. The caller has a dialog that is not connected only until a final answer is heard, and one that is connected only
after a 200 or with a `StopCall` still to do (`CallerInv`). Where one user has no call any more, a BYE, a CANCEL's `Delete` or a final
answer is on its way to the other (`EndsInv`). When nothing is on its way the cases that are left are those of `Agreement`.

That answers are acknowledged holds with timeouts too, so `AckInv` needs another way to say who may answer. As long as the caller
wants the call, an INVITE is like a token: one thread of the callee, or its dialog, has it to answer, or it was answered
(`TokenInv`), so that only one final status of it exists. Only an INVITE that was refused, and of which no answer is under way, is
followed by another one (`DeadInv`), and what the caller's dialog says of its last INVITE is true (`Straight`). The callee's answer is on the wire, was
heard or was given up by a timeout (`HeardRight`). An ACK is made when the answer is heard, and sent before the INVITE that
follows (`AcksInOrder`, `AcksRight`): all earlier INVITEs have theirs, and so the search for the first INVITE without an ACK finds the
one it is for. One that was sent is on the wire or was taken (`AckWire`, `AckTaken`).

*Registration.* Neither property is inductive: both are about the end of exchanges of which they do not speak. `RegisterInv` says, as
long as nothing was lost or misread, what these exchanges are for: what is under way are logins if the
user is to be logged in and logouts if not (`Purposeful`), so that one cannot undo the other; whom the registrar knows is logged in or
his 200 is under way (`KnownIsLoggedIn`), no one is known whose logout is answered (`LogoutIsDone`), and a user agent that
leaves wants to be logged out. Conversely, while the registrar loses nobody by itself, who is logged in is known or his logout is
being answered (`LoginIsDone`). Each way in which one of these breaks is an entry of `doubts`, put there by the action that breaks it.

*Bridged calls.* `PeersAgree` speaks of quiet states; in the middle of a transfer or a pick-up the map is wrong, and two
threads may be in the middle of two callbacks. `IInv` gives the types of all steps (`Types`) and, until one was `crossed`,
that no two threads are crossing and that everything else is `Good`: each thread's list has one of the shapes the
callbacks make (`Shape`), no two threads have the same new call to enter (`Res`), and the map agrees (`Sound`). `Sound` is about
entries, not calls: two entries name each other, or the one that is named can neither be picked up nor
found any more and is `astray`. A shape says which Call-IDs the rest of the list will give an entry and that no one else
has one for them (`Own`, `Claim`): this is what makes `Insert`, which leaves an entry that is there alone, do its
work. Three entries that name one caller are there while a call is picked up; then the map is not `Sound`, but `Virtual`: the
map as it was `Back` before the pick-up is, and when the caller's entry is updated the two agree with roles exchanged. The other
threads may go on meanwhile, so there is a lemma for each operation that says what it does to `Settled`, on the map and on the one before
(`Settled...`, `Virtual...`), and one for each action (`...Good`). TLC checked the invariant part by part before
it was proved, and found that three exceptions of the model were too narrow when failures and pick-ups come together with threads that go on, which no
scenario of `bridge` has: a pick-up that fails leaves the entry of the call that is picked up, and the caller's; a transfer or a second call
without a peer gives the empty Call-ID an entry, which the next one finds; a `Delete` that is still to be done
overlaps like the end of a call it belongs to. `astray` and `crossed` have them now.

*Load balancer.* `BalancerInv` says who holds which mutex at each place of a thread, that the list has no server
twice, that what a worker has chosen is in the list as long as it
holds the users' mutex, and what the main thread has still to do. Three lemmas say
how marking, inserting and removing an element change who is listed. `FollowInv` is about the reload: while it inserts,
the servers of the file's first lines are in the list, unmarked and with their flags, and all others are marked; while it walks, what
lies before its place is in the file or was `skipped`.

*Assumptions*: the named ASSUMEs of the modules (sets are finite where they are counted, times are naturals not above
`MaxAge`, every INVITE has a Call-ID; servers
send no 408 of their own, no 0 and no status above 659; a file does not list a server twice), which TLC
evaluates in the runs. At most finitely many threads connect, and NULL is neither a message nor a list of messages.
`OneInvitePerCall`, `OneInvitePerSeq`, `InOrder` and `InTime` are hypotheses of
the theorems that need them: the finding shows that the first one is needed, section 3 what happens without the last two.

*Only model-checked*: of `KSipCall` `NobodyAlone`, `RelayLasts` and `NothingLeft`
(they relate the entries to the dialogs and ports as well), and all liveness properties: `InvitesEnd`,
`AnsweredTransactionsEnd`, `RequestsEnd`, `MessagesHandled`, `OnlyWaitersHoldStop`, `StopReturns`, `QueueDrains`, `LoginAgain`,
`CalleesEnd`, `OnlyCrossedWait`, `StoppedCallEnds` (liveness under fairness is out of reach of the prover).

## 5. What is not modelled

* Message contents, media descriptions, authentication values, routing, logging.
* In the transaction lists: the stateless mode (`m_bStateful` false), in which they
  are not used, and in `SipMessageLife` what it deletes.
* In `SipStackThreads`: connecting threads (they are in `SipTcp`), and what differs between UDP, TCP and TLS.
* In `SipTcp`: the receive timeout, the 120 s after which an entry of the connect
  map is taken over, a thread that cannot be started, the splitting of the stream into messages.
* In `SipUserAgent`: a second PRACK for an INVITE, the `RingCall` that takes a status, `CreateCall` before `StartCall`, the end of a
  TCP session, responses to CANCEL, BYE, REFER and PRACK (they change no dialog), a
  connect error. Re-INVITEs are sent by the caller only, on a connected call without an open INVITE.
* In `SipRegister`: `m_bUseRegisterSession`, the NAT keep-alive, a 200 with other times than
  asked for, 400 and 403.
* In `KSipCall`: re-INVITE, PRACK, NOTIFY, MESSAGE, IP-PBX routing, a 200 without a
  media description, more than one media line, shutdown. The lowest free port is taken where the code goes
  round in a circle. Other threads begin something new during an attended transfer only.
* In `SipLoadBalancer`: the transport of a known user, the rewriting of a
  REGISTER; responses, which are routed by their Via and change nothing; `Monitor.cpp`, which only reads.
* Parsers and formatters (stateless text processing), `TcpStack` and `HttpStack` (a second
  framework with the structure of the TCP part of `SipStack`), set-up, programs
  with a user interface, tools, the Android binding, older versions, and vendored
  libraries (OpenSSL, opensrtp), which make up most of the repository's lines.

## 6. Plan

Done: the transaction lists and their refinement, threads, messages, connections,
calls, registration, the two servers, and the proofs above. What would add most next:

1. The events of a transfer in `SipUserAgent`; an abstract call (idle, ringing, connected,
   ended, at both ends) that two agents implement.
2. Proofs of `NothingLeft`, `NobodyAlone` and `RelayLasts` for `KSipCall`.
3. Media and IP-PBX routing in `KSipCall`; `TcpStack` with the session lists of `HttpStack`.
4. The stateless mode in `SipMessageLife`.
