------------------------- MODULE SipUserAgentProofs -------------------------
(***************************************************************************)
(* Theorems about SipUserAgent: for any number of threads of each agent,   *)
(* any CSeqs and any scenarios, the variables keep their types and each    *)
(* PRACK its number; an INVITE is answered once, and nothing is told of a  *)
(* call after its end, if agents have one thread and there is no           *)
(* re-INVITE.  When nothing is under way any more both users have the call *)
(* or neither has, and both think that it is connected or neither does, if *)
(* no transaction timed out and there is no re-INVITE.                     *)
(*                                                                         *)
(* A thread's list is looked at as a set of steps: what comes first in it  *)
(* and what last is fixed by what the steps are (Ordered).  Every action   *)
(* is first turned into what it does to steps, dialogs, transactions and   *)
(* wire (CallStarts, Hears, ...); the invariants are proved of those.      *)
(***************************************************************************)
EXTENDS SipUserAgent, SequenceTheorems, TLAPS

-----------------------------------------------------------------------------
(* Messages and things to do, by name. *)
InviteMsg(i) == [kind |-> "INVITE", to |-> Callee, seq |-> i]
PrackMsg(i) == [kind |-> "PRACK", to |-> Callee, seq |-> i]
AckMsg(n, b) == [kind |-> "ACK", to |-> Callee, seq |-> n, branch |-> b]
CancelMsg == [kind |-> "CANCEL", to |-> Callee]
ByeMsg(a) == [kind |-> "BYE", to |-> a]
Answer(i, s) == [kind |-> "response", to |-> Caller, seq |-> i, status |-> s]

InsertStep(i) == [do |-> "insert", seq |-> i]
AnswerStep(i) == [do |-> "answer", seq |-> i]
SetEnd == [do |-> "set end"]
StopStep == [do |-> "stop"]

Tag(s) == IF s.do = "send" THEN s.message.kind ELSE IF s.do = "tell" THEN s.event ELSE s.do

(* Whom each of them is for, and what the two users do. *)
Carried(m) ==
  \/ \E i \in Seqs : m = InviteMsg(i) \/ m = PrackMsg(i) \/ \E s \in Statuses : m = Answer(i, s)
  \/ \E n, b \in 0..MaxSeq : m = AckMsg(n, b)
  \/ m = CancelMsg \/ m = ByeMsg(Caller) \/ m = ByeMsg(Callee)

CallerStep(s) ==
  \/ \E i \in Seqs : s = Send(InviteMsg(i)) \/ s = Send(PrackMsg(i))
  \/ \E n, b \in 0..MaxSeq : s = Send(AckMsg(n, b))
  \/ s = Send(CancelMsg) \/ s = Send(ByeMsg(Callee))
  \/ s = Tell("start") \/ s = Tell("end") \/ s = Delete \/ s = SetEnd \/ s = StopStep

CalleeStep(s) ==
  \/ \E i \in Seqs : \/ s = InsertStep(i) \/ s = AnswerStep(i)
                     \/ \E r \in Statuses : s = Send(Answer(i, r))
  \/ s = Send(ByeMsg(Caller))
  \/ s = Tell("call") \/ s = Tell("end") \/ s = Tell("prack") \/ s = Delete \/ s = SetEnd

LEMMA Pair == Caller # Callee /\ Peer(Caller) = Callee /\ Peer(Callee) = Caller
                /\ Agents = {Caller, Callee}
  BY AgentAssumption DEF Peer, Agents

LEMMA MessageKinds ==
  /\ \A i : InviteMsg(i).kind = "INVITE" /\ PrackMsg(i).kind = "PRACK"
  /\ \A n, b : AckMsg(n, b).kind = "ACK"
  /\ \A a : ByeMsg(a).kind = "BYE"
  /\ \A i, s : Answer(i, s).kind = "response"
  /\ CancelMsg.kind = "CANCEL"
  BY DEF InviteMsg, PrackMsg, AckMsg, CancelMsg, ByeMsg, Answer

LEMMA MessageParts ==
  /\ \A i : /\ InviteMsg(i).to = Callee /\ InviteMsg(i).seq = i
            /\ PrackMsg(i).to = Callee /\ PrackMsg(i).seq = i
  /\ \A n, b : AckMsg(n, b).to = Callee /\ AckMsg(n, b).seq = n /\ AckMsg(n, b).branch = b
  /\ \A a : ByeMsg(a).to = a
  /\ \A i, s : Answer(i, s).to = Caller /\ Answer(i, s).seq = i /\ Answer(i, s).status = s
  /\ CancelMsg.to = Callee
  BY DEF InviteMsg, PrackMsg, AckMsg, CancelMsg, ByeMsg, Answer

LEMMA StepTags ==
  /\ \A m : Tag(Send(m)) = m.kind /\ Send(m).do = "send" /\ Send(m).message = m
  /\ \A e : Tag(Tell(e)) = e /\ Tell(e).do = "tell" /\ Tell(e).event = e
  /\ \A i : /\ Tag(InsertStep(i)) = "insert" /\ InsertStep(i).do = "insert" /\ InsertStep(i).seq = i
            /\ Tag(AnswerStep(i)) = "answer" /\ AnswerStep(i).do = "answer" /\ AnswerStep(i).seq = i
  /\ Tag(Delete) = "delete" /\ Delete.do = "delete"
  /\ Tag(SetEnd) = "set end" /\ SetEnd.do = "set end"
  /\ Tag(StopStep) = "stop" /\ StopStep.do = "stop"
  BY DEF Tag, Send, Tell, InsertStep, AnswerStep, Delete, SetEnd, StopStep

LEMMA SendTags ==
  /\ \A i : Tag(Send(InviteMsg(i))) = "INVITE" /\ Tag(Send(PrackMsg(i))) = "PRACK"
  /\ \A n, b : Tag(Send(AckMsg(n, b))) = "ACK"
  /\ \A a : Tag(Send(ByeMsg(a))) = "BYE"
  /\ \A i, s : Tag(Send(Answer(i, s))) = "response"
  /\ Tag(Send(CancelMsg)) = "CANCEL"
  BY DEF Tag, Send, InviteMsg, PrackMsg, AckMsg, ByeMsg, Answer, CancelMsg

LEMMA SendSame == \A m, n : Send(m) = Send(n) => m = n
  <1> SUFFICES ASSUME NEW m, NEW n, Send(m) = Send(n) PROVE m = n
    OBVIOUS
  <1>1. Send(m).message = m /\ Send(n).message = n
    BY DEF Send
  <1> QED
    BY <1>1

LEMMA MessageSame ==
  /\ \A i, j : /\ InviteMsg(i) = InviteMsg(j) => i = j
               /\ PrackMsg(i) = PrackMsg(j) => i = j
               /\ InsertStep(i) = InsertStep(j) => i = j
               /\ AnswerStep(i) = AnswerStep(j) => i = j
               /\ ByeMsg(i) = ByeMsg(j) => i = j
  /\ \A i, s, j, r : Answer(i, s) = Answer(j, r) => i = j /\ s = r
  /\ \A n, b, j, r : AckMsg(n, b) = AckMsg(j, r) => n = j /\ b = r
  <1>1. ASSUME NEW i, NEW j
        PROVE  /\ InviteMsg(i) = InviteMsg(j) => i = j
               /\ PrackMsg(i) = PrackMsg(j) => i = j
               /\ InsertStep(i) = InsertStep(j) => i = j
               /\ AnswerStep(i) = AnswerStep(j) => i = j
               /\ ByeMsg(i) = ByeMsg(j) => i = j
    <2>1. /\ InviteMsg(i).seq = i /\ InviteMsg(j).seq = j /\ PrackMsg(i).seq = i /\ PrackMsg(j).seq = j
          /\ InsertStep(i).seq = i /\ InsertStep(j).seq = j
          /\ AnswerStep(i).seq = i /\ AnswerStep(j).seq = j /\ ByeMsg(i).to = i /\ ByeMsg(j).to = j
      BY DEF InviteMsg, PrackMsg, InsertStep, AnswerStep, ByeMsg
    <2> QED
      BY <2>1
  <1>2. ASSUME NEW i, NEW s, NEW j, NEW r
        PROVE  /\ Answer(i, s) = Answer(j, r) => i = j /\ s = r
               /\ AckMsg(i, s) = AckMsg(j, r) => i = j /\ s = r
    <2>1. /\ Answer(i, s).seq = i /\ Answer(i, s).status = s
          /\ Answer(j, r).seq = j /\ Answer(j, r).status = r
          /\ AckMsg(i, s).seq = i /\ AckMsg(i, s).branch = s
          /\ AckMsg(j, r).seq = j /\ AckMsg(j, r).branch = r
      BY DEF Answer, AckMsg
    <2> QED
      BY <2>1
  <1> QED
    BY <1>1, <1>2

LEMMA StatusFacts ==
  /\ Statuses \subseteq 100..699
  /\ Ringing \in Statuses /\ SessionProgress \in Statuses /\ Ok \in Statuses /\ Moved \in Statuses
  /\ Unauthorized \in Statuses /\ RequestTimeout \in Statuses /\ Terminated \in Statuses
  /\ NotAcceptable \in Statuses /\ Decline \in Statuses
  BY DEF Statuses, Ringing, SessionProgress, Ok, Moved, Unauthorized, RequestTimeout, Terminated,
         NotAcceptable, Decline

LEMMA SeqFacts == MaxSeq \in Nat /\ MaxSeq >= 1 /\ Seqs = 1..MaxSeq /\ 1 \in Seqs
                    /\ \A i \in Seqs : i \in 0..MaxSeq /\ i \in Nat /\ i >= 1
  BY AgentAssumption DEF Seqs

LEMMA MessageTypes ==
  /\ \A i \in Seqs : InviteMsg(i) \in Message /\ PrackMsg(i) \in Message
  /\ \A n, b \in 0..MaxSeq : AckMsg(n, b) \in Message
  /\ CancelMsg \in Message /\ \A a \in Agents : ByeMsg(a) \in Message
  /\ \A i \in Seqs, s \in Statuses : Answer(i, s) \in Message
  <1>1. \A i \in Seqs : InviteMsg(i) \in Message /\ PrackMsg(i) \in Message
    BY DEF InviteMsg, PrackMsg, Message, Agents
  <1>2. \A n, b \in 0..MaxSeq : AckMsg(n, b) \in Message
    BY DEF AckMsg, Message, Agents
  <1>3. CancelMsg \in Message /\ \A a \in Agents : ByeMsg(a) \in Message
    BY DEF CancelMsg, ByeMsg, Message, Agents
  <1>4. \A i \in Seqs, s \in Statuses : Answer(i, s) \in Message
    BY DEF Answer, Message, Agents
  <1> QED
    BY <1>1, <1>2, <1>3, <1>4

LEMMA StepTypes ==
  /\ \A m \in Message : Send(m) \in Step
  /\ \A e \in Events : Tell(e) \in Step
  /\ \A i \in Seqs : InsertStep(i) \in Step /\ AnswerStep(i) \in Step
  /\ Delete \in Step /\ SetEnd \in Step /\ StopStep \in Step
  BY DEF Send, Tell, InsertStep, AnswerStep, Delete, SetEnd, StopStep, Step

LEMMA PlainTags ==
  /\ Tag(Delete) = "delete" /\ Tag(SetEnd) = "set end" /\ Tag(StopStep) = "stop"
  /\ Tag(Tell("start")) = "start" /\ Tag(Tell("call")) = "call"
  /\ Tag(Tell("end")) = "end" /\ Tag(Tell("prack")) = "prack"
  /\ \A i : Tag(InsertStep(i)) = "insert" /\ Tag(AnswerStep(i)) = "answer"
  BY DEF Tag, Tell, InsertStep, AnswerStep, Delete, SetEnd, StopStep

LEMMA CalleeForms ==
  ASSUME NEW s, CalleeStep(s)
  PROVE  /\ Tag(s) = "insert" => \E i \in Seqs : s = InsertStep(i)
         /\ Tag(s) = "answer" => \E i \in Seqs : s = AnswerStep(i)
         /\ Tag(s) = "response" => \E i \in Seqs, r \in Statuses : s = Send(Answer(i, r))
         /\ Tag(s) = "BYE" => s = Send(ByeMsg(Caller))
         /\ Tag(s) = "call" => s = Tell("call")
         /\ Tag(s) = "end" => s = Tell("end")
         /\ Tag(s) = "prack" => s = Tell("prack")
         /\ Tag(s) = "delete" => s = Delete
         /\ Tag(s) = "set end" => s = SetEnd
         /\ Tag(s) \in {"insert", "answer", "response", "BYE", "call", "end", "prack", "delete", "set end"}
  BY PlainTags, SendTags DEF CalleeStep

LEMMA CallerForms ==
  ASSUME NEW s, CallerStep(s)
  PROVE  /\ Tag(s) = "INVITE" => \E i \in Seqs : s = Send(InviteMsg(i))
         /\ Tag(s) = "PRACK" => \E i \in Seqs : s = Send(PrackMsg(i))
         /\ Tag(s) = "ACK" => \E n, b \in 0..MaxSeq : s = Send(AckMsg(n, b))
         /\ Tag(s) = "BYE" => s = Send(ByeMsg(Callee))
         /\ Tag(s) = "CANCEL" => s = Send(CancelMsg)
         /\ Tag(s) = "start" => s = Tell("start")
         /\ Tag(s) = "end" => s = Tell("end")
         /\ Tag(s) = "delete" => s = Delete
         /\ Tag(s) = "set end" => s = SetEnd
         /\ Tag(s) = "stop" => s = StopStep
         /\ Tag(s) \in {"INVITE", "PRACK", "ACK", "BYE", "CANCEL", "start", "end", "delete", "set end", "stop"}
  BY PlainTags, SendTags DEF CallerStep

LEMMA MessageForms ==
  ASSUME NEW m, Carried(m)
  PROVE  /\ m.kind = "INVITE" => \E i \in Seqs : m = InviteMsg(i)
         /\ m.kind = "PRACK" => \E i \in Seqs : m = PrackMsg(i)
         /\ m.kind = "ACK" => \E n, b \in 0..MaxSeq : m = AckMsg(n, b)
         /\ m.kind = "CANCEL" => m = CancelMsg
         /\ m.kind = "BYE" => m = ByeMsg(Caller) \/ m = ByeMsg(Callee)
         /\ m.kind = "response" => \E i \in Seqs, s \in Statuses : m = Answer(i, s)
  BY MessageKinds DEF Carried

LEMMA StepKinds ==
  ASSUME NEW s, CallerStep(s) \/ CalleeStep(s)
  PROVE  /\ s.do = "send" => Tag(s) = s.message.kind /\ s = Send(s.message)
         /\ s.do = "tell" => Tag(s) = s.event /\ s = Tell(s.event)
         /\ s.do \notin {"send", "tell"} => Tag(s) = s.do
  <1>1. s.do = "send" => Tag(s) = s.message.kind
    BY DEF Tag
  <1>2. s.do = "tell" => Tag(s) = s.event
    BY DEF Tag
  <1>3. s.do \notin {"send", "tell"} => Tag(s) = s.do
    BY DEF Tag
  <1>4. (\E m : s = Send(m)) \/ (\E e : s = Tell(e)) \/ (\E i : s = InsertStep(i) \/ s = AnswerStep(i))
        \/ s = Delete \/ s = SetEnd \/ s = StopStep
    BY DEF CallerStep, CalleeStep
  <1>5. ASSUME NEW m, s = Send(m)
        PROVE  s.do = "send" /\ s = Send(s.message)
    BY <1>5, StepTags
  <1>6. ASSUME NEW e, s = Tell(e)
        PROVE  s.do = "tell" /\ s = Tell(s.event)
    BY <1>6, StepTags
  <1>7. ASSUME NEW i, s = InsertStep(i) \/ s = AnswerStep(i) \/ s = Delete \/ s = SetEnd \/ s = StopStep
        PROVE  s.do \notin {"send", "tell"}
    BY <1>7, StepTags
  <1> QED
    BY <1>1, <1>2, <1>3, <1>4, <1>5, <1>6, <1>7

-----------------------------------------------------------------------------
(* A thread's list of things to do.  An ACK and a response come first, all *)
(* else last; Tell("end") is followed by Delete.                           *)
Items(q) == {q[k] : k \in 1..Len(q)}

Ordered(q) ==
  \A k \in 1..Len(q) :
    /\ Tag(q[k]) \in {"ACK", "response"} => k = 1
    /\ Tag(q[k]) \notin {"ACK", "response", "end"} => k = Len(q)
    /\ Tag(q[k]) = "end" => k + 1 = Len(q) /\ q[k + 1] = Delete

Steps(a, t) == Items(todo[a][t])
Has(a, s) == \E t \in Threads : s \in Steps(a, t)

LEMMA EmptyList == <<>> \in Seq(Step) /\ Ordered(<<>>) /\ Items(<<>>) = {}
  BY DEF Ordered, Items

LEMMA OneItem ==
  ASSUME NEW s \in Step, Tag(s) # "end"
  PROVE  <<s>> \in Seq(Step) /\ Ordered(<<s>>) /\ Items(<<s>>) = {s}
  BY DEF Ordered, Items

LEMMA TwoItems ==
  ASSUME NEW f \in Step, NEW s \in Step,
         Tag(f) \in {"ACK", "response"}, Tag(s) \notin {"ACK", "response", "end"}
  PROVE  <<f, s>> \in Seq(Step) /\ Ordered(<<f, s>>) /\ Items(<<f, s>>) = {f, s}
  <1>1. Items(<<f, s>>) = {f, s}
    BY DEF Items
  <1>2. Ordered(<<f, s>>)
    BY DEF Ordered
  <1> QED
    BY <1>1, <1>2

LEMMA EndItems ==
  /\ <<Tell("end"), Delete>> \in Seq(Step)
  /\ Ordered(<<Tell("end"), Delete>>)
  /\ Items(<<Tell("end"), Delete>>) = {Tell("end"), Delete}
  <1> DEFINE q == <<Tell("end"), Delete>>
  <1>1. Len(q) = 2 /\ q[1] = Tell("end") /\ q[2] = Delete /\ q \in Seq(Step)
    BY StepTypes DEF Events
  <1> HIDE DEF q
  <1>2. Items(q) = {q[1], q[2]}
    BY <1>1 DEF Items
  <1>3. Ordered(q)
    <2>1. Tag(q[1]) = "end" /\ Tag(q[2]) = "delete"
      BY <1>1 DEF Tag, Tell, Delete
    <2> QED
      BY <1>1, <2>1 DEF Ordered
  <1> QED
    BY <1>1, <1>2, <1>3 DEF q

LEMMA ThreeItems ==
  ASSUME NEW f \in Step, Tag(f) \in {"ACK", "response"}
  PROVE  /\ <<f, Tell("end"), Delete>> \in Seq(Step)
         /\ Ordered(<<f, Tell("end"), Delete>>)
         /\ Items(<<f, Tell("end"), Delete>>) = {f, Tell("end"), Delete}
  <1> DEFINE q == <<f, Tell("end"), Delete>>
  <1>1. Len(q) = 3 /\ q[1] = f /\ q[2] = Tell("end") /\ q[3] = Delete /\ q \in Seq(Step)
    BY StepTypes DEF Events
  <1> HIDE DEF q
  <1>2. Items(q) = {q[1], q[2], q[3]}
    BY <1>1 DEF Items
  <1>3. Ordered(q)
    <2>1. Tag(q[2]) = "end" /\ Tag(q[3]) = "delete" /\ Tag(q[1]) \in {"ACK", "response"}
      BY <1>1 DEF Tag, Tell, Delete
    <2> QED
      BY <1>1, <2>1 DEF Ordered
  <1> QED
    BY <1>1, <1>2, <1>3 DEF q

LEMMA PopItem ==
  ASSUME NEW q \in Seq(Step), q # <<>>, Ordered(q)
  PROVE  /\ Tail(q) \in Seq(Step) /\ Ordered(Tail(q))
         /\ Head(q) \in Items(q) /\ Head(q) \in Step
         /\ Items(Tail(q)) = Items(q) \ {Head(q)}
         /\ Tag(Head(q)) \notin {"ACK", "response", "end"} => Items(q) = {Head(q)}
         /\ Tag(Head(q)) = "end" => Items(q) = {Head(q), Delete}
  <1> DEFINE n == Len(q)
             r == Tail(q)
  <1>1. /\ n \in Nat /\ n >= 1 /\ r \in Seq(Step) /\ Len(r) = n - 1 /\ Head(q) = q[1]
        /\ \A k \in 1..n : q[k] \in Step
        /\ \A k \in 1..n-1 : r[k] = q[k + 1]
    OBVIOUS
  <1> HIDE DEF n, r
  <1>2. \A k \in 1..n :
          /\ Tag(q[k]) \in {"ACK", "response"} => k = 1
          /\ Tag(q[k]) \notin {"ACK", "response", "end"} => k = n
          /\ Tag(q[k]) = "end" => k + 1 = n /\ q[k + 1] = Delete
    BY DEF Ordered, n
  <1>3. Items(q) = {q[k] : k \in 1..n}
    BY DEF Items, n
  <1>4. Items(r) = {q[k] : k \in 2..n}
    <2>1. Items(r) = {r[k] : k \in 1..n-1}
      BY <1>1 DEF Items
    <2>2. ASSUME NEW k \in 2..n PROVE k - 1 \in 1..n-1 /\ r[k - 1] = q[k]
      BY <1>1, <2>2
    <2>3. ASSUME NEW k \in 1..n-1 PROVE k + 1 \in 2..n /\ r[k] = q[k + 1]
      BY <1>1, <2>3
    <2> QED
      BY <2>1, <2>2, <2>3
  <1>5. \A k \in 2..n : q[k] # q[1]
    <2> SUFFICES ASSUME NEW k \in 2..n, q[k] = q[1] PROVE FALSE
      OBVIOUS
    <2>1. k \in 1..n /\ 1 \in 1..n /\ n >= 2
      BY <1>1
    <2>2. Tag(q[k]) = Tag(q[1])
      OBVIOUS
    <2>3. CASE Tag(q[1]) = "end"
      BY <1>1, <1>2, <2>1, <2>2, <2>3
    <2>4. CASE Tag(q[1]) # "end"
      BY <1>1, <1>2, <2>1, <2>2, <2>4
    <2> QED
      BY <2>3, <2>4
  <1>6. Items(r) = Items(q) \ {q[1]}
    BY <1>1, <1>3, <1>4, <1>5
  <1>7. Ordered(r)
    <2> SUFFICES ASSUME NEW k \in 1..n-1
                 PROVE  /\ Tag(r[k]) \in {"ACK", "response"} => k = 1
                        /\ Tag(r[k]) \notin {"ACK", "response", "end"} => k = n - 1
                        /\ Tag(r[k]) = "end" => k + 1 = n - 1 /\ r[k + 1] = Delete
      BY <1>1 DEF Ordered
    <2>1. k + 1 \in 1..n /\ r[k] = q[k + 1]
      BY <1>1
    <2>2. Tag(r[k]) = "end" => k + 1 \in 1..n-1
      BY <1>1, <1>2, <2>1
    <2> QED
      BY <1>1, <1>2, <2>1, <2>2
  <1>8. Tag(q[1]) \notin {"ACK", "response", "end"} => Items(q) = {q[1]}
    BY <1>1, <1>2, <1>3
  <1>9. Tag(q[1]) = "end" => Items(q) = {q[1], Delete}
    <2> SUFFICES ASSUME Tag(q[1]) = "end" PROVE Items(q) = {q[1], Delete}
      OBVIOUS
    <2>1. n = 2 /\ q[2] = Delete
      BY <1>1, <1>2
    <2> QED
      BY <1>3, <2>1
  <1>10. q[1] \in Items(q)
    BY <1>1, <1>3
  <1> QED
    BY <1>1, <1>6, <1>7, <1>8, <1>9, <1>10 DEF r

-----------------------------------------------------------------------------
(* Who has what: only the caller has client transactions and the numbers   *)
(* of requests, only the callee server transactions and an INVITE.         *)
Out == dialog[Caller]
In == dialog[Callee]

ListsRight ==
  /\ todo \in [Agents -> [Threads -> Seq(Step)]]
  /\ \A a \in Agents, t \in Threads : Ordered(todo[a][t])
  /\ \A t \in Threads : /\ \A s \in Steps(Caller, t) : CallerStep(s)
                        /\ \A s \in Steps(Callee, t) : CalleeStep(s)

DialogsRight ==
  /\ dialog \in [Agents -> Dialog \cup {None}]
  /\ Out # None => Out.invite = 0
  /\ In # None => /\ In.branch = 0 /\ In.next = 0 /\ ~In.rel /\ ~In.cancel
                  /\ In.start <=> In.invite = 0

StackRight ==
  /\ ict \in [Agents -> [Seqs -> Transaction \cup {None, Gone}]]
  /\ ist \in [Agents -> [Seqs -> Transaction \cup {None, Gone}]]
  /\ \A i \in Seqs : ict[Callee][i] = None /\ ist[Caller][i] = None
  /\ wire \subseteq Message
  /\ \A m \in wire : Carried(m)

Alone == ~May("threads") => \A a \in Agents, t \in Threads : t \notin Workers => Steps(a, t) = {}

Base ==
  /\ scenario \in Scenarios
  /\ ListsRight /\ DialogsRight /\ StackRight /\ Alone
  /\ told \in [Agents -> Seq(Events)]
  /\ stopped \subseteq Agents

LEMMA BaseType == Base => TypeOK
  BY DEF Base, ListsRight, DialogsRight, StackRight, TypeOK

LEMMA WorkerThreads == Workers \subseteq Threads
  <1>1. Threads # {}
    BY AgentAssumption
  <1>2. (CHOOSE t \in Threads : TRUE) \in Threads
    BY <1>1
  <1> QED
    BY <1>2 DEF Workers

LEMMA NoneFacts == None # Gone /\ None \notin Dialog /\ None \notin Transaction /\ Gone \notin Transaction
                     /\ NewTransaction \in Transaction
  <1>1. None # Gone
    <2>1. None.none = TRUE /\ Gone.none = FALSE
      BY DEF None, Gone
    <2> QED
      BY <2>1
  <1>2. None \notin Dialog
    BY DEF None, Dialog
  <1>3. None \notin Transaction /\ Gone \notin Transaction
    BY DEF None, Gone, Transaction
  <1>4. NewTransaction \in Transaction
    BY DEF NewTransaction, Transaction
  <1> QED
    BY <1>1, <1>2, <1>3, <1>4

(* The work of a thread.                                                   *)
Works(a, t, S) ==
  \A b \in Agents, u \in Threads : Steps(b, u)' = IF b = a /\ u = t THEN S ELSE Steps(b, u)

LEMMA IdleSteps == ASSUME NEW a, NEW t, Idle(a, t) PROVE Steps(a, t) = {}
  BY EmptyList DEF Idle, Steps

LEMMA ThenWorks ==
  ASSUME ListsRight, NEW a \in Agents, NEW t \in Threads, NEW q \in Seq(Step), Ordered(q), Then(a, t, q),
         \A s \in Items(q) : IF a = Caller THEN CallerStep(s) ELSE CalleeStep(s)
  PROVE  Works(a, t, Items(q)) /\ ListsRight'
  <1>1. /\ todo' \in [Agents -> [Threads -> Seq(Step)]]
        /\ \A b \in Agents, u \in Threads : todo'[b][u] = IF b = a /\ u = t THEN q ELSE todo[b][u]
    BY DEF Then, ListsRight
  <1>2. Works(a, t, Items(q))
    BY <1>1 DEF Works, Steps
  <1>3. \A b \in Agents, u \in Threads : Ordered(todo'[b][u])
    BY <1>1 DEF ListsRight
  <1>4. \A u \in Threads : /\ \A s \in Steps(Caller, u)' : CallerStep(s)
                           /\ \A s \in Steps(Callee, u)' : CalleeStep(s)
    BY <1>2, Pair DEF Works, ListsRight
  <1> QED
    BY <1>1, <1>2, <1>3, <1>4 DEF ListsRight

LEMMA SameWorks ==
  ASSUME ListsRight, NEW a \in Agents, NEW t \in Threads, todo' = todo
  PROVE  Works(a, t, Steps(a, t)) /\ ListsRight'
  BY DEF Works, Steps, ListsRight

LEMMA HeadStep ==
  ASSUME ListsRight, NEW a \in Agents, NEW t \in Threads, ~Idle(a, t)
  PROVE  /\ Head(todo[a][t]) \in Steps(a, t)
         /\ IF a = Caller THEN CallerStep(Head(todo[a][t])) ELSE CalleeStep(Head(todo[a][t]))
         /\ Tag(Head(todo[a][t])) \notin {"ACK", "response", "end"} => Steps(a, t) = {Head(todo[a][t])}
         /\ Tag(Head(todo[a][t])) = "end" => Steps(a, t) = {Head(todo[a][t]), Delete}
         /\ Then(a, t, Tail(todo[a][t])) =>
              Works(a, t, Steps(a, t) \ {Head(todo[a][t])}) /\ ListsRight'
  <1> DEFINE q == todo[a][t]
  <1>1. q \in Seq(Step) /\ q # <<>> /\ Ordered(q)
    BY DEF ListsRight, Idle
  <1>2. Steps(a, t) = Items(q)
    BY DEF Steps
  <1> HIDE DEF q
  <1>3. /\ Tail(q) \in Seq(Step) /\ Ordered(Tail(q)) /\ Head(q) \in Items(q)
        /\ Items(Tail(q)) = Items(q) \ {Head(q)}
        /\ Tag(Head(q)) \notin {"ACK", "response", "end"} => Items(q) = {Head(q)}
        /\ Tag(Head(q)) = "end" => Items(q) = {Head(q), Delete}
    BY <1>1, PopItem
  <1>4. \A s \in Items(q) : IF a = Caller THEN CallerStep(s) ELSE CalleeStep(s)
    BY <1>2, Pair DEF ListsRight
  <1>5. Then(a, t, Tail(q)) => Works(a, t, Items(Tail(q))) /\ ListsRight'
    BY <1>3, <1>4, ThenWorks
  <1> QED
    BY <1>2, <1>3, <1>4, <1>5 DEF q

LEMMA StillAlone ==
  ASSUME Alone, scenario' = scenario, NEW a \in Agents, NEW t \in Workers, NEW S, Works(a, t, S)
  PROVE  Alone'
  BY WorkerThreads DEF Alone, Works, Workers, May

-----------------------------------------------------------------------------
(* What the actions do, in terms of steps, dialogs, transactions and wire. *)
Rest == UNCHANGED <<ict, ist, wire>>

Right == ListsRight' /\ DialogsRight' /\ StackRight'

(* The fields of a dialog that an action leaves alone.                     *)
SameNumbers(d, f) == f.seq = d.seq /\ f.next = d.next /\ f.branch = d.branch
SameTimes(d, f) == (f.start <=> d.start) /\ (f.end <=> d.end) /\ (f.cancel <=> d.cancel)

Becomes(a, d) == dialog' = [dialog EXCEPT ![a] = d]

CallStarts(t) ==
  /\ Out = None /\ ict[Caller][1] = None /\ Steps(Caller, t) = {}
  /\ Works(Caller, t, {Send(InviteMsg(1))})
  /\ In' = In /\ Out' \in Dialog
  /\ Out'.seq = 1 /\ Out'.next = 0 /\ Out'.branch = 1
  /\ ~Out'.rel /\ ~Out'.start /\ ~Out'.end /\ ~Out'.cancel
  /\ Rest

HangsUp(a, t) ==
  /\ dialog[a] \in Dialog /\ dialog[a].start /\ ~dialog[a].end
  /\ Steps(a, t) = {} \/ (a = Caller /\ Steps(a, t) = {StopStep})
  /\ Works(a, t, {Send(ByeMsg(Peer(a)))})
  /\ dialog'[a] = None /\ dialog'[Peer(a)] = dialog[Peer(a)]
  /\ Rest

CallCancels(t) ==
  /\ Out \in Dialog /\ ~Out.start /\ ~Out.cancel /\ ~Out.end /\ Steps(Caller, t) = {}
  /\ Works(Caller, t, {Send(CancelMsg)})
  /\ In' = In /\ Out' \in Dialog
  /\ SameNumbers(Out, Out') /\ (Out'.rel <=> Out.rel)
  /\ ~Out'.start /\ ~Out'.end /\ Out'.cancel
  /\ Rest

Rejects(t, i, s) ==
  /\ In \in Dialog /\ ~In.start /\ In.invite = i /\ i \in Seqs /\ Steps(Callee, t) = {}
  /\ s \in {Decline, Moved}
  /\ Works(Callee, t, {Send(Answer(i, s))})
  /\ In' = None /\ Out' = Out
  /\ Rest

Accepts(t, i) ==
  /\ In \in Dialog /\ ~In.start /\ In.invite = i /\ i \in Seqs /\ Steps(Callee, t) = {}
  /\ Works(Callee, t, {Send(Answer(i, Ok))})
  /\ Out' = Out /\ In' \in Dialog
  /\ In'.start /\ In'.invite = 0 /\ (In'.end <=> In.end)
  /\ Rest

Rings(t, i) ==
  /\ In \in Dialog /\ ~In.start /\ In.invite = i /\ i \in Seqs /\ Steps(Callee, t) = {}
  /\ Works(Callee, t, {Send(Answer(i, SessionProgress))})
  /\ dialog' = dialog
  /\ Rest

(* A new INVITE of the same call.                                          *)
Renewed(d, f, n) ==
  /\ n = NextSeq(d) /\ n \in Seqs
  /\ f \in Dialog /\ f.seq = n /\ f.next = 0 /\ f.branch = n
  /\ (f.start <=> d.start) /\ (f.cancel <=> d.cancel) /\ (f.rel <=> d.rel)

ReInvites(t, n) ==
  /\ May("reinvite")
  /\ Out \in Dialog /\ Out.start /\ Steps(Caller, t) = {}
  /\ Renewed(Out, Out', n) /\ (Out'.end <=> Out.end)
  /\ Works(Caller, t, {Send(InviteMsg(n))})
  /\ In' = In
  /\ Rest

Requests(a, t) ==
  /\ May("refer")
  /\ dialog[a] \in Dialog /\ dialog[a].start /\ Steps(a, t) = {}
  /\ dialog'[a] \in Dialog /\ dialog'[a].seq = NextSeq(dialog[a]) /\ dialog'[a].next = 0
  /\ dialog'[a].branch = dialog[a].branch /\ dialog'[a].invite = dialog[a].invite
  /\ SameTimes(dialog[a], dialog'[a]) /\ (dialog'[a].rel <=> dialog[a].rel)
  /\ dialog'[Peer(a)] = dialog[Peer(a)]
  /\ Works(a, t, {})
  /\ Rest

Pracks(t, n) ==
  /\ Out \in Dialog /\ ~Out.start /\ Out.rel /\ Out.next = 0 /\ Steps(Caller, t) = {}
  /\ n = Out.seq + 1 /\ n \in Seqs /\ n + 1 \in Seqs
  /\ Out' \in Dialog /\ Out'.seq = Out.seq /\ Out'.next = n + 1 /\ Out'.branch = Out.branch
  /\ SameTimes(Out, Out') /\ (Out'.rel <=> Out.rel)
  /\ In' = In
  /\ Works(Caller, t, {Send(PrackMsg(n))})
  /\ Rest

Nothing == UNCHANGED <<dialog, todo, ict, ist, wire, told>>

LEMMA NextSeqFacts ==
  ASSUME NEW d \in Dialog
  PROVE  NextSeq(d) \in Nat /\ (d.next \in {0, d.seq + 2} => NextSeq(d) > d.seq)
           /\ NextSeq(d) = IF d.next # 0 THEN d.next ELSE d.seq + 1
  <1>1. d.next \in 0..MaxSeq /\ d.seq \in 0..MaxSeq
    BY DEF Dialog
  <1> QED
    BY <1>1, SeqFacts DEF NextSeq

LEMMA RenewedType ==
  ASSUME NEW d \in Dialog, CanInvite(d), scenario.seqs \in Seqs
  PROVE  Renewed(d, NextInvite(d), NextSeq(d)) /\ NextInvite(d).invite = d.invite
           /\ (NextInvite(d).end <=> d.end)
  <1> DEFINE n == NextSeq(d)
  <1>1. n \in Nat /\ n <= scenario.seqs /\ n >= 1
    <2>1. d.seq \in 0..MaxSeq /\ d.next \in 0..MaxSeq
      BY DEF Dialog
    <2> QED
      BY <2>1, NextSeqFacts DEF CanInvite
  <1>2. n \in Seqs /\ n \in 0..MaxSeq
    BY <1>1, SeqFacts
  <1>3. NextInvite(d) = [d EXCEPT !.seq = n, !.next = 0, !.branch = n]
    BY DEF NextInvite, Numbered, Dialog
  <1> HIDE DEF n
  <1>4. 0 \in 0..MaxSeq
    BY SeqFacts
  <1> QED
    BY <1>2, <1>3, <1>4 DEF Renewed, Dialog, n

-----------------------------------------------------------------------------
(* The application's calls. *)
LEMMA ScenarioSeqs == ASSUME Base PROVE scenario.seqs \in Seqs /\ scenario.seqs <= MaxSeq
  BY AgentAssumption, SeqFacts DEF Base

LEMMA SameStack == ASSUME StackRight, Rest PROVE StackRight'
  BY DEF StackRight, Rest

LEMMA BeginOne ==
  ASSUME ListsRight, NEW a \in Agents, NEW t \in Threads, NEW s \in Step, Tag(s) # "end",
         Then(a, t, <<s>>), IF a = Caller THEN CallerStep(s) ELSE CalleeStep(s)
  PROVE  Works(a, t, {s}) /\ ListsRight'
  <1> DEFINE q == <<s>>
  <1>1. q \in Seq(Step) /\ Ordered(q) /\ Items(q) = {s} /\ Then(a, t, q)
    BY OneItem
  <1> HIDE DEF q
  <1>2. \A x \in Items(q) : IF a = Caller THEN CallerStep(x) ELSE CalleeStep(x)
    BY <1>1
  <1>3. Works(a, t, Items(q)) /\ ListsRight'
    BY <1>1, <1>2, ThenWorks
  <1> QED
    BY <1>1, <1>3

LEMMA SetsDialog ==
  ASSUME DialogsRight, NEW a \in Agents, NEW d \in Dialog \cup {None}, SetDialog(a, d),
         d # None => IF a = Caller THEN d.invite = 0
                     ELSE /\ d.branch = 0 /\ d.next = 0 /\ ~d.rel /\ ~d.cancel
                          /\ d.start <=> d.invite = 0
  PROVE  DialogsRight' /\ dialog'[a] = d /\ dialog'[Peer(a)] = dialog[Peer(a)]
  <1>1. \A b \in Agents : dialog'[b] = IF b = a THEN d ELSE dialog[b]
    BY DEF SetDialog, DialogsRight
  <1>2. dialog' \in [Agents -> Dialog \cup {None}]
    BY DEF SetDialog, DialogsRight
  <1>3. Caller \in Agents /\ Callee \in Agents /\ Peer(a) \in Agents /\ Peer(a) # a
    BY Pair
  <1>4. Out' # None => Out'.invite = 0
    BY <1>1, <1>3, Pair DEF DialogsRight, Out
  <1>5. In' # None => /\ In'.branch = 0 /\ In'.next = 0 /\ ~In'.rel /\ ~In'.cancel
                      /\ In'.start <=> In'.invite = 0
    BY <1>1, <1>3, Pair DEF DialogsRight, In
  <1> QED
    BY <1>1, <1>2, <1>3, <1>4, <1>5 DEF DialogsRight

LEMMA SameDialogs == ASSUME DialogsRight, dialog' = dialog PROVE DialogsRight' /\ Out' = Out /\ In' = In
  BY DEF DialogsRight, Out, In

LEMMA Parties ==
  /\ Caller \in Agents /\ Callee \in Agents
  /\ Base => /\ Out = dialog[Caller] /\ Out \in Dialog \cup {None}
             /\ In = dialog[Callee] /\ In \in Dialog \cup {None}
  BY Pair DEF Base, DialogsRight, Out, In

LEMMA StartCallDoes ==
  ASSUME Base, NEW t \in Threads, StartCall(t)
  PROVE  CallStarts(t) /\ Right
  <1> DEFINE d == NextInvite(NewDialog)
  <1>1. d \in Dialog /\ d.invite = 0 /\ d.seq = 1 /\ d.next = 0 /\ d.branch = 1
          /\ d.rel = FALSE /\ d.start = FALSE /\ d.end = FALSE /\ d.cancel = FALSE
    <2>1. NextSeq(NewDialog) = 1
      BY DEF NextSeq, NewDialog
    <2>2. Numbered(NewDialog) = [NewDialog EXCEPT !.seq = 1, !.next = 0]
      BY <2>1 DEF Numbered
    <2>3. d = [Numbered(NewDialog) EXCEPT !.branch = 1]
      BY <2>1 DEF NextInvite
    <2>4. Numbered(NewDialog) = [invite |-> 0, seq |-> 1, next |-> 0, branch |-> 0,
               rel |-> FALSE, start |-> FALSE, end |-> FALSE, cancel |-> FALSE]
      BY <2>2 DEF NewDialog
    <2>5. d = [invite |-> 0, seq |-> 1, next |-> 0, branch |-> 1,
               rel |-> FALSE, start |-> FALSE, end |-> FALSE, cancel |-> FALSE]
      <3> HIDE DEF d
      <3>1. PICK x : x = Numbered(NewDialog)
        OBVIOUS
      <3>2. d = [x EXCEPT !.branch = 1]
        BY <2>3, <3>1
      <3>3. x = [invite |-> 0, seq |-> 1, next |-> 0, branch |-> 0,
               rel |-> FALSE, start |-> FALSE, end |-> FALSE, cancel |-> FALSE]
        BY <2>4, <3>1
      <3> QED
        BY <3>2, <3>3
    <2>6. 0 \in 0..MaxSeq /\ 1 \in 0..MaxSeq
      BY SeqFacts
    <2> HIDE DEF d
    <2> QED
      BY <2>5, <2>6 DEF Dialog
  <1>2. SetDialog(Caller, d) /\ Then(Caller, t, <<Send(Invite(Caller, d))>>)
        /\ dialog[Caller] = None /\ ict[Caller][1] = None /\ Idle(Caller, t) /\ Rest
    BY DEF StartCall, Rest
  <1> HIDE DEF d
  <1>3. Invite(Caller, d) = InviteMsg(1)
    BY <1>1, Pair DEF Invite, InviteMsg
  <1>4. Send(InviteMsg(1)) \in Step /\ CallerStep(Send(InviteMsg(1))) /\ Tag(Send(InviteMsg(1))) # "end"
    BY SeqFacts, MessageTypes, StepTypes, SendTags DEF CallerStep
  <1>5. Works(Caller, t, {Send(InviteMsg(1))}) /\ ListsRight'
    BY <1>2, <1>3, <1>4, BeginOne, Parties DEF Base
  <1>6. DialogsRight' /\ dialog'[Caller] = d /\ dialog'[Callee] = dialog[Callee]
    BY <1>1, <1>2, SetsDialog, Pair DEF Base
  <1> QED
    BY <1>1, <1>2, <1>5, <1>6, SameStack, IdleSteps DEF CallStarts, Right, Base, Out, In

LEMMA StopConnectedDoes ==
  ASSUME Base, NEW a \in Agents, NEW t \in Threads, dialog[a] # None, StopConnected(a, t, <<>>),
         Steps(a, t) = {} \/ (a = Caller /\ Steps(a, t) = {StopStep}), Rest
  PROVE  HangsUp(a, t) /\ Right
  <1>1. SetDialog(a, None) /\ Then(a, t, <<Send(ByeMsg(Peer(a)))>>)
        /\ dialog[a] \in Dialog /\ dialog[a].start /\ ~dialog[a].end
    BY DEF StopConnected, ByeMsg, Base, DialogsRight
  <1>2. /\ Send(ByeMsg(Peer(a))) \in Step /\ Tag(Send(ByeMsg(Peer(a)))) # "end"
        /\ IF a = Caller THEN CallerStep(Send(ByeMsg(Peer(a)))) ELSE CalleeStep(Send(ByeMsg(Peer(a))))
    BY Pair, MessageTypes, StepTypes, SendTags DEF CallerStep, CalleeStep
  <1>3. Works(a, t, {Send(ByeMsg(Peer(a)))}) /\ ListsRight'
    BY <1>1, <1>2, BeginOne DEF Base
  <1>4. DialogsRight' /\ dialog'[a] = None /\ dialog'[Peer(a)] = dialog[Peer(a)]
    BY <1>1, SetsDialog DEF Base
  <1> QED
    BY <1>1, <1>3, <1>4, SameStack DEF HangsUp, Right, Base

LEMMA StopIncomingDoes ==
  ASSUME Base, NEW a \in Agents, NEW t \in Threads, dialog[a] # None, Idle(a, t), Rest,
         NEW s \in {Decline, Moved}, StopIncoming(a, t, s)
  PROVE  (\E i \in Seqs : Rejects(t, i, s)) /\ Right
  <1> DEFINE i == dialog[a].invite
  <1>1. a = Callee /\ i \in Seqs /\ In \in Dialog /\ In.invite = i /\ ~In.start
    <2>1. dialog[a] \in Dialog /\ i # 0 /\ ~dialog[a].start
      BY DEF StopIncoming, Base, DialogsRight
    <2>2. a = Callee
      BY <2>1, Pair DEF Base, DialogsRight, Out
    <2>3. i \in Seqs
      BY <2>1, SeqFacts DEF Dialog
    <2> QED
      BY <2>1, <2>2, <2>3 DEF In
  <1>2. SetDialog(a, None) /\ Then(a, t, <<Send(Response(a, i, s))>>)
    BY DEF StopIncoming
  <1>3. Response(a, i, s) = Answer(i, s)
    BY <1>1, Pair DEF Response, Answer
  <1> HIDE DEF i
  <1>4. Send(Answer(i, s)) \in Step /\ CalleeStep(Send(Answer(i, s))) /\ Tag(Send(Answer(i, s))) # "end"
    BY <1>1, StatusFacts, MessageTypes, StepTypes, SendTags DEF CalleeStep
  <1>5. Works(Callee, t, {Send(Answer(i, s))}) /\ ListsRight'
    BY <1>1, <1>2, <1>3, <1>4, BeginOne, Pair DEF Base
  <1>6. DialogsRight' /\ dialog'[Callee] = None /\ dialog'[Caller] = dialog[Caller]
    BY <1>1, <1>2, SetsDialog, Pair DEF Base
  <1>7. Rejects(t, i, s)
    BY <1>1, <1>5, <1>6, IdleSteps DEF Rejects, Out, In
  <1> QED
    BY <1>1, <1>5, <1>6, <1>7, SameStack DEF Right, Base

LEMMA StopOutgoingDoes ==
  ASSUME Base, NEW a \in Agents, NEW t \in Threads, dialog[a] # None, Idle(a, t), Rest,
         StopOutgoing(a, t)
  PROVE  CallCancels(t) /\ Right
  <1> DEFINE d == dialog[a]
             f == [d EXCEPT !.cancel = TRUE]
  <1>1. d \in Dialog /\ ~d.start /\ d.invite = 0 /\ ~d.cancel /\ ~d.end
    BY DEF StopOutgoing, MayCancel, Base, DialogsRight
  <1>2. a = Caller
    BY <1>1, Pair DEF Base, DialogsRight, In
  <1>3. SetDialog(a, f) /\ Then(a, t, <<Send(CancelMsg)>>)
    BY <1>2, Pair DEF StopOutgoing, CancelMsg
  <1>4. f \in Dialog /\ f.invite = 0 /\ SameNumbers(d, f) /\ (f.rel <=> d.rel)
          /\ f.start = d.start /\ f.end = d.end /\ f.cancel = TRUE
    BY <1>1 DEF Dialog, SameNumbers
  <1> HIDE DEF f
  <1>5. Send(CancelMsg) \in Step /\ CallerStep(Send(CancelMsg)) /\ Tag(Send(CancelMsg)) # "end"
    BY MessageTypes, StepTypes, SendTags DEF CallerStep
  <1>6. Works(Caller, t, {Send(CancelMsg)}) /\ ListsRight'
    BY <1>2, <1>3, <1>5, BeginOne DEF Base
  <1>7. DialogsRight' /\ dialog'[Caller] = f /\ dialog'[Callee] = dialog[Callee]
    BY <1>2, <1>3, <1>4, SetsDialog, Pair DEF Base
  <1> QED
    BY <1>1, <1>2, <1>4, <1>6, <1>7, SameStack, IdleSteps DEF CallCancels, Right, Base, Out, In

LEMMA StopCallDoes ==
  ASSUME Base, NEW a \in Agents, NEW t \in Threads, StopCall(a, t)
  PROVE  /\ \/ HangsUp(a, t) \/ (\E i \in Seqs : Rejects(t, i, Decline)) \/ CallCancels(t) \/ Nothing
         /\ Right
  <1>1. Idle(a, t) /\ dialog[a] # None /\ Rest /\ told' = told
    BY DEF StopCall, Rest
  <1>2. CASE StopConnected(a, t, <<>>)
    BY <1>1, <1>2, StopConnectedDoes, IdleSteps
  <1>3. CASE StopIncoming(a, t, Decline)
    BY <1>1, <1>3, StopIncomingDoes
  <1>4. CASE StopOutgoing(a, t)
    BY <1>1, <1>4, StopOutgoingDoes
  <1>5. CASE StopNothing(a)
    <2>1. UNCHANGED <<dialog, todo>>
      BY <1>5 DEF StopNothing
    <2>2. Right
      BY <1>1, <2>1, SameStack, SameDialogs, SameWorks DEF Base, Right
    <2> QED
      BY <1>1, <2>1, <2>2 DEF Nothing, Rest
  <1> QED
    BY <1>2, <1>3, <1>4, <1>5 DEF StopCall

LEMMA ForwardCallDoes ==
  ASSUME Base, NEW a \in Agents, NEW t \in Threads, ForwardCall(a, t)
  PROVE  (\E i \in Seqs : Rejects(t, i, Moved)) /\ Right
  BY StopIncomingDoes DEF ForwardCall, Rest

(* A dialog with an INVITE to answer is the callee's. *)
LEMMA Unanswered ==
  ASSUME Base, NEW a \in Agents, dialog[a] # None, ~dialog[a].start, dialog[a].invite # 0
  PROVE  a = Callee /\ In \in Dialog /\ In = dialog[a] /\ In.invite \in Seqs
  <1>1. dialog[a] \in Dialog
    BY DEF Base, DialogsRight
  <1>2. a = Callee
    BY Pair DEF Base, DialogsRight, Out
  <1>3. dialog[a].invite \in Seqs
    BY <1>1, SeqFacts DEF Dialog
  <1> QED
    BY <1>1, <1>2, <1>3 DEF In

LEMMA AnswerBegins ==
  ASSUME ListsRight, NEW t \in Threads, NEW i \in Seqs, NEW s \in Statuses,
         Then(Callee, t, <<Send(Response(Callee, i, s))>>)
  PROVE  Works(Callee, t, {Send(Answer(i, s))}) /\ ListsRight'
  <1>1. Response(Callee, i, s) = Answer(i, s)
    BY Pair DEF Response, Answer
  <1>2. Send(Answer(i, s)) \in Step /\ CalleeStep(Send(Answer(i, s))) /\ Tag(Send(Answer(i, s))) # "end"
    BY MessageTypes, StepTypes, SendTags DEF CalleeStep
  <1> QED
    BY <1>1, <1>2, BeginOne, Pair

LEMMA AcceptCallDoes ==
  ASSUME Base, NEW a \in Agents, NEW t \in Threads, AcceptCall(a, t)
  PROVE  (\E i \in Seqs : Accepts(t, i)) /\ Right
  <1> DEFINE d == dialog[a]
             f == [d EXCEPT !.start = TRUE, !.invite = 0]
  <1>1. a = Callee /\ In \in Dialog /\ In = d /\ d.invite \in Seqs /\ ~d.start
    BY Unanswered DEF AcceptCall
  <1>2. SetDialog(a, f) /\ Then(Callee, t, <<Send(Response(Callee, d.invite, Ok))>>) /\ Rest /\ Idle(a, t)
    BY <1>1 DEF AcceptCall, Rest
  <1>3. f \in Dialog /\ f.invite = 0 /\ f.start = TRUE /\ f.end = d.end /\ f.branch = d.branch
          /\ f.next = d.next /\ f.rel = d.rel /\ f.cancel = d.cancel
    <2>1. d \in Dialog /\ 0 \in 0..MaxSeq
      BY <1>1, SeqFacts
    <2> HIDE DEF d
    <2> QED
      BY <2>1 DEF Dialog
  <1>4. d.branch = 0 /\ d.next = 0 /\ ~d.rel /\ ~d.cancel
    BY <1>1, NoneFacts DEF Base, DialogsRight
  <1> HIDE DEF f
  <1>5. Works(Callee, t, {Send(Answer(d.invite, Ok))}) /\ ListsRight'
    BY <1>1, <1>2, AnswerBegins, StatusFacts DEF Base
  <1>6. DialogsRight' /\ dialog'[Callee] = f /\ dialog'[Caller] = dialog[Caller]
    BY <1>1, <1>2, <1>3, <1>4, SetsDialog, Pair DEF Base
  <1>7. Accepts(t, d.invite)
    BY <1>1, <1>2, <1>3, <1>5, <1>6, IdleSteps DEF Accepts, Out, In
  <1> QED
    BY <1>1, <1>2, <1>5, <1>6, <1>7, SameStack DEF Right, Base

LEMMA RingCallDoes ==
  ASSUME Base, NEW a \in Agents, NEW t \in Threads, RingCall(a, t)
  PROVE  (\E i \in Seqs : Rings(t, i)) /\ Right
  <1> DEFINE d == dialog[a]
  <1>1. a = Callee /\ In \in Dialog /\ In = d /\ d.invite \in Seqs /\ ~d.start
    BY Unanswered DEF RingCall
  <1>2. dialog' = dialog /\ Then(Callee, t, <<Send(Response(Callee, d.invite, SessionProgress))>>)
        /\ Rest /\ Idle(a, t)
    BY <1>1 DEF RingCall, Rest
  <1>3. Works(Callee, t, {Send(Answer(d.invite, SessionProgress))}) /\ ListsRight'
    BY <1>1, <1>2, AnswerBegins, StatusFacts DEF Base
  <1>4. Rings(t, d.invite)
    BY <1>1, <1>2, <1>3, IdleSteps DEF Rings
  <1> QED
    BY <1>1, <1>2, <1>3, <1>4, SameStack, SameDialogs DEF Right, Base

LEMMA InviteBegins ==
  ASSUME ListsRight, NEW t \in Threads, NEW n \in Seqs, NEW d, d.seq = n,
         Then(Caller, t, <<Send(Invite(Caller, d))>>)
  PROVE  Works(Caller, t, {Send(InviteMsg(n))}) /\ ListsRight'
  <1>1. Invite(Caller, d) = InviteMsg(n)
    BY Pair DEF Invite, InviteMsg
  <1>2. Send(InviteMsg(n)) \in Step /\ CallerStep(Send(InviteMsg(n))) /\ Tag(Send(InviteMsg(n))) # "end"
    BY MessageTypes, StepTypes, SendTags DEF CallerStep
  <1> QED
    BY <1>1, <1>2, BeginOne, Pair

LEMMA ReInviteDoes ==
  ASSUME Base, NEW a \in Agents, NEW t \in Threads, ReInvite(a, t)
  PROVE  (\E n \in Seqs : ReInvites(t, n)) /\ Right
  <1> DEFINE d == dialog[a]
             f == NextInvite(d)
             n == NextSeq(d)
  <1>1. a = Caller /\ May("reinvite") /\ Idle(a, t) /\ d # None /\ d.start /\ CanInvite(d)
        /\ SetDialog(a, f) /\ Then(a, t, <<Send(Invite(a, f))>>) /\ Rest
    BY DEF ReInvite, Rest
  <1>2. d \in Dialog /\ d.invite = 0 /\ Out = d
    BY <1>1, Parties DEF Base, DialogsRight, Out
  <1> HIDE DEF d, f, n
  <1>3. Renewed(d, f, n) /\ f.invite = 0 /\ (f.end <=> d.end)
    BY <1>1, <1>2, RenewedType, ScenarioSeqs DEF f, n, Dialog
  <1>4. n \in Seqs /\ f.seq = n /\ f \in Dialog
    BY <1>3 DEF Renewed
  <1>5. Works(Caller, t, {Send(InviteMsg(n))}) /\ ListsRight'
    BY <1>1, <1>4, InviteBegins DEF Base
  <1>6. DialogsRight' /\ dialog'[Caller] = f /\ dialog'[Callee] = dialog[Callee]
    BY <1>1, <1>3, <1>4, SetsDialog, Pair DEF Base
  <1>7. ReInvites(t, n)
    BY <1>1, <1>2, <1>3, <1>5, <1>6, IdleSteps DEF ReInvites, Out, In
  <1> QED
    BY <1>1, <1>4, <1>5, <1>6, <1>7, SameStack DEF Right, Base

LEMMA SendRequestDoes ==
  ASSUME Base, NEW a \in Agents, NEW t \in Threads, SendRequest(a, t)
  PROVE  Requests(a, t) /\ Right
  <1> DEFINE d == dialog[a]
             f == Numbered(d)
             n == NextSeq(d)
  <1>1. May("refer") /\ Idle(a, t) /\ d # None /\ d.start /\ CanInvite(d)
        /\ SetDialog(a, f) /\ todo' = todo /\ Rest
    BY DEF SendRequest, Rest
  <1>2. d \in Dialog
    BY <1>1 DEF Base, DialogsRight
  <1>3. n \in 0..MaxSeq /\ 0 \in 0..MaxSeq
    BY <1>1, <1>2, NextSeqFacts, ScenarioSeqs, SeqFacts DEF CanInvite
  <1>4. f = [d EXCEPT !.seq = n, !.next = 0]
    BY DEF Numbered
  <1> HIDE DEF n
  <1>5. f \in Dialog /\ f.seq = n /\ f.next = 0 /\ f.branch = d.branch /\ f.invite = d.invite
          /\ f.start = d.start /\ f.end = d.end /\ f.cancel = d.cancel /\ f.rel = d.rel
    BY <1>2, <1>3, <1>4 DEF Dialog
  <1> HIDE DEF f
  <1>6. DialogsRight' /\ dialog'[a] = f /\ dialog'[Peer(a)] = dialog[Peer(a)]
    <2>1. IF a = Caller THEN f.invite = 0
          ELSE /\ f.branch = 0 /\ f.next = 0 /\ ~f.rel /\ ~f.cancel /\ (f.start <=> f.invite = 0)
      BY <1>1, <1>5, Pair DEF Base, DialogsRight, Out, In
    <2> QED
      BY <1>1, <1>5, <2>1, SetsDialog DEF Base
  <1>7. Works(a, t, Steps(a, t)) /\ ListsRight' /\ Steps(a, t) = {}
    BY <1>1, SameWorks, IdleSteps DEF Base
  <1>8. Works(a, t, {})
    BY <1>7
  <1> QED
    BY <1>1, <1>2, <1>5, <1>6, <1>7, <1>8, SameStack DEF Requests, SameTimes, n, Right, Base

LEMMA SendPrackDoes ==
  ASSUME Base, NEW a \in Agents, NEW t \in Threads, SendPrack(a, t)
  PROVE  (\E n \in Seqs : Pracks(t, n)) /\ Right
  <1> DEFINE d == dialog[a]
             n == d.seq + 1
             f == [d EXCEPT !.next = n + 1]
  <1>1. /\ Idle(a, t) /\ d # None /\ ~d.start /\ d.invite = 0 /\ d.rel /\ d.next = 0
        /\ d.seq + 2 <= scenario.seqs /\ Rest
        /\ SetDialog(a, [dialog[a] EXCEPT !.next = dialog[a].seq + 2])
        /\ Then(a, t, <<Send([kind |-> "PRACK", to |-> Peer(a), seq |-> n])>>)
    BY DEF SendPrack, Rest
  <1>2. d \in Dialog /\ a = Caller /\ d = Out
    BY <1>1, Pair DEF Base, DialogsRight, In, Out
  <1>3. d.seq \in Nat /\ n \in Seqs /\ n + 1 \in Seqs /\ n + 1 = d.seq + 2
    <2>1. d.seq \in 0..MaxSeq
      BY <1>2 DEF Dialog
    <2> QED
      BY <1>1, <2>1, ScenarioSeqs, SeqFacts
  <1>4. SetDialog(a, f)
    BY <1>1, <1>3
  <1>5. f \in Dialog /\ f.seq = d.seq /\ f.next = n + 1 /\ f.branch = d.branch /\ f.invite = 0
          /\ f.start = d.start /\ f.end = d.end /\ f.cancel = d.cancel /\ f.rel = d.rel
    <2>1. n + 1 \in 0..MaxSeq
      BY <1>3, SeqFacts
    <2> HIDE DEF n
    <2> QED
      BY <1>1, <1>2, <2>1 DEF Dialog
  <1> HIDE DEF f
  <1>6. Then(a, t, <<Send(PrackMsg(n))>>)
    BY <1>1, <1>2, Pair DEF PrackMsg
  <1>7. Send(PrackMsg(n)) \in Step /\ CallerStep(Send(PrackMsg(n))) /\ Tag(Send(PrackMsg(n))) # "end"
    BY <1>3, MessageTypes, StepTypes, SendTags DEF CallerStep
  <1>8. Works(Caller, t, {Send(PrackMsg(n))}) /\ ListsRight'
    BY <1>2, <1>6, <1>7, BeginOne DEF Base
  <1>9. DialogsRight' /\ dialog'[Caller] = f /\ dialog'[Callee] = dialog[Callee]
    BY <1>2, <1>4, <1>5, SetsDialog, Pair DEF Base
  <1>10. Pracks(t, n)
    BY <1>1, <1>2, <1>3, <1>5, <1>8, <1>9, IdleSteps DEF Pracks, SameTimes, Out, In
  <1> QED
    BY <1>1, <1>3, <1>8, <1>9, <1>10, SameStack DEF Right, Base

-----------------------------------------------------------------------------
(* What sending, receiving and the timers do. *)
IctBecomes(i, x) == \A j \in Seqs : ict'[Caller][j] = IF j = i THEN x ELSE ict[Caller][j]
IstBecomes(i, x) == \A j \in Seqs : ist'[Callee][j] = IF j = i THEN x ELSE ist[Callee][j]

Sends(a, t, m) ==
  /\ Send(m) \in Steps(a, t) /\ Works(a, t, Steps(a, t) \ {Send(m)})
  /\ dialog' = dialog

SendsInvite(t, i) ==
  /\ Sends(Caller, t, InviteMsg(i)) /\ Steps(Caller, t) = {Send(InviteMsg(i))}
  /\ IctBecomes(i, NewTransaction)
  /\ wire' = wire \cup {InviteMsg(i)} /\ ist' = ist

AckGoes(n, b) ==
  \/ /\ b = n /\ n \in Sent(Caller)
     /\ IctBecomes(n, [ict[Caller][n] EXCEPT !.ack = TRUE])
     /\ wire' = wire \cup {AckMsg(n, b)}
  \/ /\ ~(b = n /\ n \in Sent(Caller))
     /\ \E i \in Sent(Caller) :
          /\ ~ict[Caller][i].ack
          /\ IctBecomes(i, Acked(ict[Caller][i], TRUE))
     /\ wire' = wire \cup {AckMsg(n, b)}
  \/ /\ ~(b = n /\ n \in Sent(Caller))
     /\ \A i \in Sent(Caller) : ict[Caller][i].ack
     /\ UNCHANGED <<ict, wire>>

SendsAck(t, n, b) == Sends(Caller, t, AckMsg(n, b)) /\ AckGoes(n, b) /\ ist' = ist

SendsAnswer(t, i, s) ==
  /\ Sends(Callee, t, Answer(i, s))
  /\ \/ /\ ist[Callee][i] \in Transaction /\ s > ist[Callee][i].status
        /\ IstBecomes(i, [ist[Callee][i] EXCEPT !.status = s])
        /\ wire' = wire \cup {Answer(i, s)}
     \/ /\ ~(ist[Callee][i] \in Transaction /\ s > ist[Callee][i].status)
        /\ UNCHANGED <<ist, wire>>
  /\ ict' = ict

SendsOther(a, t, m) ==
  /\ Sends(a, t, m) /\ Steps(a, t) = {Send(m)}
  /\ wire' = wire \cup {m} /\ UNCHANGED <<ict, ist>>

Tells(a, t, e) ==
  /\ Tell(e) \in Steps(a, t) /\ Works(a, t, Steps(a, t) \ {Tell(e)})
  /\ Steps(a, t) = IF e = "end" THEN {Tell(e), Delete} ELSE {Tell(e)}
  /\ dialog' = dialog /\ Rest

Deletes(a, t) ==
  /\ Steps(a, t) = {Delete} /\ Works(a, t, {})
  /\ dialog'[a] = None /\ dialog'[Peer(a)] = dialog[Peer(a)]
  /\ Rest

(* Dialogs that differ in one time stamp. *)
Ended(d, f) ==
  /\ f \in Dialog /\ f.invite = d.invite /\ SameNumbers(d, f)
  /\ (f.rel <=> d.rel) /\ (f.start <=> d.start) /\ f.end /\ (f.cancel <=> d.cancel)

EndsCall(a, t) ==
  /\ Steps(a, t) = {SetEnd}
  /\ \/ dialog[a] = None /\ dialog' = dialog /\ Works(a, t, {})
     \/ /\ dialog[a] \in Dialog /\ Ended(dialog[a], dialog'[a])
        /\ dialog'[Peer(a)] = dialog[Peer(a)]
        /\ Works(a, t, {Tell("end"), Delete})
  /\ Rest

Inserts(t, i) ==
  /\ Steps(Callee, t) = {InsertStep(i)}
  /\ \/ /\ In = None /\ In' \in Dialog /\ In'.invite = i /\ ~In'.start /\ ~In'.end
        /\ Out' = Out
        /\ Works(Callee, t, {Tell("call")})
     \/ In # None /\ dialog' = dialog /\ Works(Callee, t, {})
  /\ Rest

AnswersAgain(t, i) ==
  /\ Steps(Callee, t) = {AnswerStep(i)}
  /\ Works(Callee, t, IF In = None THEN {} ELSE {Send(Answer(i, Ok))})
  /\ dialog' = dialog /\ Rest

StopsNothing(t) ==
  /\ Steps(Caller, t) = {StopStep} /\ Works(Caller, t, {})
  /\ Out = None \/ Out.end
  /\ dialog' = dialog /\ Rest

InviteAnswers(i, S) ==
  \/ S = {Send(Answer(i, NotAcceptable))}
  \/ In # None /\ S = {AnswerStep(i)}
  \/ In = None /\ S = {Send(Answer(i, Ringing)), InsertStep(i)}
  \/ In = None /\ S = {Send(Answer(i, Unauthorized))}

Arrives(m) == m \in wire /\ wire' = wire \ {m}

InviteComes(t, i, S) ==
  /\ Arrives(InviteMsg(i)) /\ IstBecomes(i, NewTransaction)
  /\ Steps(Callee, t) = {} /\ InviteAnswers(i, S) /\ Works(Callee, t, S)
  /\ UNCHANGED <<dialog, ict>>

AckComes(n, b) ==
  /\ Arrives(AckMsg(n, b))
  /\ \/ /\ n \in Seqs /\ ist[Callee][n] \in Transaction
        /\ IstBecomes(n, [ist[Callee][n] EXCEPT !.ack = TRUE])
     \/ ~(n \in Seqs /\ ist[Callee][n] \in Transaction) /\ ist' = ist
  /\ UNCHANGED <<dialog, todo, ict>>

CancelComes(t) ==
  /\ Arrives(CancelMsg) /\ Steps(Callee, t) = {}
  /\ \/ /\ In \in Dialog /\ ~In.start /\ In.invite \in Seqs
        /\ Ended(In, In') /\ Out' = Out
        /\ Works(Callee, t, {Send(Answer(In.invite, Terminated)), Tell("end"), Delete})
     \/ (In = None \/ In.start) /\ dialog' = dialog /\ Works(Callee, t, {})
  /\ UNCHANGED <<ict, ist>>

ByeComes(a, t) ==
  /\ Arrives(ByeMsg(a)) /\ Steps(a, t) = {} /\ Works(a, t, {SetEnd})
  /\ UNCHANGED <<dialog, ict, ist>>

PrackComes(t, i) ==
  /\ Arrives(PrackMsg(i)) /\ Steps(Callee, t) = {} /\ Works(Callee, t, {Tell("prack")})
  /\ UNCHANGED <<dialog, ict, ist>>

(* What SetInviteResponse does with a response. *)
Rings100(s) ==
  /\ s < 200 /\ Out \in Dialog /\ Out' \in Dialog
  /\ SameNumbers(Out, Out') /\ SameTimes(Out, Out')

Connects(t, s) ==
  /\ s \in 200..299 /\ Out \in Dialog /\ Out' \in Dialog
  /\ SameNumbers(Out, Out') /\ Out'.start
  /\ (Out'.end <=> Out.end) /\ (Out'.cancel <=> Out.cancel)
  /\ Works(Caller, t, {Send(AckMsg(Out.seq, 0))} \cup
       IF Out.cancel THEN {StopStep} ELSE IF Out.start THEN {} ELSE {Tell("start")})

Retries(t, s, n) ==
  /\ s \in {Unauthorized, Moved} /\ (s = Moved => ~Out.start)
  /\ Out \in Dialog /\ ~Out.cancel /\ Renewed(Out, Out', n)
  /\ (Out'.end <=> Out.end \/ s = Moved)
  /\ Works(Caller, t, {Send(AckMsg(Out.seq, Out.branch)), Send(InviteMsg(n))})

RefusesAgain(t, s) ==
  /\ s >= 300 /\ s # Unauthorized /\ Out \in Dialog /\ Out.start
  /\ Out' = Out
  /\ Works(Caller, t, {Send(AckMsg(Out.seq, Out.branch))})

Refuses(t, s) ==
  /\ s >= 300 /\ Out \in Dialog /\ Out' \in Dialog
  /\ s = Unauthorized => Out.cancel
  /\ s # Unauthorized => ~Out.start
  /\ SameNumbers(Out, Out')
  /\ (Out'.start <=> Out.start) /\ (Out'.cancel <=> Out.cancel)
  /\ (Out'.end <=> Out.end \/ s # Unauthorized)
  /\ Works(Caller, t, {Send(AckMsg(Out.seq, Out.branch)), Tell("end"), Delete})

ResponseTaken(t, s) ==
  /\ In' = In
  /\ \/ Out = None /\ Out' = None /\ Works(Caller, t, {})
     \/ Rings100(s) /\ Works(Caller, t, {})
     \/ Connects(t, s)
     \/ \E n \in Seqs : Retries(t, s, n)
     \/ RefusesAgain(t, s)
     \/ Refuses(t, s)

Overtaken(i, s) ==
  /\ wire' \subseteq wire
  /\ \A m \in wire : m \notin wire' <=> \E r \in Statuses : m = Answer(i, r) /\ r <= s

Hears(t, i, s) ==
  /\ Answer(i, s) \in wire /\ Overtaken(i, s) /\ Steps(Caller, t) = {}
  /\ \/ /\ ict[Caller][i] \in Transaction /\ ict[Caller][i].status # s
        /\ IctBecomes(i, [ict[Caller][i] EXCEPT !.status = s])
        /\ ResponseTaken(t, s)
     \/ /\ ~(ict[Caller][i] \in Transaction /\ ict[Caller][i].status # s)
        /\ UNCHANGED <<dialog, ict>> /\ Works(Caller, t, {})
  /\ ist' = ist

TimesOut(t, i) ==
  /\ May("timeout") /\ Steps(Caller, t) = {}
  /\ ict[Caller][i] \in Transaction /\ ~ict[Caller][i].ack /\ ict[Caller][i].status < 200
  /\ IctBecomes(i, Gone) /\ ResponseTaken(t, RequestTimeout)
  /\ UNCHANGED <<ist, wire>>

GivesUp(t, i) ==
  /\ May("timeout") /\ Steps(Callee, t) = {}
  /\ ist[Callee][i] \in Transaction /\ ist[Callee][i].status = Ok
  /\ IstBecomes(i, Gone)
  /\ Works(Callee, t, {Tell("end"), Delete})
  /\ UNCHANGED <<dialog, ict, wire>>

-----------------------------------------------------------------------------
(* What sending does. *)
LEMMA SameIst == ASSUME StackRight, ist' = ist PROVE ist' \in [Agents -> [Seqs -> Transaction \cup {None, Gone}]]
                            /\ \A i \in Seqs : ist'[Caller][i] = None
  BY DEF StackRight

LEMMA SameIct == ASSUME StackRight, ict' = ict PROVE ict' \in [Agents -> [Seqs -> Transaction \cup {None, Gone}]]
                            /\ \A i \in Seqs : ict'[Callee][i] = None
  BY DEF StackRight

LEMMA SetsIct ==
  ASSUME StackRight, NEW i \in Seqs, NEW x \in Transaction \cup {Gone}, ict' = [ict EXCEPT ![Caller][i] = x]
  PROVE  /\ ict' \in [Agents -> [Seqs -> Transaction \cup {None, Gone}]]
         /\ \A j \in Seqs : ict'[Callee][j] = None
         /\ IctBecomes(i, x)
  <1>1. Caller \in Agents /\ Callee \in Agents /\ Caller # Callee
    BY Pair
  <1>2. ict \in [Agents -> [Seqs -> Transaction \cup {None, Gone}]] /\ \A j \in Seqs : ict[Callee][j] = None
    BY DEF StackRight
  <1>3. ict' = [ict EXCEPT ![Caller] = [ict[Caller] EXCEPT ![i] = x]]
    OBVIOUS
  <1> QED
    BY <1>1, <1>2, <1>3 DEF IctBecomes

LEMMA SetsIst ==
  ASSUME StackRight, NEW i \in Seqs, NEW x \in Transaction \cup {Gone}, ist' = [ist EXCEPT ![Callee][i] = x]
  PROVE  /\ ist' \in [Agents -> [Seqs -> Transaction \cup {None, Gone}]]
         /\ \A j \in Seqs : ist'[Caller][j] = None
         /\ IstBecomes(i, x)
  <1>1. Caller \in Agents /\ Callee \in Agents /\ Caller # Callee
    BY Pair
  <1>2. ist \in [Agents -> [Seqs -> Transaction \cup {None, Gone}]] /\ \A j \in Seqs : ist[Caller][j] = None
    BY DEF StackRight
  <1>3. ist' = [ist EXCEPT ![Callee] = [ist[Callee] EXCEPT ![i] = x]]
    OBVIOUS
  <1> QED
    BY <1>1, <1>2, <1>3 DEF IstBecomes

LEMMA StackStays ==
  ASSUME StackRight,
         ict' \in [Agents -> [Seqs -> Transaction \cup {None, Gone}]], \A i \in Seqs : ict'[Callee][i] = None,
         ist' \in [Agents -> [Seqs -> Transaction \cup {None, Gone}]], \A i \in Seqs : ist'[Caller][i] = None,
         \A m \in wire' : m \in wire \/ (m \in Message /\ Carried(m))
  PROVE  StackRight'
  BY DEF StackRight, Carried

LEMMA TransactionFacts ==
  ASSUME NEW x \in Transaction
  PROVE  /\ [x EXCEPT !.ack = TRUE] \in Transaction
         /\ [x EXCEPT !.ack = TRUE].status = x.status /\ [x EXCEPT !.ack = TRUE].ack = TRUE
         /\ \A s \in Statuses : /\ [x EXCEPT !.status = s] \in Transaction
                                /\ [x EXCEPT !.status = s].status = s
                                /\ [x EXCEPT !.status = s].ack = x.ack
         /\ Acked(x, TRUE) \in Transaction \cup {Gone}
         /\ x.status \in Statuses \cup {0}
         /\ x.status \in Nat
  <1>1. x.status \in Statuses \cup {0} /\ x.status \in Nat
    <2>1. x.status \in Statuses \cup {0}
      BY DEF Transaction
    <2>2. \A s \in Statuses \cup {0} : s \in Nat
      BY StatusFacts
    <2> QED
      BY <2>1, <2>2
  <1>2. /\ [x EXCEPT !.ack = TRUE] \in Transaction
        /\ [x EXCEPT !.ack = TRUE].status = x.status /\ [x EXCEPT !.ack = TRUE].ack = TRUE
    BY DEF Transaction
  <1>3. ASSUME NEW s \in Statuses
        PROVE  /\ [x EXCEPT !.status = s] \in Transaction
               /\ [x EXCEPT !.status = s].status = s
               /\ [x EXCEPT !.status = s].ack = x.ack
    BY <1>3 DEF Transaction
  <1>4. Acked(x, TRUE) \in Transaction \cup {Gone}
    BY <1>2 DEF Acked
  <1> QED
    BY <1>1, <1>2, <1>3, <1>4

LEMMA SentFacts ==
  ASSUME StackRight
  PROVE  /\ \A i : i \in Sent(Caller) <=> i \in Seqs /\ ict[Caller][i] \in Transaction
         /\ Sent(Callee) = {}
         /\ \A i \in Seqs : /\ ict[Caller][i] \in Transaction \cup {None, Gone}
                            /\ ist[Callee][i] \in Transaction \cup {None, Gone}
                            /\ ist[Callee][i] \notin {None, Gone} <=> ist[Callee][i] \in Transaction
  <1>1. \A i \in Seqs : /\ ict[Caller][i] \in Transaction \cup {None, Gone}
                        /\ ist[Callee][i] \in Transaction \cup {None, Gone}
    BY Pair DEF StackRight
  <1>2. \A i \in Seqs : ict[Callee][i] = None
    BY DEF StackRight
  <1> QED
    BY <1>1, <1>2, NoneFacts DEF Sent

-----------------------------------------------------------------------------
(* What a thread with something to do does. *)
LEMMA HeadSend ==
  ASSUME Base, NEW a \in Agents, NEW t \in Threads, NEW m, SendNext(a, t, m)
  PROVE  /\ Sends(a, t, m) /\ ListsRight' /\ DialogsRight'
         /\ Head(todo[a][t]) = Send(m)
         /\ IF a = Caller THEN CallerStep(Send(m)) ELSE CalleeStep(Send(m))
         /\ Tag(Send(m)) = m.kind
         /\ m.kind \notin {"ACK", "response"} => Steps(a, t) = {Send(m)}
  <1>1. ~Idle(a, t) /\ Head(todo[a][t]) = Send(m) /\ Then(a, t, Tail(todo[a][t])) /\ dialog' = dialog
    BY DEF SendNext
  <1>2. /\ Send(m) \in Steps(a, t)
        /\ IF a = Caller THEN CallerStep(Send(m)) ELSE CalleeStep(Send(m))
        /\ Works(a, t, Steps(a, t) \ {Send(m)}) /\ ListsRight'
        /\ Tag(Send(m)) \notin {"ACK", "response", "end"} => Steps(a, t) = {Send(m)}
    BY <1>1, HeadStep DEF Base
  <1>3. Tag(Send(m)) = m.kind
    BY StepTags
  <1>4. m.kind # "end"
    <2>1. Tag(Send(m)) # "end"
      <3>1. CASE a = Caller
        <4>1. CallerStep(Send(m))
          BY <1>2, <3>1
        <4>2. Send(m).do = "send" /\ Tell("end").do = "tell"
          BY StepTags
        <4> QED
          BY <4>1, <4>2, CallerForms
      <3>2. CASE a # Caller
        <4>1. CalleeStep(Send(m))
          BY <1>2, <3>2
        <4>2. Send(m).do = "send" /\ Tell("end").do = "tell"
          BY StepTags
        <4> QED
          BY <4>1, <4>2, CalleeForms
      <3> QED
        BY <3>1, <3>2
    <2> QED
      BY <1>3, <2>1
  <1>5. DialogsRight'
    BY <1>1, SameDialogs DEF Base
  <1> QED
    BY <1>1, <1>2, <1>3, <1>4, <1>5 DEF Sends

LEMMA SendInviteDoes ==
  ASSUME Base, NEW a \in Agents, NEW t \in Threads, NEW m, SendInvite(a, t, m)
  PROVE  a = Caller /\ (\E i \in Seqs : m = InviteMsg(i) /\ SendsInvite(t, i)) /\ Right
  <1>1. /\ Sends(a, t, m) /\ ListsRight' /\ DialogsRight'
        /\ IF a = Caller THEN CallerStep(Send(m)) ELSE CalleeStep(Send(m))
        /\ Tag(Send(m)) = "INVITE"
        /\ Steps(a, t) = {Send(m)}
    BY HeadSend DEF SendInvite
  <1>2. a = Caller /\ CallerStep(Send(m))
    BY <1>1, CalleeForms
  <1>3. PICK i \in Seqs : Send(m) = Send(InviteMsg(i))
    BY <1>1, <1>2, CallerForms
  <1>4. m = InviteMsg(i)
    BY <1>3, SendSame
  <1>5. ict' = [ict EXCEPT ![Caller][i] = NewTransaction] /\ wire' = wire \cup {InviteMsg(i)} /\ ist' = ist
    BY <1>2, <1>4, MessageParts DEF SendInvite
  <1>6. InviteMsg(i) \in Message /\ Carried(InviteMsg(i))
    BY MessageTypes DEF Carried
  <1>7. StackRight'
    BY <1>5, <1>6, SetsIct, SameIst, StackStays, NoneFacts DEF Base
  <1>8. IctBecomes(i, NewTransaction)
    BY <1>5, SetsIct, NoneFacts DEF Base
  <1> QED
    BY <1>1, <1>2, <1>4, <1>5, <1>7, <1>8 DEF SendsInvite, Right

LEMMA AckSends ==
  ASSUME Base, NEW a \in Agents, NEW t \in Threads, NEW m, SendAck(a, t, m)
  PROVE  a = Caller /\ (\E n, b \in 0..MaxSeq : m = AckMsg(n, b) /\ SendsAck(t, n, b)) /\ Right
  <1>1. /\ Sends(a, t, m) /\ ListsRight' /\ DialogsRight'
        /\ IF a = Caller THEN CallerStep(Send(m)) ELSE CalleeStep(Send(m))
        /\ Tag(Send(m)) = "ACK"
    BY HeadSend DEF SendAck
  <1>2. a = Caller /\ CallerStep(Send(m))
    BY <1>1, CalleeForms
  <1>3. PICK n, b \in 0..MaxSeq : Send(m) = Send(AckMsg(n, b))
    BY <1>1, <1>2, CallerForms
  <1>4. m = AckMsg(n, b) /\ m.seq = n /\ m.branch = b
    BY <1>3, SendSame, MessageParts
  <1> DEFINE own == {i \in Sent(Caller) : n = i /\ b = i}
             candidates == IF own # {} THEN own ELSE {i \in Sent(Caller) : ~ict[Caller][i].ack}
  <1>5. /\ ist' = ist
        /\ \/ candidates = {} /\ UNCHANGED <<ict, wire>>
           \/ /\ \E i \in candidates : ict' = [ict EXCEPT ![Caller][i] = Acked(@, own = {})]
              /\ wire' = wire \cup {AckMsg(n, b)}
    BY <1>2, <1>4 DEF SendAck
  <1>6. own # {} <=> (b = n /\ n \in Sent(Caller))
    OBVIOUS
  <1>7. own # {} => candidates = {n}
    OBVIOUS
  <1>8. own = {} => candidates = {i \in Sent(Caller) : ~ict[Caller][i].ack}
    OBVIOUS
  <1> HIDE DEF own, candidates
  <1>9. AckMsg(n, b) \in Message /\ Carried(AckMsg(n, b))
    BY MessageTypes DEF Carried
  <1>10. \A i \in candidates : i \in Sent(Caller) /\ i \in Seqs /\ ict[Caller][i] \in Transaction
    BY <1>6, <1>7, <1>8, SentFacts DEF Base
  <1>11. CASE candidates = {} /\ UNCHANGED <<ict, wire>>
    <2>1. StackRight'
      BY <1>5, <1>11 DEF Base, StackRight
    <2>2. AckGoes(n, b)
      BY <1>6, <1>7, <1>8, <1>11 DEF AckGoes
    <2> QED
      BY <1>1, <1>2, <1>4, <1>5, <2>1, <2>2 DEF SendsAck, Right
  <1>12. ASSUME NEW i \in candidates, ict' = [ict EXCEPT ![Caller][i] = Acked(@, own = {})],
                wire' = wire \cup {AckMsg(n, b)}
         PROVE  AckGoes(n, b) /\ StackRight'
    <2> DEFINE x == Acked(ict[Caller][i], own = {})
    <2>1. i \in Sent(Caller) /\ i \in Seqs /\ ict[Caller][i] \in Transaction
      BY <1>10, <1>12
    <2>2. ict' = [ict EXCEPT ![Caller][i] = x]
      BY <1>12
    <2>3. own # {} => x = [ict[Caller][i] EXCEPT !.ack = TRUE]
      BY DEF Acked
    <2>4. own = {} => x = Acked(ict[Caller][i], TRUE)
      BY DEF Acked
    <2> HIDE DEF x
    <2>5. x \in Transaction \cup {Gone}
      BY <2>1, <2>3, <2>4, TransactionFacts
    <2>6. StackRight'
      BY <1>5, <1>9, <1>12, <2>1, <2>2, <2>5, SetsIct, SameIst, StackStays DEF Base
    <2>7. IctBecomes(i, x)
      BY <2>1, <2>2, <2>5, SetsIct DEF Base
    <2>8. CASE own # {}
      <3>1. i = n /\ b = n /\ n \in Sent(Caller)
        BY <1>6, <1>7, <1>12, <2>8
      <3> QED
        BY <1>12, <2>3, <2>6, <2>7, <2>8, <3>1 DEF AckGoes
    <2>9. CASE own = {}
      <3>1. ~(b = n /\ n \in Sent(Caller)) /\ ~ict[Caller][i].ack
        BY <1>6, <1>8, <1>12, <2>9
      <3> QED
        BY <1>12, <2>1, <2>4, <2>6, <2>7, <2>9, <3>1 DEF AckGoes
    <2> QED
      BY <2>8, <2>9
  <1>13. AckGoes(n, b) /\ StackRight'
    BY <1>5, <1>6, <1>7, <1>8, <1>11, <1>12 DEF AckGoes, Base, StackRight
  <1> QED
    BY <1>1, <1>2, <1>4, <1>5, <1>13 DEF SendsAck, Right

LEMMA SendResponseDoes ==
  ASSUME Base, NEW a \in Agents, NEW t \in Threads, NEW m, SendResponse(a, t, m)
  PROVE  a = Callee /\ (\E i \in Seqs, s \in Statuses : SendsAnswer(t, i, s)) /\ Right
  <1>1. /\ Sends(a, t, m) /\ ListsRight' /\ DialogsRight'
        /\ IF a = Caller THEN CallerStep(Send(m)) ELSE CalleeStep(Send(m))
        /\ Tag(Send(m)) = "response"
    BY HeadSend DEF SendResponse
  <1>2. a = Callee /\ CalleeStep(Send(m))
    BY <1>1, CallerForms, Pair
  <1>3. PICK i \in Seqs, s \in Statuses : Send(m) = Send(Answer(i, s))
    BY <1>1, <1>2, CalleeForms
  <1>4. m = Answer(i, s) /\ m.seq = i /\ m.status = s
    BY <1>3, SendSame, MessageParts
  <1>5. /\ ict' = ict
        /\ IF ist[Callee][i] \notin {None, Gone} /\ s > ist[Callee][i].status
           THEN ist' = [ist EXCEPT ![Callee][i].status = s] /\ wire' = wire \cup {Answer(i, s)}
           ELSE UNCHANGED <<ist, wire>>
    BY <1>2, <1>4 DEF SendResponse
  <1>6. Answer(i, s) \in Message /\ Carried(Answer(i, s))
    BY MessageTypes DEF Carried
  <1>7. ist[Callee][i] \notin {None, Gone} <=> ist[Callee][i] \in Transaction
    BY SentFacts DEF Base
  <1>8. CASE ist[Callee][i] \in Transaction /\ s > ist[Callee][i].status
    <2> DEFINE x == [ist[Callee][i] EXCEPT !.status = s]
    <2>1. ist' = [ist EXCEPT ![Callee][i] = x] /\ wire' = wire \cup {Answer(i, s)}
      BY <1>5, <1>7, <1>8
    <2>2. x \in Transaction
      BY <1>8, TransactionFacts
    <2> HIDE DEF x
    <2>3. StackRight' /\ IstBecomes(i, x)
      BY <1>5, <1>6, <2>1, <2>2, SetsIst, SameIct, StackStays DEF Base
    <2> QED
      BY <1>1, <1>2, <1>4, <1>5, <1>8, <2>1, <2>3 DEF SendsAnswer, Right, x
  <1>9. CASE ~(ist[Callee][i] \in Transaction /\ s > ist[Callee][i].status)
    <2>1. UNCHANGED <<ict, ist, wire>>
      BY <1>5, <1>7, <1>9
    <2> QED
      BY <1>1, <1>2, <1>4, <1>9, <2>1, SameStack DEF SendsAnswer, Right, Rest, Base
  <1> QED
    BY <1>8, <1>9

LEMMA SendOtherDoes ==
  ASSUME Base, NEW a \in Agents, NEW t \in Threads, NEW m, SendOther(a, t, m)
  PROVE  /\ \/ SendsOther(a, t, ByeMsg(Peer(a)))
            \/ a = Caller /\ SendsOther(Caller, t, CancelMsg)
            \/ a = Caller /\ \E n \in Seqs : SendsOther(Caller, t, PrackMsg(n))
         /\ Right
  <1>1. /\ Sends(a, t, m) /\ ListsRight' /\ DialogsRight'
        /\ IF a = Caller THEN CallerStep(Send(m)) ELSE CalleeStep(Send(m))
        /\ Tag(Send(m)) \in {"CANCEL", "BYE", "PRACK"}
        /\ Steps(a, t) = {Send(m)}
    BY HeadSend DEF SendOther
  <1>2. wire' = wire \cup {m} /\ UNCHANGED <<ict, ist>>
    BY DEF SendOther
  <1>3. SendsOther(a, t, m)
    BY <1>1, <1>2 DEF SendsOther
  <1>4. \/ m = ByeMsg(Peer(a))
        \/ a = Caller /\ m = CancelMsg
        \/ a = Caller /\ \E n \in Seqs : m = PrackMsg(n)
    <2>1. CASE a = Caller
      <3>1. Send(m) = Send(ByeMsg(Callee)) \/ Send(m) = Send(CancelMsg) \/ \E n \in Seqs : Send(m) = Send(PrackMsg(n))
        BY <1>1, <2>1, CallerForms
      <3> QED
        BY <2>1, <3>1, SendSame, Pair
    <2>2. CASE a = Callee
      <3>1. Send(m) = Send(ByeMsg(Caller))
        BY <1>1, <2>2, CalleeForms, Pair
      <3> QED
        BY <2>2, <3>1, SendSame, Pair
    <2> QED
      BY <2>1, <2>2, Pair
  <1>5. m \in Message /\ Carried(m)
    BY <1>4, MessageTypes, Pair DEF Carried
  <1>6. StackRight'
    BY <1>2, <1>5, SameIct, SameIst, StackStays DEF Base
  <1> QED
    BY <1>1, <1>3, <1>4, <1>6 DEF Right

-----------------------------------------------------------------------------
(* A step a thread has to do, and what comes of doing it. *)
LEMMA DoingStep ==
  ASSUME Base, NEW a \in Agents, NEW t \in Threads, NEW do, Doing(a, t, do), do \notin {"send"}
  PROVE  LET s == Head(todo[a][t])
         IN /\ s \in Steps(a, t)
            /\ IF a = Caller THEN CallerStep(s) ELSE CalleeStep(s)
            /\ Tag(s) \notin {"ACK", "response", "end"} => Steps(a, t) = {s}
            /\ Tag(s) = "end" => Steps(a, t) = {s, Delete}
            /\ do = "tell" => Tag(s) = s.event /\ s = Tell(s.event)
            /\ do # "tell" => Tag(s) = do
            /\ Then(a, t, Tail(todo[a][t])) => Works(a, t, Steps(a, t) \ {s}) /\ ListsRight'
  <1>1. ~Idle(a, t) /\ Head(todo[a][t]).do = do
    BY DEF Doing
  <1> DEFINE s == Head(todo[a][t])
  <1>2. /\ s \in Steps(a, t)
        /\ IF a = Caller THEN CallerStep(s) ELSE CalleeStep(s)
        /\ Tag(s) \notin {"ACK", "response", "end"} => Steps(a, t) = {s}
        /\ Tag(s) = "end" => Steps(a, t) = {s, Delete}
        /\ Then(a, t, Tail(todo[a][t])) => Works(a, t, Steps(a, t) \ {s}) /\ ListsRight'
    BY <1>1, HeadStep DEF Base
  <1>3. s.do = do
    BY <1>1
  <1> HIDE DEF s
  <1>4. CallerStep(s) \/ CalleeStep(s)
    BY <1>2
  <1>5. do = "tell" => Tag(s) = s.event /\ s = Tell(s.event)
    BY <1>3, <1>4, StepKinds
  <1>6. do # "tell" => Tag(s) = do
    BY <1>3, <1>4, StepKinds
  <1> QED
    BY <1>2, <1>5, <1>6 DEF s

LEMMA DoingOne ==
  ASSUME Base, NEW a \in Agents, NEW t \in Threads,
         NEW do \in {"delete", "set end", "insert", "answer", "stop"}, Doing(a, t, do)
  PROVE  /\ IF a = Caller THEN CallerStep(Head(todo[a][t])) ELSE CalleeStep(Head(todo[a][t]))
         /\ Tag(Head(todo[a][t])) = do
         /\ Steps(a, t) = {Head(todo[a][t])}
         /\ Then(a, t, Tail(todo[a][t])) => Works(a, t, {}) /\ ListsRight'
  <1> DEFINE s == Head(todo[a][t])
  <1>1. do \notin {"send"} /\ do # "tell"
    OBVIOUS
  <1>2. /\ IF a = Caller THEN CallerStep(s) ELSE CalleeStep(s)
        /\ Tag(s) = do
        /\ Tag(s) \notin {"ACK", "response", "end"} => Steps(a, t) = {s}
        /\ Then(a, t, Tail(todo[a][t])) => Works(a, t, Steps(a, t) \ {s}) /\ ListsRight'
    BY <1>1, DoingStep
  <1> HIDE DEF s
  <1>3. Steps(a, t) = {s} /\ Steps(a, t) \ {s} = {}
    BY <1>2
  <1> QED
    BY <1>2, <1>3 DEF s

LEMMA BeginNone ==
  ASSUME ListsRight, NEW a \in Agents, NEW t \in Threads, Then(a, t, <<>>)
  PROVE  Works(a, t, {}) /\ ListsRight'
  <1> DEFINE q == <<>>
  <1>1. q \in Seq(Step) /\ Ordered(q) /\ Items(q) = {} /\ Then(a, t, q)
    BY EmptyList
  <1> HIDE DEF q
  <1>2. Works(a, t, Items(q)) /\ ListsRight'
    BY <1>1, ThenWorks
  <1> QED
    BY <1>1, <1>2

LEMMA BeginEnd ==
  ASSUME ListsRight, NEW a \in Agents, NEW t \in Threads, Then(a, t, <<Tell("end"), Delete>>)
  PROVE  Works(a, t, {Tell("end"), Delete}) /\ ListsRight'
  <1> DEFINE q == <<Tell("end"), Delete>>
  <1>1. q \in Seq(Step) /\ Ordered(q) /\ Items(q) = {Tell("end"), Delete} /\ Then(a, t, q)
    BY EndItems
  <1> HIDE DEF q
  <1>2. \A s \in Items(q) : IF a = Caller THEN CallerStep(s) ELSE CalleeStep(s)
    BY <1>1 DEF CallerStep, CalleeStep
  <1>3. Works(a, t, Items(q)) /\ ListsRight'
    BY <1>1, <1>2, ThenWorks
  <1> QED
    BY <1>1, <1>3

LEMMA BeginTwo ==
  ASSUME ListsRight, NEW a \in Agents, NEW t \in Threads, NEW f \in Step, NEW s \in Step,
         Tag(f) \in {"ACK", "response"}, Tag(s) \notin {"ACK", "response", "end"},
         IF a = Caller THEN CallerStep(f) ELSE CalleeStep(f),
         IF a = Caller THEN CallerStep(s) ELSE CalleeStep(s),
         Then(a, t, <<f, s>>)
  PROVE  Works(a, t, {f, s}) /\ ListsRight'
  <1> DEFINE q == <<f, s>>
  <1>1. q \in Seq(Step) /\ Ordered(q) /\ Items(q) = {f, s} /\ Then(a, t, q)
    BY TwoItems
  <1> HIDE DEF q
  <1>2. \A x \in Items(q) : IF a = Caller THEN CallerStep(x) ELSE CalleeStep(x)
    BY <1>1
  <1>3. Works(a, t, Items(q)) /\ ListsRight'
    BY <1>1, <1>2, ThenWorks
  <1> QED
    BY <1>1, <1>3

LEMMA BeginThree ==
  ASSUME ListsRight, NEW a \in Agents, NEW t \in Threads, NEW f \in Step, Tag(f) \in {"ACK", "response"},
         IF a = Caller THEN CallerStep(f) ELSE CalleeStep(f),
         Then(a, t, <<f, Tell("end"), Delete>>)
  PROVE  Works(a, t, {f, Tell("end"), Delete}) /\ ListsRight'
  <1> DEFINE q == <<f, Tell("end"), Delete>>
  <1>1. q \in Seq(Step) /\ Ordered(q) /\ Items(q) = {f, Tell("end"), Delete} /\ Then(a, t, q)
    BY ThreeItems
  <1> HIDE DEF q
  <1>2. \A s \in Items(q) : IF a = Caller THEN CallerStep(s) ELSE CalleeStep(s)
    BY <1>1 DEF CallerStep, CalleeStep
  <1>3. Works(a, t, Items(q)) /\ ListsRight'
    BY <1>1, <1>2, ThenWorks
  <1> QED
    BY <1>1, <1>3

LEMMA DoTellDoes ==
  ASSUME Base, NEW a \in Agents, NEW t \in Threads, DoTell(a, t)
  PROVE  (\E e \in Events : Tells(a, t, e) /\ told' = [told EXCEPT ![a] = Append(told[a], e)]) /\ Right
  <1> DEFINE s == Head(todo[a][t])
             e == s.event
  <1>1. /\ Doing(a, t, "tell") /\ Then(a, t, Tail(todo[a][t]))
        /\ told' = [told EXCEPT ![a] = Append(@, e)] /\ dialog' = dialog /\ Rest
    BY DEF DoTell, Rest
  <1>2. /\ s \in Steps(a, t)
        /\ IF a = Caller THEN CallerStep(s) ELSE CalleeStep(s)
        /\ Tag(s) \notin {"ACK", "response", "end"} => Steps(a, t) = {s}
        /\ Tag(s) = "end" => Steps(a, t) = {s, Delete}
        /\ Tag(s) = e /\ s = Tell(e)
        /\ Works(a, t, Steps(a, t) \ {s}) /\ ListsRight'
    BY <1>1, DoingStep
  <1> HIDE DEF s, e
  <1>3. e \in {"call", "start", "end", "prack"}
    <2>1. s.do = "tell"
      <3>1. Tell(e).do = "tell"
        BY DEF Tell
      <3> QED
        BY <1>2, <3>1
    <2>2. CASE CallerStep(s)
      <3>1. s = Tell("start") \/ s = Tell("end") \/ s.do # "tell"
        BY <2>2, StepTags DEF CallerStep
      <3> QED
        BY <1>2, <2>1, <3>1, PlainTags
    <2>3. CASE CalleeStep(s)
      <3>1. s = Tell("call") \/ s = Tell("end") \/ s = Tell("prack") \/ s.do # "tell"
        BY <2>3, StepTags DEF CalleeStep
      <3> QED
        BY <1>2, <2>1, <3>1, PlainTags
    <2> QED
      BY <1>2, <2>2, <2>3
  <1>4. Steps(a, t) = IF e = "end" THEN {Tell(e), Delete} ELSE {Tell(e)}
    BY <1>2, <1>3
  <1>5. Tells(a, t, e)
    BY <1>1, <1>2, <1>4 DEF Tells
  <1> QED
    BY <1>1, <1>2, <1>3, <1>5, SameDialogs, SameStack DEF Right, Base, Events

LEMMA DoDeleteDoes ==
  ASSUME Base, NEW a \in Agents, NEW t \in Threads, DoDelete(a, t)
  PROVE  Deletes(a, t) /\ Right
  <1> DEFINE s == Head(todo[a][t])
  <1>1. Doing(a, t, "delete") /\ Then(a, t, Tail(todo[a][t])) /\ SetDialog(a, None) /\ Rest
    BY DEF DoDelete, Rest
  <1>2. /\ IF a = Caller THEN CallerStep(s) ELSE CalleeStep(s)
        /\ Tag(s) = "delete" /\ Steps(a, t) = {s}
        /\ Works(a, t, {}) /\ ListsRight'
    BY <1>1, DoingOne
  <1> HIDE DEF s
  <1>3. s = Delete
    BY <1>2, CallerForms, CalleeForms
  <1>5. DialogsRight' /\ dialog'[a] = None /\ dialog'[Peer(a)] = dialog[Peer(a)]
    BY <1>1, SetsDialog DEF Base
  <1> QED
    BY <1>1, <1>2, <1>3, <1>5, SameStack DEF Deletes, Right, Base

LEMMA EndedFacts ==
  ASSUME NEW d \in Dialog
  PROVE  Ended(d, [d EXCEPT !.end = TRUE])
  BY DEF Ended, SameNumbers, Dialog

LEMMA EndsDialog ==
  ASSUME DialogsRight, NEW a \in Agents, dialog[a] # None, SetDialog(a, [dialog[a] EXCEPT !.end = TRUE])
  PROVE  dialog[a] \in Dialog /\ Ended(dialog[a], dialog'[a]) /\ DialogsRight' /\ dialog'[Peer(a)] = dialog[Peer(a)]
  <1> DEFINE d == dialog[a]
             f == [d EXCEPT !.end = TRUE]
  <1>1. d \in Dialog /\ SetDialog(a, f)
    BY DEF DialogsRight
  <1>2. Ended(d, f)
    BY <1>1, EndedFacts
  <1> HIDE DEF f
  <1>3. /\ f \in Dialog /\ f.invite = d.invite /\ f.branch = d.branch /\ f.next = d.next
        /\ (f.rel <=> d.rel) /\ (f.start <=> d.start) /\ (f.cancel <=> d.cancel)
    BY <1>2 DEF Ended, SameNumbers
  <1>4. IF a = Caller THEN f.invite = 0
        ELSE f.branch = 0 /\ f.next = 0 /\ ~f.rel /\ ~f.cancel /\ (f.start <=> f.invite = 0)
    BY <1>1, <1>3, Pair, NoneFacts DEF DialogsRight, Out, In
  <1>5. DialogsRight' /\ dialog'[a] = f /\ dialog'[Peer(a)] = dialog[Peer(a)]
    BY <1>1, <1>3, <1>4, SetsDialog
  <1> QED
    BY <1>1, <1>2, <1>5

LEMMA DoSetCallEndDoes ==
  ASSUME Base, NEW a \in Agents, NEW t \in Threads, DoSetCallEnd(a, t)
  PROVE  EndsCall(a, t) /\ Right
  <1> DEFINE s == Head(todo[a][t])
  <1>1. Doing(a, t, "set end") /\ Rest
    BY DEF DoSetCallEnd, Rest
  <1>2. /\ IF a = Caller THEN CallerStep(s) ELSE CalleeStep(s)
        /\ Tag(s) = "set end" /\ Steps(a, t) = {s}
    BY <1>1, DoingOne
  <1> HIDE DEF s
  <1>3. Steps(a, t) = {SetEnd}
    BY <1>2, CallerForms, CalleeForms
  <1>4. CASE dialog[a] = None
    <2>1. dialog' = dialog /\ Then(a, t, <<>>)
      BY <1>4 DEF DoSetCallEnd
    <2>2. Works(a, t, {}) /\ ListsRight'
      BY <2>1, BeginNone DEF Base
    <2> QED
      BY <1>1, <1>3, <1>4, <2>1, <2>2, SameDialogs, SameStack DEF EndsCall, Right, Base
  <1>5. CASE dialog[a] # None
    <2>1. SetDialog(a, [dialog[a] EXCEPT !.end = TRUE]) /\ Then(a, t, <<Tell("end"), Delete>>)
      BY <1>5 DEF DoSetCallEnd
    <2>2. Works(a, t, {Tell("end"), Delete}) /\ ListsRight'
      BY <2>1, BeginEnd DEF Base
    <2>3. dialog[a] \in Dialog /\ Ended(dialog[a], dialog'[a]) /\ DialogsRight' /\ dialog'[Peer(a)] = dialog[Peer(a)]
      BY <1>5, <2>1, EndsDialog DEF Base
    <2> QED
      BY <1>1, <1>3, <2>2, <2>3, SameStack DEF EndsCall, Right, Base
  <1> QED
    BY <1>4, <1>5

LEMMA DoInsertDoes ==
  ASSUME Base, NEW a \in Agents, NEW t \in Threads, DoInsert(a, t)
  PROVE  a = Callee /\ (\E i \in Seqs : Inserts(t, i)) /\ Right
  <1> DEFINE s == Head(todo[a][t])
  <1>1. Doing(a, t, "insert") /\ Rest
    BY DEF DoInsert, Rest
  <1>2. /\ IF a = Caller THEN CallerStep(s) ELSE CalleeStep(s)
        /\ Tag(s) = "insert" /\ Steps(a, t) = {s}
    BY <1>1, DoingOne
  <1>3. IF dialog[a] = None
        THEN /\ SetDialog(a, [NewDialog EXCEPT !.invite = s.seq])
             /\ Then(a, t, <<Tell("call")>>)
        ELSE dialog' = dialog /\ Then(a, t, <<>>)
    BY DEF DoInsert
  <1> HIDE DEF s
  <1>4. a = Callee /\ CalleeStep(s)
    BY <1>2, CallerForms, Pair
  <1>5. PICK i \in Seqs : s = InsertStep(i)
    BY <1>2, <1>4, CalleeForms
  <1>6. s.seq = i /\ i \in 0..MaxSeq /\ i # 0
    <2>1. InsertStep(i).seq = i
      BY DEF InsertStep
    <2> QED
      BY <1>5, <2>1, SeqFacts
  <1>7. CASE In = None
    <2> DEFINE d == [NewDialog EXCEPT !.invite = i]
    <2>1. SetDialog(Callee, d) /\ Then(Callee, t, <<Tell("call")>>)
      BY <1>3, <1>4, <1>6, <1>7 DEF In
    <2>2. /\ d \in Dialog /\ d.invite = i /\ d.branch = 0 /\ d.next = 0
          /\ ~d.rel /\ ~d.start /\ ~d.end /\ ~d.cancel
      <3>1. 0 \in 0..MaxSeq
        BY SeqFacts
      <3> QED
        BY <1>6, <3>1 DEF Dialog, NewDialog
    <2> HIDE DEF d
    <2>3. Works(Callee, t, {Tell("call")}) /\ ListsRight'
      <3>1. Tell("call") \in Step /\ Tag(Tell("call")) # "end" /\ CalleeStep(Tell("call"))
        BY StepTypes, PlainTags DEF CalleeStep, Events
      <3> QED
        BY <2>1, <3>1, BeginOne, Pair DEF Base
    <2>4. DialogsRight' /\ dialog'[Callee] = d /\ dialog'[Caller] = dialog[Caller]
      BY <1>6, <2>1, <2>2, SetsDialog, Pair DEF Base
    <2>5. Inserts(t, i)
      BY <1>1, <1>2, <1>4, <1>5, <1>7, <2>2, <2>3, <2>4 DEF Inserts, In, Out
    <2> QED
      BY <1>1, <1>4, <2>3, <2>4, <2>5, SameStack DEF Right, Base
  <1>8. CASE In # None
    <2>1. dialog' = dialog /\ Then(Callee, t, <<>>)
      BY <1>3, <1>4, <1>8 DEF In
    <2>2. Works(Callee, t, {}) /\ ListsRight'
      BY <2>1, BeginNone, Pair DEF Base
    <2>3. Inserts(t, i)
      BY <1>1, <1>2, <1>4, <1>5, <1>8, <2>1, <2>2 DEF Inserts
    <2> QED
      BY <1>1, <1>4, <2>1, <2>2, <2>3, SameDialogs, SameStack DEF Right, Base
  <1> QED
    BY <1>7, <1>8

LEMMA DoAnswerDoes ==
  ASSUME Base, NEW a \in Agents, NEW t \in Threads, DoAnswer(a, t)
  PROVE  a = Callee /\ (\E i \in Seqs : AnswersAgain(t, i)) /\ Right
  <1> DEFINE s == Head(todo[a][t])
  <1>1. Doing(a, t, "answer") /\ Rest /\ dialog' = dialog
    BY DEF DoAnswer, Rest
  <1>2. /\ IF a = Caller THEN CallerStep(s) ELSE CalleeStep(s)
        /\ Tag(s) = "answer" /\ Steps(a, t) = {s}
    BY <1>1, DoingOne
  <1>3. Then(a, t, IF dialog[a] = None THEN <<>> ELSE <<Send(Response(a, s.seq, Ok))>>)
    BY DEF DoAnswer
  <1> HIDE DEF s
  <1>4. a = Callee /\ CalleeStep(s)
    BY <1>2, CallerForms, Pair
  <1>5. PICK i \in Seqs : s = AnswerStep(i)
    BY <1>2, <1>4, CalleeForms
  <1>6. s.seq = i
    BY <1>5, StepTags
  <1>7. Works(Callee, t, IF In = None THEN {} ELSE {Send(Answer(i, Ok))}) /\ ListsRight'
    <2>1. CASE In = None
      <3>1. Then(Callee, t, <<>>)
        BY <1>3, <1>4, <2>1 DEF In
      <3> QED
        BY <2>1, <3>1, BeginNone, Pair DEF Base
    <2>2. CASE In # None
      <3>1. Then(Callee, t, <<Send(Response(Callee, i, Ok))>>)
        BY <1>3, <1>4, <1>6, <2>2 DEF In
      <3> QED
        BY <2>2, <3>1, AnswerBegins, StatusFacts DEF Base
    <2> QED
      BY <2>1, <2>2
  <1>8. AnswersAgain(t, i)
    BY <1>1, <1>2, <1>4, <1>5, <1>7 DEF AnswersAgain
  <1> QED
    BY <1>1, <1>4, <1>7, <1>8, SameDialogs, SameStack DEF Right, Base

LEMMA DoStopDoes ==
  ASSUME Base, NEW a \in Agents, NEW t \in Threads, DoStop(a, t)
  PROVE  a = Caller /\ (HangsUp(Caller, t) \/ StopsNothing(t)) /\ Right
  <1> DEFINE s == Head(todo[a][t])
  <1>1. Doing(a, t, "stop") /\ Rest
    BY DEF DoStop, Rest
  <1>2. /\ IF a = Caller THEN CallerStep(s) ELSE CalleeStep(s)
        /\ Tag(s) = "stop" /\ Steps(a, t) = {s}
    BY <1>1, DoingOne
  <1> HIDE DEF s
  <1>3. a = Caller /\ Steps(Caller, t) = {StopStep}
    BY <1>2, CallerForms, CalleeForms, Pair
  <1>4. CASE dialog[a] # None /\ StopConnected(a, t, <<>>)
    BY <1>1, <1>3, <1>4, StopConnectedDoes
  <1>5. CASE (dialog[a] = None \/ dialog[a].end) /\ Then(a, t, <<>>) /\ UNCHANGED dialog
    <2>1. Works(Caller, t, {}) /\ ListsRight'
      BY <1>3, <1>5, BeginNone DEF Base
    <2> QED
      BY <1>1, <1>3, <1>5, <2>1, SameDialogs, SameStack DEF StopsNothing, Right, Base, Out
  <1> QED
    BY <1>4, <1>5 DEF DoStop

-----------------------------------------------------------------------------
(* What receiving does. *)
LEMMA ArrivesStays ==
  ASSUME StackRight, NEW m, Arrives(m),
         ict' \in [Agents -> [Seqs -> Transaction \cup {None, Gone}]], \A i \in Seqs : ict'[Callee][i] = None,
         ist' \in [Agents -> [Seqs -> Transaction \cup {None, Gone}]], \A i \in Seqs : ist'[Caller][i] = None
  PROVE  StackRight'
  BY StackStays DEF Arrives

LEMMA RecvInviteDoes ==
  ASSUME Base, NEW a \in Agents, NEW t \in Threads, NEW m \in wire, RecvInvite(a, t, m)
  PROVE  (\E i \in Seqs : \E S : InviteComes(t, i, S)) /\ Right
  <1>1. PICK i \in Seqs : m = InviteMsg(i)
    BY MessageForms DEF RecvInvite, Base, StackRight
  <1>2. a = Callee /\ m.seq = i
    BY <1>1, MessageParts DEF RecvInvite
  <1>3. /\ Arrives(InviteMsg(i)) /\ ist' = [ist EXCEPT ![Callee][i] = NewTransaction]
        /\ Idle(Callee, t) /\ UNCHANGED <<dialog, ict>>
    BY <1>1, <1>2 DEF RecvInvite, Arrives
  <1>4. StackRight' /\ IstBecomes(i, NewTransaction)
    BY <1>3, ArrivesStays, SetsIst, SameIct, NoneFacts DEF Base
  <1>5. ASSUME NEW S, InviteAnswers(i, S), Works(Callee, t, S), ListsRight'
        PROVE  InviteComes(t, i, S) /\ Right
    BY <1>3, <1>4, <1>5, IdleSteps, SameDialogs DEF InviteComes, Right, Base
  <1>6. CASE Then(a, t, <<Send(Response(a, m.seq, NotAcceptable))>>)
    <2>1. Works(Callee, t, {Send(Answer(i, NotAcceptable))}) /\ ListsRight'
      BY <1>2, <1>6, AnswerBegins, StatusFacts DEF Base
    <2> QED
      BY <2>1, <1>5 DEF InviteAnswers
  <1>7. CASE dialog[a] # None /\ Then(a, t, <<[do |-> "answer", seq |-> m.seq]>>)
    <2>1. AnswerStep(i) \in Step /\ CalleeStep(AnswerStep(i)) /\ Tag(AnswerStep(i)) # "end"
      BY StepTypes, PlainTags DEF CalleeStep
    <2>2. Then(Callee, t, <<AnswerStep(i)>>) /\ In # None
      BY <1>2, <1>7 DEF AnswerStep, In
    <2>3. Works(Callee, t, {AnswerStep(i)}) /\ ListsRight'
      BY <2>1, <2>2, BeginOne, Pair DEF Base
    <2> QED
      BY <2>2, <2>3, <1>5 DEF InviteAnswers
  <1>8. CASE dialog[a] = None /\ Then(a, t, <<Send(Response(a, m.seq, Ringing)), [do |-> "insert", seq |-> m.seq]>>)
    <2>1. InsertStep(i) \in Step /\ CalleeStep(InsertStep(i)) /\ Tag(InsertStep(i)) = "insert"
      BY StepTypes, PlainTags DEF CalleeStep
    <2>2. /\ Send(Answer(i, Ringing)) \in Step /\ CalleeStep(Send(Answer(i, Ringing)))
          /\ Tag(Send(Answer(i, Ringing))) = "response"
      BY StatusFacts, MessageTypes, StepTypes, SendTags DEF CalleeStep
    <2>3. Response(Callee, i, Ringing) = Answer(i, Ringing)
      BY Pair DEF Response, Answer
    <2>4. Then(Callee, t, <<Send(Answer(i, Ringing)), InsertStep(i)>>) /\ In = None
      BY <1>2, <1>8, <2>3 DEF InsertStep, In
    <2>5. Works(Callee, t, {Send(Answer(i, Ringing)), InsertStep(i)}) /\ ListsRight'
      BY <2>1, <2>2, <2>4, BeginTwo, Pair DEF Base
    <2> QED
      BY <2>4, <2>5, <1>5 DEF InviteAnswers
  <1>9. CASE dialog[a] = None /\ Then(a, t, <<Send(Response(a, m.seq, Unauthorized))>>)
    <2>1. Works(Callee, t, {Send(Answer(i, Unauthorized))}) /\ ListsRight' /\ In = None
      BY <1>2, <1>9, AnswerBegins, StatusFacts DEF Base, In
    <2> QED
      BY <2>1, <1>5 DEF InviteAnswers
  <1> QED
    BY <1>6, <1>7, <1>8, <1>9 DEF RecvInvite

LEMMA RecvAckDoes ==
  ASSUME Base, NEW a \in Agents, NEW m \in wire, RecvAck(a, m)
  PROVE  (\E n, b \in 0..MaxSeq : AckComes(n, b)) /\ Right
  <1>1. PICK n, b \in 0..MaxSeq : m = AckMsg(n, b)
    BY MessageForms DEF RecvAck, Base, StackRight
  <1>2. a = Callee /\ m.seq = n
    BY <1>1, MessageParts DEF RecvAck
  <1>3. Arrives(AckMsg(n, b)) /\ UNCHANGED <<dialog, todo, ict>>
    BY <1>1 DEF RecvAck, Arrives
  <1>4. IF n \in Seqs /\ ist[Callee][n] \notin {None, Gone}
        THEN ist' = [ist EXCEPT ![Callee][n].ack = TRUE]
        ELSE ist' = ist
    BY <1>2 DEF RecvAck
  <1>5. ListsRight' /\ DialogsRight'
    BY <1>3, SameDialogs, SameWorks, Pair DEF Base, ListsRight, Steps
  <1>6. CASE n \in Seqs /\ ist[Callee][n] \in Transaction
    <2> DEFINE x == [ist[Callee][n] EXCEPT !.ack = TRUE]
    <2>1. ist' = [ist EXCEPT ![Callee][n] = x]
      BY <1>4, <1>6, NoneFacts
    <2>2. x \in Transaction
      BY <1>6, TransactionFacts
    <2> HIDE DEF x
    <2>3. StackRight' /\ IstBecomes(n, x)
      BY <1>3, <1>6, <2>1, <2>2, ArrivesStays, SetsIst, SameIct DEF Base
    <2> QED
      BY <1>3, <1>5, <1>6, <2>3 DEF AckComes, Right, x
  <1>7. CASE ~(n \in Seqs /\ ist[Callee][n] \in Transaction)
    <2>1. ist' = ist
      BY <1>4, <1>7, SentFacts DEF Base
    <2>2. StackRight'
      BY <1>3, <2>1, ArrivesStays, SameIst, SameIct DEF Base
    <2> QED
      BY <1>3, <1>5, <1>7, <2>1, <2>2 DEF AckComes, Right
  <1> QED
    BY <1>6, <1>7

LEMMA RecvCancelDoes ==
  ASSUME Base, NEW a \in Agents, NEW t \in Threads, NEW m \in wire, RecvCancel(a, t, m)
  PROVE  CancelComes(t) /\ Right
  <1>1. m = CancelMsg
    BY MessageForms DEF RecvCancel, Base, StackRight
  <1>2. a = Callee
    BY <1>1, MessageParts DEF RecvCancel
  <1>3. Arrives(CancelMsg) /\ UNCHANGED <<ict, ist>> /\ Idle(Callee, t)
    BY <1>1, <1>2 DEF RecvCancel, Arrives
  <1>4. Steps(Callee, t) = {}
    BY <1>3, IdleSteps
  <1>5. StackRight'
    BY <1>3, ArrivesStays, SameIst, SameIct DEF Base
  <1>6. CASE In # None /\ ~In.start
    <2>1. /\ SetDialog(Callee, [In EXCEPT !.end = TRUE])
          /\ Then(Callee, t, <<Send(Response(Callee, In.invite, Terminated)), Tell("end"), Delete>>)
      BY <1>2, <1>6 DEF RecvCancel, In
    <2>2. In \in Dialog /\ Ended(In, In') /\ DialogsRight' /\ Out' = Out
      BY <1>6, <2>1, EndsDialog, Pair DEF Base, In, Out
    <2>3. In.invite \in Seqs
      <3>1. In.invite # 0 /\ In.invite \in 0..MaxSeq
        BY <1>6, <2>2 DEF Base, DialogsRight, Dialog
      <3> QED
        BY <3>1, SeqFacts
    <2> DEFINE i == In.invite
               f == Send(Answer(i, Terminated))
    <2>4. Response(Callee, i, Terminated) = Answer(i, Terminated)
      BY Pair DEF Response, Answer
    <2>5. f \in Step /\ Tag(f) = "response" /\ CalleeStep(f)
      BY <2>3, StatusFacts, MessageTypes, StepTypes, SendTags DEF CalleeStep
    <2>6. Then(Callee, t, <<f, Tell("end"), Delete>>)
      BY <2>1, <2>4
    <2> HIDE DEF f
    <2>7. Works(Callee, t, {f, Tell("end"), Delete}) /\ ListsRight'
      BY <2>5, <2>6, BeginThree, Pair DEF Base
    <2>8. CancelComes(t)
      BY <1>3, <1>4, <1>6, <2>2, <2>3, <2>7 DEF CancelComes, f
    <2> QED
      BY <1>5, <2>2, <2>7, <2>8 DEF Right
  <1>7. CASE In = None \/ In.start
    <2>1. UNCHANGED <<dialog, todo>>
      BY <1>2, <1>7 DEF RecvCancel, In
    <2>2. Works(Callee, t, Steps(Callee, t)) /\ ListsRight'
      BY <2>1, SameWorks, Pair DEF Base
    <2>3. Works(Callee, t, {})
      BY <1>4, <2>2
    <2> QED
      BY <1>3, <1>4, <1>5, <1>7, <2>1, <2>2, <2>3, SameDialogs DEF CancelComes, Right, Base
  <1> QED
    BY <1>6, <1>7

LEMMA RecvByeDoes ==
  ASSUME Base, NEW a \in Agents, NEW t \in Threads, NEW m \in wire, RecvBye(a, t, m)
  PROVE  ByeComes(a, t) /\ Right
  <1>1. m = ByeMsg(a)
    <2>1. m = ByeMsg(Caller) \/ m = ByeMsg(Callee)
      BY MessageForms DEF RecvBye, Base, StackRight
    <2>2. ByeMsg(Caller).to = Caller /\ ByeMsg(Callee).to = Callee
      BY DEF ByeMsg
    <2> QED
      BY <2>1, <2>2 DEF RecvBye
  <1>2. Arrives(ByeMsg(a)) /\ UNCHANGED <<dialog, ict, ist>> /\ Idle(a, t) /\ Then(a, t, <<SetEnd>>)
    BY <1>1 DEF RecvBye, Arrives, SetEnd
  <1>3. /\ SetEnd \in Step /\ Tag(SetEnd) # "end"
        /\ IF a = Caller THEN CallerStep(SetEnd) ELSE CalleeStep(SetEnd)
    BY StepTypes, PlainTags DEF CallerStep, CalleeStep
  <1>4. Works(a, t, {SetEnd}) /\ ListsRight'
    BY <1>2, <1>3, BeginOne DEF Base
  <1>5. StackRight'
    BY <1>2, ArrivesStays, SameIst, SameIct DEF Base
  <1> QED
    BY <1>2, <1>4, <1>5, IdleSteps, SameDialogs DEF ByeComes, Right, Base

LEMMA RecvPrackDoes ==
  ASSUME Base, NEW a \in Agents, NEW t \in Threads, NEW m \in wire, RecvPrack(a, t, m)
  PROVE  (\E i \in Seqs : PrackComes(t, i)) /\ Right
  <1>1. PICK i \in Seqs : m = PrackMsg(i)
    BY MessageForms DEF RecvPrack, Base, StackRight
  <1>2. a = Callee
    BY <1>1, MessageParts DEF RecvPrack
  <1>3. /\ Arrives(PrackMsg(i)) /\ UNCHANGED <<dialog, ict, ist>> /\ Idle(Callee, t)
        /\ Then(Callee, t, <<Tell("prack")>>)
    BY <1>1, <1>2 DEF RecvPrack, Arrives
  <1>4. Tell("prack") \in Step /\ Tag(Tell("prack")) # "end" /\ CalleeStep(Tell("prack"))
    BY StepTypes, PlainTags DEF CalleeStep, Events
  <1>5. Works(Callee, t, {Tell("prack")}) /\ ListsRight'
    BY <1>3, <1>4, BeginOne, Pair DEF Base
  <1>6. StackRight'
    BY <1>3, ArrivesStays, SameIst, SameIct DEF Base
  <1> QED
    BY <1>3, <1>5, <1>6, IdleSteps, SameDialogs DEF PrackComes, Right, Base

(* The ACK for a response. *)
LEMMA AckForms ==
  ASSUME NEW d \in Dialog, NEW s \in Statuses
  PROVE  /\ s \in 200..299 => Ack(Caller, d, s) = AckMsg(d.seq, 0)
         /\ s >= 300 => Ack(Caller, d, s) = AckMsg(d.seq, d.branch)
         /\ d.seq \in 0..MaxSeq /\ d.branch \in 0..MaxSeq
         /\ \A b \in 0..MaxSeq :
              /\ Send(AckMsg(d.seq, b)) \in Step /\ CallerStep(Send(AckMsg(d.seq, b)))
              /\ Tag(Send(AckMsg(d.seq, b))) = "ACK"
  <1>1. d.seq \in 0..MaxSeq /\ d.branch \in 0..MaxSeq
    BY DEF Dialog
  <1>2. s \in 200..299 => Ack(Caller, d, s) = AckMsg(d.seq, 0)
    BY Pair DEF Ack, AckMsg
  <1>3. s >= 300 => Ack(Caller, d, s) = AckMsg(d.seq, d.branch)
    <2>1. s >= 300 => ~(s \in 200..299)
      BY StatusFacts
    <2> QED
      BY <2>1, Pair DEF Ack, AckMsg
  <1>4. ASSUME NEW b \in 0..MaxSeq
        PROVE  /\ Send(AckMsg(d.seq, b)) \in Step /\ CallerStep(Send(AckMsg(d.seq, b)))
               /\ Tag(Send(AckMsg(d.seq, b))) = "ACK"
    <2>1. AckMsg(d.seq, b) \in Message
      BY <1>1, <1>4, MessageTypes
    <2> QED
      BY <1>1, <1>4, <2>1, StepTypes, SendTags DEF CallerStep
  <1> QED
    BY <1>1, <1>2, <1>3, <1>4

-----------------------------------------------------------------------------
(* SetInviteResponse. *)
LEMMA CallerSets ==
  ASSUME Base, NEW d \in Dialog, d.invite = 0, SetDialog(Caller, d)
  PROVE  DialogsRight' /\ Out' = d /\ In' = In
  BY SetsDialog, Pair DEF Base, Out, In

LEMMA ProvisionalDoes ==
  ASSUME Base, NEW t \in Threads, NEW s, Out # None, Provisional(Caller, Out, s), Idle(Caller, t)
  PROVE  Rings100(s) /\ Works(Caller, t, {}) /\ In' = In /\ ListsRight' /\ DialogsRight'
  <1> DEFINE d == Out
             f == [d EXCEPT !.rel = @ \/ s = SessionProgress]
  <1>1. d \in Dialog /\ d.invite = 0
    BY Parties DEF Base, DialogsRight
  <1>2. s < 200 /\ todo' = todo /\ SetDialog(Caller, f)
    BY DEF Provisional
  <1> HIDE DEF d
  <1>3. f \in Dialog /\ SameNumbers(d, f) /\ SameTimes(d, f) /\ f.invite = 0
    BY <1>1 DEF Dialog, SameNumbers, SameTimes
  <1> HIDE DEF f
  <1>4. DialogsRight' /\ Out' = f /\ In' = In
    BY <1>2, <1>3, CallerSets
  <1>5. Works(Caller, t, {}) /\ ListsRight'
    <2>1. Works(Caller, t, Steps(Caller, t)) /\ ListsRight' /\ Steps(Caller, t) = {}
      BY <1>2, SameWorks, IdleSteps, Pair DEF Base
    <2> QED
      BY <2>1
  <1> QED
    BY <1>1, <1>2, <1>3, <1>4, <1>5 DEF Rings100, d

LEMMA JoinTwo == ASSUME NEW x \in Step, NEW y \in Step PROVE <<x>> \o <<y>> = <<x, y>>
  <1> DEFINE p == <<x>>
             q == <<y>>
             r == <<x, y>>
             c == p \o q
  <1>1. /\ p \in Seq(Step) /\ Len(p) = 1 /\ p[1] = x
        /\ q \in Seq(Step) /\ Len(q) = 1 /\ q[1] = y
        /\ r \in Seq(Step) /\ Len(r) = 2 /\ r[1] = x /\ r[2] = y
    OBVIOUS
  <1> HIDE DEF p, q, r
  <1>2. /\ c \in Seq(Step) /\ Len(c) = Len(p) + Len(q)
        /\ \A i \in 1..Len(p) + Len(q) : c[i] = IF i <= Len(p) THEN p[i] ELSE q[i - Len(p)]
    BY <1>1, ConcatProperties
  <1> HIDE DEF c
  <1>3. c[1] = x /\ c[2] = y /\ Len(c) = 2
    BY <1>1, <1>2
  <1>4. c = r
    BY <1>1, <1>2, <1>3, SeqEqual
  <1> QED
    BY <1>4 DEF p, q, r, c

LEMMA ConnectedDoes ==
  ASSUME Base, NEW t \in Threads, NEW s \in Statuses, Out # None, Connected(Caller, t, Out, s)
  PROVE  Connects(t, s) /\ In' = In /\ ListsRight' /\ DialogsRight'
  <1> DEFINE d == Out
             f == [d EXCEPT !.start = TRUE]
             k == Send(AckMsg(d.seq, 0))
             rest == IF d.cancel THEN <<StopStep>> ELSE IF d.start THEN <<>> ELSE <<Tell("start")>>
  <1>1. d \in Dialog /\ d.invite = 0
    BY Parties DEF Base, DialogsRight
  <1>2. s \in 200..299 /\ SetDialog(Caller, f) /\ Then(Caller, t, <<Send(Ack(Caller, d, s))>> \o rest)
    BY DEF Connected, StopStep
  <1>3. Ack(Caller, d, s) = AckMsg(d.seq, 0) /\ k \in Step /\ CallerStep(k) /\ Tag(k) = "ACK"
    <2>1. 0 \in 0..MaxSeq
      BY SeqFacts
    <2> QED
      BY <1>1, <1>2, <2>1, AckForms
  <1> HIDE DEF d
  <1>4. /\ f \in Dialog /\ SameNumbers(d, f) /\ f.start /\ f.invite = 0
        /\ (f.end <=> d.end) /\ (f.cancel <=> d.cancel)
    BY <1>1 DEF Dialog, SameNumbers
  <1> HIDE DEF f
  <1>5. DialogsRight' /\ Out' = f /\ In' = In
    BY <1>2, <1>4, CallerSets
  <1>6. Then(Caller, t, <<k>> \o rest)
    BY <1>2, <1>3
  <1> HIDE DEF k
  <1>7. ASSUME NEW x \in Step, rest = <<x>>, CallerStep(x), Tag(x) \notin {"ACK", "response", "end"}
        PROVE  Works(Caller, t, {k} \cup {x}) /\ ListsRight'
    <2>1. Then(Caller, t, <<k, x>>)
      <3>1. <<k>> \o <<x>> = <<k, x>>
        BY <1>3, JoinTwo
      <3> QED
        BY <1>6, <1>7, <3>1
    <2>2. Works(Caller, t, {k, x}) /\ ListsRight'
      BY <1>3, <1>7, <2>1, BeginTwo, Pair DEF Base
    <2>3. {k, x} = {k} \cup {x}
      OBVIOUS
    <2> QED
      BY <2>2, <2>3
  <1>8. Works(Caller, t, {k} \cup (IF d.cancel THEN {StopStep} ELSE IF d.start THEN {} ELSE {Tell("start")}))
        /\ ListsRight'
    <2>1. CASE d.cancel
      <3>1. StopStep \in Step /\ CallerStep(StopStep) /\ Tag(StopStep) = "stop" /\ rest = <<StopStep>>
        BY <2>1, StepTypes, PlainTags DEF CallerStep
      <3> QED
        BY <1>7, <2>1, <3>1
    <2>2. CASE ~d.cancel /\ d.start
      <3>1. <<k>> \o rest = <<k>>
        BY <2>2
      <3>2. Works(Caller, t, {k}) /\ ListsRight'
        BY <1>3, <1>6, <3>1, BeginOne, Pair DEF Base
      <3> QED
        BY <2>2, <3>2
    <2>3. CASE ~d.cancel /\ ~d.start
      <3>1. Tell("start") \in Step /\ CallerStep(Tell("start")) /\ Tag(Tell("start")) = "start"
            /\ rest = <<Tell("start")>>
        BY <2>3, StepTypes, PlainTags DEF CallerStep, Events
      <3> QED
        BY <1>7, <2>3, <3>1
    <2> QED
      BY <2>1, <2>2, <2>3
  <1> QED
    BY <1>1, <1>2, <1>4, <1>5, <1>8 DEF Connects, d, k

LEMMA RetriedDoes ==
  ASSUME Base, NEW t \in Threads, NEW s \in {Unauthorized, Moved}, NEW over \in BOOLEAN, Out # None,
         Retried(Caller, t, Out, over, s), s = Moved => ~Out.start, over <=> s = Moved
  PROVE  (\E n \in Seqs : Retries(t, s, n)) /\ In' = In /\ ListsRight' /\ DialogsRight'
  <1> DEFINE d == Out
             g == [d EXCEPT !.end = @ \/ over]
             f == NextInvite(g)
             n == NextSeq(g)
             k == Send(AckMsg(d.seq, d.branch))
  <1>1. d \in Dialog /\ d.invite = 0
    BY Parties DEF Base, DialogsRight
  <1>2. /\ ~d.cancel /\ CanInvite(d) /\ SetDialog(Caller, f)
        /\ Then(Caller, t, <<Send(Ack(Caller, d, s)), Send(Invite(Caller, f))>>)
    BY DEF Retried
  <1>3. s \in Statuses /\ s >= 300
    BY StatusFacts DEF Unauthorized, Moved
  <1>4. Ack(Caller, d, s) = AckMsg(d.seq, d.branch) /\ k \in Step /\ CallerStep(k) /\ Tag(k) = "ACK"
    BY <1>1, <1>3, AckForms
  <1> HIDE DEF d
  <1>5. /\ g \in Dialog /\ g.invite = 0 /\ g.seq = d.seq /\ g.next = d.next
        /\ (g.start <=> d.start) /\ (g.cancel <=> d.cancel) /\ (g.rel <=> d.rel)
        /\ (g.end <=> d.end \/ over)
    BY <1>1 DEF Dialog
  <1> HIDE DEF g
  <1>6. CanInvite(g) /\ n = NextSeq(d)
    BY <1>2, <1>5 DEF CanInvite, NextSeq
  <1>7. Renewed(g, f, n) /\ f.invite = 0 /\ (f.end <=> g.end)
    BY <1>5, <1>6, RenewedType, ScenarioSeqs
  <1> HIDE DEF f, n
  <1>8. Renewed(d, f, n) /\ (f.end <=> d.end \/ s = Moved) /\ n \in Seqs /\ f \in Dialog /\ f.seq = n
    BY <1>5, <1>6, <1>7 DEF Renewed
  <1>9. DialogsRight' /\ Out' = f /\ In' = In
    BY <1>2, <1>7, <1>8, CallerSets
  <1>10. Invite(Caller, f) = InviteMsg(n)
    BY <1>8, Pair DEF Invite, InviteMsg
  <1>11. /\ Send(InviteMsg(n)) \in Step /\ CallerStep(Send(InviteMsg(n)))
         /\ Tag(Send(InviteMsg(n))) = "INVITE"
    BY <1>8, MessageTypes, StepTypes, SendTags DEF CallerStep
  <1>12. Then(Caller, t, <<k, Send(InviteMsg(n))>>)
    BY <1>2, <1>4, <1>10
  <1> HIDE DEF k
  <1>13. Works(Caller, t, {k, Send(InviteMsg(n))}) /\ ListsRight'
    BY <1>4, <1>11, <1>12, BeginTwo, Pair DEF Base
  <1>14. Retries(t, s, n)
    BY <1>1, <1>2, <1>8, <1>9, <1>13 DEF Retries, d, k
  <1> QED
    BY <1>8, <1>9, <1>13, <1>14

LEMMA RefusedDoes ==
  ASSUME Base, NEW t \in Threads, NEW s \in Statuses, Out # None, Refused(Caller, t, Out, s)
  PROVE  (RefusesAgain(t, s) \/ Refuses(t, s)) /\ In' = In /\ ListsRight' /\ DialogsRight'
  <1> DEFINE d == Out
             f == [d EXCEPT !.end = @ \/ s # Unauthorized]
             k == Send(AckMsg(d.seq, d.branch))
  <1>1. d \in Dialog /\ d.invite = 0
    BY Parties DEF Base, DialogsRight
  <1>2. /\ s >= 300
        /\ s \in {Unauthorized, Moved} => d.cancel \/ (s = Moved /\ d.start)
        /\ IF s # Unauthorized /\ d.start
           THEN dialog' = dialog /\ Then(Caller, t, <<Send(Ack(Caller, d, s))>>)
           ELSE /\ SetDialog(Caller, f)
                /\ Then(Caller, t, <<Send(Ack(Caller, d, s)), Tell("end"), Delete>>)
    BY DEF Refused
  <1>3. Ack(Caller, d, s) = AckMsg(d.seq, d.branch) /\ k \in Step /\ CallerStep(k) /\ Tag(k) = "ACK"
    BY <1>1, <1>2, AckForms
  <1> HIDE DEF d
  <1>4. CASE s # Unauthorized /\ d.start
    <2>1. dialog' = dialog /\ Then(Caller, t, <<k>>)
      BY <1>2, <1>3, <1>4
    <2> HIDE DEF k
    <2>2. Works(Caller, t, {k}) /\ ListsRight'
      BY <1>3, <2>1, BeginOne, Pair DEF Base
    <2>3. DialogsRight' /\ Out' = Out /\ In' = In
      BY <2>1, SameDialogs DEF Base
    <2> QED
      BY <1>1, <1>2, <1>4, <2>2, <2>3 DEF RefusesAgain, d, k
  <1>5. CASE s = Unauthorized \/ ~d.start
    <2>1. SetDialog(Caller, f) /\ Then(Caller, t, <<k, Tell("end"), Delete>>)
      BY <1>2, <1>3, <1>5
    <2>2. /\ f \in Dialog /\ SameNumbers(d, f) /\ f.invite = 0
          /\ (f.start <=> d.start) /\ (f.cancel <=> d.cancel) /\ (f.end <=> d.end \/ s # Unauthorized)
      BY <1>1 DEF Dialog, SameNumbers
    <2> HIDE DEF k, f
    <2>3. Works(Caller, t, {k, Tell("end"), Delete}) /\ ListsRight'
      BY <1>3, <2>1, BeginThree, Pair DEF Base
    <2>4. DialogsRight' /\ Out' = f /\ In' = In
      BY <2>1, <2>2, CallerSets
    <2>5. s = Unauthorized => d.cancel
      <3>1. Unauthorized # Moved
        BY DEF Unauthorized, Moved
      <3> QED
        BY <1>2, <3>1
    <2> QED
      BY <1>1, <1>2, <1>5, <2>2, <2>3, <2>4, <2>5 DEF Refuses, d, k
  <1> QED
    BY <1>4, <1>5

LEMMA SetInviteResponseDoes ==
  ASSUME Base, NEW t \in Threads, NEW s \in Statuses, SetInviteResponse(Caller, t, s), Idle(Caller, t)
  PROVE  ResponseTaken(t, s) /\ ListsRight' /\ DialogsRight'
  <1>1. CASE Out = None /\ UNCHANGED <<dialog, todo>>
    <2>1. Works(Caller, t, Steps(Caller, t)) /\ ListsRight' /\ Steps(Caller, t) = {}
      BY <1>1, SameWorks, IdleSteps, Pair DEF Base
    <2>2. DialogsRight' /\ Out' = Out /\ In' = In
      BY <1>1, SameDialogs DEF Base
    <2>3. Works(Caller, t, {})
      BY <2>1
    <2> QED
      BY <1>1, <2>1, <2>2, <2>3 DEF ResponseTaken
  <1>2. CASE Out # None /\ Provisional(Caller, Out, s)
    BY <1>2, ProvisionalDoes DEF ResponseTaken
  <1>3. CASE Out # None /\ Connected(Caller, t, Out, s)
    BY <1>3, ConnectedDoes DEF ResponseTaken
  <1>4. CASE Out # None /\ Challenged(Caller, t, Out, s)
    <2>1. s = Unauthorized /\ Retried(Caller, t, Out, FALSE, s) /\ ~(s = Moved)
      <3>1. Unauthorized # Moved
        BY DEF Unauthorized, Moved
      <3> QED
        BY <1>4, <3>1 DEF Challenged
    <2>2. (\E n \in Seqs : Retries(t, s, n)) /\ In' = In /\ ListsRight' /\ DialogsRight'
      BY <1>4, <2>1, RetriedDoes
    <2> QED
      BY <2>2 DEF ResponseTaken
  <1>5. CASE Out # None /\ Redirected(Caller, t, Out, s)
    <2>1. s = Moved /\ Retried(Caller, t, Out, TRUE, s) /\ ~Out.start
      BY <1>5 DEF Redirected
    <2>2. (\E n \in Seqs : Retries(t, s, n)) /\ In' = In /\ ListsRight' /\ DialogsRight'
      BY <1>5, <2>1, RetriedDoes
    <2> QED
      BY <2>2 DEF ResponseTaken
  <1>6. CASE Out # None /\ Refused(Caller, t, Out, s)
    BY <1>6, RefusedDoes DEF ResponseTaken
  <1> QED
    BY <1>1, <1>2, <1>3, <1>4, <1>5, <1>6 DEF SetInviteResponse, Out

LEMMA RecvResponseDoes ==
  ASSUME Base, NEW a \in Agents, NEW t \in Threads, NEW m \in wire, RecvResponse(a, t, m)
  PROVE  (\E i \in Seqs, s \in Statuses : Hears(t, i, s)) /\ Right
  <1>1. PICK i \in Seqs, s \in Statuses : m = Answer(i, s)
    BY MessageForms DEF RecvResponse, Base, StackRight
  <1>2. a = Caller /\ m.seq = i /\ m.status = s
    BY <1>1, MessageParts DEF RecvResponse
  <1>3. Idle(Caller, t) /\ ist' = ist /\ Answer(i, s) \in wire
    BY <1>1, <1>2 DEF RecvResponse
  <1>4. wire' = {n \in wire : ~(n.kind = "response" /\ n.to = Caller /\ n.seq = i /\ n.status <= s)}
    BY <1>2 DEF RecvResponse
  <1>5. Overtaken(i, s)
    <2>1. wire' \subseteq wire
      BY <1>4
    <2>2. ASSUME NEW n \in wire
          PROVE  (n.kind = "response" /\ n.to = Caller /\ n.seq = i /\ n.status <= s)
                   <=> \E r \in Statuses : n = Answer(i, r) /\ r <= s
      <3>1. Carried(n)
        BY DEF Base, StackRight
      <3>2. ASSUME n.kind = "response", n.to = Caller, n.seq = i, n.status <= s
            PROVE  \E r \in Statuses : n = Answer(i, r) /\ r <= s
        <4>1. PICK j \in Seqs, r \in Statuses : n = Answer(j, r)
          BY <3>1, <3>2, MessageForms
        <4>2. j = i /\ n.status = r
          BY <3>2, <4>1, MessageParts
        <4> QED
          BY <3>2, <4>1, <4>2
      <3>3. ASSUME NEW r \in Statuses, n = Answer(i, r), r <= s
            PROVE  n.kind = "response" /\ n.to = Caller /\ n.seq = i /\ n.status <= s
        BY <3>3, MessageParts, MessageKinds
      <3> QED
        BY <3>2, <3>3
    <2> QED
      BY <1>4, <2>1, <2>2 DEF Overtaken
  <1>6. i \in Sent(Caller) <=> ict[Caller][i] \in Transaction
    BY SentFacts DEF Base
  <1>7. Steps(Caller, t) = {}
    BY <1>3, IdleSteps
  <1>8. \A n \in wire' : n \in wire
    BY <1>4
  <1>9. CASE ict[Caller][i] \in Transaction /\ ict[Caller][i].status # s
    <2> DEFINE x == [ict[Caller][i] EXCEPT !.status = s]
    <2>1. ict' = [ict EXCEPT ![Caller][i] = x] /\ SetInviteResponse(Caller, t, s)
      BY <1>2, <1>6, <1>9 DEF RecvResponse
    <2>2. x \in Transaction
      BY <1>9, TransactionFacts
    <2> HIDE DEF x
    <2>3. StackRight'
      BY <1>3, <1>8, <2>1, <2>2, SetsIct, SameIst, StackStays DEF Base
    <2>4. IctBecomes(i, x)
      BY <2>1, <2>2, SetsIct DEF Base
    <2>5. ResponseTaken(t, s) /\ ListsRight' /\ DialogsRight'
      BY <1>3, <2>1, SetInviteResponseDoes
    <2>6. Hears(t, i, s)
      BY <1>3, <1>5, <1>7, <1>9, <2>4, <2>5 DEF Hears, x
    <2> QED
      BY <2>3, <2>5, <2>6 DEF Right
  <1>10. CASE ~(ict[Caller][i] \in Transaction /\ ict[Caller][i].status # s)
    <2>1. UNCHANGED <<dialog, todo, ict>>
      BY <1>2, <1>6, <1>10 DEF RecvResponse
    <2>2. Works(Caller, t, Steps(Caller, t)) /\ ListsRight'
      BY <2>1, SameWorks, Pair DEF Base
    <2>3. Works(Caller, t, {}) /\ DialogsRight'
      BY <1>7, <2>1, <2>2, SameDialogs DEF Base
    <2>4. StackRight'
      BY <1>3, <1>8, <2>1, SameIct, SameIst, StackStays DEF Base
    <2>5. Hears(t, i, s)
      BY <1>3, <1>5, <1>7, <1>10, <2>1, <2>3 DEF Hears
    <2> QED
      BY <2>2, <2>3, <2>4, <2>5 DEF Right
  <1> QED
    BY <1>9, <1>10

LEMMA TimeOutDoes ==
  ASSUME Base, NEW a \in Agents, NEW t \in Threads, NEW i \in Seqs, TimeOut(a, t, i)
  PROVE  TimesOut(t, i) /\ Right
  <1>1. i \in Sent(a) /\ a = Caller
    BY SentFacts, Pair DEF TimeOut, Base
  <1>2. /\ May("timeout") /\ Idle(Caller, t) /\ ict[Caller][i] \in Transaction
        /\ ~ict[Caller][i].ack /\ ict[Caller][i].status < 200
        /\ ict' = [ict EXCEPT ![Caller][i] = Gone]
        /\ SetInviteResponse(Caller, t, RequestTimeout) /\ UNCHANGED <<ist, wire>>
    BY <1>1, SentFacts DEF TimeOut, Base
  <1>3. StackRight' /\ IctBecomes(i, Gone)
    BY <1>2, SetsIct, SameIst, StackStays DEF Base
  <1>4. ResponseTaken(t, RequestTimeout) /\ ListsRight' /\ DialogsRight'
    BY <1>2, StatusFacts, SetInviteResponseDoes
  <1> QED
    BY <1>2, <1>3, <1>4, IdleSteps DEF TimesOut, Right

LEMMA SendTimeoutDoes ==
  ASSUME Base, NEW a \in Agents, NEW t \in Threads, NEW i \in Seqs, SendTimeout(a, t, i)
  PROVE  GivesUp(t, i) /\ Right
  <1>1. /\ May("timeout") /\ Idle(a, t) /\ ist[a][i] = [status |-> Ok, ack |-> FALSE]
        /\ ist' = [ist EXCEPT ![a][i] = Gone] /\ Then(a, t, <<Tell("end"), Delete>>)
        /\ UNCHANGED <<dialog, ict, wire>>
    BY DEF SendTimeout
  <1>2. ist[a][i] \in Transaction /\ ist[a][i].status = Ok
    BY <1>1, StatusFacts DEF Transaction
  <1>3. a = Callee
    BY <1>2, NoneFacts, Pair DEF Base, StackRight
  <1>4. StackRight' /\ IstBecomes(i, Gone)
    BY <1>1, <1>3, SetsIst, SameIct, StackStays DEF Base
  <1>5. Works(Callee, t, {Tell("end"), Delete}) /\ ListsRight'
    BY <1>1, <1>3, BeginEnd DEF Base
  <1> QED
    BY <1>1, <1>2, <1>3, <1>4, <1>5, IdleSteps, SameDialogs DEF GivesUp, Right, Base

-----------------------------------------------------------------------------
(* All that a step does. *)
Calls(t) ==
  \/ CallStarts(t)
  \/ \E a \in Agents : HangsUp(a, t)
  \/ CallCancels(t)
  \/ \E i \in Seqs, s \in {Decline, Moved} : Rejects(t, i, s)
  \/ \E i \in Seqs : Accepts(t, i)
  \/ \E i \in Seqs : Rings(t, i)
  \/ \E n \in Seqs : ReInvites(t, n)
  \/ \E a \in Agents : Requests(a, t)
  \/ \E n \in Seqs : Pracks(t, n)
  \/ Nothing

Proceeds(t) ==
  \/ \E i \in Seqs : SendsInvite(t, i)
  \/ \E n, b \in 0..MaxSeq : SendsAck(t, n, b)
  \/ \E i \in Seqs, s \in Statuses : SendsAnswer(t, i, s)
  \/ SendsOther(Caller, t, CancelMsg)
  \/ \E a \in Agents : SendsOther(a, t, ByeMsg(Peer(a)))
  \/ \E n \in Seqs : SendsOther(Caller, t, PrackMsg(n))
  \/ \E a \in Agents, e \in Events : Tells(a, t, e)
  \/ \E a \in Agents : Deletes(a, t)
  \/ \E a \in Agents : EndsCall(a, t)
  \/ \E i \in Seqs : Inserts(t, i)
  \/ \E i \in Seqs : AnswersAgain(t, i)
  \/ HangsUp(Caller, t)
  \/ StopsNothing(t)

Receives(t) ==
  \/ \E i \in Seqs : \E S : InviteComes(t, i, S)
  \/ \E n, b \in 0..MaxSeq : AckComes(n, b)
  \/ CancelComes(t)
  \/ \E a \in Agents : ByeComes(a, t)
  \/ \E n \in Seqs : PrackComes(t, n)
  \/ \E i \in Seqs, s \in Statuses : Hears(t, i, s)

Expires(t) == \E i \in Seqs : TimesOut(t, i) \/ GivesUp(t, i)

LEMMA ApplicationDoes ==
  ASSUME Base, NEW a \in Agents, NEW t \in Threads, Application(a, t)
  PROVE  Calls(t) /\ Right /\ told' = told /\ stopped' \subseteq Agents
  <1>1. told' = told /\ stopped' \subseteq Agents
    BY DEF Application, Base, StartCall, StopCall, ForwardCall, AcceptCall, ReInvite, SendRequest, RingCall, SendPrack
  <1>2. CASE a = Caller /\ StartCall(t)
    BY <1>1, <1>2, StartCallDoes DEF Calls
  <1>3. CASE StopCall(a, t)
    BY <1>1, <1>3, StopCallDoes DEF Calls
  <1>4. CASE ForwardCall(a, t)
    BY <1>1, <1>4, ForwardCallDoes DEF Calls
  <1>5. CASE AcceptCall(a, t)
    BY <1>1, <1>5, AcceptCallDoes DEF Calls
  <1>6. CASE ReInvite(a, t)
    BY <1>1, <1>6, ReInviteDoes DEF Calls
  <1>7. CASE SendRequest(a, t)
    BY <1>1, <1>7, SendRequestDoes DEF Calls
  <1>8. CASE RingCall(a, t)
    BY <1>1, <1>8, RingCallDoes DEF Calls
  <1>9. CASE SendPrack(a, t)
    BY <1>1, <1>9, SendPrackDoes DEF Calls
  <1> QED
    BY <1>2, <1>3, <1>4, <1>5, <1>6, <1>7, <1>8, <1>9 DEF Application

LEMMA ProceedDoes ==
  ASSUME Base, NEW a \in Agents, NEW t \in Threads, Proceed(a, t)
  PROVE  /\ Proceeds(t) /\ Right /\ stopped' = stopped
         /\ told' = told \/ \E e \in Events : Tells(a, t, e) /\ told' = [told EXCEPT ![a] = Append(told[a], e)]
  <1> DEFINE m == Head(todo[a][t]).message
  <1>1. CASE SendInvite(a, t, m)
    <2>1. told' = told /\ stopped' = stopped
      BY <1>1 DEF SendInvite, SendNext
    <2> QED
      BY <1>1, <2>1, SendInviteDoes DEF Proceeds
  <1>2. CASE SendAck(a, t, m)
    <2>1. told' = told /\ stopped' = stopped
      BY <1>2 DEF SendAck, SendNext
    <2> QED
      BY <1>2, <2>1, AckSends DEF Proceeds
  <1>3. CASE SendResponse(a, t, m)
    <2>1. told' = told /\ stopped' = stopped
      BY <1>3 DEF SendResponse, SendNext
    <2> QED
      BY <1>3, <2>1, SendResponseDoes DEF Proceeds
  <1>4. CASE SendOther(a, t, m)
    <2>1. told' = told /\ stopped' = stopped
      BY <1>4 DEF SendOther, SendNext
    <2> QED
      BY <1>4, <2>1, SendOtherDoes DEF Proceeds
  <1>5. CASE DoTell(a, t)
    <2>1. stopped' = stopped
      BY <1>5 DEF DoTell
    <2> QED
      BY <1>5, <2>1, DoTellDoes DEF Proceeds
  <1>6. CASE DoDelete(a, t)
    <2>1. told' = told /\ stopped' = stopped
      BY <1>6 DEF DoDelete
    <2> QED
      BY <1>6, <2>1, DoDeleteDoes DEF Proceeds
  <1>7. CASE DoSetCallEnd(a, t)
    <2>1. told' = told /\ stopped' = stopped
      BY <1>7 DEF DoSetCallEnd
    <2> QED
      BY <1>7, <2>1, DoSetCallEndDoes DEF Proceeds
  <1>8. CASE DoInsert(a, t)
    <2>1. told' = told /\ stopped' = stopped
      BY <1>8 DEF DoInsert
    <2> QED
      BY <1>8, <2>1, DoInsertDoes DEF Proceeds
  <1>9. CASE DoAnswer(a, t)
    <2>1. told' = told /\ stopped' = stopped
      BY <1>9 DEF DoAnswer
    <2> QED
      BY <1>9, <2>1, DoAnswerDoes DEF Proceeds
  <1>10. CASE DoStop(a, t)
    <2>1. told' = told /\ stopped' = stopped
      BY <1>10 DEF DoStop
    <2> QED
      BY <1>10, <2>1, DoStopDoes DEF Proceeds
  <1> QED
    BY <1>1, <1>2, <1>3, <1>4, <1>5, <1>6, <1>7, <1>8, <1>9, <1>10 DEF Proceed

LEMMA ReceiveDoes ==
  ASSUME Base, NEW a \in Agents, NEW t \in Threads, Receive(a, t)
  PROVE  Receives(t) /\ Right /\ told' = told /\ stopped' = stopped
  <1>1. PICK m \in wire : \/ RecvInvite(a, t, m) \/ RecvAck(a, m) \/ RecvCancel(a, t, m)
                          \/ RecvBye(a, t, m) \/ RecvPrack(a, t, m) \/ RecvResponse(a, t, m)
    BY DEF Receive
  <1>2. told' = told /\ stopped' = stopped
    BY <1>1 DEF RecvInvite, RecvAck, RecvCancel, RecvBye, RecvPrack, RecvResponse
  <1>3. CASE RecvInvite(a, t, m)
    BY <1>2, <1>3, RecvInviteDoes DEF Receives
  <1>4. CASE RecvAck(a, m)
    BY <1>2, <1>4, RecvAckDoes DEF Receives
  <1>5. CASE RecvCancel(a, t, m)
    BY <1>2, <1>5, RecvCancelDoes DEF Receives
  <1>6. CASE RecvBye(a, t, m)
    BY <1>2, <1>6, RecvByeDoes DEF Receives
  <1>7. CASE RecvPrack(a, t, m)
    BY <1>2, <1>7, RecvPrackDoes DEF Receives
  <1>8. CASE RecvResponse(a, t, m)
    BY <1>2, <1>8, RecvResponseDoes DEF Receives
  <1> QED
    BY <1>1, <1>3, <1>4, <1>5, <1>6, <1>7, <1>8

LEMMA ExpireDoes ==
  ASSUME Base, NEW a \in Agents, NEW t \in Threads, Expire(a, t)
  PROVE  Expires(t) /\ Right /\ told' = told /\ stopped' = stopped
  <1>1. PICK i \in Seqs : TimeOut(a, t, i) \/ SendTimeout(a, t, i)
    BY DEF Expire
  <1>2. told' = told /\ stopped' = stopped
    BY <1>1 DEF TimeOut, SendTimeout
  <1> QED
    BY <1>1, <1>2, TimeOutDoes, SendTimeoutDoes DEF Expires

(* Whatever happens, one thread of one user has something else to do.      *)
LEMMA OneWorks ==
  ASSUME Base, NEW t \in Threads, Calls(t) \/ Proceeds(t) \/ Receives(t) \/ Expires(t)
  PROVE  \E a \in Agents : \E S : Works(a, t, S)
  <1>1. ASSUME NEW a \in Agents, NEW S, Works(a, t, S)
        PROVE  \E b \in Agents : \E R : Works(b, t, R)
    BY <1>1
  <1>2. Caller \in Agents /\ Callee \in Agents
    BY Pair
  <1>3. todo' = todo => Works(Caller, t, Steps(Caller, t))
    BY <1>2, SameWorks DEF Base
  <1>4. CASE Calls(t)
    BY <1>1, <1>2, <1>3, <1>4 DEF Calls, CallStarts, HangsUp, CallCancels, Rejects, Accepts, Rings,
       ReInvites, Requests, Pracks, Nothing
  <1>5. CASE Proceeds(t)
    BY <1>1, <1>2, <1>3, <1>5 DEF Proceeds, SendsInvite, SendsAck, SendsAnswer, SendsOther, Sends, Tells,
       Deletes, EndsCall, Inserts, AnswersAgain, HangsUp, StopsNothing
  <1>6. ASSUME NEW s, ResponseTaken(t, s)
        PROVE  \E b \in Agents : \E R : Works(b, t, R)
    BY <1>1, <1>2, <1>6 DEF ResponseTaken, Connects, Retries, RefusesAgain, Refuses
  <1>7. CASE Receives(t)
    BY <1>1, <1>2, <1>3, <1>6, <1>7 DEF Receives, InviteComes, AckComes, CancelComes, ByeComes, PrackComes, Hears
  <1>8. CASE Expires(t)
    BY <1>1, <1>2, <1>6, <1>8 DEF Expires, TimesOut, GivesUp
  <1> QED
    BY <1>4, <1>5, <1>7, <1>8

Acts(t) == Calls(t) \/ Proceeds(t) \/ Receives(t) \/ Expires(t)

LEMMA NextDoes ==
  ASSUME Base, Next
  PROVE  /\ scenario' = scenario
         /\ Base'
         /\ \E t \in Workers : Acts(t)
         /\ \/ told' = told
            \/ \E a \in Agents, t \in Workers, e \in Events :
                 Tells(a, t, e) /\ told' = [told EXCEPT ![a] = Append(told[a], e)]
  <1>1. PICK a \in Agents, t \in Workers :
          scenario' = scenario /\ (Application(a, t) \/ Proceed(a, t) \/ Receive(a, t) \/ Expire(a, t))
    BY DEF Next, Progress
  <1>2. t \in Threads
    BY WorkerThreads
  <1>3. Acts(t) /\ Right /\ stopped' \subseteq Agents
        /\ \/ told' = told
           \/ \E e \in Events : Tells(a, t, e) /\ told' = [told EXCEPT ![a] = Append(told[a], e)]
    <2>1. stopped \subseteq Agents
      BY DEF Base
    <2> QED
      BY <1>1, <1>2, <2>1, ApplicationDoes, ProceedDoes, ReceiveDoes, ExpireDoes DEF Acts
  <1>4. PICK b \in Agents : \E S : Works(b, t, S)
    BY <1>2, <1>3, OneWorks DEF Acts
  <1>5. Alone'
    BY <1>1, <1>4, StillAlone DEF Base
  <1>6. told' \in [Agents -> Seq(Events)]
    <2>1. told \in [Agents -> Seq(Events)]
      BY DEF Base
    <2>2. ASSUME NEW e \in Events, told' = [told EXCEPT ![a] = Append(told[a], e)]
          PROVE  told' \in [Agents -> Seq(Events)]
      <3>1. Append(told[a], e) \in Seq(Events)
        BY <2>1
      <3> QED
        BY <2>1, <2>2, <3>1
    <2> QED
      BY <1>3, <2>1, <2>2
  <1>7. Base'
    BY <1>1, <1>3, <1>5, <1>6 DEF Base, Right
  <1> QED
    BY <1>1, <1>3, <1>7

LEMMA SameBase == ASSUME Base, UNCHANGED vars PROVE Base'
  BY DEF Base, vars, ListsRight, DialogsRight, StackRight, Alone, Steps, Out, In, Workers, May

LEMMA BaseInit == Init => Base
  <1> SUFFICES ASSUME Init PROVE Base
    OBVIOUS
  <1>1. ListsRight
    <2>1. \A a \in Agents, t \in Threads : todo[a][t] = <<>>
      BY DEF Init
    <2>2. todo \in [Agents -> [Threads -> Seq(Step)]]
      BY EmptyList DEF Init
    <2> QED
      BY <2>1, <2>2, EmptyList, Pair DEF ListsRight, Steps
  <1>2. DialogsRight /\ Out = None /\ In = None
    BY Pair DEF Init, DialogsRight, Out, In
  <1>3. StackRight
    BY Pair DEF Init, StackRight
  <1>4. Alone
    <2>1. \A a \in Agents, t \in Threads : todo[a][t] = <<>>
      BY DEF Init
    <2> QED
      BY <2>1, EmptyList DEF Alone, Steps
  <1>5. told \in [Agents -> Seq(Events)]
    BY DEF Init
  <1> QED
    BY <1>1, <1>2, <1>3, <1>4, <1>5 DEF Base, Init

(* Every variable keeps its type.                                          *)
THEOREM TypeCorrect == Spec => []TypeOK
  <1>1. Init => Base
    BY BaseInit
  <1>2. Base /\ [Next]_vars => Base'
    BY NextDoes, SameBase
  <1> QED
    BY <1>1, <1>2, BaseType, PTL DEF Spec

-----------------------------------------------------------------------------
(* What a step changes, and what it keeps. *)
LEMMA WorksHas ==
  ASSUME NEW a \in Agents, NEW t \in Threads, NEW S, Works(a, t, S)
  PROVE  /\ \A s : Has(a, s)' <=> (s \in S \/ \E u \in Threads \ {t} : s \in Steps(a, u))
         /\ \A b \in Agents \ {a} : \A s : Has(b, s)' <=> Has(b, s)
         /\ \A s : Has(a, s)' => s \in S \/ Has(a, s)
         /\ \A s : Has(a, s) /\ s \notin Steps(a, t) => Has(a, s)'
         /\ \A s : s \in S => Has(a, s)'
         /\ \A b \in Agents, u \in Threads : b # a \/ u # t => Steps(b, u)' = Steps(b, u)
         /\ Steps(a, t)' = S
  BY DEF Works, Has

LEMMA HasSteps == \A a, s : \A t \in Threads : s \in Steps(a, t) => Has(a, s)
  BY DEF Has

(* Transactions that are there remain. *)
LEMMA Grows ==
  ASSUME Base, NEW t \in Threads, Acts(t), NEW i \in Seqs
  PROVE  /\ ict[Caller][i] # None => ict'[Caller][i] # None
         /\ ist[Callee][i] # None => ist'[Callee][i] # None
  <1>1. ASSUME NEW j \in Seqs, NEW x, x # None, IctBecomes(j, x)
        PROVE  ict[Caller][i] # None => ict'[Caller][i] # None
    BY <1>1 DEF IctBecomes
  <1>2. ASSUME NEW j \in Seqs, NEW x, x # None, IstBecomes(j, x)
        PROVE  ist[Callee][i] # None => ist'[Callee][i] # None
    BY <1>2 DEF IstBecomes
  <1>3. NewTransaction # None /\ Gone # None
    BY NoneFacts
  <1>4. \A x \in Transaction :
          /\ [x EXCEPT !.ack = TRUE] # None /\ Acked(x, TRUE) # None
          /\ \A s \in Statuses : [x EXCEPT !.status = s] # None
    <2> SUFFICES ASSUME NEW x \in Transaction
                 PROVE  /\ [x EXCEPT !.ack = TRUE] # None /\ Acked(x, TRUE) # None
                        /\ \A s \in Statuses : [x EXCEPT !.status = s] # None
      OBVIOUS
    <2>1. [x EXCEPT !.ack = TRUE] \in Transaction /\ Acked(x, TRUE) \in Transaction \cup {Gone}
          /\ \A s \in Statuses : [x EXCEPT !.status = s] \in Transaction
      BY TransactionFacts
    <2>2. \A y : y \in Transaction \cup {Gone} => y # None
      BY NoneFacts
    <2> QED
      BY <2>1, <2>2
  <1>5. CASE Calls(t)
    BY <1>5 DEF Calls, CallStarts, HangsUp, CallCancels, Rejects, Accepts, Rings,
       ReInvites, Requests, Pracks, Nothing, Rest
  <1>6. CASE Proceeds(t)
    <2>1. \A n, b \in 0..MaxSeq : SendsAck(t, n, b) => ist' = ist /\ (ict[Caller][i] # None => ict'[Caller][i] # None)
      <3> SUFFICES ASSUME NEW n \in 0..MaxSeq, NEW b \in 0..MaxSeq, AckGoes(n, b)
                   PROVE  ict[Caller][i] # None => ict'[Caller][i] # None
        BY DEF SendsAck
      <3>1. \A k \in Sent(Caller) : k \in Seqs /\ ict[Caller][k] \in Transaction
        BY SentFacts DEF Base
      <3> QED
        BY <1>1, <1>4, <3>1 DEF AckGoes
    <2>2. \A k \in Seqs, s \in Statuses : SendsAnswer(t, k, s) => ict' = ict /\ (ist[Callee][i] # None => ist'[Callee][i] # None)
      BY <1>2, <1>4 DEF SendsAnswer
    <2>3. \A k \in Seqs : SendsInvite(t, k) => ist' = ist /\ (ict[Caller][i] # None => ict'[Caller][i] # None)
      BY <1>1, <1>3 DEF SendsInvite
    <2> QED
      BY <1>6, <2>1, <2>2, <2>3 DEF Proceeds, SendsOther, Tells,
       Deletes, EndsCall, Inserts, AnswersAgain, HangsUp, StopsNothing, Rest
  <1>7. CASE Receives(t)
    BY <1>1, <1>2, <1>3, <1>4, <1>7 DEF Receives, InviteComes, AckComes, CancelComes, ByeComes, PrackComes, Hears
  <1>8. CASE Expires(t)
    BY <1>1, <1>2, <1>3, <1>8 DEF Expires, TimesOut, GivesUp
  <1> QED
    BY <1>5, <1>6, <1>7, <1>8 DEF Acts

-----------------------------------------------------------------------------
(* Before the first INVITE is sent there is nothing else.                  *)
Fresh ==
  ict[Caller][1] = None =>
    /\ \A m \in wire : m = CancelMsg
    /\ In = None
    /\ \A i \in Seqs : ict[Caller][i] = None /\ ist[Callee][i] = None
    /\ \A t \in Threads : /\ \A s \in Steps(Caller, t) : s = Send(InviteMsg(1)) \/ s = Send(CancelMsg)
                          /\ Steps(Callee, t) = {}
    /\ Out = None => \A t \in Threads : Steps(Caller, t) = {}
    /\ Out # None => /\ Out.seq = 1 /\ Out.branch = 1 /\ Out.next = 0 /\ ~Out.start /\ ~Out.end /\ ~Out.rel
                     /\ Has(Caller, Send(InviteMsg(1)))

LEMMA FreshStep ==
  ASSUME Base, Fresh, NEW t \in Threads, Acts(t)
  PROVE  Fresh'
  <1>1. SUFFICES ASSUME ict'[Caller][1] = None PROVE Fresh'
    BY DEF Fresh
  <1>2. ict[Caller][1] = None
    BY <1>1, Grows, SeqFacts
  <1>3. /\ \A m \in wire : m = CancelMsg
        /\ In = None
        /\ \A i \in Seqs : ict[Caller][i] = None /\ ist[Callee][i] = None
        /\ \A u \in Threads : /\ \A s \in Steps(Caller, u) : s = Send(InviteMsg(1)) \/ s = Send(CancelMsg)
                              /\ Steps(Callee, u) = {}
        /\ Out = None => \A u \in Threads : Steps(Caller, u) = {}
        /\ Out # None => /\ Out.seq = 1 /\ Out.branch = 1 /\ Out.next = 0 /\ ~Out.start /\ ~Out.end /\ ~Out.rel
                         /\ Has(Caller, Send(InviteMsg(1)))
    BY <1>2 DEF Fresh
  <1>4. Caller \in Agents /\ Callee \in Agents /\ Caller # Callee /\ Agents = {Caller, Callee}
    BY Pair
  <1>5. None \notin Dialog /\ None \notin Transaction /\ NewTransaction # None
    BY NoneFacts
  <1>6. /\ \A i : Send(InviteMsg(i)) # Send(CancelMsg)
        /\ \A i : InviteMsg(i) # CancelMsg
    BY SendTags, MessageKinds
  <1>7. Out = dialog[Caller] /\ In = dialog[Callee]
    BY DEF Out, In
  <1>8. CASE CallStarts(t)
    <2>1. \A u \in Threads : Steps(Callee, u)' = {} /\ Steps(Caller, u)' = IF u = t THEN {Send(InviteMsg(1))} ELSE {}
      BY <1>3, <1>4, <1>8 DEF CallStarts, Works
    <2>2. Has(Caller, Send(InviteMsg(1)))'
      BY <2>1 DEF Has
    <2> QED
      BY <1>3, <1>5, <1>8, <2>1, <2>2 DEF CallStarts, Fresh, Rest
  <1>9. CASE CallCancels(t)
    <2>1. \A u \in Threads : Steps(Callee, u)' = {} /\ Steps(Caller, u)' = IF u = t THEN {Send(CancelMsg)} ELSE Steps(Caller, u)
      BY <1>3, <1>4, <1>9 DEF CallCancels, Works
    <2>2. Has(Caller, Send(InviteMsg(1)))'
      BY <1>3, <1>5, <1>9, <2>1 DEF Has, CallCancels
    <2> QED
      BY <1>3, <1>5, <1>9, <2>1, <2>2 DEF CallCancels, Fresh, Rest, SameNumbers
  <1>10. CASE Nothing
    BY <1>3, <1>10 DEF Nothing, Fresh, Has, Steps, Out, In
  <1>11. CASE SendsOther(Caller, t, CancelMsg)
    <2>1. \A u \in Threads : Steps(Callee, u)' = {} /\ Steps(Caller, u)' \subseteq Steps(Caller, u)
                             /\ \A s \in Steps(Caller, u) : s # Send(CancelMsg) => s \in Steps(Caller, u)'
      BY <1>3, <1>4, <1>11 DEF SendsOther, Sends, Works
    <2>2. Has(Caller, Send(InviteMsg(1))) => Has(Caller, Send(InviteMsg(1)))'
      BY <1>6, <2>1 DEF Has
    <2>3. Out' = Out /\ In' = In /\ UNCHANGED <<ict, ist>> /\ wire' = wire \cup {CancelMsg}
      BY <1>11 DEF SendsOther, Sends, Out, In
    <2> QED
      BY <1>3, <2>1, <2>2, <2>3 DEF Fresh
  <1>12. CASE CancelComes(t)
    <2>1. dialog' = dialog /\ Works(Callee, t, {}) /\ wire' \subseteq wire /\ UNCHANGED <<ict, ist>>
      BY <1>3, <1>5, <1>12 DEF CancelComes, Arrives
    <2>2. \A u \in Threads : Steps(Callee, u)' = {} /\ Steps(Caller, u)' = Steps(Caller, u)
      BY <1>3, <1>4, <2>1 DEF Works
    <2>3. Has(Caller, Send(InviteMsg(1))) => Has(Caller, Send(InviteMsg(1)))'
      BY <2>2 DEF Has
    <2> QED
      BY <1>3, <2>1, <2>2, <2>3 DEF Fresh, Out, In
  <1>13. ~(\E i \in Seqs : SendsInvite(t, i))
    <2> SUFFICES ASSUME NEW i \in Seqs, SendsInvite(t, i) PROVE FALSE
      OBVIOUS
    <2>1. Send(InviteMsg(i)) \in Steps(Caller, t)
      BY DEF SendsInvite
    <2>2. i = 1
      BY <1>3, <1>6, <2>1, SendSame, MessageSame
    <2> QED
      BY <1>1, <1>5, <2>2, SeqFacts DEF SendsInvite, IctBecomes
  <1>14. ~(\E n, b \in 0..MaxSeq : SendsAck(t, n, b))
    BY <1>3, SendTags DEF SendsAck, Sends
  <1>15. CASE Calls(t)
    <2>1. \A a \in Agents : ~HangsUp(a, t) /\ ~Requests(a, t)
      BY <1>3, <1>4, <1>5, <1>7 DEF HangsUp, Requests
    <2>2. \A i \in Seqs : /\ ~Accepts(t, i) /\ ~Rings(t, i) /\ ~ReInvites(t, i) /\ ~Pracks(t, i)
                          /\ \A s \in {Decline, Moved} : ~Rejects(t, i, s)
      BY <1>3, <1>5 DEF Rejects, Accepts, Rings, ReInvites, Pracks
    <2> QED
      BY <1>8, <1>9, <1>10, <1>15, <2>1, <2>2 DEF Calls
  <1>16. CASE Proceeds(t)
    <2>1. \A s \in Steps(Caller, t) : Tag(s) \in {"INVITE", "CANCEL"}
      BY <1>3, SendTags
    <2>2. Steps(Callee, t) = {}
      BY <1>3
    <2>3. \A a \in Agents, e \in Events : ~Tells(a, t, e)
      <3>1. \A e \in Events : Tag(Tell(e)) \notin {"INVITE", "CANCEL"}
        BY StepTags DEF Events
      <3> QED
        BY <1>4, <2>1, <2>2, <3>1 DEF Tells
    <2>4. \A a \in Agents : ~Deletes(a, t) /\ ~EndsCall(a, t) /\ ~SendsOther(a, t, ByeMsg(Peer(a)))
      BY <1>4, <2>1, <2>2, SendTags, PlainTags DEF Deletes, EndsCall, SendsOther
    <2>5. \A i \in Seqs : ~Inserts(t, i) /\ ~AnswersAgain(t, i) /\ ~SendsOther(Caller, t, PrackMsg(i))
                          /\ \A s \in Statuses : ~SendsAnswer(t, i, s)
      BY <2>1, <2>2, SendTags, PlainTags DEF Inserts, AnswersAgain, SendsOther, SendsAnswer, Sends
    <2>6. ~StopsNothing(t) /\ ~HangsUp(Caller, t)
      BY <1>3, <1>5, <1>7, <2>1, PlainTags DEF StopsNothing, HangsUp
    <2> QED
      BY <1>11, <1>13, <1>14, <1>16, <2>3, <2>4, <2>5, <2>6 DEF Proceeds
  <1>17. CASE Receives(t)
    <2>1. \A m : m.kind # "CANCEL" => m \notin wire
      BY <1>3, MessageKinds
    <2>2. \A i \in Seqs : /\ InviteMsg(i) \notin wire /\ PrackMsg(i) \notin wire
                          /\ \A s \in Statuses : Answer(i, s) \notin wire
      BY <2>1, MessageKinds
    <2>3. \A n, b \in 0..MaxSeq : AckMsg(n, b) \notin wire
      BY <2>1, MessageKinds
    <2>4. \A a \in Agents : ByeMsg(a) \notin wire
      BY <2>1, MessageKinds
    <2> QED
      BY <1>12, <1>17, <2>2, <2>3, <2>4 DEF Receives, InviteComes, AckComes, ByeComes, PrackComes, Hears, Arrives
  <1>18. CASE Expires(t)
    BY <1>3, <1>5, <1>18 DEF Expires, TimesOut, GivesUp
  <1> QED
    BY <1>15, <1>16, <1>17, <1>18 DEF Acts

-----------------------------------------------------------------------------
(* The numbers of INVITEs and PRACKs. *)
Made(i) == ict[Caller][i] # None \/ Has(Caller, Send(InviteMsg(i)))

InviteOnce(i) ==
  /\ \A t, u \in Threads :
       Send(InviteMsg(i)) \in Steps(Caller, t) /\ Send(InviteMsg(i)) \in Steps(Caller, u) => t = u
  /\ Has(Caller, Send(InviteMsg(i))) =>
       ict[Caller][i] = None /\ ist[Callee][i] = None /\ InviteMsg(i) \notin wire
  /\ InviteMsg(i) \in wire => ict[Caller][i] # None /\ ist[Callee][i] = None
  /\ ict[Caller][i] # None <=> InviteMsg(i) \in wire \/ ist[Callee][i] # None

LastInvite ==
  Out # None =>
    /\ Out.next \in {0, Out.seq + 2} /\ Out.seq >= 1
    /\ Out.branch \in Seqs /\ Made(Out.branch) /\ \A j \in Seqs : Made(j) => j <= Out.branch
    /\ Out.branch <= Out.seq /\ (~Out.start => Out.seq = Out.branch)

PrackFresh(n) ==
  PrackMsg(n) \in wire \/ Has(Caller, Send(PrackMsg(n))) =>
    /\ ~Made(n)
    /\ Out # None => (Out.seq + 1 = n /\ Out.next = n + 1) \/ Out.seq > n

Numbers ==
  /\ Fresh /\ LastInvite
  /\ \A i \in Seqs : InviteOnce(i) /\ PrackFresh(i)

SameInvites ==
  \A i \in Seqs :
    /\ ict'[Caller][i] = None <=> ict[Caller][i] = None
    /\ ist'[Callee][i] = None <=> ist[Callee][i] = None
    /\ InviteMsg(i) \in wire' <=> InviteMsg(i) \in wire
    /\ PrackMsg(i) \in wire' => PrackMsg(i) \in wire \/ Has(Caller, Send(PrackMsg(i)))

SameRequests ==
  \A i \in Seqs, u \in Threads :
    /\ Send(InviteMsg(i)) \in Steps(Caller, u)' <=> Send(InviteMsg(i)) \in Steps(Caller, u)
    /\ Send(PrackMsg(i)) \in Steps(Caller, u)' => Send(PrackMsg(i)) \in Steps(Caller, u)

SameCall ==
  Out' = None \/ (Out # None /\ SameNumbers(Out, Out') /\ (Out.start => Out'.start))

Kept == SameInvites /\ SameRequests /\ SameCall

Renews(t, n) ==
  /\ Out \in Dialog /\ Renewed(Out, Out', n) /\ Steps(Caller, t) = {}
  /\ SameInvites
  /\ \A u \in Threads \ {t} : Steps(Caller, u)' = Steps(Caller, u)
  /\ \A i \in Seqs : /\ Send(InviteMsg(i)) \in Steps(Caller, t)' <=> i = n
                     /\ Send(PrackMsg(i)) \notin Steps(Caller, t)'

LEMMA KeptNumbers ==
  ASSUME Base, Numbers, Fresh', Kept
  PROVE  Numbers'
  <1>1. \A i \in Seqs : /\ Has(Caller, Send(InviteMsg(i)))' <=> Has(Caller, Send(InviteMsg(i)))
                        /\ Has(Caller, Send(PrackMsg(i)))' => Has(Caller, Send(PrackMsg(i)))
    BY DEF Kept, SameRequests, Has
  <1>2. \A i \in Seqs : Made(i)' <=> Made(i)
    BY <1>1 DEF Made, Kept, SameInvites
  <1>3. \A i \in Seqs : InviteOnce(i)'
    BY <1>1 DEF Numbers, InviteOnce, Kept, SameInvites, SameRequests
  <1>4. LastInvite'
    <2> SUFFICES ASSUME Out' # None PROVE LastInvite'
      BY DEF LastInvite
    <2>1. Out # None /\ SameNumbers(Out, Out') /\ (Out.start => Out'.start)
      BY DEF Kept, SameCall
    <2> QED
      BY <1>2, <2>1 DEF LastInvite, Numbers, SameNumbers
  <1>5. ASSUME NEW n \in Seqs
        PROVE  PrackFresh(n)'
    <2> SUFFICES ASSUME PrackMsg(n) \in wire' \/ Has(Caller, Send(PrackMsg(n)))' PROVE PrackFresh(n)'
      BY DEF PrackFresh
    <2>1. PrackMsg(n) \in wire \/ Has(Caller, Send(PrackMsg(n)))
      BY <1>1 DEF Kept, SameInvites
    <2>2. /\ ~Made(n)
          /\ Out # None => (Out.seq + 1 = n /\ Out.next = n + 1) \/ Out.seq > n
      BY <2>1 DEF Numbers, PrackFresh
    <2>3. Out' # None => Out # None /\ SameNumbers(Out, Out')
      BY DEF Kept, SameCall
    <2> QED
      BY <1>2, <2>2, <2>3 DEF PrackFresh, SameNumbers
  <1> QED
    BY <1>3, <1>4, <1>5 DEF Numbers

LEMMA DialogRange ==
  ASSUME Base
  PROVE  /\ Out # None => Out \in Dialog /\ Out.seq \in Nat /\ Out.next \in Nat /\ Out.branch \in Nat
         /\ In # None => In \in Dialog /\ In.invite \in 0..MaxSeq
  BY Parties, SeqFacts DEF Dialog

LEMMA RenewsNumbers ==
  ASSUME Base, Base', Numbers, Fresh', NEW t \in Threads, NEW n \in Seqs, Renews(t, n)
  PROVE  Numbers'
  <1>1. /\ Out # None /\ n = NextSeq(Out) /\ Out'.seq = n /\ Out'.next = 0 /\ Out'.branch = n /\ Out' # None
        /\ (Out'.start <=> Out.start)
    BY NoneFacts DEF Renews, Renewed
  <1>2. n > Out.seq /\ n > Out.branch /\ (Out.next # 0 => n = Out.next) /\ n \in Nat /\ n >= 1
        /\ Out.seq \in Nat /\ Out.branch \in Nat
    <2>1. Out \in Dialog /\ Out.seq \in Nat /\ Out.next \in Nat /\ Out.branch \in Nat
      BY <1>1, DialogRange
    <2>2. Out.next \in {0, Out.seq + 2} /\ Out.branch <= Out.seq
      BY <1>1 DEF Numbers, LastInvite
    <2>3. n > Out.seq /\ (Out.next # 0 => n = Out.next)
      BY <1>1, <2>1, <2>2, NextSeqFacts
    <2>4. n \in Nat /\ n >= 1
      BY SeqFacts
    <2> QED
      BY <2>1, <2>2, <2>3, <2>4
  <1>3. ~Made(n)
    BY <1>1, <1>2 DEF Numbers, LastInvite
  <1>4. \A i \in Seqs : /\ Has(Caller, Send(InviteMsg(i)))' <=> i = n \/ Has(Caller, Send(InviteMsg(i)))
                        /\ Has(Caller, Send(PrackMsg(i)))' => Has(Caller, Send(PrackMsg(i)))
    BY DEF Renews, Has
  <1>5. \A i \in Seqs : Made(i)' <=> i = n \/ Made(i)
    <2>1. \A i \in Seqs : ict'[Caller][i] = None <=> ict[Caller][i] = None
      BY DEF Renews, SameInvites
    <2> QED
      BY <1>4, <2>1 DEF Made
  <1>6. \A i \in Seqs : InviteOnce(i)'
    <2>1. SUFFICES ASSUME NEW i \in Seqs PROVE InviteOnce(i)'
      OBVIOUS
    <2>2. CASE i = n
      <3>1. \A u \in Threads : Send(InviteMsg(i)) \in Steps(Caller, u)' => u = t
        BY <1>3, <2>2, HasSteps DEF Renews, Made
      <3>2. ict[Caller][i] = None /\ InviteMsg(i) \notin wire /\ ist[Callee][i] = None
        BY <1>3, <2>2 DEF Made, Numbers, InviteOnce
      <3> QED
        BY <3>1, <3>2 DEF InviteOnce, Renews, SameInvites
    <2>3. CASE i # n
      <3>1. \A u \in Threads : Send(InviteMsg(i)) \in Steps(Caller, u)' => Send(InviteMsg(i)) \in Steps(Caller, u)
        BY <2>3 DEF Renews
      <3>2. Has(Caller, Send(InviteMsg(i)))' <=> Has(Caller, Send(InviteMsg(i)))
        BY <1>4, <2>3
      <3> QED
        BY <3>1, <3>2 DEF InviteOnce, Renews, SameInvites, Numbers
    <2> QED
      BY <2>2, <2>3
  <1>7. LastInvite'
    <2>1. \A j \in Seqs : Made(j)' => j <= n
      <3> SUFFICES ASSUME NEW j \in Seqs, Made(j)' PROVE j <= n
        OBVIOUS
      <3>1. CASE j = n
        BY <1>2, <3>1
      <3>2. CASE Made(j)
        <4>1. j <= Out.branch /\ j \in Nat
          BY <1>1, <3>2, SeqFacts DEF Numbers, LastInvite
        <4> QED
          BY <1>2, <4>1
      <3> QED
        BY <1>5, <3>1, <3>2
    <2>2. Made(n)'
      BY <1>5
    <2> QED
      BY <1>1, <1>2, <2>1, <2>2 DEF LastInvite
  <1>8. ASSUME NEW m \in Seqs
        PROVE  PrackFresh(m)'
    <2> SUFFICES ASSUME PrackMsg(m) \in wire' \/ Has(Caller, Send(PrackMsg(m)))' PROVE PrackFresh(m)'
      BY DEF PrackFresh
    <2>1. PrackMsg(m) \in wire \/ Has(Caller, Send(PrackMsg(m)))
      BY <1>4 DEF Renews, SameInvites
    <2>2. ~Made(m) /\ ((Out.seq + 1 = m /\ Out.next = m + 1) \/ Out.seq > m)
      BY <1>1, <2>1 DEF Numbers, PrackFresh
    <2>3. m \in Nat
      BY SeqFacts
    <2>4. m < n
      BY <1>2, <2>2, <2>3
    <2>5. ~Made(m)'
      BY <1>2, <1>5, <2>2, <2>3, <2>4
    <2> QED
      BY <1>1, <1>2, <2>3, <2>4, <2>5 DEF PrackFresh
  <1> QED
    BY <1>6, <1>7, <1>8 DEF Numbers

-----------------------------------------------------------------------------
(* Steps that neither make an INVITE or a PRACK nor take a number. *)
LEMMA RestInvites == Rest => SameInvites
  BY DEF Rest, SameInvites

LEMMA RequestsKept ==
  ASSUME NEW a \in Agents, NEW t \in Threads, NEW S, Works(a, t, S),
         a = Caller => \A i \in Seqs :
            /\ Send(InviteMsg(i)) \in S <=> Send(InviteMsg(i)) \in Steps(Caller, t)
            /\ Send(PrackMsg(i)) \in S => Send(PrackMsg(i)) \in Steps(Caller, t)
  PROVE  SameRequests
  BY Pair DEF SameRequests, Works

LEMMA OtherSteps ==
  \A i : /\ \A e \in Events : Send(InviteMsg(i)) # Tell(e) /\ Send(PrackMsg(i)) # Tell(e)
         /\ \A n, b : Send(InviteMsg(i)) # Send(AckMsg(n, b)) /\ Send(PrackMsg(i)) # Send(AckMsg(n, b))
         /\ \A a : Send(InviteMsg(i)) # Send(ByeMsg(a)) /\ Send(PrackMsg(i)) # Send(ByeMsg(a))
         /\ Send(InviteMsg(i)) # Send(CancelMsg) /\ Send(PrackMsg(i)) # Send(CancelMsg)
         /\ \A j : Send(InviteMsg(i)) # Send(PrackMsg(j)) /\ Send(PrackMsg(i)) # Send(InviteMsg(j))
         /\ Send(InviteMsg(i)) \notin {Delete, SetEnd, StopStep}
         /\ Send(PrackMsg(i)) \notin {Delete, SetEnd, StopStep}
  <1> SUFFICES ASSUME NEW i
               PROVE /\ \A e \in Events : Send(InviteMsg(i)) # Tell(e) /\ Send(PrackMsg(i)) # Tell(e)
                     /\ \A n, b : Send(InviteMsg(i)) # Send(AckMsg(n, b)) /\ Send(PrackMsg(i)) # Send(AckMsg(n, b))
                     /\ \A a : Send(InviteMsg(i)) # Send(ByeMsg(a)) /\ Send(PrackMsg(i)) # Send(ByeMsg(a))
                     /\ Send(InviteMsg(i)) # Send(CancelMsg) /\ Send(PrackMsg(i)) # Send(CancelMsg)
                     /\ \A j : Send(InviteMsg(i)) # Send(PrackMsg(j)) /\ Send(PrackMsg(i)) # Send(InviteMsg(j))
                     /\ Send(InviteMsg(i)) \notin {Delete, SetEnd, StopStep}
                     /\ Send(PrackMsg(i)) \notin {Delete, SetEnd, StopStep}
    OBVIOUS
  <1>1. Tag(Send(InviteMsg(i))) = "INVITE" /\ Tag(Send(PrackMsg(i))) = "PRACK"
    BY SendTags
  <1>2. \A e \in Events : Tag(Tell(e)) \notin {"INVITE", "PRACK"}
    BY StepTags DEF Events
  <1>3. \A n, b : Tag(Send(AckMsg(n, b))) \notin {"INVITE", "PRACK"}
    BY SendTags
  <1>4. \A a : Tag(Send(ByeMsg(a))) \notin {"INVITE", "PRACK"}
    BY SendTags
  <1>5. \A j : Tag(Send(InviteMsg(j))) # "PRACK" /\ Tag(Send(PrackMsg(j))) # "INVITE"
    BY SendTags
  <1>6. Tag(Send(CancelMsg)) \notin {"INVITE", "PRACK"}
    BY SendTags
  <1>7. \A s \in {Delete, SetEnd, StopStep} : Tag(s) \notin {"INVITE", "PRACK"}
    BY PlainTags
  <1> QED
    BY <1>1, <1>2, <1>3, <1>4, <1>5, <1>6, <1>7

LEMMA OtherMessages ==
  \A i : /\ \A n, b : InviteMsg(i) # AckMsg(n, b) /\ PrackMsg(i) # AckMsg(n, b)
         /\ \A j, s : InviteMsg(i) # Answer(j, s) /\ PrackMsg(i) # Answer(j, s)
         /\ \A a : InviteMsg(i) # ByeMsg(a) /\ PrackMsg(i) # ByeMsg(a)
         /\ InviteMsg(i) # CancelMsg /\ PrackMsg(i) # CancelMsg
         /\ \A j : InviteMsg(i) # PrackMsg(j)
  BY MessageKinds

LEMMA KeptByCallee ==
  ASSUME Base, NEW t \in Threads, NEW S, Works(Callee, t, S), Out' = Out, SameInvites
  PROVE  Kept
  <1>1. SameRequests
    BY RequestsKept, Pair
  <1>2. SameCall
    BY DEF SameCall, SameNumbers
  <1> QED
    BY <1>1, <1>2 DEF Kept

LEMMA KeptByCaller ==
  ASSUME Base, NEW t \in Threads, NEW S, Works(Caller, t, S), SameCall, SameInvites,
         \A i \in Seqs :
            /\ Send(InviteMsg(i)) \in S <=> Send(InviteMsg(i)) \in Steps(Caller, t)
            /\ Send(PrackMsg(i)) \in S => Send(PrackMsg(i)) \in Steps(Caller, t)
  PROVE  Kept
  BY RequestsKept, Pair DEF Kept

LEMMA CallsKept ==
  ASSUME Base, NEW t \in Threads, Calls(t)
  PROVE  \/ Kept \/ CallStarts(t) \/ Requests(Caller, t)
         \/ \E n \in Seqs : Pracks(t, n) \/ Renews(t, n)
  <1>1. CASE HangsUp(Caller, t)
    <2>1. \A i \in Seqs : /\ Send(InviteMsg(i)) \notin Steps(Caller, t)
                          /\ Send(InviteMsg(i)) \notin {Send(ByeMsg(Peer(Caller)))}
                          /\ Send(PrackMsg(i)) \notin {Send(ByeMsg(Peer(Caller)))}
      BY <1>1, OtherSteps DEF HangsUp
    <2>2. SameInvites /\ SameCall
      BY <1>1, RestInvites DEF HangsUp, SameCall, Out
    <2> QED
      BY <1>1, <2>1, <2>2, KeptByCaller DEF HangsUp
  <1>2. CASE HangsUp(Callee, t)
    BY <1>2, RestInvites, Pair, KeptByCallee DEF HangsUp, Out
  <1>3. CASE CallCancels(t)
    <2>1. \A i \in Seqs : /\ Send(InviteMsg(i)) \notin Steps(Caller, t)
                          /\ Send(InviteMsg(i)) \notin {Send(CancelMsg)}
                          /\ Send(PrackMsg(i)) \notin {Send(CancelMsg)}
      BY <1>3, OtherSteps DEF CallCancels
    <2>2. SameInvites /\ SameCall
      BY <1>3, RestInvites, NoneFacts DEF CallCancels, SameCall
    <2> QED
      BY <1>3, <2>1, <2>2, KeptByCaller DEF CallCancels
  <1>4. ASSUME NEW i \in Seqs, NEW s, Rejects(t, i, s) \/ Accepts(t, i)
        PROVE  Kept
    BY <1>4, RestInvites, KeptByCallee DEF Rejects, Accepts
  <1>5. ASSUME NEW i \in Seqs, Rings(t, i)
        PROVE  Kept
    BY <1>5, RestInvites, KeptByCallee DEF Rings, Out
  <1>6. ASSUME NEW n \in Seqs, ReInvites(t, n)
        PROVE  Renews(t, n)
    <2>1. \A i \in Seqs : /\ Send(InviteMsg(i)) \in {Send(InviteMsg(n))} <=> i = n
                          /\ Send(PrackMsg(i)) \notin {Send(InviteMsg(n))}
      BY OtherSteps, SendSame, MessageSame
    <2>2. /\ Works(Caller, t, {Send(InviteMsg(n))}) /\ SameInvites
          /\ Out \in Dialog /\ Renewed(Out, Out', n) /\ Steps(Caller, t) = {}
      BY <1>6, RestInvites DEF ReInvites
    <2>3. Steps(Caller, t)' = {Send(InviteMsg(n))} /\ \A u \in Threads \ {t} : Steps(Caller, u)' = Steps(Caller, u)
      BY <2>2, Pair DEF Works
    <2> QED
      BY <2>1, <2>2, <2>3 DEF Renews
  <1>7. CASE Requests(Callee, t)
    BY <1>7, RestInvites, Pair, KeptByCallee DEF Requests, Out
  <1>8. CASE Nothing
    <2>1. Works(Callee, t, Steps(Callee, t)) /\ Out' = Out
      BY <1>8, SameWorks, Pair DEF Nothing, Base, Out
    <2> QED
      BY <1>8, <2>1, KeptByCallee DEF Nothing, SameInvites
  <1> QED
    BY <1>1, <1>2, <1>3, <1>4, <1>5, <1>6, <1>7, <1>8, Pair DEF Calls

LEMMA SendsKept ==
  ASSUME Base, NEW a \in Agents, NEW t \in Threads, NEW m, Sends(a, t, m), SameInvites,
         \A i : m # InviteMsg(i)
  PROVE  Kept
  <1>1. Out' = Out
    BY DEF Sends, Out
  <1>2. CASE a = Callee
    BY <1>1, <1>2, KeptByCallee DEF Sends
  <1>3. CASE a = Caller
    <2>1. \A i \in Seqs : Send(InviteMsg(i)) # Send(m)
      BY SendSame
    <2>2. SameCall
      BY <1>1 DEF SameCall, SameNumbers
    <2> QED
      BY <1>3, <2>1, <2>2, KeptByCaller DEF Sends
  <1> QED
    BY <1>2, <1>3, Pair

(* A transaction that only changes. *)
LEMMA IctKept ==
  ASSUME NEW i \in Seqs, NEW x, x # None, ict[Caller][i] # None, IctBecomes(i, x), ist' = ist
  PROVE  \A j \in Seqs : /\ ict'[Caller][j] = None <=> ict[Caller][j] = None
                         /\ ist'[Callee][j] = None <=> ist[Callee][j] = None
  BY DEF IctBecomes

LEMMA IstKept ==
  ASSUME NEW i \in Seqs, NEW x, x # None, ist[Callee][i] # None, IstBecomes(i, x), ict' = ict
  PROVE  \A j \in Seqs : /\ ict'[Caller][j] = None <=> ict[Caller][j] = None
                         /\ ist'[Callee][j] = None <=> ist[Callee][j] = None
  BY DEF IstBecomes

LEMMA TransactionKinds ==
  ASSUME NEW x \in Transaction
  PROVE  /\ x # None /\ [x EXCEPT !.ack = TRUE] # None /\ Acked(x, TRUE) # None
         /\ \A s \in Statuses : [x EXCEPT !.status = s] # None
  <1>1. [x EXCEPT !.ack = TRUE] \in Transaction /\ Acked(x, TRUE) \in Transaction \cup {Gone}
          /\ \A s \in Statuses : [x EXCEPT !.status = s] \in Transaction
    BY TransactionFacts
  <1>2. \A y : y \in Transaction \cup {Gone} => y # None
    BY NoneFacts
  <1> QED
    BY <1>1, <1>2

LEMMA SendsAckKept ==
  ASSUME Base, NEW t \in Threads, NEW n \in 0..MaxSeq, NEW b \in 0..MaxSeq, SendsAck(t, n, b)
  PROVE  Kept
  <1>1. \A k \in Sent(Caller) : k \in Seqs /\ ict[Caller][k] \in Transaction
    BY SentFacts DEF Base
  <1>2. wire' = wire \/ wire' = wire \cup {AckMsg(n, b)}
    BY DEF SendsAck, AckGoes
  <1>3. \A i \in Seqs : /\ InviteMsg(i) \in wire' <=> InviteMsg(i) \in wire
                        /\ PrackMsg(i) \in wire' => PrackMsg(i) \in wire
    BY <1>2, OtherMessages
  <1>4. \A j \in Seqs : /\ ict'[Caller][j] = None <=> ict[Caller][j] = None
                        /\ ist'[Callee][j] = None <=> ist[Callee][j] = None
    <2>1. CASE UNCHANGED ict
      BY <2>1 DEF SendsAck
    <2>2. ASSUME NEW i \in Sent(Caller),
                 IctBecomes(i, [ict[Caller][i] EXCEPT !.ack = TRUE]) \/ IctBecomes(i, Acked(ict[Caller][i], TRUE))
          PROVE  \A j \in Seqs : /\ ict'[Caller][j] = None <=> ict[Caller][j] = None
                                 /\ ist'[Callee][j] = None <=> ist[Callee][j] = None
      <3>1. ist' = ist
        BY DEF SendsAck
      <3>2. i \in Seqs /\ ict[Caller][i] \in Transaction
        BY <1>1
      <3> QED
        BY <2>2, <3>1, <3>2, IctKept, TransactionKinds
    <2> QED
      BY <2>1, <2>2 DEF SendsAck, AckGoes
  <1>5. SameInvites
    BY <1>3, <1>4 DEF SameInvites
  <1> QED
    BY <1>5, SendsKept, OtherMessages, Pair DEF SendsAck

LEMMA SendsAnswerKept ==
  ASSUME Base, NEW t \in Threads, NEW i \in Seqs, NEW s \in Statuses, SendsAnswer(t, i, s)
  PROVE  Kept
  <1>1. \A j \in Seqs : /\ InviteMsg(j) \in wire' <=> InviteMsg(j) \in wire
                        /\ PrackMsg(j) \in wire' => PrackMsg(j) \in wire
    BY OtherMessages DEF SendsAnswer
  <1>2. \A j \in Seqs : /\ ict'[Caller][j] = None <=> ict[Caller][j] = None
                        /\ ist'[Callee][j] = None <=> ist[Callee][j] = None
    BY IstKept, TransactionKinds DEF SendsAnswer
  <1>3. SameInvites
    BY <1>1, <1>2 DEF SameInvites
  <1> QED
    BY <1>3, SendsKept, OtherMessages, Pair DEF SendsAnswer

LEMMA SendsOtherKept ==
  ASSUME Base, NEW a \in Agents, NEW t \in Threads, NEW m, SendsOther(a, t, m),
         m = CancelMsg \/ (\E b : m = ByeMsg(b)) \/ (a = Caller /\ \E n : m = PrackMsg(n))
  PROVE  Kept
  <1>1. \A i : m # InviteMsg(i)
    BY OtherMessages
  <1>2. \A i \in Seqs : m = PrackMsg(i) => Has(Caller, Send(PrackMsg(i)))
    BY OtherMessages, HasSteps DEF SendsOther, Sends
  <1>3. SameInvites
    BY <1>1, <1>2 DEF SendsOther, SameInvites
  <1> QED
    BY <1>1, <1>3, SendsKept DEF SendsOther

LEMMA ProceedsKept ==
  ASSUME Base, NEW t \in Threads, Proceeds(t)
  PROVE  Kept \/ \E i \in Seqs : SendsInvite(t, i)
  <1>1. ASSUME NEW a \in Agents, NEW e \in Events, Tells(a, t, e)
        PROVE  Kept
    <2>1. SameInvites /\ SameCall /\ Out' = Out
      BY <1>1, RestInvites DEF Tells, SameCall, SameNumbers, Out
    <2>2. \A i \in Seqs : Send(InviteMsg(i)) # Tell(e)
      BY OtherSteps
    <2> QED
      BY <1>1, <2>1, <2>2, KeptByCaller, KeptByCallee, Pair DEF Tells
  <1>2. ASSUME NEW a \in Agents, NEW S, Works(a, t, S), Rest,
               a = Caller => SameCall, a = Callee => Out' = Out,
               Steps(a, t) \subseteq {Delete, SetEnd, StopStep} \/ a = Callee,
               S \subseteq {Tell("end"), Delete, Send(ByeMsg(Callee))} \/ a = Callee
        PROVE  Kept
    <2>1. a = Caller => \A i \in Seqs : /\ Send(InviteMsg(i)) \notin S /\ Send(PrackMsg(i)) \notin S
                                        /\ Send(InviteMsg(i)) \notin Steps(a, t)
      BY <1>2, OtherSteps, Pair DEF Events
    <2> QED
      BY <1>2, <2>1, RestInvites, KeptByCaller, KeptByCallee, Pair
  <1>3. ASSUME NEW a \in Agents, Deletes(a, t)
        PROVE  Kept
    <2>1. (a = Caller => SameCall) /\ (a = Callee => Out' = Out)
      BY <1>3, Pair DEF Deletes, SameCall, Out
    <2> QED
      BY <1>2, <1>3, <2>1 DEF Deletes
  <1>4. ASSUME NEW a \in Agents, EndsCall(a, t)
        PROVE  Kept
    <2>1. (a = Caller => SameCall) /\ (a = Callee => Out' = Out)
      BY <1>4, Pair, NoneFacts DEF EndsCall, Ended, SameCall, Out
    <2> QED
      BY <1>2, <1>4, <2>1 DEF EndsCall
  <1>5. ASSUME NEW i \in Seqs, Inserts(t, i) \/ AnswersAgain(t, i)
        PROVE  Kept
    <2>1. Out' = Out
      BY <1>5 DEF Inserts, AnswersAgain, Out
    <2> QED
      BY <1>5, <2>1, KeptByCallee, RestInvites DEF Inserts, AnswersAgain
  <1>6. CASE HangsUp(Caller, t)
    BY <1>6, CallsKept, NoneFacts DEF Calls, Agents, HangsUp, CallStarts, Requests, Out, Renews, Pracks, Renewed
  <1>7. CASE StopsNothing(t)
    <2>1. SameCall
      BY <1>7 DEF StopsNothing, SameCall, SameNumbers, Out
    <2> QED
      BY <1>2, <1>7, <2>1, Pair DEF StopsNothing
  <1> QED
    BY <1>1, <1>3, <1>4, <1>5, <1>6, <1>7, SendsAckKept, SendsAnswerKept, SendsOtherKept, Pair DEF Proceeds

-----------------------------------------------------------------------------
(* Taking a response keeps the numbers, or renews them. *)
LEMMA TakenKept ==
  ASSUME Base, NEW t \in Threads, NEW s, ResponseTaken(t, s), SameInvites, Steps(Caller, t) = {}
  PROVE  Kept \/ \E n \in Seqs : Renews(t, n)
  <1>1. ASSUME NEW S, Works(Caller, t, S), SameCall,
               \E b : S \subseteq {Send(AckMsg(Out.seq, b)), Tell("start"), Tell("end"), StopStep, Delete}
        PROVE  Kept
    <2>1. \A i \in Seqs : Send(InviteMsg(i)) \notin S /\ Send(PrackMsg(i)) \notin S
      BY <1>1, OtherSteps DEF Events
    <2> QED
      BY <1>1, <2>1, KeptByCaller
  <1>2. CASE Out = None /\ Out' = None /\ Works(Caller, t, {})
    BY <1>1, <1>2 DEF SameCall
  <1>3. CASE Rings100(s) /\ Works(Caller, t, {})
    <2>1. SameCall
      BY <1>3, NoneFacts DEF Rings100, SameCall, SameTimes
    <2> QED
      BY <1>1, <1>3, <2>1
  <1>4. CASE Connects(t, s)
    <2>1. SameCall
      BY <1>4, NoneFacts DEF Connects, SameCall
    <2> DEFINE S == {Send(AckMsg(Out.seq, 0))} \cup
                      IF Out.cancel THEN {StopStep} ELSE IF Out.start THEN {} ELSE {Tell("start")}
    <2>2. Works(Caller, t, S)
      BY <1>4 DEF Connects
    <2>3. S \subseteq {Send(AckMsg(Out.seq, 0)), Tell("start"), Tell("end"), StopStep, Delete}
      OBVIOUS
    <2> HIDE DEF S
    <2> QED
      BY <1>1, <2>1, <2>2, <2>3
  <1>5. ASSUME NEW n \in Seqs, Retries(t, s, n)
        PROVE  Renews(t, n)
    <2> DEFINE S == {Send(AckMsg(Out.seq, Out.branch)), Send(InviteMsg(n))}
    <2>1. Works(Caller, t, S) /\ Out \in Dialog /\ Renewed(Out, Out', n)
      BY <1>5 DEF Retries
    <2>2. \A i \in Seqs : /\ Send(InviteMsg(i)) \in S <=> i = n
                          /\ Send(PrackMsg(i)) \notin S
      BY OtherSteps, SendSame, MessageSame
    <2> HIDE DEF S
    <2>3. Steps(Caller, t)' = S /\ \A u \in Threads \ {t} : Steps(Caller, u)' = Steps(Caller, u)
      BY <2>1, Pair DEF Works
    <2> QED
      BY <2>1, <2>2, <2>3 DEF Renews
  <1>6. CASE RefusesAgain(t, s)
    <2>1. SameCall
      BY <1>6, NoneFacts DEF RefusesAgain, SameCall, SameNumbers
    <2> QED
      BY <1>1, <1>6, <2>1 DEF RefusesAgain
  <1>7. CASE Refuses(t, s)
    <2>1. SameCall
      BY <1>7, NoneFacts DEF Refuses, SameCall
    <2> QED
      BY <1>1, <1>7, <2>1 DEF Refuses
  <1> QED
    BY <1>2, <1>3, <1>4, <1>5, <1>6, <1>7 DEF ResponseTaken

LEMMA ArrivesInvites ==
  ASSUME NEW m, Arrives(m), \A i : m # InviteMsg(i),
         \A j \in Seqs : /\ ict'[Caller][j] = None <=> ict[Caller][j] = None
                         /\ ist'[Callee][j] = None <=> ist[Callee][j] = None
  PROVE  SameInvites
  BY DEF Arrives, SameInvites

LEMMA ReceivesKept ==
  ASSUME Base, NEW t \in Threads, Receives(t)
  PROVE  Kept \/ (\E i \in Seqs : \E S : InviteComes(t, i, S)) \/ \E n \in Seqs : Renews(t, n)
  <1>1. ASSUME NEW n \in 0..MaxSeq, NEW b \in 0..MaxSeq, AckComes(n, b)
        PROVE  Kept
    <2>1. \A j \in Seqs : /\ ict'[Caller][j] = None <=> ict[Caller][j] = None
                          /\ ist'[Callee][j] = None <=> ist[Callee][j] = None
      BY <1>1, IstKept, TransactionKinds DEF AckComes
    <2>2. SameInvites
      BY <1>1, <2>1, ArrivesInvites, OtherMessages DEF AckComes
    <2>3. Works(Callee, t, Steps(Callee, t)) /\ Out' = Out
      BY <1>1, SameWorks, Pair DEF AckComes, Base, Out
    <2> QED
      BY <2>2, <2>3, KeptByCallee
  <1>2. CASE CancelComes(t)
    <2>1. SameInvites
      BY <1>2, ArrivesInvites, OtherMessages DEF CancelComes
    <2>2. Out' = Out
      BY <1>2 DEF CancelComes, Out
    <2> QED
      BY <1>2, <2>1, <2>2, KeptByCallee DEF CancelComes
  <1>3. ASSUME NEW a \in Agents, ByeComes(a, t)
        PROVE  Kept
    <2>1. SameInvites
      BY <1>3, ArrivesInvites, OtherMessages DEF ByeComes
    <2>2. Out' = Out /\ SameCall
      BY <1>3 DEF ByeComes, Out, SameCall, SameNumbers
    <2>3. \A i \in Seqs : Send(InviteMsg(i)) \notin {SetEnd} /\ Send(PrackMsg(i)) \notin {SetEnd}
      BY OtherSteps
    <2> QED
      BY <1>3, <2>1, <2>2, <2>3, KeptByCallee, KeptByCaller, Pair DEF ByeComes
  <1>4. ASSUME NEW n \in Seqs, PrackComes(t, n)
        PROVE  Kept
    <2>1. SameInvites
      BY <1>4, ArrivesInvites, OtherMessages DEF PrackComes
    <2>2. Out' = Out
      BY <1>4 DEF PrackComes, Out
    <2> QED
      BY <1>4, <2>1, <2>2, KeptByCallee DEF PrackComes
  <1>5. ASSUME NEW i \in Seqs, NEW s \in Statuses, Hears(t, i, s)
        PROVE  Kept \/ \E n \in Seqs : Renews(t, n)
    <2>1. \A j \in Seqs : /\ InviteMsg(j) \in wire' <=> InviteMsg(j) \in wire
                          /\ PrackMsg(j) \in wire' => PrackMsg(j) \in wire
      BY <1>5, OtherMessages DEF Hears, Overtaken
    <2>2. Steps(Caller, t) = {} /\ ist' = ist
      BY <1>5 DEF Hears
    <2>3. CASE /\ ict[Caller][i] \in Transaction /\ ict[Caller][i].status # s
               /\ IctBecomes(i, [ict[Caller][i] EXCEPT !.status = s])
               /\ ResponseTaken(t, s)
      <3>1. \A j \in Seqs : /\ ict'[Caller][j] = None <=> ict[Caller][j] = None
                            /\ ist'[Callee][j] = None <=> ist[Callee][j] = None
        BY <2>2, <2>3, IctKept, TransactionKinds
      <3>2. SameInvites
        BY <2>1, <3>1 DEF SameInvites
      <3> QED
        BY <2>2, <2>3, <3>2, TakenKept
    <2>4. CASE UNCHANGED <<dialog, ict>> /\ Works(Caller, t, {})
      <3>1. SameInvites /\ SameCall
        BY <2>1, <2>2, <2>4 DEF SameInvites, SameCall, SameNumbers, Out
      <3> QED
        BY <2>2, <2>4, <3>1, KeptByCaller
    <2> QED
      BY <1>5, <2>3, <2>4 DEF Hears
  <1> QED
    BY <1>1, <1>2, <1>3, <1>4, <1>5 DEF Receives

LEMMA ExpiresKept ==
  ASSUME Base, NEW t \in Threads, Expires(t)
  PROVE  Kept \/ \E n \in Seqs : Renews(t, n)
  <1>1. PICK i \in Seqs : TimesOut(t, i) \/ GivesUp(t, i)
    BY DEF Expires
  <1>2. CASE TimesOut(t, i)
    <2>1. SameInvites
      BY <1>2, IctKept, TransactionKinds, NoneFacts DEF TimesOut, SameInvites
    <2> QED
      BY <1>2, <2>1, TakenKept DEF TimesOut
  <1>3. CASE GivesUp(t, i)
    <2>1. SameInvites
      BY <1>3, IstKept, TransactionKinds, NoneFacts DEF GivesUp, SameInvites
    <2> QED
      BY <1>3, <2>1, KeptByCallee DEF GivesUp, Out
  <1> QED
    BY <1>1, <1>2, <1>3

-----------------------------------------------------------------------------
(* The steps that do. *)
LEMMA CallStartsNumbers ==
  ASSUME Base, Numbers, Fresh', NEW t \in Threads, CallStarts(t)
  PROVE  Numbers'
  <1>1. /\ \A m \in wire : m = CancelMsg
        /\ \A i \in Seqs : ict[Caller][i] = None /\ ist[Callee][i] = None
        /\ \A u \in Threads : Steps(Caller, u) = {}
    BY DEF Numbers, Fresh, CallStarts
  <1>2. \A u \in Threads : Steps(Caller, u)' = IF u = t THEN {Send(InviteMsg(1))} ELSE {}
    BY <1>1, Pair DEF CallStarts, Works
  <1>3. UNCHANGED <<ict, ist, wire>>
    BY DEF CallStarts, Rest
  <1>4. \A i : InviteMsg(i) \notin wire /\ PrackMsg(i) \notin wire
    BY <1>1, OtherMessages
  <1>5. \A i \in Seqs : /\ Has(Caller, Send(InviteMsg(i)))' <=> i = 1
                        /\ ~Has(Caller, Send(PrackMsg(i)))'
    BY <1>2, OtherSteps, SendSame, MessageSame DEF Has
  <1>6. \A i \in Seqs : InviteOnce(i)' /\ PrackFresh(i)'
    BY <1>1, <1>2, <1>3, <1>4, <1>5 DEF InviteOnce, PrackFresh
  <1>7. LastInvite'
    <2>1. \A i \in Seqs : Made(i)' <=> i = 1
      BY <1>1, <1>3, <1>5 DEF Made
    <2>2. Out'.seq = 1 /\ Out'.next = 0 /\ Out'.branch = 1
      BY DEF CallStarts
    <2> QED
      BY <2>1, <2>2, SeqFacts DEF LastInvite
  <1> QED
    BY <1>6, <1>7 DEF Numbers

LEMMA RequestsNumbers ==
  ASSUME Base, Numbers, Fresh', NEW t \in Threads, Requests(Caller, t)
  PROVE  Numbers'
  <1>1. /\ Out \in Dialog /\ Out.start /\ Out' \in Dialog /\ Out'.seq = NextSeq(Out) /\ Out'.next = 0
        /\ Out'.branch = Out.branch /\ Out'.start
        /\ Works(Caller, t, {}) /\ Steps(Caller, t) = {} /\ UNCHANGED <<ict, ist, wire>>
    BY DEF Requests, Out, SameTimes, Rest
  <1>2. Out # None /\ Out.next \in {0, Out.seq + 2} /\ Out.seq >= 1 /\ Out.branch \in Seqs /\ Made(Out.branch)
        /\ (\A j \in Seqs : Made(j) => j <= Out.branch) /\ Out.branch <= Out.seq
    BY <1>1, NoneFacts DEF Numbers, LastInvite
  <1>3. Out'.seq > Out.seq /\ Out.seq \in Nat /\ Out.branch \in Nat /\ Out'.seq \in Nat
        /\ (Out.next # 0 => Out'.seq = Out.next)
    BY <1>1, <1>2, NextSeqFacts, DialogRange
  <1>4. \A u \in Threads : Steps(Caller, u)' = Steps(Caller, u)
    BY <1>1, Pair DEF Works
  <1>5. \A s : Has(Caller, s)' <=> Has(Caller, s)
    BY <1>4 DEF Has
  <1>6. \A i : Made(i)' <=> Made(i)
    BY <1>1, <1>5 DEF Made
  <1>7. \A i \in Seqs : InviteOnce(i)'
    BY <1>1, <1>4, <1>5 DEF Numbers, InviteOnce
  <1>8. LastInvite'
    BY <1>1, <1>2, <1>3, <1>6 DEF LastInvite
  <1>9. ASSUME NEW n \in Seqs
        PROVE  PrackFresh(n)'
    <2> SUFFICES ASSUME PrackMsg(n) \in wire' \/ Has(Caller, Send(PrackMsg(n)))' PROVE PrackFresh(n)'
      BY DEF PrackFresh
    <2>1. ~Made(n) /\ ((Out.seq + 1 = n /\ Out.next = n + 1) \/ Out.seq > n)
      BY <1>1, <1>2, <1>5 DEF Numbers, PrackFresh
    <2>2. Out'.seq > n
      BY <1>3, <2>1, SeqFacts
    <2> QED
      BY <1>6, <2>1, <2>2 DEF PrackFresh
  <1> QED
    BY <1>7, <1>8, <1>9 DEF Numbers

LEMMA PracksNumbers ==
  ASSUME Base, Numbers, Fresh', NEW t \in Threads, NEW n \in Seqs, Pracks(t, n)
  PROVE  Numbers'
  <1>1. /\ Out \in Dialog /\ ~Out.start /\ Out.next = 0 /\ n = Out.seq + 1
        /\ Out' \in Dialog /\ Out'.seq = Out.seq /\ Out'.next = n + 1 /\ Out'.branch = Out.branch
        /\ (Out'.start <=> Out.start)
        /\ Works(Caller, t, {Send(PrackMsg(n))}) /\ Steps(Caller, t) = {} /\ UNCHANGED <<ict, ist, wire>>
    BY DEF Pracks, SameTimes, Rest
  <1>2. Out # None /\ Out.seq >= 1 /\ Out.branch \in Seqs /\ Made(Out.branch)
        /\ (\A j \in Seqs : Made(j) => j <= Out.branch) /\ Out.branch <= Out.seq /\ Out.seq = Out.branch
    BY <1>1, NoneFacts DEF Numbers, LastInvite
  <1>3. Out.seq \in Nat /\ Out.branch \in Nat
    BY <1>1, <1>2, DialogRange
  <1>4. /\ \A u \in Threads : u # t => Steps(Caller, u)' = Steps(Caller, u)
        /\ Steps(Caller, t)' = {Send(PrackMsg(n))}
    BY <1>1, Pair DEF Works
  <1>5. \A i \in Seqs, u \in Threads : Send(InviteMsg(i)) \in Steps(Caller, u)' <=> Send(InviteMsg(i)) \in Steps(Caller, u)
    BY <1>1, <1>4, OtherSteps
  <1>6. \A i \in Seqs : /\ Has(Caller, Send(InviteMsg(i)))' <=> Has(Caller, Send(InviteMsg(i)))
                        /\ Has(Caller, Send(PrackMsg(i)))' => i = n \/ Has(Caller, Send(PrackMsg(i)))
    BY <1>4, <1>5, SendSame, MessageSame DEF Has
  <1>7. \A i \in Seqs : Made(i)' <=> Made(i)
    BY <1>1, <1>6 DEF Made
  <1>8. \A i \in Seqs : InviteOnce(i)'
    BY <1>1, <1>5, <1>6 DEF Numbers, InviteOnce
  <1>9. LastInvite'
    <2>1. Out'.next = Out'.seq + 2
      BY <1>1, <1>3
    <2> QED
      BY <1>1, <1>2, <1>7, <2>1 DEF LastInvite
  <1>10. ASSUME NEW i \in Seqs
         PROVE  PrackFresh(i)'
    <2> SUFFICES ASSUME PrackMsg(i) \in wire' \/ Has(Caller, Send(PrackMsg(i)))' PROVE PrackFresh(i)'
      BY DEF PrackFresh
    <2>1. CASE i = n
      <3>1. ~Made(n)
        BY <1>1, <1>2, <1>3, SeqFacts
      <3> QED
        BY <1>1, <1>7, <2>1, <3>1 DEF PrackFresh
    <2>2. CASE i # n
      <3>1. ~Made(i) /\ ((Out.seq + 1 = i /\ Out.next = i + 1) \/ Out.seq > i)
        BY <1>1, <1>2, <1>6, <2>2 DEF Numbers, PrackFresh
      <3> QED
        BY <1>1, <1>7, <2>2, <3>1 DEF PrackFresh
    <2> QED
      BY <2>1, <2>2
  <1> QED
    BY <1>8, <1>9, <1>10 DEF Numbers

LEMMA SendsInviteNumbers ==
  ASSUME Base, Numbers, Fresh', NEW t \in Threads, NEW n \in Seqs, SendsInvite(t, n)
  PROVE  Numbers'
  <1>1. /\ Send(InviteMsg(n)) \in Steps(Caller, t) /\ Works(Caller, t, {}) /\ dialog' = dialog
        /\ Steps(Caller, t) = {Send(InviteMsg(n))}
        /\ IctBecomes(n, NewTransaction) /\ wire' = wire \cup {InviteMsg(n)} /\ ist' = ist
    <2>1. Steps(Caller, t) \ {Send(InviteMsg(n))} = {}
      BY DEF SendsInvite
    <2> QED
      BY <2>1 DEF SendsInvite, Sends
  <1>2. Out' = Out
    BY <1>1 DEF Out
  <1>3. /\ Has(Caller, Send(InviteMsg(n)))
        /\ ict[Caller][n] = None /\ ist[Callee][n] = None /\ InviteMsg(n) \notin wire
        /\ \A u \in Threads : Send(InviteMsg(n)) \in Steps(Caller, u) => t = u
    BY <1>1, HasSteps DEF Numbers, InviteOnce
  <1>4. NewTransaction # None
    BY NoneFacts
  <1>5. \A i \in Seqs, u \in Threads : /\ Send(InviteMsg(i)) \in Steps(Caller, u)' <=> i # n /\ Send(InviteMsg(i)) \in Steps(Caller, u)
                                       /\ Send(PrackMsg(i)) \in Steps(Caller, u)' => Send(PrackMsg(i)) \in Steps(Caller, u)
    BY <1>1, <1>3, SendSame, MessageSame, Pair DEF Works
  <1>6. \A i \in Seqs : /\ Has(Caller, Send(InviteMsg(i)))' <=> i # n /\ Has(Caller, Send(InviteMsg(i)))
                        /\ Has(Caller, Send(PrackMsg(i)))' => Has(Caller, Send(PrackMsg(i)))
    BY <1>5 DEF Has
  <1>7. \A i \in Seqs : /\ InviteMsg(i) \in wire' <=> i = n \/ InviteMsg(i) \in wire
                        /\ PrackMsg(i) \in wire' => PrackMsg(i) \in wire
    BY <1>1, OtherMessages, MessageSame
  <1>8. \A i \in Seqs : ict'[Caller][i] = None <=> i # n /\ ict[Caller][i] = None
    BY <1>1, <1>4 DEF IctBecomes
  <1>9. \A i \in Seqs : Made(i)' <=> Made(i)
    BY <1>3, <1>6, <1>8 DEF Made
  <1>10. \A i \in Seqs : InviteOnce(i)'
    BY <1>1, <1>3, <1>5, <1>6, <1>7, <1>8 DEF Numbers, InviteOnce
  <1>11. LastInvite'
    BY <1>2, <1>9 DEF Numbers, LastInvite
  <1>12. \A i \in Seqs : PrackFresh(i)'
    BY <1>2, <1>6, <1>7, <1>9 DEF Numbers, PrackFresh
  <1> QED
    BY <1>10, <1>11, <1>12 DEF Numbers

LEMMA InviteComesNumbers ==
  ASSUME Base, Numbers, Fresh', NEW t \in Threads, NEW n \in Seqs, NEW S, InviteComes(t, n, S)
  PROVE  Numbers'
  <1>1. /\ InviteMsg(n) \in wire /\ wire' = wire \ {InviteMsg(n)} /\ IstBecomes(n, NewTransaction)
        /\ Works(Callee, t, S) /\ UNCHANGED <<dialog, ict>>
    BY DEF InviteComes, Arrives
  <1>2. Out' = Out /\ NewTransaction # None
    BY <1>1, NoneFacts DEF Out
  <1>3. ict[Caller][n] # None /\ ist[Callee][n] = None
    BY <1>1 DEF Numbers, InviteOnce
  <1>4. \A u \in Threads : Steps(Caller, u)' = Steps(Caller, u)
    BY <1>1, Pair DEF Works
  <1>5. \A s : Has(Caller, s)' <=> Has(Caller, s)
    BY <1>4 DEF Has
  <1>6. \A i \in Seqs : /\ InviteMsg(i) \in wire' <=> i # n /\ InviteMsg(i) \in wire
                        /\ PrackMsg(i) \in wire' => PrackMsg(i) \in wire
    BY <1>1, MessageSame
  <1>7. \A i \in Seqs : ist'[Callee][i] = None <=> i # n /\ ist[Callee][i] = None
    BY <1>1, <1>2 DEF IstBecomes
  <1>8. \A i \in Seqs : Made(i)' <=> Made(i)
    BY <1>1, <1>5 DEF Made
  <1>9. \A i \in Seqs : InviteOnce(i)'
    BY <1>1, <1>3, <1>4, <1>5, <1>6, <1>7 DEF Numbers, InviteOnce
  <1>10. LastInvite'
    BY <1>2, <1>8 DEF Numbers, LastInvite
  <1>11. \A i \in Seqs : PrackFresh(i)'
    BY <1>2, <1>5, <1>6, <1>8 DEF Numbers, PrackFresh
  <1> QED
    BY <1>9, <1>10, <1>11 DEF Numbers

LEMMA NumbersStep ==
  ASSUME Base, Base', Numbers, NEW t \in Threads, Acts(t)
  PROVE  Numbers'
  <1>1. Fresh'
    BY FreshStep DEF Numbers
  <1>2. CASE Kept
    BY <1>1, <1>2, KeptNumbers
  <1>3. ASSUME NEW n \in Seqs, Renews(t, n)
        PROVE  Numbers'
    BY <1>1, <1>3, RenewsNumbers
  <1>4. CASE Calls(t)
    BY <1>1, <1>2, <1>3, <1>4, CallsKept, CallStartsNumbers, RequestsNumbers, PracksNumbers
  <1>5. CASE Proceeds(t)
    BY <1>1, <1>2, <1>5, ProceedsKept, SendsInviteNumbers
  <1>6. CASE Receives(t)
    BY <1>1, <1>2, <1>3, <1>6, ReceivesKept, InviteComesNumbers
  <1>7. CASE Expires(t)
    BY <1>2, <1>3, <1>7, ExpiresKept
  <1> QED
    BY <1>4, <1>5, <1>6, <1>7 DEF Acts

LEMMA SameNumbersInv == ASSUME Numbers, UNCHANGED vars PROVE Numbers'
  BY DEF Numbers, vars, Fresh, LastInvite, InviteOnce, PrackFresh, Made, Has, Steps, Out, In

LEMMA InitLists ==
  ASSUME Init
  PROVE  /\ \A a \in Agents, t \in Threads : Steps(a, t) = {}
         /\ \A a \in Agents : \A s : ~Has(a, s)
         /\ \A i \in Seqs : ict[Caller][i] = None /\ ist[Callee][i] = None
         /\ wire = {} /\ Out = None /\ In = None
  <1>1. \A a \in Agents, t \in Threads : Steps(a, t) = {}
    <2>1. \A a \in Agents, t \in Threads : todo[a][t] = <<>>
      BY DEF Init
    <2> QED
      BY <2>1, EmptyList DEF Steps
  <1> QED
    BY <1>1, Pair DEF Init, Has, Out, In

LEMMA NumbersInit == Init => Numbers
  <1> SUFFICES ASSUME Init PROVE Numbers
    OBVIOUS
  <1>1. /\ \A a \in Agents, t \in Threads : Steps(a, t) = {}
        /\ \A a \in Agents : \A s : ~Has(a, s)
        /\ \A i \in Seqs : ict[Caller][i] = None /\ ist[Callee][i] = None
        /\ wire = {} /\ Out = None /\ In = None
    BY InitLists
  <1> QED
    BY <1>1, Pair, SeqFacts DEF Numbers, Fresh, LastInvite, InviteOnce, PrackFresh

(* No request takes the number of a PRACK.                                 *)
LEMMA NumbersGood == Base /\ Numbers => PrackHasItsNumber
  <1> SUFFICES ASSUME Base, Numbers, NEW m \in wire, m.kind = "PRACK"
               PROVE  LET a == Peer(m.to)
                      IN ict[a][m.seq] = None /\ (dialog[a] # None => dialog[a].seq # m.seq)
    BY DEF PrackHasItsNumber
  <1>1. PICK n \in Seqs : m = PrackMsg(n)
    BY MessageForms DEF Base, StackRight
  <1>2. m.to = Callee /\ m.seq = n /\ Peer(m.to) = Caller
    BY <1>1, MessageParts, Pair
  <1>3. ~Made(n) /\ (Out # None => (Out.seq + 1 = n /\ Out.next = n + 1) \/ Out.seq > n)
    BY <1>1 DEF Numbers, PrackFresh
  <1>4. n \in Nat /\ (Out # None => Out.seq \in Nat)
    BY SeqFacts, DialogRange
  <1>5. Out # None => Out.seq # n
    BY <1>3, <1>4
  <1> QED
    BY <1>2, <1>3, <1>5 DEF Made, Out

(* No request takes the CSeq that a PRACK was sent with.                   *)
THEOREM PracksNumbered == Spec => []PrackHasItsNumber
  <1>1. Init => Base /\ Numbers
    BY BaseInit, NumbersInit
  <1>2. Base /\ Numbers /\ [Next]_vars => (Base /\ Numbers)'
    BY NextDoes, SameBase, NumbersStep, SameNumbersInv, WorkerThreads
  <1> QED
    BY <1>1, <1>2, NumbersGood, PTL DEF Spec

-----------------------------------------------------------------------------
(* Whose step it is. *)
CallerActs(t) ==
  \/ CallStarts(t) \/ HangsUp(Caller, t) \/ CallCancels(t)
  \/ \E n \in Seqs : ReInvites(t, n) \/ Pracks(t, n) \/ SendsInvite(t, n)
                     \/ SendsOther(Caller, t, PrackMsg(n)) \/ TimesOut(t, n)
  \/ Requests(Caller, t)
  \/ \E n, b \in 0..MaxSeq : SendsAck(t, n, b)
  \/ SendsOther(Caller, t, CancelMsg) \/ SendsOther(Caller, t, ByeMsg(Callee))
  \/ \E e \in Events : Tells(Caller, t, e)
  \/ Deletes(Caller, t) \/ EndsCall(Caller, t) \/ StopsNothing(t) \/ ByeComes(Caller, t)
  \/ \E i \in Seqs, s \in Statuses : Hears(t, i, s)

CalleeActs(t) ==
  \/ HangsUp(Callee, t) \/ Requests(Callee, t)
  \/ \E i \in Seqs, s \in {Decline, Moved} : Rejects(t, i, s)
  \/ \E i \in Seqs : Accepts(t, i) \/ Rings(t, i) \/ Inserts(t, i) \/ AnswersAgain(t, i)
                     \/ PrackComes(t, i) \/ GivesUp(t, i)
  \/ \E i \in Seqs, s \in Statuses : SendsAnswer(t, i, s)
  \/ SendsOther(Callee, t, ByeMsg(Caller))
  \/ \E e \in Events : Tells(Callee, t, e)
  \/ Deletes(Callee, t) \/ EndsCall(Callee, t)
  \/ \E i \in Seqs : \E S : InviteComes(t, i, S)
  \/ \E n, b \in 0..MaxSeq : AckComes(n, b)
  \/ CancelComes(t) \/ ByeComes(Callee, t)

LEMMA Whose == ASSUME NEW t, Acts(t) PROVE CallerActs(t) \/ CalleeActs(t) \/ Nothing
  <1>1. CASE Calls(t)
    BY <1>1, Pair DEF Calls, CallerActs, CalleeActs
  <1>2. CASE Proceeds(t)
    BY <1>2, Pair DEF Proceeds, CallerActs, CalleeActs
  <1>3. CASE Receives(t)
    BY <1>3, Pair DEF Receives, CallerActs, CalleeActs
  <1>4. CASE Expires(t)
    BY <1>4 DEF Expires, CallerActs, CalleeActs
  <1> QED
    BY <1>1, <1>2, <1>3, <1>4 DEF Acts

CalleeRests == In' = In /\ ist' = ist /\ \A u \in Threads : Steps(Callee, u)' = Steps(Callee, u)
CallerRests == Out' = Out /\ ict' = ict /\ \A u \in Threads : Steps(Caller, u)' = Steps(Caller, u)

LEMMA WorksAlone ==
  ASSUME NEW a \in Agents, NEW t, NEW S, Works(a, t, S)
  PROVE  \A u \in Threads : Steps(Peer(a), u)' = Steps(Peer(a), u)
  BY Pair DEF Works

LEMMA CalleeRestsThen ==
  ASSUME NEW t \in Threads, CallerActs(t)
  PROVE  CalleeRests
  <1>1. ASSUME NEW S, Works(Caller, t, S)
        PROVE  \A u \in Threads : Steps(Callee, u)' = Steps(Callee, u)
    BY <1>1, WorksAlone, Pair
  <1>2. CASE CallStarts(t) \/ HangsUp(Caller, t) \/ CallCancels(t) \/ Requests(Caller, t)
             \/ \E n \in Seqs : ReInvites(t, n) \/ Pracks(t, n)
    BY <1>1, <1>2, Pair DEF CallStarts, HangsUp, CallCancels, Requests, ReInvites, Pracks, Rest, CalleeRests, In
  <1>3. CASE \/ \E n \in Seqs : SendsInvite(t, n) \/ SendsOther(Caller, t, PrackMsg(n))
             \/ \E n, b \in 0..MaxSeq : SendsAck(t, n, b)
             \/ SendsOther(Caller, t, CancelMsg) \/ SendsOther(Caller, t, ByeMsg(Callee))
             \/ \E e \in Events : Tells(Caller, t, e)
    BY <1>1, <1>3 DEF SendsInvite, SendsOther, SendsAck, Sends, Tells, Rest, CalleeRests, In
  <1>4. CASE Deletes(Caller, t) \/ EndsCall(Caller, t) \/ StopsNothing(t) \/ ByeComes(Caller, t)
    BY <1>1, <1>4, Pair DEF Deletes, EndsCall, StopsNothing, ByeComes, Rest, CalleeRests, In
  <1>5. ASSUME NEW s, ResponseTaken(t, s)
        PROVE  In' = In /\ \A u \in Threads : Steps(Callee, u)' = Steps(Callee, u)
    BY <1>1, <1>5 DEF ResponseTaken, Connects, Retries, RefusesAgain, Refuses
  <1>6. CASE (\E n \in Seqs : TimesOut(t, n)) \/ \E i \in Seqs, s \in Statuses : Hears(t, i, s)
    BY <1>1, <1>5, <1>6 DEF TimesOut, Hears, CalleeRests, In
  <1> QED
    BY <1>2, <1>3, <1>4, <1>6 DEF CallerActs

LEMMA CallerRestsThen ==
  ASSUME NEW t \in Threads, CalleeActs(t)
  PROVE  CallerRests
  <1>1. ASSUME NEW S, Works(Callee, t, S)
        PROVE  \A u \in Threads : Steps(Caller, u)' = Steps(Caller, u)
    BY <1>1, WorksAlone, Pair
  <1>2. CASE \/ HangsUp(Callee, t) \/ Requests(Callee, t)
             \/ \E i \in Seqs, s \in {Decline, Moved} : Rejects(t, i, s)
             \/ \E i \in Seqs : Accepts(t, i) \/ Rings(t, i)
    BY <1>1, <1>2, Pair DEF HangsUp, Requests, Rejects, Accepts, Rings, Rest, CallerRests, Out
  <1>3. CASE \/ \E i \in Seqs : Inserts(t, i) \/ AnswersAgain(t, i)
             \/ Deletes(Callee, t) \/ EndsCall(Callee, t) \/ \E e \in Events : Tells(Callee, t, e)
    BY <1>1, <1>3, Pair DEF Inserts, AnswersAgain, Deletes, EndsCall, Tells, Rest, CallerRests, Out
  <1>4. CASE \/ \E i \in Seqs, s \in Statuses : SendsAnswer(t, i, s)
             \/ SendsOther(Callee, t, ByeMsg(Caller))
             \/ \E i \in Seqs : PrackComes(t, i) \/ GivesUp(t, i)
    BY <1>1, <1>4 DEF SendsAnswer, SendsOther, Sends, PrackComes, GivesUp, CallerRests, Out
  <1>5. CASE \/ \E i \in Seqs : \E S : InviteComes(t, i, S)
             \/ CancelComes(t) \/ ByeComes(Callee, t)
    BY <1>1, <1>5 DEF InviteComes, CancelComes, ByeComes, CallerRests, Out
  <1>6. CASE \E n, b \in 0..MaxSeq : AckComes(n, b)
    BY <1>6 DEF AckComes, CallerRests, Out, Steps
  <1> QED
    BY <1>2, <1>3, <1>4, <1>5, <1>6 DEF CalleeActs

-----------------------------------------------------------------------------
(* The highest answer an INVITE was given.                                 *)
Given(i) ==
  IF ist[Callee][i] = None THEN 0
  ELSE IF ist[Callee][i] = Gone THEN Ok ELSE ist[Callee][i].status

Pending(i, s) == Has(Callee, Send(Answer(i, s)))

LEMMA GivenNat == ASSUME Base, NEW i \in Seqs PROVE Given(i) \in Nat /\ Given(i) \in Statuses \cup {0}
  <1>1. ist[Callee][i] \in Transaction \cup {None, Gone}
    BY SentFacts DEF Base
  <1>2. Ok \in Statuses /\ Ok \in Nat
    BY StatusFacts DEF Ok
  <1> QED
    BY <1>1, <1>2, TransactionFacts DEF Given

LEMMA GivenSame ==
  ASSUME NEW i, ist'[Callee][i] = ist[Callee][i]
  PROVE  Given(i)' = Given(i)
  BY DEF Given

LEMMA GivenStep ==
  ASSUME Base, Numbers, NEW t \in Threads, Acts(t), NEW i \in Seqs
  PROVE  \/ Given(i)' = Given(i)
         \/ \E s \in Statuses : /\ SendsAnswer(t, i, s) /\ Given(i)' = s /\ s > Given(i)
                                /\ ist[Callee][i] \in Transaction /\ ist'[Callee][i] \in Transaction
                                /\ wire' = wire \cup {Answer(i, s)}
  <1>1. CASE CallerActs(t)
    BY <1>1, CalleeRestsThen, GivenSame DEF CalleeRests
  <1>2. CASE ist' = ist
    BY <1>2, GivenSame
  <1>3. ASSUME NEW j \in Seqs, NEW s \in Statuses, SendsAnswer(t, j, s), ist' # ist
        PROVE  \/ Given(i)' = Given(i)
               \/ /\ j = i /\ Given(i)' = s /\ s > Given(i)
                  /\ ist[Callee][i] \in Transaction /\ ist'[Callee][i] \in Transaction
                  /\ wire' = wire \cup {Answer(i, s)}
    <2> DEFINE x == [ist[Callee][j] EXCEPT !.status = s]
    <2>1. /\ ist[Callee][j] \in Transaction /\ s > ist[Callee][j].status
          /\ IstBecomes(j, x) /\ wire' = wire \cup {Answer(j, s)}
      BY <1>3 DEF SendsAnswer
    <2>2. x \in Transaction /\ x.status = s
      BY <2>1, TransactionFacts
    <2> HIDE DEF x
    <2>3. CASE i = j
      <3>1. ist'[Callee][i] = x
        BY <2>1, <2>3 DEF IstBecomes
      <3> QED
        BY <2>1, <2>2, <2>3, <3>1, NoneFacts DEF Given
    <2>4. CASE i # j
      <3>1. ist'[Callee][i] = ist[Callee][i]
        BY <2>1, <2>4 DEF IstBecomes
      <3> QED
        BY <3>1, GivenSame
    <2> QED
      BY <2>3, <2>4
  <1>4. ASSUME NEW n \in 0..MaxSeq, NEW b \in 0..MaxSeq, AckComes(n, b), ist' # ist
        PROVE  Given(i)' = Given(i)
    <2> DEFINE x == [ist[Callee][n] EXCEPT !.ack = TRUE]
    <2>1. n \in Seqs /\ ist[Callee][n] \in Transaction /\ IstBecomes(n, x)
      BY <1>4 DEF AckComes
    <2>2. x \in Transaction /\ x.status = ist[Callee][n].status
      BY <2>1, TransactionFacts
    <2> HIDE DEF x
    <2> QED
      BY <2>1, <2>2, NoneFacts DEF IstBecomes, Given
  <1>5. ASSUME NEW j \in Seqs, GivesUp(t, j)
        PROVE  Given(i)' = Given(i)
    BY <1>5, NoneFacts DEF GivesUp, IstBecomes, Given
  <1>6. ASSUME NEW j \in Seqs, NEW S, InviteComes(t, j, S)
        PROVE  Given(i)' = Given(i)
    <2>1. ist[Callee][j] = None
      BY <1>6 DEF Numbers, InviteOnce, InviteComes, Arrives
    <2>2. NewTransaction.status = 0 /\ NewTransaction # None /\ NewTransaction # Gone
      BY NoneFacts DEF NewTransaction
    <2> QED
      BY <1>6, <2>1, <2>2 DEF InviteComes, IstBecomes, Given
  <1>7. CASE CalleeActs(t) /\ ist' # ist
    BY <1>3, <1>4, <1>5, <1>6, <1>7 DEF CalleeActs, HangsUp, Requests, Rejects, Accepts, Rings, Inserts, AnswersAgain,
         PrackComes, SendsOther, Tells, Deletes, EndsCall, CancelComes, ByeComes, Rest
  <1>8. CASE Nothing
    BY <1>8, GivenSame DEF Nothing
  <1> QED
    BY <1>1, <1>2, <1>7, <1>8, Whose

-----------------------------------------------------------------------------
(* Only an INVITE that was received is answered.                           *)
InviteWork(i) ==
  \/ In # None /\ In.invite = i
  \/ Has(Callee, InsertStep(i)) \/ Has(Callee, AnswerStep(i))
  \/ \E s \in Statuses : Pending(i, s)

OnlyReceived == \A i \in Seqs : InviteWork(i) => ist[Callee][i] # None

LEMMA StepsDiffer ==
  /\ \A m, e : Send(m) # Tell(e)
  /\ \A m : Send(m) # Delete /\ Send(m) # SetEnd /\ Send(m) # StopStep
  /\ \A e : Tell(e) # Delete /\ Tell(e) # SetEnd /\ Tell(e) # StopStep
  /\ Delete # SetEnd /\ Delete # StopStep /\ SetEnd # StopStep
  /\ \A i, m : InsertStep(i) # Send(m) /\ AnswerStep(i) # Send(m)
  /\ \A i, e : InsertStep(i) # Tell(e) /\ AnswerStep(i) # Tell(e)
  /\ \A i : /\ InsertStep(i) # Delete /\ AnswerStep(i) # Delete
            /\ InsertStep(i) # SetEnd /\ AnswerStep(i) # SetEnd
  /\ \A i, j : InsertStep(i) # AnswerStep(j)
  <1>1. ASSUME NEW m, NEW e, NEW i, NEW j
        PROVE  /\ Send(m).do = "send" /\ Tell(e).do = "tell"
               /\ InsertStep(i).do = "insert" /\ AnswerStep(j).do = "answer" /\ AnswerStep(i).do = "answer"
               /\ Delete.do = "delete" /\ SetEnd.do = "set end" /\ StopStep.do = "stop"
    BY DEF Send, Tell, Delete, SetEnd, StopStep, InsertStep, AnswerStep
  <1>2. ASSUME NEW m, NEW e, NEW i, NEW j
        PROVE  /\ Send(m) # Tell(e)
               /\ Send(m) # Delete /\ Send(m) # SetEnd /\ Send(m) # StopStep
               /\ Tell(e) # Delete /\ Tell(e) # SetEnd /\ Tell(e) # StopStep
               /\ Delete # SetEnd /\ Delete # StopStep /\ SetEnd # StopStep
               /\ InsertStep(i) # Send(m) /\ AnswerStep(i) # Send(m)
               /\ InsertStep(i) # Tell(e) /\ AnswerStep(i) # Tell(e)
               /\ InsertStep(i) # Delete /\ AnswerStep(i) # Delete
               /\ InsertStep(i) # SetEnd /\ AnswerStep(i) # SetEnd
               /\ InsertStep(i) # AnswerStep(j)
    BY <1>1
  <1> QED
    BY <1>2

LEMMA MessagesDiffer ==
  /\ \A i, s, a : Answer(i, s) # ByeMsg(a)
  /\ \A i, s, j : Answer(i, s) # InviteMsg(j) /\ Answer(i, s) # PrackMsg(j)
  /\ \A i, s, n, b : Answer(i, s) # AckMsg(n, b)
  /\ \A i, s : Answer(i, s) # CancelMsg
  /\ \A a, i : ByeMsg(a) # InviteMsg(i) /\ ByeMsg(a) # PrackMsg(i)
  /\ \A a, n, b : ByeMsg(a) # AckMsg(n, b)
  /\ \A a : ByeMsg(a) # CancelMsg
  /\ \A i, n, b : InviteMsg(i) # AckMsg(n, b) /\ PrackMsg(i) # AckMsg(n, b)
  /\ \A i : InviteMsg(i) # CancelMsg /\ PrackMsg(i) # CancelMsg
  /\ \A n, b : AckMsg(n, b) # CancelMsg
  /\ \A i, j : InviteMsg(i) # PrackMsg(j)
  <1>1. ASSUME NEW i, NEW j, NEW s, NEW a, NEW n, NEW b
        PROVE  /\ Answer(i, s) # ByeMsg(a)
               /\ Answer(i, s) # InviteMsg(j) /\ Answer(i, s) # PrackMsg(j)
               /\ Answer(i, s) # AckMsg(n, b)
               /\ Answer(i, s) # CancelMsg
               /\ ByeMsg(a) # InviteMsg(i) /\ ByeMsg(a) # PrackMsg(i)
               /\ ByeMsg(a) # AckMsg(n, b)
               /\ ByeMsg(a) # CancelMsg
               /\ InviteMsg(i) # AckMsg(n, b) /\ PrackMsg(i) # AckMsg(n, b)
               /\ InviteMsg(i) # CancelMsg /\ PrackMsg(i) # CancelMsg
               /\ AckMsg(n, b) # CancelMsg
               /\ InviteMsg(i) # PrackMsg(j)
    <2>1. /\ Answer(i, s).kind = "response" /\ ByeMsg(a).kind = "BYE"
          /\ InviteMsg(i).kind = "INVITE" /\ InviteMsg(j).kind = "INVITE"
          /\ PrackMsg(i).kind = "PRACK" /\ PrackMsg(j).kind = "PRACK"
          /\ AckMsg(n, b).kind = "ACK" /\ CancelMsg.kind = "CANCEL"
      BY MessageKinds
    <2> QED
      BY <2>1
  <1> QED
    BY <1>1

LEMMA AnswerTags ==
  /\ \A i, s : Tag(Send(Answer(i, s))) = "response"
  /\ \A i, s, e : Send(Answer(i, s)) # Tell(e)
  /\ \A i, s, a : Send(Answer(i, s)) # Send(ByeMsg(a))
  /\ \A i, s : Send(Answer(i, s)) # Delete /\ Send(Answer(i, s)) # SetEnd
  /\ \A i, s, j : Send(Answer(i, s)) # InsertStep(j) /\ Send(Answer(i, s)) # AnswerStep(j)
  /\ \A i, s, j, r : Send(Answer(i, s)) = Send(Answer(j, r)) => i = j /\ s = r
  <1>1. \A i, s, a : Send(Answer(i, s)) # Send(ByeMsg(a))
    BY SendSame, MessagesDiffer
  <1>2. \A i, s, j, r : Send(Answer(i, s)) = Send(Answer(j, r)) => i = j /\ s = r
    BY SendSame, MessageSame
  <1> QED
    BY <1>1, <1>2, SendTags, StepsDiffer

LEMMA InsertTags ==
  /\ \A i, e : InsertStep(i) # Tell(e) /\ AnswerStep(i) # Tell(e)
  /\ \A i, m : InsertStep(i) # Send(m) /\ AnswerStep(i) # Send(m)
  /\ \A i : /\ InsertStep(i) # Delete /\ AnswerStep(i) # Delete
            /\ InsertStep(i) # SetEnd /\ AnswerStep(i) # SetEnd
  /\ \A i, j : /\ InsertStep(i) # AnswerStep(j)
               /\ InsertStep(i) = InsertStep(j) => i = j
               /\ AnswerStep(i) = AnswerStep(j) => i = j
  BY StepsDiffer, MessageSame

(* What the callee's thread has to do afterwards, and the dialog's INVITE. *)
SameInvite == In' = None \/ (In # None /\ In'.invite \in {In.invite, 0})
NoInvite(S) == \A i : /\ InsertStep(i) \notin S /\ AnswerStep(i) \notin S
                      /\ \A s : Send(Answer(i, s)) \notin S

LEMMA ReceivedKept ==
  ASSUME Base, OnlyReceived, NEW t \in Threads, NEW S, Works(Callee, t, S),
         \A i \in Seqs : ist[Callee][i] # None => ist'[Callee][i] # None,
         SameInvite,
         \A i \in Seqs : \A s :
                            /\ InsertStep(i) \in S => InsertStep(i) \in Steps(Callee, t)
                            /\ AnswerStep(i) \in S => AnswerStep(i) \in Steps(Callee, t)
                            /\ Send(Answer(i, s)) \in S =>
                                 ist'[Callee][i] # None \/ Send(Answer(i, s)) \in Steps(Callee, t)
  PROVE  OnlyReceived'
  <1> SUFFICES ASSUME NEW i \in Seqs, InviteWork(i)' PROVE ist'[Callee][i] # None
    BY DEF OnlyReceived
  <1>1. \A s : Has(Callee, s)' => s \in S \/ Has(Callee, s)
    BY WorksHas, Pair
  <1>2. \A s : s \in Steps(Callee, t) => Has(Callee, s)
    BY HasSteps
  <1>3. CASE In' # None /\ In'.invite = i
    <2>1. In # None /\ In.invite = i
      BY <1>3, SeqFacts DEF SameInvite
    <2> QED
      BY <2>1 DEF OnlyReceived, InviteWork
  <1>4. CASE Has(Callee, InsertStep(i))' \/ Has(Callee, AnswerStep(i))'
    BY <1>1, <1>2, <1>4 DEF OnlyReceived, InviteWork
  <1>5. ASSUME NEW s \in Statuses, Pending(i, s)'
        PROVE  ist'[Callee][i] # None
    BY <1>1, <1>2, <1>5 DEF OnlyReceived, InviteWork, Pending
  <1> QED
    BY <1>3, <1>4, <1>5 DEF InviteWork

LEMMA EndedInvite == \A d, f : Ended(d, f) => f.invite = d.invite
  BY DEF Ended

LEMMA OnlyReceivedStep ==
  ASSUME Base, OnlyReceived, NEW t \in Threads, Acts(t)
  PROVE  OnlyReceived'
  <1>1. \A i \in Seqs : ist[Callee][i] # None => ist'[Callee][i] # None
    BY Grows
  <1>2. CASE CalleeRests
    <2>1. \A s : Has(Callee, s)' <=> Has(Callee, s)
      BY <1>2 DEF CalleeRests, Has
    <2> QED
      BY <1>2, <2>1 DEF CalleeRests, OnlyReceived, InviteWork, Pending
  <1>3. CASE Nothing
    BY <1>3 DEF Nothing, OnlyReceived, InviteWork, Pending, Has, Steps, In
  <1>4. ASSUME NEW S, Works(Callee, t, S), SameInvite, NoInvite(S)
        PROVE  OnlyReceived'
    BY <1>1, <1>4, ReceivedKept DEF NoInvite
  <1>5. ASSUME NEW S, Works(Callee, t, S), SameInvite, S \subseteq Steps(Callee, t)
        PROVE  OnlyReceived'
    BY <1>1, <1>5, ReceivedKept
  <1>6. ASSUME NEW i \in Seqs, NEW s, NEW R, Works(Callee, t, {Send(Answer(i, s))} \cup R), NoInvite(R), SameInvite,
               ist'[Callee][i] # None
        PROVE  OnlyReceived'
    <2> DEFINE S == {Send(Answer(i, s))} \cup R
    <2>1. \A j \in Seqs : \A r :
                             /\ InsertStep(j) \notin S /\ AnswerStep(j) \notin S
                             /\ Send(Answer(j, r)) \in S => j = i
      BY <1>6, AnswerTags DEF NoInvite
    <2>2. Works(Callee, t, S)
      BY <1>6
    <2> HIDE DEF S
    <2> QED
      BY <1>1, <1>6, <2>1, <2>2, ReceivedKept
  <1>7. NoInvite({}) /\ NoInvite({Send(ByeMsg(Caller))}) /\ NoInvite({Tell("end"), Delete}) /\ NoInvite({SetEnd})
        /\ NoInvite({Tell("call")}) /\ NoInvite({Tell("prack")})
    BY AnswerTags, InsertTags DEF NoInvite
  <1>8. /\ In' = In => SameInvite
        /\ dialog' = dialog => SameInvite
        /\ In' = None => SameInvite
        /\ In \in Dialog /\ Ended(In, In') => SameInvite
    BY NoneFacts, EndedInvite DEF SameInvite, In
  <1>9. In # None /\ In.invite \in Seqs => ist'[Callee][In.invite] # None
    BY <1>1 DEF OnlyReceived, InviteWork
  <1>10. CASE HangsUp(Callee, t) \/ Requests(Callee, t)
    <2>1. SameInvite
      BY <1>8, <1>10, NoneFacts, Pair DEF HangsUp, Requests, SameInvite, In
    <2> QED
      BY <1>4, <1>7, <1>10, <2>1, Pair DEF HangsUp, Requests
  <1>11. ASSUME NEW i \in Seqs, NEW s, Rejects(t, i, s)
         PROVE  OnlyReceived'
    BY <1>6, <1>7, <1>8, <1>9, <1>11, NoneFacts DEF Rejects
  <1>12. ASSUME NEW i \in Seqs, Accepts(t, i) \/ Rings(t, i)
         PROVE  OnlyReceived'
    <2>1. SameInvite /\ ist'[Callee][i] # None
      BY <1>8, <1>9, <1>12, NoneFacts DEF Accepts, Rings, SameInvite
    <2> QED
      BY <1>6, <1>7, <1>12, <2>1 DEF Accepts, Rings
  <1>13. ASSUME NEW i \in Seqs, Inserts(t, i)
         PROVE  OnlyReceived'
    <2>1. ist'[Callee][i] # None
      <3>1. Has(Callee, InsertStep(i))
        BY <1>13, HasSteps DEF Inserts
      <3> QED
        BY <1>1, <3>1 DEF OnlyReceived, InviteWork
    <2>2. CASE dialog' = dialog /\ Works(Callee, t, {})
      BY <1>4, <1>7, <1>8, <2>2
    <2>3. CASE In' \in Dialog /\ In'.invite = i /\ Works(Callee, t, {Tell("call")})
      <3> SUFFICES ASSUME NEW j \in Seqs, InviteWork(j)' PROVE ist'[Callee][j] # None
        BY DEF OnlyReceived
      <3>1. \A s : Has(Callee, s)' => s = Tell("call") \/ Has(Callee, s)
        BY <2>3, WorksHas, Pair
      <3>2. CASE j = i
        BY <2>1, <3>2
      <3>3. CASE j # i
        BY <1>1, <2>3, <3>1, <3>3, AnswerTags, InsertTags DEF InviteWork, OnlyReceived, Pending
      <3> QED
        BY <3>2, <3>3
    <2> QED
      BY <1>13, <2>2, <2>3 DEF Inserts
  <1>14. ASSUME NEW i \in Seqs, AnswersAgain(t, i)
         PROVE  OnlyReceived'
    <2>1. ist'[Callee][i] # None
      <3>1. Has(Callee, AnswerStep(i))
        BY <1>14, HasSteps DEF AnswersAgain
      <3> QED
        BY <1>1, <3>1 DEF OnlyReceived, InviteWork
    <2>2. SameInvite
      BY <1>8, <1>14 DEF AnswersAgain
    <2>3. CASE Works(Callee, t, {})
      BY <1>4, <1>7, <2>2, <2>3
    <2>4. CASE Works(Callee, t, {Send(Answer(i, Ok))})
      BY <1>6, <1>7, <2>1, <2>2, <2>4
    <2> QED
      BY <1>14, <2>3, <2>4 DEF AnswersAgain
  <1>15. ASSUME NEW m, Sends(Callee, t, m)
         PROVE  OnlyReceived'
    BY <1>5, <1>8, <1>15 DEF Sends
  <1>16. ASSUME NEW e, Tells(Callee, t, e)
         PROVE  OnlyReceived'
    BY <1>5, <1>8, <1>16 DEF Tells
  <1>17. CASE Deletes(Callee, t)
    BY <1>4, <1>7, <1>8, <1>17 DEF Deletes, In
  <1>18. CASE EndsCall(Callee, t)
    BY <1>4, <1>7, <1>8, <1>18 DEF EndsCall, In
  <1>19. ASSUME NEW i \in Seqs, NEW S, InviteComes(t, i, S)
         PROVE  OnlyReceived'
    <2>1. SameInvite /\ Works(Callee, t, S) /\ InviteAnswers(i, S)
      BY <1>8, <1>19 DEF InviteComes
    <2>2. ist'[Callee][i] # None
      BY <1>19, NoneFacts DEF InviteComes, IstBecomes
    <2>3. \A j \in Seqs : \A s : InsertStep(j) \in S \/ AnswerStep(j) \in S \/ Send(Answer(j, s)) \in S => j = i
      BY <2>1, AnswerTags, InsertTags DEF InviteAnswers
    <2> SUFFICES ASSUME NEW j \in Seqs, InviteWork(j)' PROVE ist'[Callee][j] # None
      BY DEF OnlyReceived
    <2>4. In' = In
      BY <1>19 DEF InviteComes, In
    <2>5. \A s : Has(Callee, s)' => s \in S \/ Has(Callee, s)
      BY <2>1, WorksHas, Pair
    <2> QED
      BY <1>1, <2>2, <2>3, <2>4, <2>5 DEF InviteWork, OnlyReceived, Pending
  <1>20. ASSUME NEW n, NEW b, AckComes(n, b)
         PROVE  OnlyReceived'
    BY <1>1, <1>20 DEF AckComes, OnlyReceived, InviteWork, Pending, Has, Steps, In
  <1>21. CASE CancelComes(t)
    <2>1. CASE In \in Dialog /\ In.invite \in Seqs /\ Ended(In, In')
               /\ Works(Callee, t, {Send(Answer(In.invite, Terminated)), Tell("end"), Delete})
      <3>1. {Send(Answer(In.invite, Terminated)), Tell("end"), Delete}
              = {Send(Answer(In.invite, Terminated))} \cup {Tell("end"), Delete}
        OBVIOUS
      <3> QED
        BY <1>6, <1>7, <1>8, <1>9, <2>1, <3>1, NoneFacts
    <2> QED
      BY <1>4, <1>7, <1>8, <1>21, <2>1 DEF CancelComes
  <1>22. CASE ByeComes(Callee, t)
    BY <1>4, <1>7, <1>8, <1>22 DEF ByeComes
  <1>23. ASSUME NEW i \in Seqs, PrackComes(t, i)
         PROVE  OnlyReceived'
    BY <1>4, <1>7, <1>8, <1>23 DEF PrackComes
  <1>24. ASSUME NEW i \in Seqs, GivesUp(t, i)
         PROVE  OnlyReceived'
    BY <1>4, <1>7, <1>8, <1>24 DEF GivesUp
  <1>25. CASE CalleeActs(t)
    BY <1>10, <1>11, <1>12, <1>13, <1>14, <1>15, <1>16, <1>17, <1>18, <1>19, <1>20, <1>21, <1>22, <1>23, <1>24, <1>25
       DEF CalleeActs, SendsAnswer, SendsOther
  <1>26. CASE CallerActs(t)
    BY <1>2, <1>26, CalleeRestsThen
  <1> QED
    BY <1>3, <1>25, <1>26, Whose

-----------------------------------------------------------------------------
(* With one thread a call is answered by one thing after the other.  Of    *)
(* INVITE i: the dialog d, the highest answer g, the things S to do.       *)
Final(s) == s >= 200

AtOnce(i, d, g, S) ==
  /\ \A s \in Statuses : Final(s) /\ Send(Answer(i, s)) \in S =>
       g < 200 /\ (d # None /\ d.invite = i => Delete \in S)
  /\ d # None /\ d.invite = i /\ g >= 200 => Delete \in S
  /\ InsertStep(i) \in S => g < 200 /\ \A s \in Statuses : Final(s) => Send(Answer(i, s)) \notin S
  /\ AnswerStep(i) \in S =>
       /\ g < 200 /\ (d # None => d.invite # i)
       /\ \A s \in Statuses : Final(s) => Send(Answer(i, s)) \notin S

OneAtATime ==
  ~May("threads") => \A t \in Workers, i \in Seqs : AtOnce(i, In, Given(i), Steps(Callee, t))

LEMMA OneWorker == ~May("threads") => \A t, u \in Workers : t = u
  BY DEF Workers

LEMMA OneAnswer ==
  ASSUME Base, NEW a \in Agents, NEW t \in Threads, NEW f \in Steps(a, t), NEW s \in Steps(a, t),
         Tag(f) \in {"ACK", "response"}, Tag(s) \in {"ACK", "response"}
  PROVE  f = s
  <1> DEFINE q == todo[a][t]
  <1>1. Ordered(q)
    BY DEF Base, ListsRight
  <1>2. Steps(a, t) = Items(q)
    BY DEF Steps
  <1> HIDE DEF q
  <1>3. PICK j \in 1..Len(q) : f = q[j]
    BY <1>2 DEF Items
  <1>4. PICK k \in 1..Len(q) : s = q[k]
    BY <1>2 DEF Items
  <1>5. j = 1 /\ k = 1
    BY <1>1, <1>3, <1>4 DEF Ordered
  <1> QED
    BY <1>3, <1>4, <1>5

(* Nothing to do about the INVITE. *)
LEMMA AtOnceIdle ==
  ASSUME NEW i, NEW d, NEW g, NEW S, NoInvite(S), d # None /\ d.invite = i /\ g >= 200 => Delete \in S
  PROVE  AtOnce(i, d, g, S)
  BY DEF AtOnce, NoInvite

(* One answer to do, and nothing else but NoInvite. *)
LEMMA AtOnceAnswer ==
  ASSUME NEW i, NEW k, NEW s, NEW d, NEW g, NEW R, NoInvite(R),
         d # None /\ d.invite = i /\ g >= 200 => Delete \in R,
         k = i => g < 200 /\ (d # None /\ d.invite = i => Delete \in R)
  PROVE  AtOnce(i, d, g, {Send(Answer(k, s))} \cup R)
  <1> DEFINE S == {Send(Answer(k, s))} \cup R
  <1>1. /\ InsertStep(i) \notin S /\ AnswerStep(i) \notin S
        /\ \A r : Send(Answer(i, r)) \in S => i = k
        /\ Delete \in R => Delete \in S
    BY AnswerTags DEF NoInvite
  <1> HIDE DEF S
  <1>2. AtOnce(i, d, g, S)
    BY <1>1 DEF AtOnce
  <1> QED
    BY <1>2 DEF S

LEMMA AtOnceFewer ==
  ASSUME NEW i, NEW d, NEW e, NEW g, NEW S, NEW x, AtOnce(i, d, g, S), x # Delete,
         e # None => d # None /\ e.invite = d.invite
  PROVE  AtOnce(i, e, g, S \ {x})
  BY DEF AtOnce

LEMMA AtOnceEmpty ==
  ASSUME NEW i, NEW d, NEW g, AtOnce(i, d, g, {})
  PROVE  ~(d # None /\ d.invite = i /\ g >= 200)
  BY DEF AtOnce

LEMMA FinalStatuses ==
  /\ ~Final(Ringing) /\ ~Final(SessionProgress) /\ Final(Ok) /\ Final(Moved) /\ Final(Unauthorized)
  /\ Final(Terminated) /\ Final(NotAcceptable) /\ Final(Decline) /\ Final(RequestTimeout)
  BY DEF Final, Ringing, SessionProgress, Ok, Moved, Unauthorized, Terminated, NotAcceptable, Decline, RequestTimeout

LEMMA OneAtATimeStep ==
  ASSUME Base, Numbers, OnlyReceived, OneAtATime, NEW t \in Workers, Acts(t), scenario' = scenario
  PROVE  OneAtATime'
  <1> SUFFICES ASSUME ~May("threads"), NEW i \in Seqs
               PROVE  AtOnce(i, In', Given(i)', Steps(Callee, t)')
    <2>1. Workers' = Workers /\ (May("threads")' <=> May("threads"))
      BY DEF Workers, May
    <2>2. ~May("threads") => \A u \in Workers : u = t
      BY OneWorker
    <2> QED
      BY <2>1, <2>2 DEF OneAtATime
  <1> DEFINE S == Steps(Callee, t)
             R == Steps(Callee, t)'
             g == Given(i)
             h == Given(i)'
             d == In
             e == In'
  <1>1. t \in Threads
    BY WorkerThreads
  <1>2. AtOnce(i, d, g, S)
    BY DEF OneAtATime
  <1>3. \A x : Works(Callee, t, x) => R = x
    BY <1>1, WorksHas, Pair
  <1>4. g \in Nat
    BY GivenNat
  <1>5. S = {} => ~(d # None /\ d.invite = i /\ g >= 200)
    BY <1>2, AtOnceEmpty
  <1>6. UNCHANGED ist => h = g
    BY GivenSame
  <1>7. (In = None => d = None) /\ (In' = None => e = None)
    OBVIOUS
  <1>8. NoInvite({}) /\ NoInvite({Send(ByeMsg(Caller))}) /\ NoInvite({Tell("end"), Delete}) /\ NoInvite({SetEnd})
        /\ NoInvite({Tell("call")}) /\ NoInvite({Tell("prack")}) /\ Delete \in {Tell("end"), Delete}
    BY AnswerTags, InsertTags DEF NoInvite
  <1>9. g # h => \E s \in Statuses : SendsAnswer(t, i, s)
    BY <1>1, GivenStep
  <1>10. CASE CalleeRests
    BY <1>1, <1>2, <1>6, <1>10 DEF CalleeRests
  <1>11. CASE Nothing
    BY <1>2, <1>6, <1>11 DEF Nothing, In, Steps
  <1>12. CASE HangsUp(Callee, t)
    BY <1>3, <1>8, <1>12, AtOnceIdle, Pair DEF HangsUp, In
  <1>13. CASE Requests(Callee, t)
    <2>1. e # None => d # None /\ e.invite = d.invite
      BY <1>13, NoneFacts DEF Requests, In
    <2> QED
      BY <1>3, <1>5, <1>6, <1>8, <1>13, <2>1, AtOnceIdle DEF Requests, Rest
  <1>14. ASSUME NEW k \in Seqs, NEW s, Rejects(t, k, s)
         PROVE  AtOnce(i, e, h, R)
    <2>1. R = {Send(Answer(k, s))} \cup {} /\ h = g /\ e = None /\ d # None /\ d.invite = k /\ S = {}
      BY <1>3, <1>6, <1>14, NoneFacts DEF Rejects, Rest
    <2> QED
      BY <1>4, <1>5, <1>8, <2>1, AtOnceAnswer
  <1>15. ASSUME NEW k \in Seqs, Accepts(t, k)
         PROVE  AtOnce(i, e, h, R)
    <2>1. R = {Send(Answer(k, Ok))} \cup {} /\ h = g /\ e.invite = 0 /\ d # None /\ d.invite = k /\ S = {}
      BY <1>3, <1>6, <1>15, NoneFacts DEF Accepts, Rest
    <2> QED
      BY <1>4, <1>5, <1>8, <2>1, AtOnceAnswer, SeqFacts
  <1>16. ASSUME NEW k \in Seqs, Rings(t, k)
         PROVE  AtOnce(i, e, h, R)
    <2>1. R = {Send(Answer(k, SessionProgress))} /\ h = g /\ e = d /\ S = {}
      BY <1>3, <1>6, <1>16 DEF Rings, Rest, In
    <2>2. \A s : Final(s) => Send(Answer(i, s)) \notin R
      BY <2>1, AnswerTags, FinalStatuses
    <2>3. InsertStep(i) \notin R /\ AnswerStep(i) \notin R
      BY <2>1, AnswerTags
    <2> QED
      BY <1>5, <2>1, <2>2, <2>3 DEF AtOnce
  <1>17. ASSUME NEW k \in Seqs, Inserts(t, k)
         PROVE  AtOnce(i, e, h, R)
    <2>1. h = g /\ S = {InsertStep(k)} /\ NoInvite(R) /\ Delete \notin S
      BY <1>3, <1>6, <1>8, <1>17, InsertTags DEF Inserts, Rest
    <2>2. i = k => g < 200
      BY <1>2, <2>1 DEF AtOnce
    <2>3. ~(d # None /\ d.invite = i /\ g >= 200)
      BY <1>2, <2>1 DEF AtOnce
    <2>4. e # None => (d # None /\ e.invite = d.invite) \/ e.invite = k
      BY <1>17 DEF Inserts, In
    <2> QED
      BY <1>4, <2>1, <2>2, <2>3, <2>4, AtOnceIdle
  <1>18. ASSUME NEW k \in Seqs, AnswersAgain(t, k)
         PROVE  AtOnce(i, e, h, R)
    <2>1. h = g /\ S = {AnswerStep(k)} /\ e = d /\ Delete \notin S
      BY <1>6, <1>18, InsertTags DEF AnswersAgain, Rest, In
    <2>2. i = k => g < 200 /\ (d # None => d.invite # i)
      BY <1>2, <2>1 DEF AtOnce
    <2>3. ~(d # None /\ d.invite = i /\ g >= 200)
      BY <1>2, <2>1 DEF AtOnce
    <2>4. R = {} \/ R = {Send(Answer(k, Ok))} \cup {}
      BY <1>3, <1>18 DEF AnswersAgain
    <2> QED
      BY <1>8, <2>1, <2>2, <2>3, <2>4, AtOnceIdle, AtOnceAnswer
  <1>19. ASSUME NEW k \in Seqs, NEW s \in Statuses, SendsAnswer(t, k, s)
         PROVE  AtOnce(i, e, h, R)
    <2>1. /\ Send(Answer(k, s)) \in S /\ R = S \ {Send(Answer(k, s))} /\ e = d
      BY <1>3, <1>19 DEF SendsAnswer, Sends, In
    <2>2. Tag(Send(Answer(k, s))) = "response"
      BY AnswerTags
    <2>3. \A r \in Statuses : Send(Answer(i, r)) \notin R
      BY <1>1, <2>1, <2>2, OneAnswer, AnswerTags, Pair
    <2>4. Delete \in S => Delete \in R
      BY <2>1, AnswerTags
    <2>5. CASE h = g
      BY <1>2, <2>1, <2>3, <2>4, <2>5 DEF AtOnce
    <2>6. CASE h # g
      <3>1. PICK r \in Statuses : SendsAnswer(t, i, r) /\ Given(i)' = r /\ r > Given(i)
        BY <1>1, <2>6, GivenStep
      <3>2. Send(Answer(i, r)) \in S
        BY <3>1 DEF SendsAnswer, Sends
      <3>3. i = k /\ r = s /\ h = s
        BY <1>1, <2>1, <2>2, <3>1, <3>2, OneAnswer, AnswerTags, Pair
      <3>4. CASE Final(s)
        <4>1. d # None /\ d.invite = i => Delete \in S
          BY <1>2, <2>1, <3>3, <3>4 DEF AtOnce
        <4>2. InsertStep(i) \notin S /\ AnswerStep(i) \notin S
          BY <1>2, <2>1, <3>3, <3>4 DEF AtOnce
        <4> QED
          BY <2>1, <2>3, <2>4, <4>1, <4>2 DEF AtOnce
      <3>5. CASE ~Final(s)
        <4>1. h < 200
          BY <3>3, <3>5, StatusFacts DEF Final
        <4>2. AnswerStep(i) \in R => (d # None => d.invite # i)
          BY <1>2, <2>1 DEF AtOnce
        <4>3. ~(h >= 200)
          BY <3>3, <3>5 DEF Final
        <4> QED
          BY <2>1, <2>3, <4>1, <4>2, <4>3 DEF AtOnce
      <3> QED
        BY <3>4, <3>5
    <2> QED
      BY <2>5, <2>6
  <1>20. CASE SendsOther(Callee, t, ByeMsg(Caller))
    <2>1. R = S \ {Send(ByeMsg(Caller))} /\ e = d /\ h = g /\ Send(ByeMsg(Caller)) # Delete
      BY <1>3, <1>6, <1>20, StepsDiffer DEF SendsOther, Sends, In
    <2> QED
      BY <1>2, <2>1, AtOnceFewer
  <1>21. ASSUME NEW x, Tells(Callee, t, x)
         PROVE  AtOnce(i, e, h, R)
    <2>1. R = S \ {Tell(x)} /\ e = d /\ h = g /\ Tell(x) # Delete
      BY <1>3, <1>6, <1>21, StepsDiffer DEF Tells, Rest, In
    <2>2. AtOnce(i, d, g, S \ {Tell(x)})
      BY <1>2, <2>1, AtOnceFewer
    <2> QED
      BY <2>1, <2>2
  <1>22. CASE Deletes(Callee, t)
    BY <1>3, <1>8, <1>22, AtOnceIdle DEF Deletes, In
  <1>23. CASE EndsCall(Callee, t)
    <2>1. h = g /\ S = {SetEnd} /\ Delete \notin S
      BY <1>6, <1>23, StepsDiffer DEF EndsCall, Rest
    <2>2. ~(d # None /\ d.invite = i /\ g >= 200)
      BY <1>2, <2>1 DEF AtOnce
    <2>3. NoInvite(R) /\ (e # None => d # None /\ e.invite = d.invite)
      <3>1. CASE dialog[Callee] = None /\ dialog' = dialog /\ Works(Callee, t, {})
        BY <1>3, <1>8, <3>1 DEF In
      <3>2. CASE dialog[Callee] \in Dialog /\ Ended(dialog[Callee], dialog'[Callee]) /\ Works(Callee, t, {Tell("end"), Delete})
        BY <1>3, <1>8, <3>2, NoneFacts, EndedInvite DEF In
      <3> QED
        BY <1>23, <3>1, <3>2 DEF EndsCall
    <2> QED
      BY <2>1, <2>2, <2>3, AtOnceIdle
  <1>24. ASSUME NEW k \in Seqs, NEW T, InviteComes(t, k, T)
         PROVE  AtOnce(i, e, h, R)
    <2>1. e = d /\ R = T /\ S = {} /\ ist[Callee][k] = None /\ InviteAnswers(k, T)
      BY <1>3, <1>24 DEF InviteComes, In, Arrives, Numbers, InviteOnce
    <2>2. d # None => d.invite # k
      BY <2>1 DEF OnlyReceived, InviteWork
    <2>3. h = g /\ (i = k => h = 0)
      <3>1. ~\E s \in Statuses : SendsAnswer(t, i, s)
        BY <2>1 DEF SendsAnswer, Sends
      <3>2. h = g
        BY <1>9, <3>1
      <3>3. i = k => g = 0
        BY <2>1 DEF Given
      <3> QED
        BY <3>2, <3>3
    <2>4. ~(d # None /\ d.invite = i /\ g >= 200)
      BY <1>5, <2>1
    <2>5. ASSUME NEW s, T = {Send(Answer(k, s))}
          PROVE  AtOnce(i, e, h, R)
      <3>1. R = {Send(Answer(k, s))} \cup {}
        BY <2>1, <2>5
      <3> QED
        BY <1>8, <2>1, <2>2, <2>3, <2>4, <3>1, AtOnceAnswer
    <2>6. CASE T = {AnswerStep(k)}
      <3>1. InsertStep(i) \notin R /\ (\A s : Send(Answer(i, s)) \notin R) /\ (AnswerStep(i) \in R => i = k)
        BY <2>1, <2>6, AnswerTags, InsertTags
      <3> QED
        BY <2>1, <2>2, <2>3, <2>4, <3>1 DEF AtOnce
    <2>7. CASE T = {Send(Answer(k, Ringing)), InsertStep(k)}
      <3>1. AnswerStep(i) \notin R /\ (\A s : Send(Answer(i, s)) \in R => s = Ringing) /\ (InsertStep(i) \in R => i = k)
        BY <2>1, <2>7, AnswerTags, InsertTags
      <3>2. \A s : Final(s) => Send(Answer(i, s)) \notin R
        BY <3>1, FinalStatuses
      <3> QED
        BY <2>1, <2>2, <2>3, <2>4, <3>1, <3>2 DEF AtOnce
    <2> QED
      BY <2>1, <2>5, <2>6, <2>7 DEF InviteAnswers
  <1>25. ASSUME NEW n, NEW b, AckComes(n, b)
         PROVE  AtOnce(i, e, h, R)
    <2>1. R = S /\ e = d
      BY <1>25 DEF AckComes, Steps, In
    <2>2. h = g
      <3>1. Acts(t) /\ ~\E s \in Statuses : SendsAnswer(t, i, s)
        <4>1. ASSUME NEW s \in Statuses, SendsAnswer(t, i, s)
              PROVE  FALSE
          <5>1. Send(Answer(i, s)) \in S /\ R = S \ {Send(Answer(i, s))}
            BY <1>3, <4>1 DEF SendsAnswer, Sends
          <5> QED
            BY <2>1, <5>1
        <4> QED
          BY <4>1
      <3> QED
        BY <1>9, <3>1
    <2> QED
      BY <1>2, <2>1, <2>2
  <1>26. CASE CancelComes(t)
    <2>1. h = g /\ S = {}
      BY <1>6, <1>26 DEF CancelComes
    <2>2. ~(d # None /\ d.invite = i /\ g >= 200)
      BY <1>5, <2>1
    <2>3. CASE In \in Dialog /\ Ended(In, In') /\ Works(Callee, t, {Send(Answer(In.invite, Terminated)), Tell("end"), Delete})
      <3>1. R = {Send(Answer(In.invite, Terminated))} \cup {Tell("end"), Delete} /\ d # None
        BY <1>3, <2>3, NoneFacts
      <3>2. e.invite = d.invite
        BY <2>3, EndedInvite
      <3> QED
        BY <1>4, <1>8, <2>1, <2>2, <3>1, <3>2, AtOnceAnswer
    <2>4. CASE dialog' = dialog /\ Works(Callee, t, {})
      BY <1>3, <1>8, <2>1, <2>2, <2>4, AtOnceIdle DEF In
    <2> QED
      BY <1>26, <2>3, <2>4 DEF CancelComes
  <1>27. CASE ByeComes(Callee, t)
    BY <1>3, <1>5, <1>6, <1>8, <1>27, AtOnceIdle DEF ByeComes, In
  <1>28. ASSUME NEW k, PrackComes(t, k)
         PROVE  AtOnce(i, e, h, R)
    BY <1>3, <1>5, <1>6, <1>8, <1>28, AtOnceIdle DEF PrackComes, In
  <1>29. ASSUME NEW k, GivesUp(t, k)
         PROVE  AtOnce(i, e, h, R)
    <2>1. R = {Tell("end"), Delete}
      BY <1>3, <1>29 DEF GivesUp
    <2> QED
      BY <1>8, <2>1, AtOnceIdle
  <1>30. CASE CalleeActs(t)
    <2>1. \/ \E s : \E k \in Seqs : Rejects(t, k, s)
          \/ \E k \in Seqs : \/ Accepts(t, k) \/ Rings(t, k) \/ Inserts(t, k) \/ AnswersAgain(t, k)
                             \/ PrackComes(t, k) \/ GivesUp(t, k)
                             \/ \E s \in Statuses : SendsAnswer(t, k, s)
                             \/ \E T : InviteComes(t, k, T)
          \/ \E x : Tells(Callee, t, x)
          \/ \E n, b : AckComes(n, b)
          \/ HangsUp(Callee, t) \/ Requests(Callee, t) \/ SendsOther(Callee, t, ByeMsg(Caller))
          \/ Deletes(Callee, t) \/ EndsCall(Callee, t) \/ CancelComes(t) \/ ByeComes(Callee, t)
      BY <1>30 DEF CalleeActs
    <2> QED
      BY <1>12, <1>13, <1>14, <1>15, <1>16, <1>17, <1>18, <1>19, <1>20, <1>21, <1>22, <1>23, <1>24, <1>25,
         <1>26, <1>27, <1>28, <1>29, <2>1
  <1>31. CASE CallerActs(t)
    BY <1>1, <1>10, <1>31, CalleeRestsThen
  <1> QED
    BY <1>1, <1>11, <1>30, <1>31, Whose

LEMMA SameOneAtATime == ASSUME OnlyReceived, OneAtATime, UNCHANGED vars PROVE OnlyReceived' /\ OneAtATime'
  BY DEF vars, OnlyReceived, InviteWork, Pending, OneAtATime, Workers, May, Given, Steps, Has, In

LEMMA OneAtATimeInit == Init => OnlyReceived /\ OneAtATime
  <1> SUFFICES ASSUME Init PROVE OnlyReceived /\ OneAtATime
    OBVIOUS
  <1>1. \A a \in Agents, t \in Threads : Steps(a, t) = {}
    BY InitLists
  <1>2. (\A a \in Agents : \A s : ~Has(a, s)) /\ In = None
    BY InitLists
  <1>3. NoInvite({})
    BY DEF NoInvite
  <1> QED
    BY <1>1, <1>2, <1>3, AtOnceIdle, WorkerThreads, Pair DEF OnlyReceived, InviteWork, Pending, OneAtATime

(* An INVITE is not given another final response once it has one, as long  *)
(* as the callee has one thread and there are no re-INVITEs.               *)
THEOREM AnswersKept == Spec => AnsweredOnce
  <1> DEFINE Inv == Base /\ Numbers /\ OnlyReceived /\ OneAtATime
  <1>1. Init => Inv
    BY BaseInit, NumbersInit, OneAtATimeInit
  <1>2. Inv /\ [Next]_vars => Inv'
    BY NextDoes, SameBase, NumbersStep, SameNumbersInv, WorkerThreads, OnlyReceivedStep, OneAtATimeStep, SameOneAtATime
  <1>3. Inv /\ [Next]_vars =>
          [\A a \in Agents, i \in Seqs :
             OneInvite /\ ist[a][i] \notin {None, Gone} /\ ist[a][i].status >= 200 =>
               ist'[a][i] = Gone \/ ist'[a][i].status = ist[a][i].status]_vars
    <2> SUFFICES ASSUME Inv, Next, NEW a \in Agents, NEW i \in Seqs, OneInvite,
                        ist[a][i] \notin {None, Gone}, ist[a][i].status >= 200
                 PROVE  ist'[a][i] = Gone \/ ist'[a][i].status = ist[a][i].status
      OBVIOUS
    <2>1. PICK t \in Workers : Acts(t)
      BY NextDoes
    <2>2. t \in Threads
      BY WorkerThreads
    <2>3. a = Callee
      BY Pair DEF Base, StackRight
    <2>4. Given(i) = ist[Callee][i].status /\ Given(i) >= 200
      BY <2>3 DEF Given
    <2>5. Given(i)' = Given(i)
      <3> SUFFICES ASSUME NEW s \in Statuses, SendsAnswer(t, i, s), s > Given(i)
                   PROVE  FALSE
        BY <2>1, <2>2, GivenStep
      <3>1. Send(Answer(i, s)) \in Steps(Callee, t)
        BY DEF SendsAnswer, Sends
      <3>2. AtOnce(i, In, Given(i), Steps(Callee, t))
        BY <2>1 DEF OneAtATime, OneInvite
      <3>3. Given(i) \in Nat /\ s \in Nat
        BY GivenNat, StatusFacts
      <3>4. Final(s)
        BY <2>4, <3>3 DEF Final
      <3> QED
        BY <2>4, <3>1, <3>2, <3>3, <3>4 DEF AtOnce
    <2>6. ist'[Callee][i] # None
      BY <2>1, <2>2, <2>3, Grows
    <2> QED
      BY <2>3, <2>4, <2>5, <2>6 DEF Given
  <1> QED
    BY <1>1, <1>2, <1>3, PTL DEF Spec, AnsweredOnce

-----------------------------------------------------------------------------
(* A message on the wire was sent by someone who had to send it.           *)
LEMMA WireStep ==
  ASSUME Base, NEW t \in Threads, Acts(t), NEW m, m \in wire', m \notin wire
  PROVE  \E a \in Agents :
           /\ Send(m) \in Steps(a, t)
           /\ \/ a = Caller /\ \E i \in Seqs : m = InviteMsg(i) /\ SendsInvite(t, i)
              \/ a = Caller /\ \E n, b \in 0..MaxSeq : m = AckMsg(n, b) /\ SendsAck(t, n, b)
              \/ a = Callee /\ \E i \in Seqs, s \in Statuses :
                   m = Answer(i, s) /\ SendsAnswer(t, i, s)
                     /\ ist[Callee][i] \in Transaction /\ s > ist[Callee][i].status
              \/ SendsOther(a, t, m) /\ (m = CancelMsg \/ m = ByeMsg(Peer(a)) \/ \E n \in Seqs : m = PrackMsg(n))
  <1> USE Pair
  <1>1. CASE Calls(t)
    BY <1>1 DEF Calls, CallStarts, HangsUp, CallCancels, Rejects, Accepts, Rings, ReInvites, Requests, Pracks, Nothing, Rest
  <1>2. CASE Receives(t)
    BY <1>2 DEF Receives, InviteComes, AckComes, CancelComes, ByeComes, PrackComes, Hears, Arrives, Overtaken
  <1>3. CASE Expires(t)
    BY <1>3 DEF Expires, TimesOut, GivesUp
  <1>4. CASE Proceeds(t)
    <2>1. ASSUME NEW i \in Seqs, SendsInvite(t, i)
          PROVE  Send(m) \in Steps(Caller, t) /\ m = InviteMsg(i)
      BY <2>1 DEF SendsInvite, Sends
    <2>2. ASSUME NEW n \in 0..MaxSeq, NEW b \in 0..MaxSeq, SendsAck(t, n, b)
          PROVE  Send(m) \in Steps(Caller, t) /\ m = AckMsg(n, b)
      BY <2>2 DEF SendsAck, Sends, AckGoes
    <2>3. ASSUME NEW i \in Seqs, NEW s \in Statuses, SendsAnswer(t, i, s)
          PROVE  /\ Send(m) \in Steps(Callee, t) /\ m = Answer(i, s)
                 /\ ist[Callee][i] \in Transaction /\ s > ist[Callee][i].status
      BY <2>3 DEF SendsAnswer, Sends
    <2>4. ASSUME NEW a \in Agents, NEW x, SendsOther(a, t, x)
          PROVE  Send(m) \in Steps(a, t) /\ m = x
      BY <2>4 DEF SendsOther, Sends
    <2>5. CASE \/ \E a \in Agents, e \in Events : Tells(a, t, e)
               \/ \E a \in Agents : Deletes(a, t) \/ EndsCall(a, t)
               \/ \E i \in Seqs : Inserts(t, i) \/ AnswersAgain(t, i)
               \/ HangsUp(Caller, t) \/ StopsNothing(t)
      BY <2>5 DEF Tells, Deletes, EndsCall, Inserts, AnswersAgain, HangsUp, StopsNothing, Rest
    <2>6. CASE \/ \E i \in Seqs : SendsInvite(t, i)
               \/ \E n, b \in 0..MaxSeq : SendsAck(t, n, b)
               \/ \E i \in Seqs, s \in Statuses : SendsAnswer(t, i, s)
      BY <2>1, <2>2, <2>3, <2>6
    <2>7. CASE \/ SendsOther(Caller, t, CancelMsg)
               \/ \E a \in Agents : SendsOther(a, t, ByeMsg(Peer(a)))
               \/ \E n \in Seqs : SendsOther(Caller, t, PrackMsg(n))
      BY <2>4, <2>7
    <2> QED
      BY <1>4, <2>5, <2>6, <2>7 DEF Proceeds
  <1> QED
    BY <1>1, <1>2, <1>3, <1>4 DEF Acts

LEMMA AnswerStepWire ==
  ASSUME Base, NEW t \in Threads, Acts(t), NEW i \in Seqs, NEW s \in Statuses,
         Answer(i, s) \in wire', Answer(i, s) \notin wire
  PROVE  /\ SendsAnswer(t, i, s) /\ ist[Callee][i] \in Transaction /\ s > ist[Callee][i].status
         /\ s > Given(i) /\ Given(i)' = s
  <1>1. SendsAnswer(t, i, s) /\ ist[Callee][i] \in Transaction /\ s > ist[Callee][i].status
    BY WireStep, MessagesDiffer, MessageSame
  <1>2. Given(i) = ist[Callee][i].status
    BY <1>1, NoneFacts DEF Given
  <1>3. Given(i)' = s
    <2> DEFINE x == [ist[Callee][i] EXCEPT !.status = s]
    <2>1. IstBecomes(i, x)
      BY <1>1 DEF SendsAnswer
    <2>2. x \in Transaction /\ x.status = s
      BY <1>1, TransactionFacts
    <2> HIDE DEF x
    <2>3. ist'[Callee][i] = x
      BY <2>1 DEF IstBecomes
    <2> QED
      BY <2>2, <2>3, NoneFacts DEF Given
  <1> QED
    BY <1>1, <1>2, <1>3

(* Who makes a new INVITE. *)
NoInviteSent(S) == \A i \in Seqs : Send(InviteMsg(i)) \notin S

LEMMA MadeByNobody ==
  ASSUME NEW t \in Threads, NEW S, Works(Caller, t, S), NEW i \in Seqs, Made(i)',
         ict'[Caller][i] # None => ict[Caller][i] # None,
         Send(InviteMsg(i)) \in S => Send(InviteMsg(i)) \in Steps(Caller, t)
  PROVE  Made(i)
  <1>1. \A s : Has(Caller, s)' => s \in S \/ Has(Caller, s)
    BY WorksHas, Pair
  <1> QED
    BY <1>1, HasSteps DEF Made

LEMMA TakenMakes ==
  ASSUME Base, NEW t \in Threads, NEW s, ResponseTaken(t, s), NEW i \in Seqs, Made(i)', ~Made(i),
         ict'[Caller][i] # None => ict[Caller][i] # None
  PROVE  Retries(t, s, i)
  <1>1. ASSUME NEW S, Works(Caller, t, S), Send(InviteMsg(i)) \notin S
        PROVE  FALSE
    BY <1>1, MadeByNobody
  <1>2. CASE Works(Caller, t, {})
    BY <1>1, <1>2
  <1>3. CASE Connects(t, s)
    <2> DEFINE S == {Send(AckMsg(Out.seq, 0))} \cup
                      IF Out.cancel THEN {StopStep} ELSE IF Out.start THEN {} ELSE {Tell("start")}
    <2>1. Works(Caller, t, S)
      BY <1>3 DEF Connects
    <2>2. Send(InviteMsg(i)) \notin S
      BY OtherSteps, StepsDiffer
    <2> HIDE DEF S
    <2> QED
      BY <1>1, <2>1, <2>2
  <1>4. ASSUME NEW n \in Seqs, Retries(t, s, n)
        PROVE  Retries(t, s, i)
    <2>1. CASE n = i
      BY <1>4, <2>1
    <2>2. CASE n # i
      <3>1. Works(Caller, t, {Send(AckMsg(Out.seq, Out.branch)), Send(InviteMsg(n))})
        BY <1>4 DEF Retries
      <3>2. Send(InviteMsg(i)) \notin {Send(AckMsg(Out.seq, Out.branch)), Send(InviteMsg(n))}
        BY <2>2, OtherSteps, SendSame, MessageSame
      <3> QED
        BY <1>1, <3>1, <3>2
    <2> QED
      BY <2>1, <2>2
  <1>5. CASE RefusesAgain(t, s)
    <2>1. Works(Caller, t, {Send(AckMsg(Out.seq, Out.branch))})
      BY <1>5 DEF RefusesAgain
    <2>2. Send(InviteMsg(i)) \notin {Send(AckMsg(Out.seq, Out.branch))}
      BY OtherSteps
    <2> QED
      BY <1>1, <2>1, <2>2
  <1>6. CASE Refuses(t, s)
    <2>1. Works(Caller, t, {Send(AckMsg(Out.seq, Out.branch)), Tell("end"), Delete})
      BY <1>6 DEF Refuses
    <2>2. Send(InviteMsg(i)) \notin {Send(AckMsg(Out.seq, Out.branch)), Tell("end"), Delete}
      BY OtherSteps, StepsDiffer
    <2> QED
      BY <1>1, <2>1, <2>2
  <1> QED
    BY <1>2, <1>3, <1>4, <1>5, <1>6 DEF ResponseTaken

HearsNew(t, i, s) ==
  /\ Hears(t, i, s)
  /\ ict[Caller][i] \in Transaction /\ ict[Caller][i].status # s
  /\ IctBecomes(i, [ict[Caller][i] EXCEPT !.status = s])
  /\ ResponseTaken(t, s)

LEMMA MadeStep ==
  ASSUME Base, NEW t \in Threads, Acts(t), NEW i \in Seqs, Made(i)', ~Made(i)
  PROVE  \/ CallStarts(t) /\ i = 1
         \/ ReInvites(t, i)
         \/ \E j \in Seqs, s \in Statuses : HearsNew(t, j, s) /\ Retries(t, s, i)
  <1>1. CASE CallerRests
    BY <1>1 DEF CallerRests, Made, Has
  <1>2. CASE Nothing
    BY <1>2 DEF Nothing, Made, Has, Steps
  <1>3. ASSUME NEW S, Works(Caller, t, S), ict' = ict, NoInviteSent(S)
        PROVE  FALSE
    BY <1>3, MadeByNobody DEF NoInviteSent
  <1>4. ASSUME NEW S, Works(Caller, t, S), ict'[Caller][i] # None => ict[Caller][i] # None, S \subseteq Steps(Caller, t)
        PROVE  FALSE
    BY <1>4, MadeByNobody
  <1>5. /\ NoInviteSent({}) /\ NoInviteSent({Send(ByeMsg(Callee))}) /\ NoInviteSent({Send(CancelMsg)})
        /\ NoInviteSent({Tell("end"), Delete}) /\ NoInviteSent({SetEnd}) /\ \A n : NoInviteSent({Send(PrackMsg(n))})
    BY OtherSteps, StepsDiffer DEF NoInviteSent
  <1>6. ASSUME NEW n, Works(Caller, t, {Send(InviteMsg(n))}), ict' = ict
        PROVE  i = n
    <2>1. i # n => Send(InviteMsg(i)) \notin {Send(InviteMsg(n))}
      BY SendSame, MessageSame
    <2> QED
      BY <1>6, <2>1, MadeByNobody
  <1>7. CASE CallStarts(t)
    BY <1>6, <1>7 DEF CallStarts, Rest
  <1>8. ASSUME NEW n \in Seqs, ReInvites(t, n)
        PROVE  ReInvites(t, i)
    BY <1>6, <1>8 DEF ReInvites, Rest
  <1>9. CASE \/ HangsUp(Caller, t) \/ CallCancels(t) \/ Requests(Caller, t) \/ \E n \in Seqs : Pracks(t, n)
    BY <1>3, <1>5, <1>9, Pair DEF HangsUp, CallCancels, Requests, Pracks, Rest
  <1>10. ASSUME NEW n \in Seqs, SendsInvite(t, n)
         PROVE  FALSE
    <2>1. n # i
      BY <1>10, HasSteps DEF SendsInvite, Made
    <2>2. ict'[Caller][i] = ict[Caller][i]
      BY <1>10, <2>1 DEF SendsInvite, IctBecomes
    <2> QED
      BY <1>4, <1>10, <2>2 DEF SendsInvite, Sends
  <1>11. ASSUME NEW m, SendsOther(Caller, t, m)
         PROVE  FALSE
    BY <1>4, <1>11 DEF SendsOther, Sends
  <1>12. ASSUME NEW n, NEW b, SendsAck(t, n, b)
         PROVE  FALSE
    <2>1. \A k \in Sent(Caller) : ict[Caller][k] # None
      BY DEF Sent
    <2>2. ict'[Caller][i] # None => ict[Caller][i] # None
      BY <1>12, <2>1 DEF SendsAck, AckGoes, IctBecomes
    <2> QED
      BY <1>4, <1>12, <2>2 DEF SendsAck, Sends
  <1>13. ASSUME NEW e, Tells(Caller, t, e)
         PROVE  FALSE
    BY <1>4, <1>13 DEF Tells, Rest
  <1>14. CASE Deletes(Caller, t) \/ EndsCall(Caller, t) \/ StopsNothing(t) \/ ByeComes(Caller, t)
    BY <1>3, <1>5, <1>14 DEF Deletes, EndsCall, StopsNothing, ByeComes, Rest
  <1>15. ASSUME NEW n \in Seqs, TimesOut(t, n)
         PROVE  FALSE
    <2>1. ict'[Caller][i] # None => ict[Caller][i] # None
      BY <1>15, NoneFacts DEF TimesOut, IctBecomes
    <2>2. Retries(t, RequestTimeout, i)
      BY <1>15, <2>1, TakenMakes DEF TimesOut
    <2> QED
      BY <2>2 DEF Retries, RequestTimeout, Unauthorized, Moved
  <1>16. ASSUME NEW j \in Seqs, NEW s \in Statuses, Hears(t, j, s)
         PROVE  HearsNew(t, j, s) /\ Retries(t, s, i)
    <2>1. CASE HearsNew(t, j, s)
      <3>1. ict'[Caller][i] # None => ict[Caller][i] # None
        BY <2>1, NoneFacts DEF HearsNew, IctBecomes
      <3> QED
        BY <2>1, <3>1, TakenMakes DEF HearsNew
    <2>2. CASE ict' = ict /\ Works(Caller, t, {})
      BY <1>3, <1>5, <2>2
    <2> QED
      BY <1>16, <2>1, <2>2 DEF Hears, HearsNew
  <1>17. CASE CallerActs(t)
    <2>1. \/ CallStarts(t)
          \/ HangsUp(Caller, t) \/ CallCancels(t) \/ Requests(Caller, t) \/ (\E n \in Seqs : Pracks(t, n))
          \/ \E n \in Seqs : ReInvites(t, n) \/ SendsInvite(t, n) \/ TimesOut(t, n)
          \/ \E n, b : SendsAck(t, n, b)
          \/ \E m : SendsOther(Caller, t, m)
          \/ \E e : Tells(Caller, t, e)
          \/ Deletes(Caller, t) \/ EndsCall(Caller, t) \/ StopsNothing(t) \/ ByeComes(Caller, t)
          \/ \E j \in Seqs, s \in Statuses : Hears(t, j, s)
      BY <1>17 DEF CallerActs
    <2> QED
      BY <1>7, <1>6, <1>8, <1>9, <1>10, <1>11, <1>12, <1>13, <1>14, <1>15, <1>16, <2>1 DEF CallStarts, Rest
  <1>18. CASE CalleeActs(t)
    BY <1>1, <1>18, CallerRestsThen
  <1> QED
    BY <1>2, <1>17, <1>18, Whose

-----------------------------------------------------------------------------
(* What happens to the caller's dialog. *)
LEMMA OutStep ==
  ASSUME Base, NEW t \in Threads, Acts(t)
  PROVE  \/ Out' = Out
         \/ CallStarts(t) \/ CallCancels(t) \/ Requests(Caller, t)
         \/ \E n \in Seqs : ReInvites(t, n) \/ Pracks(t, n)
         \/ HangsUp(Caller, t) \/ Deletes(Caller, t)
         \/ EndsCall(Caller, t) /\ Out \in Dialog /\ Ended(Out, Out')
         \/ \E i \in Seqs, s \in Statuses : HearsNew(t, i, s)
         \/ \E i \in Seqs : TimesOut(t, i)
  <1>1. CASE CallerActs(t)
    <2>1. CASE \/ \E n \in Seqs : SendsInvite(t, n) \/ SendsOther(Caller, t, PrackMsg(n))
               \/ \E n, b \in 0..MaxSeq : SendsAck(t, n, b)
               \/ SendsOther(Caller, t, CancelMsg) \/ SendsOther(Caller, t, ByeMsg(Callee))
               \/ \E e \in Events : Tells(Caller, t, e)
               \/ StopsNothing(t) \/ ByeComes(Caller, t)
      BY <2>1 DEF SendsInvite, SendsOther, SendsAck, Sends, Tells, StopsNothing, ByeComes, Out
    <2>2. ASSUME NEW i \in Seqs, NEW s \in Statuses, Hears(t, i, s)
          PROVE  Out' = Out \/ HearsNew(t, i, s)
      BY <2>2 DEF Hears, HearsNew, Out
    <2>3. CASE EndsCall(Caller, t)
      BY <2>3 DEF EndsCall, Out
    <2> QED
      BY <1>1, <2>1, <2>2, <2>3 DEF CallerActs
  <1>2. CASE CalleeActs(t)
    BY <1>2, CallerRestsThen DEF CallerRests
  <1>3. CASE Nothing
    BY <1>3 DEF Nothing, Out
  <1> QED
    BY <1>1, <1>2, <1>3, Whose

-----------------------------------------------------------------------------
(* One final answer at most is under way, and it is the last one given.    *)
FinalOut ==
  ~May("threads") => \A i \in Seqs, s \in Statuses : Answer(i, s) \in wire /\ Final(s) => Given(i) = s

LEMMA AnsweredStays ==
  ASSUME Base, Numbers, OneAtATime, ~May("threads"), NEW t \in Workers, Acts(t), NEW i \in Seqs, Given(i) >= 200
  PROVE  /\ Given(i)' = Given(i)
         /\ \A s \in Statuses : Answer(i, s) \in wire' => Answer(i, s) \in wire
  <1>1. t \in Threads /\ Given(i) \in Nat
    BY WorkerThreads, GivenNat
  <1>2. ASSUME NEW s \in Statuses, SendsAnswer(t, i, s), s > Given(i)
        PROVE  FALSE
    <2>1. Send(Answer(i, s)) \in Steps(Callee, t)
      BY <1>2 DEF SendsAnswer, Sends
    <2>2. AtOnce(i, In, Given(i), Steps(Callee, t))
      BY DEF OneAtATime
    <2>3. s \in Nat
      BY StatusFacts
    <2>4. Final(s)
      BY <1>1, <1>2, <2>3 DEF Final
    <2> QED
      BY <1>1, <2>1, <2>2, <2>4 DEF AtOnce
  <1>3. Given(i)' = Given(i)
    BY <1>1, <1>2, GivenStep
  <1>4. \A s \in Statuses : Answer(i, s) \in wire' => Answer(i, s) \in wire
    BY <1>1, <1>2, AnswerStepWire
  <1> QED
    BY <1>3, <1>4

LEMMA FinalOutStep ==
  ASSUME Base, Numbers, OneAtATime, FinalOut, NEW t \in Workers, Acts(t), scenario' = scenario
  PROVE  FinalOut'
  <1> SUFFICES ASSUME ~May("threads"), NEW i \in Seqs, NEW s \in Statuses, Answer(i, s) \in wire', Final(s)
               PROVE  Given(i)' = s
    BY DEF FinalOut, May
  <1>1. t \in Threads
    BY WorkerThreads
  <1>2. CASE Answer(i, s) \notin wire
    BY <1>1, <1>2, AnswerStepWire
  <1>3. CASE Answer(i, s) \in wire
    <2>1. Given(i) = s
      BY <1>3 DEF FinalOut
    <2>2. Given(i) >= 200
      BY <2>1 DEF Final
    <2> QED
      BY <2>1, <2>2, AnsweredStays
  <1> QED
    BY <1>2, <1>3

-----------------------------------------------------------------------------
(* An INVITE is only followed by another when it was refused for good, and *)
(* a connected call is one whose last INVITE was accepted.                 *)
Replaced ==
  \A i, j \in Seqs : Made(i) /\ Made(j) /\ i < j =>
    Given(i) >= 300 /\ \A s \in Statuses : Answer(i, s) \notin wire

Accepted == Out # None /\ Out.start => \A k \in Seqs : k = Out.branch => Given(k) \in 200..299

Chained == OneInvite => Replaced /\ Accepted

(* The INVITE a response is to is the last one. *)
LEMMA HeardLast ==
  ASSUME Base, Numbers, Replaced, NEW t \in Threads, NEW i \in Seqs, NEW s \in Statuses, HearsNew(t, i, s)
  PROVE  Made(i) /\ (\A j \in Seqs : Made(j) => j <= i) /\ (Out # None => i = Out.branch)
  <1>1. Made(i) /\ Answer(i, s) \in wire
    BY NoneFacts DEF HearsNew, Hears, Made
  <1>2. ASSUME NEW j \in Seqs, Made(j)
        PROVE  j <= i
    <2>1. ~(i < j)
      BY <1>1, <1>2 DEF Replaced
    <2> QED
      BY <2>1, SeqFacts
  <1>3. Out # None => i = Out.branch
    <2> SUFFICES ASSUME Out # None PROVE i = Out.branch
      OBVIOUS
    <2>1. Out.branch \in Seqs /\ Made(Out.branch) /\ i <= Out.branch
      BY <1>1 DEF Numbers, LastInvite
    <2>2. Out.branch <= i
      BY <1>2, <2>1
    <2> QED
      BY <2>1, <2>2, SeqFacts
  <1> QED
    BY <1>1, <1>2, <1>3

LEMMA HeardFinal ==
  ASSUME Base, FinalOut, ~May("threads"), NEW t \in Threads, NEW i \in Seqs, NEW s \in Statuses, HearsNew(t, i, s), Final(s)
  PROVE  /\ Given(i) = s
         /\ \A r \in Statuses : Answer(i, r) \notin wire'
  <1>1. Answer(i, s) \in wire /\ Overtaken(i, s)
    BY DEF HearsNew, Hears
  <1>2. Given(i) = s
    BY <1>1 DEF FinalOut
  <1>3. ASSUME NEW r \in Statuses, Answer(i, r) \in wire'
        PROVE  FALSE
    <2>1. Answer(i, r) \in wire
      BY <1>1, <1>3 DEF Overtaken
    <2>2. ~(r <= s)
      BY <1>1, <1>3, <2>1 DEF Overtaken
    <2>3. r \in Nat /\ s \in Nat
      BY StatusFacts
    <2>4. Final(r)
      BY <2>2, <2>3 DEF Final
    <2>5. r = s
      BY <1>2, <2>1, <2>4 DEF FinalOut
    <2> QED
      BY <2>2, <2>3, <2>5
  <1> QED
    BY <1>2, <1>3

LEMMA RetriesFinal ==
  \A t, s, n : Retries(t, s, n) => Final(s) /\ s >= 300 /\ s \notin 200..299 /\ n = NextSeq(Out) /\ Out # None /\ ~Out.cancel
  BY NoneFacts DEF Retries, Renewed, Final, Unauthorized, Moved

LEMMA ReplacedStep ==
  ASSUME Base, Numbers, Numbers', OneAtATime, FinalOut, Replaced, OneInvite, NEW t \in Workers, Acts(t)
  PROVE  Replaced'
  <1> SUFFICES ASSUME NEW i \in Seqs, NEW j \in Seqs, Made(i)', Made(j)', i < j
               PROVE  Given(i)' >= 300 /\ \A s \in Statuses : Answer(i, s) \notin wire'
    BY DEF Replaced
  <1>1. t \in Threads /\ ~May("threads") /\ ~May("reinvite")
    BY WorkerThreads DEF OneInvite
  <1>2. i \in Nat /\ j \in Nat /\ i >= 1 /\ j >= 1
    BY SeqFacts
  <1>3. ASSUME NEW k \in Seqs, Given(k) >= 300, \A s \in Statuses : Answer(k, s) \notin wire
        PROVE  Given(k)' >= 300 /\ \A s \in Statuses : Answer(k, s) \notin wire'
    <2>1. Given(k) \in Nat
      BY GivenNat
    <2>2. Given(k) >= 200
      BY <1>3, <2>1
    <2> QED
      BY <1>1, <1>3, <2>2, AnsweredStays
  <1>4. ~ReInvites(t, i) /\ ~ReInvites(t, j)
    BY <1>1 DEF ReInvites
  <1>5. Made(i)
    <2> SUFFICES ASSUME ~Made(i) PROVE FALSE
      OBVIOUS
    <2>1. Out' # None /\ Out'.branch = i
      <3>1. CASE CallStarts(t) /\ i = 1
        BY <3>1, NoneFacts DEF CallStarts
      <3>2. CASE \E k \in Seqs, s \in Statuses : HearsNew(t, k, s) /\ Retries(t, s, i)
        BY <3>2, NoneFacts DEF Retries, Renewed
      <3> QED
        BY <1>1, <1>4, <3>1, <3>2, MadeStep
    <2>2. j <= i
      BY <2>1 DEF Numbers, LastInvite
    <2> QED
      BY <1>2, <2>2
  <1>6. CASE Made(j)
    BY <1>3, <1>5, <1>6 DEF Replaced
  <1>7. CASE ~Made(j)
    <2>1. PICK k \in Seqs, s \in Statuses : HearsNew(t, k, s) /\ Retries(t, s, j)
      BY <1>1, <1>2, <1>4, <1>7, MadeStep
    <2>2. Made(k) /\ i <= k
      BY <1>1, <1>5, <2>1, HeardLast
    <2>3. CASE i = k
      <3>1. Final(s) /\ s >= 300
        BY <2>1, RetriesFinal
      <3>2. Given(i) = s /\ \A r \in Statuses : Answer(i, r) \notin wire'
        BY <1>1, <2>1, <2>3, <3>1, HeardFinal
      <3>3. Given(i) \in Nat /\ Given(i) >= 200
        BY <3>1, <3>2, GivenNat DEF Final
      <3>4. Given(i)' = s
        BY <1>1, <3>2, <3>3, AnsweredStays
      <3> QED
        BY <3>1, <3>2, <3>4
    <2>4. CASE i # k
      <3>1. i < k
        BY <1>2, <2>2, <2>4, SeqFacts
      <3> QED
        BY <1>3, <1>5, <2>2, <3>1 DEF Replaced
    <2> QED
      BY <2>3, <2>4
  <1> QED
    BY <1>6, <1>7

LEMMA AcceptedStep ==
  ASSUME Base, Numbers, OneAtATime, FinalOut, Replaced, Accepted, OneInvite, NEW t \in Workers, Acts(t)
  PROVE  Accepted'
  <1> SUFFICES ASSUME Out' # None, Out'.start, NEW b \in Seqs, b = Out'.branch
               PROVE  Given(b)' \in 200..299
    BY DEF Accepted
  <1>1. t \in Threads /\ ~May("threads") /\ ~May("reinvite")
    BY WorkerThreads DEF OneInvite
  <1>2. ASSUME NEW k \in Seqs, Given(k) \in 200..299
        PROVE  Given(k)' \in 200..299
    BY <1>1, <1>2, AnsweredStays
  <1>3. CASE Out # None /\ Out.start /\ Out'.branch = Out.branch
    <2>1. Out.branch \in Seqs /\ Given(Out.branch) \in 200..299
      BY <1>3 DEF Numbers, LastInvite, Accepted
    <2> QED
      BY <1>2, <1>3, <2>1
  <1>4. CASE \/ Out' = Out
             \/ CallStarts(t) \/ CallCancels(t) \/ Requests(Caller, t)
             \/ \E n \in Seqs : ReInvites(t, n) \/ Pracks(t, n)
             \/ HangsUp(Caller, t) \/ Deletes(Caller, t)
             \/ EndsCall(Caller, t) /\ Out \in Dialog /\ Ended(Out, Out')
    BY <1>1, <1>3, <1>4, NoneFacts DEF CallStarts, CallCancels, Requests, ReInvites, Pracks, HangsUp, Deletes, Ended,
       SameNumbers, SameTimes, Out
  <1>5. ASSUME NEW s, ResponseTaken(t, s), ~Connects(t, s), ~\E n \in Seqs : Retries(t, s, n)
        PROVE  Given(b)' \in 200..299
    BY <1>3, <1>5, NoneFacts DEF ResponseTaken, Rings100, RefusesAgain, Refuses, SameNumbers, SameTimes
  <1>6. CASE \E i \in Seqs : TimesOut(t, i)
    <2>1. ~Connects(t, RequestTimeout) /\ ~\E n \in Seqs : Retries(t, RequestTimeout, n)
      BY DEF Connects, Retries, RequestTimeout, Unauthorized, Moved
    <2> QED
      BY <1>5, <1>6, <2>1 DEF TimesOut
  <1>7. ASSUME NEW i \in Seqs, NEW s \in Statuses, HearsNew(t, i, s)
        PROVE  Given(b)' \in 200..299
    <2>1. Out # None => i = Out.branch
      BY <1>1, <1>7, HeardLast
    <2>2. CASE Connects(t, s)
      <3>1. Out # None /\ Out'.branch = Out.branch /\ s \in 200..299
        BY <2>2, NoneFacts DEF Connects, SameNumbers
      <3>2. Given(i) = s
        BY <1>1, <1>7, <3>1, HeardFinal DEF Final
      <3> QED
        BY <1>2, <2>1, <3>1, <3>2
    <2>3. ASSUME NEW n \in Seqs, Retries(t, s, n)
          PROVE  FALSE
      <3>1. Out # None /\ Out.start /\ Final(s) /\ s \notin 200..299
        BY <2>3, RetriesFinal DEF Retries, Renewed
      <3>2. Given(i) = s
        BY <1>1, <1>7, <3>1, HeardFinal
      <3> QED
        BY <2>1, <3>1, <3>2 DEF Accepted
    <2> QED
      BY <1>5, <1>7, <2>2, <2>3 DEF HearsNew
  <1> QED
    BY <1>1, <1>4, <1>6, <1>7, OutStep

-----------------------------------------------------------------------------
(* What gives a user something to do. *)
Takes(t, s) ==
  \/ \E i \in Seqs : HearsNew(t, i, s)
  \/ s = RequestTimeout /\ \E i \in Seqs : TimesOut(t, i)

ResponseGives(t, s, x) ==
  \/ Connects(t, s) /\ \/ x = Send(AckMsg(Out.seq, 0))
                       \/ Out.cancel /\ x = StopStep
                       \/ ~Out.cancel /\ ~Out.start /\ x = Tell("start")
  \/ \E n \in Seqs : Retries(t, s, n) /\ x \in {Send(AckMsg(Out.seq, Out.branch)), Send(InviteMsg(n))}
  \/ RefusesAgain(t, s) /\ x = Send(AckMsg(Out.seq, Out.branch))
  \/ Refuses(t, s) /\ x \in {Send(AckMsg(Out.seq, Out.branch)), Tell("end"), Delete}

CallerGets(t, x) ==
  \/ CallStarts(t) /\ x = Send(InviteMsg(1))
  \/ HangsUp(Caller, t) /\ x = Send(ByeMsg(Callee))
  \/ CallCancels(t) /\ x = Send(CancelMsg)
  \/ \E n \in Seqs : ReInvites(t, n) /\ x = Send(InviteMsg(n))
  \/ \E n \in Seqs : Pracks(t, n) /\ x = Send(PrackMsg(n))
  \/ EndsCall(Caller, t) /\ Out \in Dialog /\ x \in {Tell("end"), Delete}
  \/ ByeComes(Caller, t) /\ x = SetEnd
  \/ \E s \in Statuses : Takes(t, s) /\ ResponseTaken(t, s) /\ ResponseGives(t, s, x)

CalleeGets(t, x) ==
  \/ HangsUp(Callee, t) /\ x = Send(ByeMsg(Caller))
  \/ \E i \in Seqs, s \in {Decline, Moved} : Rejects(t, i, s) /\ x = Send(Answer(i, s))
  \/ \E i \in Seqs : Accepts(t, i) /\ x = Send(Answer(i, Ok))
  \/ \E i \in Seqs : Rings(t, i) /\ x = Send(Answer(i, SessionProgress))
  \/ \E i \in Seqs : Inserts(t, i) /\ In = None /\ x = Tell("call")
  \/ \E i \in Seqs : AnswersAgain(t, i) /\ In # None /\ x = Send(Answer(i, Ok))
  \/ EndsCall(Callee, t) /\ In \in Dialog /\ x \in {Tell("end"), Delete}
  \/ \E i \in Seqs : \E S : InviteComes(t, i, S) /\ InviteAnswers(i, S) /\ x \in S
  \/ CancelComes(t) /\ In \in Dialog /\ ~In.start /\ In.invite \in Seqs
       /\ x \in {Send(Answer(In.invite, Terminated)), Tell("end"), Delete}
  \/ ByeComes(Callee, t) /\ x = SetEnd
  \/ \E i \in Seqs : PrackComes(t, i) /\ x = Tell("prack")
  \/ \E i \in Seqs : GivesUp(t, i) /\ x \in {Tell("end"), Delete}

(* What an action without the work of t is. *)
LEMMA OnlyMine ==
  ASSUME Base, NEW t \in Threads, Acts(t), NEW a \in Agents, NEW u \in Threads, u # t
  PROVE  Steps(a, u)' = Steps(a, u)
  <1>1. PICK b \in Agents : \E S : Works(b, t, S)
    BY OneWorks DEF Acts
  <1> QED
    BY <1>1 DEF Works

LEMMA TakenGives ==
  ASSUME NEW t \in Threads, NEW s, ResponseTaken(t, s), NEW x, x \in Steps(Caller, t)'
  PROVE  ResponseGives(t, s, x)
  <1>1. \A S : Works(Caller, t, S) => x \in S
    BY Pair DEF Works
  <1>2. CASE Works(Caller, t, {})
    BY <1>1, <1>2
  <1>3. CASE Connects(t, s)
    <2> DEFINE S == {Send(AckMsg(Out.seq, 0))} \cup
                      IF Out.cancel THEN {StopStep} ELSE IF Out.start THEN {} ELSE {Tell("start")}
    <2>1. Works(Caller, t, S)
      BY <1>3 DEF Connects
    <2>2. x \in S
      BY <1>1, <2>1
    <2>3. \/ x = Send(AckMsg(Out.seq, 0)) \/ (Out.cancel /\ x = StopStep)
          \/ ~Out.cancel /\ ~Out.start /\ x = Tell("start")
      BY <2>2
    <2> QED
      BY <1>3, <2>3 DEF ResponseGives
  <1>4. ASSUME NEW n \in Seqs, Retries(t, s, n)
        PROVE  ResponseGives(t, s, x)
    BY <1>1, <1>4 DEF Retries, ResponseGives
  <1>5. CASE RefusesAgain(t, s)
    BY <1>1, <1>5 DEF RefusesAgain, ResponseGives
  <1>6. CASE Refuses(t, s)
    BY <1>1, <1>6 DEF Refuses, ResponseGives
  <1> QED
    BY <1>2, <1>3, <1>4, <1>5, <1>6 DEF ResponseTaken

LEMMA CallerNew ==
  ASSUME Base, NEW t \in Threads, Acts(t), NEW u \in Threads, NEW x, x \in Steps(Caller, u)', x \notin Steps(Caller, u)
  PROVE  u = t /\ CallerGets(t, x)
  <1>1. u = t
    BY OnlyMine, Pair
  <1>2. \A S : Works(Caller, t, S) => x \in S
    BY <1>1, Pair DEF Works
  <1>3. CASE Nothing
    BY <1>3 DEF Nothing, Steps
  <1>4. CASE CalleeActs(t)
    BY <1>4, CallerRestsThen DEF CallerRests
  <1>5. CASE CallerActs(t)
    <2> SUFFICES CallerGets(t, x)
      BY <1>1
    <2>1. CASE CallStarts(t)
      BY <1>2, <2>1 DEF CallStarts, CallerGets
    <2>2. CASE HangsUp(Caller, t)
      BY <1>2, <2>2, Pair DEF HangsUp, CallerGets
    <2>3. CASE CallCancels(t)
      BY <1>2, <2>3 DEF CallCancels, CallerGets
    <2>4. ASSUME NEW n \in Seqs, ReInvites(t, n) \/ Pracks(t, n)
          PROVE  CallerGets(t, x)
      BY <1>2, <2>4 DEF ReInvites, Pracks, CallerGets
    <2>5. ASSUME NEW m, Sends(Caller, t, m)
          PROVE  FALSE
      BY <1>1, <1>2, <2>5 DEF Sends
    <2>6. CASE Requests(Caller, t) \/ Deletes(Caller, t) \/ StopsNothing(t)
      BY <1>2, <2>6 DEF Requests, Deletes, StopsNothing
    <2>7. ASSUME NEW e, Tells(Caller, t, e)
          PROVE  FALSE
      BY <1>1, <1>2, <2>7 DEF Tells
    <2>8. CASE EndsCall(Caller, t)
      BY <1>2, <2>8 DEF EndsCall, CallerGets, Out
    <2>9. CASE ByeComes(Caller, t)
      BY <1>2, <2>9 DEF ByeComes, CallerGets
    <2>10. ASSUME NEW i \in Seqs, NEW s \in Statuses, Hears(t, i, s)
           PROVE  CallerGets(t, x)
      <3>1. CASE Works(Caller, t, {})
        BY <1>2, <3>1
      <3>2. CASE HearsNew(t, i, s)
        BY <1>1, <3>2, TakenGives DEF HearsNew, Takes, CallerGets
      <3> QED
        BY <2>10, <3>1, <3>2 DEF Hears, HearsNew
    <2>11. ASSUME NEW i \in Seqs, TimesOut(t, i)
           PROVE  CallerGets(t, x)
      <3>1. Takes(t, RequestTimeout) /\ ResponseTaken(t, RequestTimeout)
        BY <2>11 DEF Takes, TimesOut
      <3>2. RequestTimeout \in Statuses
        BY StatusFacts
      <3> QED
        BY <1>1, <3>1, <3>2, TakenGives DEF CallerGets
    <2>12. \/ CallStarts(t) \/ HangsUp(Caller, t) \/ CallCancels(t)
           \/ (\E n \in Seqs : ReInvites(t, n) \/ Pracks(t, n) \/ TimesOut(t, n))
           \/ \E m : Sends(Caller, t, m)
           \/ Requests(Caller, t) \/ Deletes(Caller, t) \/ StopsNothing(t)
           \/ (\E e : Tells(Caller, t, e))
           \/ EndsCall(Caller, t) \/ ByeComes(Caller, t)
           \/ \E i \in Seqs, s \in Statuses : Hears(t, i, s)
      BY <1>5 DEF CallerActs, SendsInvite, SendsOther, SendsAck
    <2> QED
      BY <1>1, <2>1, <2>2, <2>3, <2>4, <2>5, <2>6, <2>7, <2>8, <2>9, <2>10, <2>11, <2>12
  <1> QED
    BY <1>3, <1>4, <1>1, <1>5, Whose

LEMMA CalleeNew ==
  ASSUME Base, NEW t \in Threads, Acts(t), NEW u \in Threads, NEW x, x \in Steps(Callee, u)', x \notin Steps(Callee, u)
  PROVE  u = t /\ CalleeGets(t, x)
  <1>1. u = t
    BY OnlyMine, Pair
  <1>2. \A S : Works(Callee, t, S) => x \in S
    BY <1>1, Pair DEF Works
  <1>3. CASE Nothing
    BY <1>3 DEF Nothing, Steps
  <1>4. CASE CallerActs(t)
    BY <1>4, CalleeRestsThen DEF CalleeRests
  <1>5. CASE CalleeActs(t)
    <2> SUFFICES CalleeGets(t, x)
      BY <1>1
    <2>1. CASE HangsUp(Callee, t)
      BY <1>2, <2>1, Pair DEF HangsUp, CalleeGets
    <2>2. ASSUME NEW i \in Seqs, NEW s \in {Decline, Moved}, Rejects(t, i, s)
          PROVE  CalleeGets(t, x)
      BY <1>2, <2>2 DEF Rejects, CalleeGets
    <2>3. ASSUME NEW i \in Seqs, Accepts(t, i) \/ Rings(t, i)
          PROVE  CalleeGets(t, x)
      BY <1>2, <2>3 DEF Accepts, Rings, CalleeGets
    <2>4. ASSUME NEW i \in Seqs, Inserts(t, i)
          PROVE  CalleeGets(t, x)
      BY <1>2, <2>4 DEF Inserts, CalleeGets
    <2>5. ASSUME NEW i \in Seqs, AnswersAgain(t, i)
          PROVE  CalleeGets(t, x)
      BY <1>2, <2>5 DEF AnswersAgain, CalleeGets
    <2>6. ASSUME NEW m, Sends(Callee, t, m)
          PROVE  FALSE
      BY <1>1, <1>2, <2>6 DEF Sends
    <2>7. CASE Requests(Callee, t) \/ Deletes(Callee, t)
      BY <1>2, <2>7 DEF Requests, Deletes
    <2>8. ASSUME NEW e, Tells(Callee, t, e)
          PROVE  FALSE
      BY <1>1, <1>2, <2>8 DEF Tells
    <2>9. CASE EndsCall(Callee, t)
      BY <1>2, <2>9 DEF EndsCall, CalleeGets, In
    <2>10. ASSUME NEW i \in Seqs, NEW S, InviteComes(t, i, S)
           PROVE  CalleeGets(t, x)
      BY <1>2, <2>10 DEF InviteComes, CalleeGets
    <2>11. ASSUME NEW n, NEW b, AckComes(n, b)
           PROVE  FALSE
      BY <2>11 DEF AckComes, Steps
    <2>12. CASE CancelComes(t)
      BY <1>2, <2>12 DEF CancelComes, CalleeGets
    <2>13. CASE ByeComes(Callee, t)
      BY <1>2, <2>13 DEF ByeComes, CalleeGets
    <2>14. ASSUME NEW i \in Seqs, PrackComes(t, i) \/ GivesUp(t, i)
           PROVE  CalleeGets(t, x)
      BY <1>2, <2>14 DEF PrackComes, GivesUp, CalleeGets
    <2>15. \/ HangsUp(Callee, t) \/ (\E i \in Seqs, s \in {Decline, Moved} : Rejects(t, i, s))
           \/ (\E i \in Seqs : \/ Accepts(t, i) \/ Rings(t, i) \/ Inserts(t, i) \/ AnswersAgain(t, i)
                               \/ PrackComes(t, i) \/ GivesUp(t, i) \/ \E S : InviteComes(t, i, S))
           \/ \E m : Sends(Callee, t, m)
           \/ Requests(Callee, t) \/ Deletes(Callee, t) \/ EndsCall(Callee, t)
           \/ (\E e : Tells(Callee, t, e)) \/ (\E n, b : AckComes(n, b))
           \/ CancelComes(t) \/ ByeComes(Callee, t)
      BY <1>5 DEF CalleeActs, SendsAnswer, SendsOther
    <2> QED
      BY <1>1, <2>1, <2>2, <2>3, <2>4, <2>5, <2>6, <2>7, <2>8, <2>9, <2>10, <2>11, <2>12, <2>13, <2>14, <2>15
  <1> QED
    BY <1>1, <1>3, <1>4, <1>5, Whose

(* What takes it away. *)
LEMMA StepDone ==
  ASSUME Base, NEW t \in Threads, Acts(t), NEW a \in Agents, NEW u \in Threads, NEW x,
         x \in Steps(a, u), x \notin Steps(a, u)'
  PROVE  /\ u = t
         /\ \/ \E m : x = Send(m) /\ Sends(a, t, m)
            \/ \E e \in Events : x = Tell(e) /\ Tells(a, t, e)
            \/ x = Delete /\ Deletes(a, t)
            \/ x = SetEnd /\ EndsCall(a, t)
            \/ a = Caller /\ x = StopStep /\ (HangsUp(Caller, t) \/ StopsNothing(t))
            \/ a = Callee /\ \E i \in Seqs : \/ x = InsertStep(i) /\ Inserts(t, i)
                                             \/ x = AnswerStep(i) /\ AnswersAgain(t, i)
  <1>1. u = t
    BY OnlyMine
  <1>2. Steps(a, t) # {}
    BY <1>1
  <1>3. \A m : Sends(a, t, m) => x = Send(m)
    BY <1>1 DEF Sends, Works
  <1>4. \A e : Tells(a, t, e) => x = Tell(e)
    BY <1>1 DEF Tells, Works
  <1>5. CASE Nothing
    BY <1>5 DEF Nothing, Steps
  <1>6. CASE a = Caller
    <2>1. CASE CalleeActs(t)
      BY <1>6, <2>1, CallerRestsThen DEF CallerRests
    <2>2. CASE CallerActs(t)
      <3>1. /\ ~CallStarts(t) /\ ~CallCancels(t) /\ ~Requests(Caller, t) /\ ~ByeComes(Caller, t)
            /\ \A n : ~ReInvites(t, n) /\ ~Pracks(t, n) /\ ~TimesOut(t, n)
            /\ \A i, s : ~Hears(t, i, s)
        BY <1>2, <1>6 DEF CallStarts, CallCancels, Requests, ByeComes, ReInvites, Pracks, TimesOut, Hears
      <3>2. \/ HangsUp(Caller, t) \/ (\E m : Sends(Caller, t, m)) \/ (\E e \in Events : Tells(Caller, t, e))
            \/ Deletes(Caller, t) \/ EndsCall(Caller, t) \/ StopsNothing(t)
        BY <2>2, <3>1 DEF CallerActs, SendsInvite, SendsOther, SendsAck
      <3>3. (Deletes(Caller, t) => x = Delete) /\ (EndsCall(Caller, t) => x = SetEnd) /\ (StopsNothing(t) => x = StopStep)
            /\ (HangsUp(Caller, t) => x = StopStep)
        BY <1>1, <1>2, <1>6 DEF Deletes, EndsCall, StopsNothing, HangsUp
      <3> QED
        BY <1>1, <1>3, <1>4, <1>6, <3>2, <3>3
    <2> QED
      BY <1>5, <2>1, <2>2, Whose
  <1>7. CASE a = Callee
    <2>1. CASE CallerActs(t)
      BY <1>7, <2>1, CalleeRestsThen DEF CalleeRests
    <2>2. CASE CalleeActs(t)
      <3>1. /\ ~HangsUp(Callee, t) /\ ~Requests(Callee, t) /\ ~CancelComes(t) /\ ~ByeComes(Callee, t)
            /\ \A i : ~Accepts(t, i) /\ ~Rings(t, i) /\ ~PrackComes(t, i) /\ ~GivesUp(t, i)
            /\ \A i, s : ~Rejects(t, i, s) /\ ~InviteComes(t, i, s)
        BY <1>2, <1>7, Pair DEF HangsUp, Requests, CancelComes, ByeComes, Accepts, Rings, PrackComes, GivesUp, Rejects, InviteComes
      <3>2. \A n, b : ~AckComes(n, b)
        BY <1>1, <1>7 DEF AckComes, Steps
      <3>3. \/ (\E m : Sends(Callee, t, m)) \/ (\E e \in Events : Tells(Callee, t, e))
            \/ Deletes(Callee, t) \/ EndsCall(Callee, t)
            \/ \E i \in Seqs : Inserts(t, i) \/ AnswersAgain(t, i)
        BY <2>2, <3>1, <3>2 DEF CalleeActs, SendsAnswer, SendsOther
      <3>4. /\ Deletes(Callee, t) => x = Delete
            /\ EndsCall(Callee, t) => x = SetEnd
            /\ \A i : (Inserts(t, i) => x = InsertStep(i)) /\ (AnswersAgain(t, i) => x = AnswerStep(i))
        BY <1>1, <1>7 DEF Deletes, EndsCall, Inserts, AnswersAgain
      <3> QED
        BY <1>1, <1>3, <1>4, <1>7, <3>3, <3>4
    <2> QED
      BY <1>5, <2>1, <2>2, Whose
  <1> QED
    BY <1>6, <1>7 DEF Agents

-----------------------------------------------------------------------------
(* What happens to the callee's dialog. *)
LEMMA InStep ==
  ASSUME Base, NEW t \in Threads, Acts(t)
  PROVE  \/ In' = In
         \/ HangsUp(Callee, t) \/ Deletes(Callee, t) \/ Requests(Callee, t)
         \/ \E i \in Seqs : Accepts(t, i) \/ \E s \in {Decline, Moved} : Rejects(t, i, s)
         \/ EndsCall(Callee, t) /\ In \in Dialog /\ Ended(In, In')
         \/ \E i \in Seqs : Inserts(t, i) /\ In = None /\ In' \in Dialog /\ In'.invite = i /\ ~In'.start /\ ~In'.end
         \/ CancelComes(t) /\ In \in Dialog /\ ~In.start /\ Ended(In, In')
  <1>1. CASE CalleeActs(t)
    <2>1. CASE \/ \E i \in Seqs : \/ Rings(t, i) \/ AnswersAgain(t, i) \/ PrackComes(t, i) \/ GivesUp(t, i)
                                  \/ \E S : InviteComes(t, i, S)
               \/ \E i \in Seqs, s \in Statuses : SendsAnswer(t, i, s)
               \/ SendsOther(Callee, t, ByeMsg(Caller))
               \/ \E e \in Events : Tells(Callee, t, e)
               \/ \E n, b \in 0..MaxSeq : AckComes(n, b)
               \/ ByeComes(Callee, t)
      BY <2>1 DEF Rings, AnswersAgain, PrackComes, GivesUp, InviteComes, SendsAnswer, SendsOther, Sends, Tells, AckComes,
         ByeComes, In
    <2>2. CASE EndsCall(Callee, t)
      BY <2>2 DEF EndsCall, In
    <2>3. CASE CancelComes(t)
      BY <2>3 DEF CancelComes, In
    <2>4. ASSUME NEW i \in Seqs, Inserts(t, i)
          PROVE  \/ In' = In
                 \/ In = None /\ In' \in Dialog /\ In'.invite = i /\ ~In'.start /\ ~In'.end
      BY <2>4 DEF Inserts, In
    <2> QED
      BY <1>1, <2>1, <2>2, <2>3, <2>4 DEF CalleeActs
  <1>2. CASE CallerActs(t)
    BY <1>2, CalleeRestsThen DEF CalleeRests
  <1>3. CASE Nothing
    BY <1>3 DEF Nothing, In
  <1> QED
    BY <1>1, <1>2, <1>3, Whose

LEMMA GoneStays ==
  ASSUME Base, Numbers, NEW t \in Threads, Acts(t), NEW i \in Seqs, ist[Callee][i] = Gone
  PROVE  ist'[Callee][i] = Gone
  <1>1. Given(i) = Ok /\ Given(i) \in Nat
    BY NoneFacts, GivenNat DEF Given
  <1>2. ist[Callee][i] \notin Transaction /\ ist[Callee][i] # None
    BY NoneFacts
  <1>3. CASE CallerActs(t)
    BY <1>3, CalleeRestsThen DEF CalleeRests
  <1>4. CASE Nothing
    BY <1>4 DEF Nothing
  <1>5. CASE ist' = ist
    BY <1>5
  <1>6. ASSUME NEW j \in Seqs, NEW s \in Statuses, SendsAnswer(t, j, s)
        PROVE  ist'[Callee][i] = Gone
    BY <1>2, <1>6 DEF SendsAnswer, IstBecomes
  <1>7. ASSUME NEW j \in Seqs, NEW S, InviteComes(t, j, S)
        PROVE  ist'[Callee][i] = Gone
    <2>1. ist[Callee][j] = None
      BY <1>7 DEF InviteComes, Arrives, Numbers, InviteOnce
    <2> QED
      BY <1>2, <1>7, <2>1 DEF InviteComes, IstBecomes
  <1>8. ASSUME NEW n, NEW b, AckComes(n, b)
        PROVE  ist'[Callee][i] = Gone
    BY <1>2, <1>8 DEF AckComes, IstBecomes
  <1>9. ASSUME NEW j \in Seqs, GivesUp(t, j)
        PROVE  ist'[Callee][i] = Gone
    BY <1>9 DEF GivesUp, IstBecomes
  <1>10. CASE CalleeActs(t)
    <2>1. \/ ist' = ist
          \/ \E j \in Seqs : \/ GivesUp(t, j) \/ (\E S : InviteComes(t, j, S))
                             \/ \E s \in Statuses : SendsAnswer(t, j, s)
          \/ \E n, b : AckComes(n, b)
      BY <1>10 DEF CalleeActs, HangsUp, Requests, Rejects, Accepts, Rings, Inserts, AnswersAgain,
         PrackComes, SendsOther, Tells, Deletes, EndsCall, CancelComes, ByeComes, Rest
    <2> QED
      BY <1>5, <1>6, <1>7, <1>8, <1>9, <2>1
  <1> QED
    BY <1>3, <1>4, <1>10, Whose

LEMMA TimedOutStays ==
  ASSUME Base, Numbers, NEW t \in Threads, Acts(t), TimedOut(Callee)
  PROVE  TimedOut(Callee)'
  <1>1. PICK i \in Seqs : Gone \in {ict[Callee][i], ist[Callee][i]}
    BY DEF TimedOut
  <1>2. ict[Callee][i] = None
    BY DEF Base, StackRight
  <1>3. ist[Callee][i] = Gone
    BY <1>1, <1>2, NoneFacts
  <1>4. ist'[Callee][i] = Gone
    BY <1>3, GoneStays
  <1> QED
    BY <1>4 DEF TimedOut

-----------------------------------------------------------------------------
(* A call that the caller is done with. *)
Cancelled == Out = None \/ Out.cancel
LetGo == Cancelled /\ (Out = None => ict[Caller][1] # None)
Over == ict[Caller][1] # None /\ Cancelled /\ \A i \in Seqs : Made(i) => ist[Callee][i] # None

LEMMA TakenCancelled ==
  ASSUME Out # None, Out.cancel, NEW t, NEW s, ResponseTaken(t, s)
  PROVE  Out' # None /\ Out'.cancel
  BY NoneFacts DEF ResponseTaken, Rings100, Connects, Retries, RefusesAgain, Refuses, SameTimes

LEMMA TakenNone ==
  ASSUME Out = None, NEW t, NEW s, ResponseTaken(t, s)
  PROVE  Out' = None
  BY NoneFacts DEF ResponseTaken, Rings100, Connects, Retries, RefusesAgain, Refuses

LEMMA NoneStays ==
  ASSUME Base, Out = None, ict[Caller][1] # None, NEW t \in Threads, Acts(t)
  PROVE  Out' = None
  <1>1. None \notin Dialog
    BY NoneFacts
  <1> QED
    BY <1>1, OutStep, TakenNone DEF CallStarts, CallCancels, Requests, ReInvites, Pracks, HangsUp, Deletes, HearsNew, TimesOut, Out

LEMMA LetGoStays ==
  ASSUME Base, Numbers, LetGo, NEW t \in Threads, Acts(t)
  PROVE  LetGo'
  <1>1. CASE Out = None
    <2>1. ict[Caller][1] # None
      BY <1>1 DEF LetGo
    <2> QED
      BY <1>1, <2>1, NoneStays, Grows, SeqFacts DEF LetGo, Cancelled
  <1>2. CASE Out # None
    <2>1. Out.cancel
      BY <1>2 DEF LetGo, Cancelled
    <2>2. Out' # None => Out'.cancel
      <3>1. CASE \/ CallStarts(t) \/ CallCancels(t) \/ Requests(Caller, t)
                 \/ \E n \in Seqs : ReInvites(t, n) \/ Pracks(t, n)
                 \/ HangsUp(Caller, t) \/ Deletes(Caller, t)
                 \/ EndsCall(Caller, t) /\ Out \in Dialog /\ Ended(Out, Out')
        BY <1>2, <2>1, <3>1 DEF CallStarts, CallCancels, Requests, ReInvites, Pracks, HangsUp, Deletes, Ended, Renewed,
           SameTimes, Out
      <3> QED
        BY <1>2, <2>1, <3>1, OutStep, TakenCancelled DEF HearsNew, TimesOut
    <2>3. Out' = None => ict[Caller][1] # None
      <3>1. SUFFICES ASSUME Out' = None, ict[Caller][1] = None PROVE FALSE
        OBVIOUS
      <3>2. ~Out.start /\ \A s \in Steps(Caller, t) : s = Send(InviteMsg(1)) \/ s = Send(CancelMsg)
        BY <1>2, <3>1 DEF Numbers, Fresh
      <3>3. ~HangsUp(Caller, t)
        BY <3>2 DEF HangsUp, Out
      <3>4. ~Deletes(Caller, t)
        BY <3>2, StepsDiffer DEF Deletes
      <3>5. \A s : ~ResponseTaken(t, s)
        BY <1>2, <2>1, <3>1, TakenCancelled
      <3> QED
        BY <1>2, <3>1, <3>3, <3>4, <3>5, OutStep, NoneFacts DEF CallStarts, CallCancels, Requests, ReInvites, Pracks, Ended,
           Renewed, HearsNew, TimesOut, Out
    <2> QED
      BY <2>2, <2>3, Grows, SeqFacts DEF LetGo, Cancelled
  <1> QED
    BY <1>1, <1>2

LEMMA OverStays ==
  ASSUME Base, Numbers, Over, ~May("reinvite"), NEW t \in Threads, Acts(t)
  PROVE  Over'
  <1>1. Cancelled' /\ ict'[Caller][1] # None
    BY LetGoStays, Grows, SeqFacts DEF Over, LetGo
  <1>2. ASSUME NEW i \in Seqs, Made(i)'
        PROVE  Made(i)
    <2>1. ~CallStarts(t) /\ ~ReInvites(t, i)
      BY DEF CallStarts, ReInvites, Over
    <2>2. \A s : ~Retries(t, s, i)
      BY RetriesFinal DEF Over, Cancelled
    <2> QED
      BY <1>2, <2>1, <2>2, MadeStep
  <1> QED
    BY <1>1, <1>2, Grows DEF Over

CancelSent == CancelMsg \in wire \/ Has(Caller, Send(CancelMsg))
CancelRight == CancelSent => LetGo

LEMMA CallerNewHas ==
  ASSUME Base, NEW t \in Threads, Acts(t), NEW x, Has(Caller, x)', ~Has(Caller, x)
  PROVE  CallerGets(t, x)
  BY CallerNew DEF Has

LEMMA CalleeNewHas ==
  ASSUME Base, NEW t \in Threads, Acts(t), NEW x, Has(Callee, x)', ~Has(Callee, x)
  PROVE  CalleeGets(t, x)
  BY CalleeNew DEF Has

LEMMA GetsCancel ==
  ASSUME NEW t, CallerGets(t, Send(CancelMsg))
  PROVE  CallCancels(t)
  <1> DEFINE x == Send(CancelMsg)
  <1>1. /\ \A i : x # Send(InviteMsg(i)) /\ x # Send(PrackMsg(i))
        /\ \A a : x # Send(ByeMsg(a))
        /\ \A n, b : x # Send(AckMsg(n, b))
    BY SendSame, MessagesDiffer
  <1>2. x # Tell("end") /\ x # Delete /\ x # SetEnd /\ x # StopStep /\ x # Tell("start")
    BY StepsDiffer
  <1> HIDE DEF x
  <1>3. CallerGets(t, x)
    BY DEF x
  <1> QED
    BY <1>1, <1>2, <1>3 DEF CallerGets, ResponseGives

LEMMA GetsBye ==
  ASSUME NEW t, CallerGets(t, Send(ByeMsg(Callee)))
  PROVE  HangsUp(Caller, t)
  <1> DEFINE x == Send(ByeMsg(Callee))
  <1>1. /\ \A i : x # Send(InviteMsg(i)) /\ x # Send(PrackMsg(i))
        /\ x # Send(CancelMsg)
        /\ \A n, b : x # Send(AckMsg(n, b))
    BY SendSame, MessagesDiffer
  <1>2. x # Tell("end") /\ x # Delete /\ x # SetEnd /\ x # StopStep /\ x # Tell("start")
    BY StepsDiffer
  <1> HIDE DEF x
  <1>3. CallerGets(t, x)
    BY DEF x
  <1> QED
    BY <1>1, <1>2, <1>3 DEF CallerGets, ResponseGives

LEMMA CancelRightStep ==
  ASSUME Base, Numbers, CancelRight, NEW t \in Threads, Acts(t)
  PROVE  CancelRight'
  <1> SUFFICES ASSUME CancelSent' PROVE LetGo'
    BY DEF CancelRight
  <1>1. CASE CancelSent
    BY <1>1, LetGoStays DEF CancelRight
  <1>2. CASE ~CancelSent
    <2>1. CASE CancelMsg \in wire'
      <3>1. PICK a \in Agents : Send(CancelMsg) \in Steps(a, t) /\ SendsOther(a, t, CancelMsg)
        BY <1>2, <2>1, WireStep, MessagesDiffer DEF CancelSent
      <3>2. a # Callee
        <4>1. CalleeStep(Send(CancelMsg)) => FALSE
          <5>1. Tag(Send(CancelMsg)) = "CANCEL"
            BY SendTags
          <5> QED
            BY <5>1, PlainTags, SendTags DEF CalleeStep
        <4> QED
          BY <3>1, <4>1 DEF Base, ListsRight
      <3> QED
        BY <1>2, <3>1, <3>2 DEF CancelSent, Has, Agents
    <2>2. CASE Has(Caller, Send(CancelMsg))'
      <3>1. CallCancels(t)
        BY <1>2, <2>2, CallerNewHas, GetsCancel DEF CancelSent
      <3> QED
        BY <3>1, NoneFacts DEF CallCancels, LetGo, Cancelled
    <2> QED
      BY <2>1, <2>2 DEF CancelSent
  <1> QED
    BY <1>1, <1>2

-----------------------------------------------------------------------------
(* A call ends at the callee, if it does not time out there, when the      *)
(* caller is done with it.                                                 *)
ByeSent == ByeMsg(Callee) \in wire \/ Has(Caller, Send(ByeMsg(Callee)))

Ending ==
  \/ ByeSent \/ Has(Callee, SetEnd)
  \/ Has(Callee, Tell("end")) /\ ~TimedOut(Callee)

Endings == OneInvite /\ Ending => Over

LEMMA GivenReceived == ASSUME NEW i, Given(i) >= 200 PROVE ist[Callee][i] # None
  BY DEF Given

LEMMA MadeReceived ==
  ASSUME Base, Replaced, NEW b \in Seqs, Made(b), ist[Callee][b] # None, Given(b) < 300
  PROVE  \A j \in Seqs : Made(j) => ist[Callee][j] # None
  <1> SUFFICES ASSUME NEW j \in Seqs, Made(j) PROVE ist[Callee][j] # None
    OBVIOUS
  <1>1. Given(b) \in Nat /\ Given(j) \in Nat /\ b \in Nat /\ j \in Nat
    BY GivenNat, SeqFacts
  <1>2. ~(b < j)
    BY <1>1 DEF Replaced
  <1>3. CASE j < b
    <2>1. Given(j) >= 300
      BY <1>3 DEF Replaced
    <2> QED
      BY <1>1, <2>1, GivenReceived
  <1> QED
    BY <1>1, <1>2, <1>3

LEMMA HangsUpOver ==
  ASSUME Base, Numbers, Replaced, Accepted, OneInvite, NEW t \in Threads, Acts(t), HangsUp(Caller, t)
  PROVE  Over'
  <1>1. Out # None /\ Out.start /\ Out' = None
    BY NoneFacts DEF HangsUp, Out
  <1>2. PICK b \in Seqs : b = Out.branch /\ Made(b)
    BY <1>1 DEF Numbers, LastInvite
  <1>3. Given(b) \in 200..299
    BY <1>1, <1>2 DEF Accepted
  <1>4. ict[Caller][1] # None
    BY <1>1 DEF Numbers, Fresh
  <1>5. \A j \in Seqs : Made(j) => ist[Callee][j] # None
    <2>1. ist[Callee][b] # None /\ Given(b) < 300
      BY <1>3, GivenReceived
    <2> QED
      BY <1>2, <2>1, MadeReceived
  <1>6. ASSUME NEW i \in Seqs, Made(i)'
        PROVE  Made(i)
    <2>1. ~CallStarts(t) /\ ~ReInvites(t, i)
      BY <1>1 DEF CallStarts, ReInvites, OneInvite
    <2>2. \A s : ~Retries(t, s, i)
      BY <1>1, NoneFacts DEF Retries, Renewed
    <2> QED
      BY <1>6, <2>1, <2>2, MadeStep
  <1> QED
    BY <1>1, <1>4, <1>5, <1>6, Grows, SeqFacts DEF Over, Cancelled

LEMMA CancelOver ==
  ASSUME Base, Numbers, OnlyReceived, OneAtATime, Replaced, CancelRight, OneInvite, NEW t \in Workers,
         CancelComes(t), In # None, In.invite \in Seqs
  PROVE  Over
  <1>1. PICK i \in Seqs : i = In.invite
    OBVIOUS
  <1>2. AtOnce(i, In, Given(i), {}) /\ Given(i) \in Nat
    BY GivenNat DEF OneAtATime, OneInvite, CancelComes
  <1>3. Given(i) < 200
    BY <1>1, <1>2, AtOnceEmpty
  <1>4. ist[Callee][i] # None
    BY <1>1 DEF OnlyReceived, InviteWork
  <1>5. Made(i)
    BY <1>4 DEF Numbers, InviteOnce, Made
  <1>6. \A j \in Seqs : Made(j) => ist[Callee][j] # None
    <2>1. Given(i) < 300
      BY <1>2, <1>3
    <2> QED
      BY <1>4, <1>5, <2>1, MadeReceived
  <1>7. Cancelled
    BY DEF CancelComes, Arrives, CancelRight, CancelSent, LetGo
  <1>8. ict[Caller][1] # None
    BY DEF Numbers, Fresh
  <1> QED
    BY <1>6, <1>7, <1>8 DEF Over

LEMMA GetsSetEnd ==
  ASSUME NEW t, CalleeGets(t, SetEnd)
  PROVE  ByeComes(Callee, t)
  <1> DEFINE x == SetEnd
  <1>1. /\ \A m : x # Send(m)
        /\ \A e : x # Tell(e)
        /\ x # Delete /\ \A i : x # InsertStep(i) /\ x # AnswerStep(i)
    BY StepsDiffer
  <1> HIDE DEF x
  <1>2. CalleeGets(t, x)
    BY DEF x
  <1>3. \A i, S : InviteAnswers(i, S) => x \notin S
    BY <1>1 DEF InviteAnswers
  <1> QED
    BY <1>1, <1>2, <1>3 DEF CalleeGets

LEMMA GetsEnd ==
  ASSUME NEW t, CalleeGets(t, Tell("end"))
  PROVE  \/ EndsCall(Callee, t)
         \/ CancelComes(t) /\ In \in Dialog /\ ~In.start /\ In.invite \in Seqs
         \/ \E i \in Seqs : GivesUp(t, i)
  <1> DEFINE x == Tell("end")
  <1>1. /\ \A m : x # Send(m)
        /\ x # Tell("call") /\ x # Tell("prack") /\ x # SetEnd
        /\ x # Delete /\ \A i : x # InsertStep(i) /\ x # AnswerStep(i)
    <2>1. x # Tell("call") /\ x # Tell("prack")
      BY DEF Tell
    <2> QED
      BY <2>1, StepsDiffer
  <1> HIDE DEF x
  <1>2. CalleeGets(t, x)
    BY DEF x
  <1>3. \A i, S : InviteAnswers(i, S) => x \notin S
    BY <1>1 DEF InviteAnswers
  <1> QED
    BY <1>1, <1>2, <1>3 DEF CalleeGets

LEMMA GivesUpTimesOut ==
  ASSUME NEW t, NEW i \in Seqs, GivesUp(t, i)
  PROVE  TimedOut(Callee)'
  BY DEF GivesUp, IstBecomes, TimedOut

LEMMA CallerNoBye ==
  ASSUME Base, NEW t \in Threads, Send(ByeMsg(Callee)) \in Steps(Callee, t)
  PROVE  FALSE
  <1>1. Tag(Send(ByeMsg(Callee))) = "BYE"
    BY SendTags
  <1>2. CalleeStep(Send(ByeMsg(Callee)))
    BY DEF Base, ListsRight
  <1>3. Send(ByeMsg(Callee)) = Send(ByeMsg(Caller))
    BY <1>1, <1>2, CalleeForms
  <1> QED
    BY <1>3, SendSame, MessageSame, Pair

LEMMA EndingsStep ==
  ASSUME Base, Numbers, OnlyReceived, OneAtATime, Chained, CancelRight, Endings,
         NEW t \in Workers, Acts(t), scenario' = scenario
  PROVE  Endings'
  <1> SUFFICES ASSUME OneInvite, Ending' PROVE Over'
    BY DEF Endings, OneInvite, May
  <1>1. t \in Threads /\ ~May("threads") /\ ~May("reinvite") /\ Replaced /\ Accepted
    BY WorkerThreads DEF OneInvite, Chained
  <1>2. CASE Over
    BY <1>1, <1>2, OverStays
  <1>3. CASE Ending
    BY <1>2, <1>3 DEF Endings
  <1>4. CASE ~Ending
    <2>1. CASE Has(Callee, SetEnd)'
      <3>1. ByeComes(Callee, t)
        BY <1>1, <1>4, <2>1, CalleeNewHas, GetsSetEnd DEF Ending
      <3> QED
        BY <1>4, <3>1 DEF ByeComes, Arrives, Ending, ByeSent
    <2>2. CASE Has(Callee, Tell("end"))' /\ ~TimedOut(Callee)'
      <3>1. ~TimedOut(Callee)
        BY <1>1, <2>2, TimedOutStays
      <3>2. CalleeGets(t, Tell("end"))
        BY <1>1, <1>4, <2>2, <3>1, CalleeNewHas DEF Ending
      <3>3. ~EndsCall(Callee, t)
        BY <1>1, <1>4, HasSteps DEF EndsCall, Ending
      <3>4. CancelComes(t) /\ In \in Dialog /\ In.invite \in Seqs
        BY <2>2, <3>2, <3>3, GetsEnd, GivesUpTimesOut
      <3> QED
        BY <1>1, <1>2, <3>4, CancelOver, NoneFacts
    <2>3. CASE Has(Caller, Send(ByeMsg(Callee)))'
      <3>1. HangsUp(Caller, t)
        BY <1>1, <1>4, <2>3, CallerNewHas, GetsBye DEF Ending, ByeSent
      <3> QED
        BY <1>1, <3>1, HangsUpOver
    <2>4. CASE ByeMsg(Callee) \in wire'
      <3>1. PICK a \in Agents : Send(ByeMsg(Callee)) \in Steps(a, t)
        BY <1>1, <1>4, <2>4, WireStep DEF Ending, ByeSent
      <3>2. a = Caller
        BY <1>1, <3>1, CallerNoBye DEF Agents
      <3> QED
        BY <1>1, <1>4, <3>1, <3>2, HasSteps DEF Ending, ByeSent
    <2> QED
      BY <2>1, <2>2, <2>3, <2>4 DEF Ending, ByeSent
  <1> QED
    BY <1>3, <1>4

-----------------------------------------------------------------------------
(* What an application was told, in order. *)
EndIn(q) == \E k \in DOMAIN q : q[k] = "end"
InOrderTold(q) == \A k, l \in DOMAIN q : k < l /\ q[k] = "end" => q[l] = "prack"

LEMMA ToldNext ==
  ASSUME NEW q \in Seq(Events), NEW e \in Events, InOrderTold(q), EndIn(q) => e = "prack"
  PROVE  /\ InOrderTold(Append(q, e))
         /\ EndIn(Append(q, e)) => EndIn(q) \/ e = "end"
  <1> DEFINE r == Append(q, e)
             n == Len(q)
  <1>1. n \in Nat /\ DOMAIN q = 1..n /\ DOMAIN r = 1..n+1 /\ r[n + 1] = e
        /\ \A k \in 1..n : r[k] = q[k]
    OBVIOUS
  <1> HIDE DEF r, n
  <1>2. \A k \in 1..n+1 : k \in 1..n \/ k = n + 1
    BY <1>1
  <1>3. EndIn(r) => EndIn(q) \/ e = "end"
    BY <1>1, <1>2 DEF EndIn
  <1>4. ASSUME NEW k \in 1..n+1, NEW l \in 1..n+1, k < l, r[k] = "end"
        PROVE  r[l] = "prack"
    <2>1. k \in 1..n /\ q[k] = "end"
      BY <1>1, <1>4
    <2>2. EndIn(q)
      BY <1>1, <2>1 DEF EndIn
    <2>3. CASE l \in 1..n
      BY <1>1, <1>4, <2>1, <2>3 DEF InOrderTold
    <2>4. CASE l = n + 1
      BY <1>1, <2>2, <2>4
    <2> QED
      BY <1>2, <2>3, <2>4
  <1>5. InOrderTold(r)
    BY <1>1, <1>4 DEF InOrderTold
  <1> QED
    BY <1>3, <1>5 DEF r

(* The caller's application is told of the end once the dialog is about to *)
(* go, or went.                                                            *)
CallerQuiet(t) ==
  \/ Steps(Caller, t) = {Delete}
  \/ Out = None /\ \A e : Tell(e) \notin Steps(Caller, t)

CallerTold ==
  ~May("threads") =>
    /\ InOrderTold(told[Caller])
    /\ EndIn(told[Caller]) => ict[Caller][1] # None /\ \A t \in Workers : CallerQuiet(t)

CalleeQuiet(t) ==
  \/ Steps(Callee, t) = {Delete}
  \/ In = None /\ Steps(Callee, t) \subseteq {SetEnd, Tell("prack")}

CalleeTold ==
  OneInvite /\ ~TimedOut(Callee) =>
    /\ InOrderTold(told[Callee])
    /\ EndIn(told[Callee]) => Over /\ \A t \in Workers : CalleeQuiet(t)

LEMMA TellsDiffer == \A e, f : Tell(e) = Tell(f) => e = f
  <1>1. ASSUME NEW e, NEW f, Tell(e) = Tell(f) PROVE e = f
    <2>1. Tell(e).event = e /\ Tell(f).event = f
      BY DEF Tell
    <2> QED
      BY <1>1, <2>1
  <1> QED
    BY <1>1

LEMMA CallerDeletes ==
  ASSUME Base, NEW t \in Threads, Acts(t), Steps(Caller, t) = {Delete}
  PROVE  Steps(Caller, t)' = {Delete} \/ (Out' = None /\ Steps(Caller, t)' = {})
  <1>1. CASE CalleeActs(t)
    BY <1>1, CallerRestsThen DEF CallerRests
  <1>2. CASE Nothing
    BY <1>2 DEF Nothing, Steps
  <1>3. CASE Deletes(Caller, t)
    BY <1>3, WorksHas, Pair DEF Deletes, Out
  <1>4. CASE CallerActs(t)
    <2>1. /\ \A m : ~Sends(Caller, t, m)
          /\ \A e : ~Tells(Caller, t, e)
          /\ ~EndsCall(Caller, t) /\ ~StopsNothing(t) /\ ~HangsUp(Caller, t)
      BY StepsDiffer DEF Sends, Tells, EndsCall, StopsNothing, HangsUp
    <2>2. /\ ~CallStarts(t) /\ ~CallCancels(t) /\ ~Requests(Caller, t) /\ ~ByeComes(Caller, t)
          /\ \A n : ~ReInvites(t, n) /\ ~Pracks(t, n) /\ ~TimesOut(t, n)
          /\ \A i, s : ~Hears(t, i, s)
      BY DEF CallStarts, CallCancels, Requests, ByeComes, ReInvites, Pracks, TimesOut, Hears
    <2> QED
      BY <1>3, <1>4, <2>1, <2>2 DEF CallerActs, SendsInvite, SendsOther, SendsAck
  <1> QED
    BY <1>1, <1>2, <1>4, Whose

LEMMA CalleeDeletes ==
  ASSUME Base, NEW t \in Threads, Acts(t), Steps(Callee, t) = {Delete}
  PROVE  Steps(Callee, t)' = {Delete} \/ (In' = None /\ Steps(Callee, t)' = {})
  <1>1. CASE CallerActs(t)
    BY <1>1, CalleeRestsThen DEF CalleeRests
  <1>2. CASE Nothing
    BY <1>2 DEF Nothing, Steps
  <1>3. CASE Deletes(Callee, t)
    BY <1>3, WorksHas, Pair DEF Deletes, In
  <1>4. CASE CalleeActs(t)
    <2>1. /\ \A m : ~Sends(Callee, t, m)
          /\ \A e : ~Tells(Callee, t, e)
          /\ ~EndsCall(Callee, t) /\ \A i : ~Inserts(t, i) /\ ~AnswersAgain(t, i)
      BY StepsDiffer DEF Sends, Tells, EndsCall, Inserts, AnswersAgain
    <2>2. /\ ~HangsUp(Callee, t) /\ ~Requests(Callee, t) /\ ~CancelComes(t) /\ ~ByeComes(Callee, t)
          /\ \A i : ~Accepts(t, i) /\ ~Rings(t, i) /\ ~PrackComes(t, i) /\ ~GivesUp(t, i)
          /\ \A i, s : ~Rejects(t, i, s) /\ ~InviteComes(t, i, s)
      BY Pair DEF HangsUp, Requests, CancelComes, ByeComes, Accepts, Rings, PrackComes, GivesUp, Rejects, InviteComes
    <2>3. CASE \E n, b : AckComes(n, b)
      BY <2>3 DEF AckComes, Steps
    <2> QED
      BY <1>3, <1>4, <2>1, <2>2, <2>3 DEF CalleeActs, SendsAnswer, SendsOther
  <1> QED
    BY <1>1, <1>2, <1>4, Whose

LEMMA CallerStaysQuiet ==
  ASSUME Base, NEW t \in Threads, Acts(t), ict[Caller][1] # None, CallerQuiet(t)
  PROVE  CallerQuiet(t)'
  <1>1. CASE Steps(Caller, t) = {Delete}
    BY <1>1, CallerDeletes DEF CallerQuiet
  <1>2. CASE Out = None /\ \A e : Tell(e) \notin Steps(Caller, t)
    <2>1. Out' = None
      BY <1>2, NoneStays
    <2>2. ASSUME NEW e, Tell(e) \in Steps(Caller, t)'
          PROVE  FALSE
      <3>1. CallerGets(t, Tell(e))
        BY <1>2, <2>2, CallerNew
      <3>2. \A m : Tell(e) # Send(m)
        BY StepsDiffer
      <3>3. Tell(e) # SetEnd /\ Out \notin Dialog
        BY <1>2, StepsDiffer, NoneFacts
      <3>4. \A s : ~ResponseGives(t, s, Tell(e))
        BY <3>3 DEF ResponseGives, Connects, Retries, RefusesAgain, Refuses
      <3> QED
        BY <3>1, <3>2, <3>3, <3>4 DEF CallerGets
    <2> QED
      BY <2>1, <2>2 DEF CallerQuiet
  <1> QED
    BY <1>1, <1>2 DEF CallerQuiet

LEMMA CalleeStaysQuiet ==
  ASSUME Base, Numbers, Over, ~TimedOut(Callee)', NEW t \in Threads, Acts(t), CalleeQuiet(t)
  PROVE  CalleeQuiet(t)'
  <1>1. CASE Steps(Callee, t) = {Delete}
    BY <1>1, CalleeDeletes DEF CalleeQuiet
  <1>2. CASE In = None /\ Steps(Callee, t) \subseteq {SetEnd, Tell("prack")}
    <2>1. In \notin Dialog /\ \A i : ~Inserts(t, i)
      BY <1>2, NoneFacts, StepsDiffer DEF Inserts
    <2>2. In' = None
      <3>1. ~HangsUp(Callee, t) /\ ~Requests(Callee, t) /\ \A i, s : ~Accepts(t, i) /\ ~Rejects(t, i, s)
        BY <2>1 DEF HangsUp, Requests, Accepts, Rejects, In
      <3>2. Deletes(Callee, t) => In' = None
        BY DEF Deletes, In
      <3> QED
        BY <1>2, <2>1, <3>1, <3>2, InStep
    <2>3. ASSUME NEW x, x \in Steps(Callee, t)', x \notin {SetEnd, Tell("prack")}
          PROVE  FALSE
      <3>1. CalleeGets(t, x)
        BY <1>2, <2>3, CalleeNew
      <3>2. ASSUME NEW i \in Seqs, NEW S, InviteComes(t, i, S)
            PROVE  FALSE
        <4>1. InviteMsg(i) \in wire
          BY <3>2 DEF InviteComes, Arrives
        <4>2. ict[Caller][i] # None /\ ist[Callee][i] = None
          BY <4>1 DEF Numbers, InviteOnce
        <4> QED
          BY <4>2 DEF Over, Made
      <3>3. \A i \in Seqs : ~GivesUp(t, i)
        BY GivesUpTimesOut
      <3>4. ~HangsUp(Callee, t) /\ (\A i, s : ~Accepts(t, i) /\ ~Rejects(t, i, s) /\ ~Rings(t, i))
        BY <2>1 DEF HangsUp, Requests, Accepts, Rejects, Rings, In
      <3> QED
        BY <1>2, <2>1, <2>3, <3>1, <3>2, <3>3, <3>4 DEF CalleeGets
    <2> QED
      BY <2>2, <2>3 DEF CalleeQuiet
  <1> QED
    BY <1>1, <1>2 DEF CalleeQuiet

ToldStep(t) ==
  \/ told' = told
  \/ \E a \in Agents, e \in Events : Tells(a, t, e) /\ told' = [told EXCEPT ![a] = Append(told[a], e)]

LEMMA ToldStepFor ==
  ASSUME Base, NEW t, ToldStep(t), NEW b \in Agents
  PROVE  \/ told'[b] = told[b]
         \/ \E e \in Events : Tells(b, t, e) /\ told'[b] = Append(told[b], e)
  BY DEF ToldStep, Base

LEMMA CallerToldStep ==
  ASSUME Base, Numbers, CallerTold, NEW t \in Workers, Acts(t), ToldStep(t), scenario' = scenario
  PROVE  CallerTold'
  <1> SUFFICES ASSUME ~May("threads")
               PROVE  /\ InOrderTold(told'[Caller])
                      /\ EndIn(told'[Caller]) => ict'[Caller][1] # None /\ CallerQuiet(t)'
    <2>1. Workers' = Workers /\ (May("threads")' <=> May("threads"))
      BY DEF Workers, May
    <2>2. ~May("threads") => \A u \in Workers : u = t
      BY OneWorker
    <2> QED
      BY <2>1, <2>2 DEF CallerTold
  <1>1. t \in Threads /\ told[Caller] \in Seq(Events)
    BY WorkerThreads, Pair DEF Base
  <1>2. InOrderTold(told[Caller])
    BY DEF CallerTold
  <1>3. ict[Caller][1] # None => ict'[Caller][1] # None
    BY <1>1, Grows, SeqFacts
  <1>4. EndIn(told[Caller]) => ict[Caller][1] # None /\ CallerQuiet(t)
    BY DEF CallerTold
  <1>5. EndIn(told[Caller]) => ict'[Caller][1] # None /\ CallerQuiet(t)'
    BY <1>1, <1>3, <1>4, CallerStaysQuiet
  <1>6. CASE told'[Caller] = told[Caller]
    BY <1>2, <1>5, <1>6
  <1>7. ASSUME NEW e \in Events, Tells(Caller, t, e), told'[Caller] = Append(told[Caller], e)
        PROVE  /\ InOrderTold(told'[Caller])
               /\ EndIn(told'[Caller]) => ict'[Caller][1] # None /\ CallerQuiet(t)'
    <2>1. ~EndIn(told[Caller])
      <3>1. Tell(e) \in Steps(Caller, t) /\ Tell(e) # Delete
        BY <1>7, StepsDiffer DEF Tells
      <3> QED
        BY <1>4, <3>1 DEF CallerQuiet
    <2>2. InOrderTold(told'[Caller]) /\ (EndIn(told'[Caller]) => e = "end")
      BY <1>1, <1>2, <1>7, <2>1, ToldNext
    <2>3. ict[Caller][1] # None
      <3>1. Tell(e) \in Steps(Caller, t) /\ \A m : Tell(e) # Send(m)
        BY <1>7, StepsDiffer DEF Tells
      <3> QED
        BY <1>1, <3>1 DEF Numbers, Fresh
    <2>4. e = "end" => Steps(Caller, t)' = {Delete}
      BY <1>1, <1>7, WorksHas, StepsDiffer, Pair DEF Tells
    <2> QED
      BY <1>3, <2>2, <2>3, <2>4 DEF CallerQuiet
  <1> QED
    BY <1>6, <1>7, ToldStepFor, Pair

LEMMA CalleeToldStep ==
  ASSUME Base, Numbers, Endings, CalleeTold, NEW t \in Workers, Acts(t), ToldStep(t), scenario' = scenario
  PROVE  CalleeTold'
  <1> SUFFICES ASSUME OneInvite, ~TimedOut(Callee)'
               PROVE  /\ InOrderTold(told'[Callee])
                      /\ EndIn(told'[Callee]) => Over' /\ CalleeQuiet(t)'
    <2>1. Workers' = Workers /\ (OneInvite' <=> OneInvite)
      BY DEF Workers, May, OneInvite
    <2>2. OneInvite => \A u \in Workers : u = t
      BY OneWorker DEF OneInvite
    <2> QED
      BY <2>1, <2>2 DEF CalleeTold
  <1>1. t \in Threads /\ told[Callee] \in Seq(Events) /\ ~May("reinvite")
    BY WorkerThreads, Pair DEF Base, OneInvite
  <1>2. ~TimedOut(Callee)
    BY <1>1, TimedOutStays
  <1>3. InOrderTold(told[Callee])
    BY <1>2 DEF CalleeTold
  <1>4. EndIn(told[Callee]) => Over /\ CalleeQuiet(t)
    BY <1>2 DEF CalleeTold
  <1>5. EndIn(told[Callee]) => Over' /\ CalleeQuiet(t)'
    BY <1>1, <1>4, CalleeStaysQuiet, OverStays
  <1>6. CASE told'[Callee] = told[Callee]
    BY <1>3, <1>5, <1>6
  <1>7. ASSUME NEW e \in Events, Tells(Callee, t, e), told'[Callee] = Append(told[Callee], e)
        PROVE  /\ InOrderTold(told'[Callee])
               /\ EndIn(told'[Callee]) => Over' /\ CalleeQuiet(t)'
    <2>1. EndIn(told[Callee]) => e = "prack"
      <3>1. Tell(e) \in Steps(Callee, t) /\ Tell(e) # Delete /\ Tell(e) # SetEnd
        BY <1>7, StepsDiffer DEF Tells
      <3>2. Tell(e) = Tell("prack") => e = "prack"
        BY TellsDiffer
      <3> QED
        BY <1>4, <3>1, <3>2 DEF CalleeQuiet
    <2>2. InOrderTold(told'[Callee]) /\ (EndIn(told'[Callee]) => EndIn(told[Callee]) \/ e = "end")
      BY <1>1, <1>3, <1>7, <2>1, ToldNext
    <2>3. e = "end" => Over'
      <3>1. Tell(e) \in Steps(Callee, t)
        BY <1>7 DEF Tells
      <3>2. e = "end" => Over
        BY <1>1, <1>2, <3>1, HasSteps DEF Endings, Ending
      <3> QED
        BY <1>1, <3>2, OverStays
    <2>4. e = "end" => Steps(Callee, t)' = {Delete}
      BY <1>1, <1>7, WorksHas, StepsDiffer, Pair DEF Tells
    <2> QED
      BY <1>5, <2>2, <2>3, <2>4 DEF CalleeQuiet
  <1> QED
    BY <1>6, <1>7, ToldStepFor, Pair

-----------------------------------------------------------------------------
(* The invariant of calls with one thread.                                 *)
ChainInv == FinalOut /\ Chained /\ CancelRight /\ Endings /\ CallerTold /\ CalleeTold

LEMMA ChainInit == Init => ChainInv
  <1> SUFFICES ASSUME Init PROVE ChainInv
    OBVIOUS
  <1>1. /\ \A a \in Agents : \A s : ~Has(a, s)
        /\ \A i \in Seqs : ict[Caller][i] = None
        /\ wire = {} /\ Out = None
    BY InitLists
  <1>2. told[Caller] = <<>> /\ told[Callee] = <<>>
    BY Pair DEF Init
  <1>3. InOrderTold(<<>>) /\ ~EndIn(<<>>)
    BY DEF InOrderTold, EndIn
  <1>4. \A i \in Seqs : ~Made(i)
    BY <1>1, Pair DEF Made
  <1>5. ~Ending /\ ~CancelSent
    BY <1>1, Pair DEF Ending, ByeSent, CancelSent
  <1> QED
    BY <1>1, <1>2, <1>3, <1>4, <1>5 DEF ChainInv, FinalOut, Chained, Replaced, Accepted, CancelRight, Endings,
       CallerTold, CalleeTold

LEMMA NextTells ==
  ASSUME Base, Next
  PROVE  \E t \in Workers : Acts(t) /\ (May("threads") \/ ToldStep(t))
  <1>1. CASE May("threads")
    BY <1>1, NextDoes
  <1>2. CASE ~May("threads")
    <2>1. \A t, u \in Workers : t = u
      BY <1>2, OneWorker
    <2> QED
      BY <2>1, NextDoes DEF ToldStep
  <1> QED
    BY <1>1, <1>2

LEMMA ChainStep ==
  ASSUME Base, Numbers, Numbers', OnlyReceived, OneAtATime, ChainInv, Next
  PROVE  ChainInv'
  <1>1. PICK t \in Workers : Acts(t) /\ (May("threads") \/ ToldStep(t))
    BY NextTells
  <1>2. t \in Threads /\ scenario' = scenario /\ (May("threads")' <=> May("threads")) /\ (OneInvite' <=> OneInvite)
    BY NextDoes, WorkerThreads DEF May, OneInvite
  <1>3. FinalOut'
    BY <1>1, <1>2, FinalOutStep DEF ChainInv
  <1>4. Chained'
    BY <1>1, <1>2, ReplacedStep, AcceptedStep DEF ChainInv, Chained
  <1>5. CancelRight'
    BY <1>1, <1>2, CancelRightStep DEF ChainInv
  <1>6. Endings'
    BY <1>1, <1>2, EndingsStep DEF ChainInv
  <1>7. CallerTold'
    <2>1. CASE May("threads")
      BY <1>2, <2>1 DEF CallerTold
    <2>2. CASE ToldStep(t)
      BY <1>1, <1>2, <2>2, CallerToldStep DEF ChainInv
    <2> QED
      BY <1>1, <2>1, <2>2
  <1>8. CalleeTold'
    <2>1. CASE May("threads")
      BY <1>2, <2>1 DEF CalleeTold, OneInvite
    <2>2. CASE ToldStep(t)
      BY <1>1, <1>2, <2>2, CalleeToldStep DEF ChainInv
    <2> QED
      BY <1>1, <2>1, <2>2
  <1> QED
    BY <1>3, <1>4, <1>5, <1>6, <1>7, <1>8 DEF ChainInv

LEMMA SameChain == ASSUME ChainInv, UNCHANGED vars PROVE ChainInv'
  BY DEF vars, ChainInv, FinalOut, Chained, Replaced, Accepted, CancelRight, CancelSent, LetGo, Cancelled, Endings, Ending,
     ByeSent, Over, Made, CallerTold, CalleeTold, CallerQuiet, CalleeQuiet, TimedOut, OneInvite, Given, Has, Steps, Out, In,
     Workers, May

LEMMA ToldGood == CallerTold /\ CalleeTold => NothingAfterEnd
  BY DEF CallerTold, CalleeTold, InOrderTold, NothingAfterEnd, OneInvite, Agents

CallInv == Base /\ Numbers /\ OnlyReceived /\ OneAtATime /\ ChainInv

LEMMA CallInvInit == Init => CallInv
  BY BaseInit, NumbersInit, OneAtATimeInit, ChainInit DEF CallInv

LEMMA CallInvNext == CallInv /\ [Next]_vars => CallInv'
  <1>1. ASSUME CallInv, Next
        PROVE  CallInv'
    <2>1. Base' /\ scenario' = scenario
      BY <1>1, NextDoes DEF CallInv
    <2>2. PICK t \in Workers : Acts(t)
      BY <1>1, NextDoes DEF CallInv
    <2>3. t \in Threads
      BY WorkerThreads
    <2>4. Numbers'
      BY <1>1, <2>1, <2>2, <2>3, NumbersStep DEF CallInv
    <2>5. OnlyReceived' /\ OneAtATime'
      BY <1>1, <2>1, <2>2, <2>3, OnlyReceivedStep, OneAtATimeStep DEF CallInv
    <2>6. ChainInv'
      BY <1>1, <2>4, ChainStep DEF CallInv
    <2> QED
      BY <2>1, <2>4, <2>5, <2>6 DEF CallInv
  <1>2. ASSUME CallInv, UNCHANGED vars
        PROVE  CallInv'
    BY <1>2, SameBase, SameNumbersInv, SameOneAtATime, SameChain DEF CallInv
  <1> QED
    BY <1>1, <1>2

(* Once an application was told of the end of the call it is told of       *)
(* nothing else but a PRACK, if its agent has one thread, there are no     *)
(* re-INVITEs and none of its own transactions timed out.                  *)
THEOREM NothingElseTold == Spec => []NothingAfterEnd
  <1>1. CallInv => NothingAfterEnd
    BY ToldGood DEF CallInv, ChainInv
  <1> QED
    BY <1>1, CallInvInit, CallInvNext, PTL DEF Spec

-----------------------------------------------------------------------------
(* What happens to a message that is to be sent, or on the wire. *)
LEMMA SendDone ==
  ASSUME Base, NEW t \in Threads, Acts(t), NEW a \in Agents, NEW u \in Threads, NEW m,
         Send(m) \in Steps(a, u), Send(m) \notin Steps(a, u)'
  PROVE  /\ u = t
         /\ \/ a = Caller /\ \E i \in Seqs : m = InviteMsg(i) /\ SendsInvite(t, i)
            \/ a = Caller /\ \E n, b \in 0..MaxSeq : m = AckMsg(n, b) /\ SendsAck(t, n, b)
            \/ a = Callee /\ \E i \in Seqs, s \in Statuses : m = Answer(i, s) /\ SendsAnswer(t, i, s)
            \/ SendsOther(a, t, m) /\ (m = CancelMsg \/ m = ByeMsg(Peer(a)) \/ \E n \in Seqs : m = PrackMsg(n))
  <1>1. u = t
    BY OnlyMine
  <1>2. Steps(a, t) # {} /\ Send(m) \in Steps(a, t) /\ Send(m) \notin Steps(a, t)'
    BY <1>1
  <1>3. \A n : Sends(a, t, n) => m = n
    BY <1>2, SendSame DEF Sends, Works
  <1>4. ~Nothing
    BY <1>2 DEF Nothing, Steps
  <1>5. \A e : ~Tells(a, t, e)
    BY <1>2, StepsDiffer DEF Tells, Works
  <1>6. CASE a = Caller
    <2>1. CASE CalleeActs(t)
      BY <1>2, <1>6, <2>1, CallerRestsThen DEF CallerRests
    <2>2. CASE CallerActs(t)
      <3>1. /\ ~CallStarts(t) /\ ~CallCancels(t) /\ ~Requests(Caller, t) /\ ~ByeComes(Caller, t)
            /\ \A n : ~ReInvites(t, n) /\ ~Pracks(t, n) /\ ~TimesOut(t, n)
            /\ \A i, s : ~Hears(t, i, s)
        BY <1>2, <1>6 DEF CallStarts, CallCancels, Requests, ByeComes, ReInvites, Pracks, TimesOut, Hears
      <3>2. ~Deletes(Caller, t) /\ ~EndsCall(Caller, t) /\ ~StopsNothing(t) /\ ~HangsUp(Caller, t)
        BY <1>2, <1>6, StepsDiffer DEF Deletes, EndsCall, StopsNothing, HangsUp
      <3>3. \/ \E i \in Seqs : SendsInvite(t, i)
            \/ \E n, b \in 0..MaxSeq : SendsAck(t, n, b)
            \/ \E n : SendsOther(Caller, t, n) /\ (n = CancelMsg \/ n = ByeMsg(Callee) \/ \E k \in Seqs : n = PrackMsg(k))
        BY <1>5, <1>6, <2>2, <3>1, <3>2 DEF CallerActs
      <3> QED
        BY <1>1, <1>3, <1>6, <3>3, Pair DEF SendsInvite, SendsAck, SendsOther
    <2> QED
      BY <1>4, <2>1, <2>2, Whose
  <1>7. CASE a = Callee
    <2>1. CASE CallerActs(t)
      BY <1>2, <1>7, <2>1, CalleeRestsThen DEF CalleeRests
    <2>2. CASE CalleeActs(t)
      <3>1. /\ ~HangsUp(Callee, t) /\ ~Requests(Callee, t) /\ ~CancelComes(t) /\ ~ByeComes(Callee, t)
            /\ \A i : ~Accepts(t, i) /\ ~Rings(t, i) /\ ~PrackComes(t, i) /\ ~GivesUp(t, i)
            /\ \A i, s : ~Rejects(t, i, s) /\ ~InviteComes(t, i, s)
        BY <1>2, <1>7, Pair DEF HangsUp, Requests, CancelComes, ByeComes, Accepts, Rings, PrackComes, GivesUp, Rejects, InviteComes
      <3>2. \A n, b : ~AckComes(n, b)
        BY <1>2, <1>7 DEF AckComes, Steps
      <3>3. ~Deletes(Callee, t) /\ ~EndsCall(Callee, t) /\ \A i : ~Inserts(t, i) /\ ~AnswersAgain(t, i)
        BY <1>2, <1>7, StepsDiffer DEF Deletes, EndsCall, Inserts, AnswersAgain
      <3>4. (\E i \in Seqs, s \in Statuses : SendsAnswer(t, i, s)) \/ SendsOther(Callee, t, ByeMsg(Caller))
        BY <1>5, <1>7, <2>2, <3>1, <3>2, <3>3 DEF CalleeActs
      <3> QED
        BY <1>1, <1>3, <1>7, <3>4, Pair DEF SendsAnswer, SendsOther
    <2> QED
      BY <1>4, <2>1, <2>2, Whose
  <1> QED
    BY <1>6, <1>7 DEF Agents

LEMMA WireGone ==
  ASSUME Base, NEW t \in Threads, Acts(t), NEW m \in wire, m \notin wire'
  PROVE  \/ \E i \in Seqs : m = InviteMsg(i) /\ \E S : InviteComes(t, i, S)
         \/ \E n, b : m = AckMsg(n, b)
         \/ m = CancelMsg /\ CancelComes(t)
         \/ \E a \in Agents : m = ByeMsg(a) /\ ByeComes(a, t)
         \/ \E n : m = PrackMsg(n)
         \/ \E i \in Seqs, r, s \in Statuses : m = Answer(i, r) /\ r <= s /\ Hears(t, i, s)
  <1>1. CASE Calls(t)
    BY <1>1 DEF Calls, CallStarts, HangsUp, CallCancels, Rejects, Accepts, Rings, ReInvites, Requests, Pracks, Nothing, Rest
  <1>2. CASE Proceeds(t)
    BY <1>2 DEF Proceeds, SendsInvite, SendsAck, AckGoes, SendsAnswer, SendsOther, Tells, Deletes, EndsCall, Inserts,
       AnswersAgain, HangsUp, StopsNothing, Rest
  <1>3. CASE Expires(t)
    BY <1>3 DEF Expires, TimesOut, GivesUp
  <1>4. CASE Receives(t)
    <2>1. ASSUME NEW i \in Seqs, NEW s \in Statuses, Hears(t, i, s)
          PROVE  \E r \in Statuses : m = Answer(i, r) /\ r <= s
      BY <2>1 DEF Hears, Overtaken
    <2>2. ASSUME NEW i \in Seqs, NEW S, InviteComes(t, i, S)
          PROVE  m = InviteMsg(i)
      BY <2>2 DEF InviteComes, Arrives
    <2>3. ASSUME NEW n, NEW b, AckComes(n, b)
          PROVE  m = AckMsg(n, b)
      BY <2>3 DEF AckComes, Arrives
    <2>4. /\ CancelComes(t) => m = CancelMsg
          /\ \A a : ByeComes(a, t) => m = ByeMsg(a)
          /\ \A n : PrackComes(t, n) => m = PrackMsg(n)
      BY DEF CancelComes, ByeComes, PrackComes, Arrives
    <2> QED
      BY <1>4, <2>1, <2>2, <2>3, <2>4 DEF Receives
  <1> QED
    BY <1>1, <1>2, <1>3, <1>4 DEF Acts

LEMMA MadeStays ==
  ASSUME Base, NEW t \in Threads, Acts(t), NEW i \in Seqs, Made(i)
  PROVE  Made(i)'
  <1>1. CASE ict[Caller][i] # None
    BY <1>1, Grows DEF Made
  <1>2. ASSUME NEW u \in Threads, Send(InviteMsg(i)) \in Steps(Caller, u), Send(InviteMsg(i)) \notin Steps(Caller, u)'
        PROVE  ict'[Caller][i] # None
    <2>1. PICK j \in Seqs : InviteMsg(i) = InviteMsg(j) /\ SendsInvite(t, j)
      BY <1>2, SendDone, MessagesDiffer, Pair
    <2>2. ict'[Caller][j] = NewTransaction
      BY <2>1 DEF SendsInvite, IctBecomes
    <2> QED
      BY <2>1, <2>2, MessageSame, NoneFacts
  <1> QED
    BY <1>1, <1>2 DEF Made, Has

-----------------------------------------------------------------------------
(* What the caller heard, of what the callee answered.                     *)
Heard(i) == IF ict[Caller][i] \in Transaction THEN ict[Caller][i].status ELSE 0

LEMMA HeardNat == ASSUME Base, NEW i \in Seqs PROVE Heard(i) \in Nat
  BY TransactionFacts DEF Heard

LEMMA HeardSame ==
  ASSUME NEW i, ict'[Caller][i] = ict[Caller][i]
  PROVE  Heard(i)' = Heard(i)
  BY DEF Heard

LEMMA HeardNow ==
  ASSUME NEW t, NEW i \in Seqs, NEW s \in Statuses, HearsNew(t, i, s)
  PROVE  Heard(i)' = s /\ ict'[Caller][i] \in Transaction
  <1> DEFINE x == [ict[Caller][i] EXCEPT !.status = s]
  <1>1. ict[Caller][i] \in Transaction /\ IctBecomes(i, x)
    BY DEF HearsNew
  <1>2. x \in Transaction /\ x.status = s
    BY <1>1, TransactionFacts
  <1> HIDE DEF x
  <1> QED
    BY <1>1, <1>2 DEF IctBecomes, Heard

LEMMA HeardStep ==
  ASSUME Base, Numbers, NEW t \in Threads, Acts(t), NEW i \in Seqs
  PROVE  \/ Heard(i)' = Heard(i) /\ (ict'[Caller][i] = Gone <=> ict[Caller][i] = Gone)
         \/ ict'[Caller][i] = Gone /\ Heard(i) = Unauthorized
         \/ TimesOut(t, i)
         \/ \E s \in Statuses : HearsNew(t, i, s) /\ Heard(i)' = s /\ ict'[Caller][i] # Gone
  <1>1. CASE ict'[Caller][i] = ict[Caller][i]
    BY <1>1, HeardSame
  <1>2. CASE CalleeActs(t)
    BY <1>1, <1>2, CallerRestsThen DEF CallerRests
  <1>3. ASSUME NEW j \in Seqs, SendsInvite(t, j), ict'[Caller][i] # ict[Caller][i]
        PROVE  Heard(i)' = Heard(i) /\ ict'[Caller][i] # Gone /\ ict[Caller][i] # Gone
    <2>1. j = i /\ ict'[Caller][i] = NewTransaction
      BY <1>3 DEF SendsInvite, IctBecomes
    <2>2. ict[Caller][i] = None
      BY <1>3, <2>1, HasSteps DEF SendsInvite, Sends, Numbers, InviteOnce
    <2>3. NewTransaction.status = 0
      BY DEF NewTransaction
    <2> QED
      BY <2>1, <2>2, <2>3, NoneFacts DEF Heard
  <1>4. ASSUME NEW n \in 0..MaxSeq, NEW b \in 0..MaxSeq, SendsAck(t, n, b), ict'[Caller][i] # ict[Caller][i]
        PROVE  \/ Heard(i)' = Heard(i) /\ ict'[Caller][i] # Gone /\ ict[Caller][i] # Gone
               \/ ict'[Caller][i] = Gone /\ Heard(i) = Unauthorized
    <2>1. /\ ict[Caller][i] \in Transaction
          /\ \/ ict'[Caller][i] = [ict[Caller][i] EXCEPT !.ack = TRUE]
             \/ ict'[Caller][i] = Acked(ict[Caller][i], TRUE)
      BY <1>4, SentFacts DEF SendsAck, AckGoes, IctBecomes, Base
    <2> DEFINE y == ict[Caller][i]
               x == [y EXCEPT !.ack = TRUE]
    <2>2. x \in Transaction /\ x.status = y.status
      BY <2>1, TransactionFacts
    <2>3. Acked(y, TRUE) = IF y.status = Unauthorized THEN Gone ELSE x
      BY DEF Acked
    <2>4. Heard(i) = y.status /\ y # Gone
      BY <2>1, NoneFacts DEF Heard
    <2> HIDE DEF x
    <2>5. CASE ict'[Caller][i] = x
      BY <2>2, <2>4, <2>5, NoneFacts DEF Heard
    <2> QED
      BY <2>1, <2>3, <2>4, <2>5 DEF x
  <1>5. ASSUME NEW j \in Seqs, NEW s \in Statuses, Hears(t, j, s), ict'[Caller][i] # ict[Caller][i]
        PROVE  HearsNew(t, i, s) /\ Heard(i)' = s /\ ict'[Caller][i] # Gone
    <2>1. HearsNew(t, j, s)
      BY <1>5 DEF Hears, HearsNew
    <2>2. j = i
      BY <1>5, <2>1 DEF HearsNew, IctBecomes
    <2> QED
      BY <2>1, <2>2, HeardNow, NoneFacts
  <1>6. ASSUME NEW j \in Seqs, TimesOut(t, j), ict'[Caller][i] # ict[Caller][i]
        PROVE  TimesOut(t, i)
    BY <1>6 DEF TimesOut, IctBecomes
  <1>7. CASE CallerActs(t) /\ ict'[Caller][i] # ict[Caller][i]
    BY <1>3, <1>4, <1>5, <1>6, <1>7 DEF CallerActs, CallStarts, HangsUp, CallCancels, ReInvites, Pracks, Requests, SendsOther,
       Tells, Deletes, EndsCall, StopsNothing, ByeComes, Rest
  <1>8. CASE Nothing
    BY <1>1, <1>8 DEF Nothing
  <1> QED
    BY <1>1, <1>2, <1>7, <1>8, Whose

(* Responses are lost only if they are overtaken, and a final one is kept  *)
(* by the client transaction, unless it was acknowledged as another's.     *)
Plain == ~May("timeout") /\ ~May("reinvite")

HeedsAnswer(i) ==
  /\ ist[Callee][i] # Gone
  /\ \A s \in Statuses : Answer(i, s) \in wire => s <= Given(i) /\ s > Heard(i)
  /\ Heard(i) <= Given(i)
  /\ ict[Caller][i] = Gone => Given(i) >= 200
  /\ Given(i) >= 200 => Answer(i, Given(i)) \in wire \/ ict[Caller][i] = Gone \/ Heard(i) = Given(i)

Heeded == \A i \in Seqs : HeedsAnswer(i)

Closed(i) == ict[Caller][i] = Gone \/ Heard(i) >= 200

LEMMA GivenRises ==
  ASSUME Base, Numbers, NEW t \in Threads, Acts(t), NEW i \in Seqs
  PROVE  Given(i)' >= Given(i)
  <1>1. Given(i) \in Nat
    BY GivenNat
  <1>2. ASSUME NEW s \in Statuses, s > Given(i)
        PROVE  s >= Given(i)
    BY <1>1, <1>2, StatusFacts
  <1> QED
    BY <1>1, <1>2, GivenStep

LEMMA IstStays ==
  ASSUME Base, Numbers, Plain, NEW t \in Threads, Acts(t), NEW i \in Seqs, ist[Callee][i] # Gone
  PROVE  ist'[Callee][i] # Gone
  <1>1. CASE CallerActs(t)
    BY <1>1, CalleeRestsThen DEF CalleeRests
  <1>2. CASE ist'[Callee][i] = ist[Callee][i]
    BY <1>2
  <1>3. ASSUME NEW j \in Seqs, NEW s \in Statuses, SendsAnswer(t, j, s), ist'[Callee][i] # ist[Callee][i]
        PROVE  ist'[Callee][i] \in Transaction
    <2> DEFINE x == [ist[Callee][j] EXCEPT !.status = s]
    <2>1. ist[Callee][j] \in Transaction /\ IstBecomes(j, x)
      BY <1>3 DEF SendsAnswer
    <2>2. x \in Transaction
      BY <2>1, TransactionFacts
    <2> HIDE DEF x
    <2> QED
      BY <1>3, <2>1, <2>2 DEF IstBecomes
  <1>4. ASSUME NEW n \in 0..MaxSeq, NEW b \in 0..MaxSeq, AckComes(n, b), ist'[Callee][i] # ist[Callee][i]
        PROVE  ist'[Callee][i] \in Transaction
    <2> DEFINE x == [ist[Callee][n] EXCEPT !.ack = TRUE]
    <2>1. n \in Seqs /\ ist[Callee][n] \in Transaction /\ IstBecomes(n, x)
      BY <1>4 DEF AckComes
    <2>2. x \in Transaction
      BY <2>1, TransactionFacts
    <2> HIDE DEF x
    <2> QED
      BY <1>4, <2>1, <2>2 DEF IstBecomes
  <1>5. ASSUME NEW j \in Seqs, NEW S, InviteComes(t, j, S), ist'[Callee][i] # ist[Callee][i]
        PROVE  ist'[Callee][i] \in Transaction
    BY <1>5, NoneFacts DEF InviteComes, IstBecomes
  <1>6. \A j \in Seqs : ~GivesUp(t, j)
    BY DEF GivesUp, Plain
  <1>7. CASE CalleeActs(t) /\ ist'[Callee][i] # ist[Callee][i]
    <2>1. ist'[Callee][i] \in Transaction
      BY <1>3, <1>4, <1>5, <1>6, <1>7 DEF CalleeActs, HangsUp, Requests, Rejects, Accepts, Rings, Inserts, AnswersAgain,
         PrackComes, SendsOther, Tells, Deletes, EndsCall, CancelComes, ByeComes, Rest
    <2> QED
      BY <2>1, NoneFacts
  <1>8. CASE Nothing
    BY <1>8 DEF Nothing
  <1> QED
    BY <1>1, <1>2, <1>7, <1>8, Whose

LEMMA HeededStep ==
  ASSUME Base, Numbers, Heeded, Plain, NEW t \in Threads, Acts(t)
  PROVE  Heeded'
  <1> SUFFICES ASSUME NEW i \in Seqs PROVE HeedsAnswer(i)'
    BY DEF Heeded
  <1>1. HeedsAnswer(i)
    BY DEF Heeded
  <1>2. Given(i) \in Nat /\ Heard(i) \in Nat /\ Given(i)' >= Given(i)
    BY GivenNat, HeardNat, GivenRises
  <1>3. \A s \in Statuses : s \in Nat /\ s >= 100
    BY StatusFacts
  <1>4. Given(i)' \in Nat
    BY <1>2, <1>3, GivenStep
  <1>5. ~TimesOut(t, i)
    BY DEF TimesOut, Plain
  <1>6. ist'[Callee][i] # Gone
    BY <1>1, IstStays DEF HeedsAnswer
  <1>7. ASSUME NEW s \in Statuses, HearsNew(t, i, s)
        PROVE  /\ s <= Given(i) /\ s > Heard(i)
               /\ \A r \in Statuses : Answer(i, r) \in wire' => r > s
               /\ \A r \in Statuses : Answer(i, r) \in wire /\ r > s => Answer(i, r) \in wire'
               /\ Given(i)' = Given(i)
    <2>1. Answer(i, s) \in wire /\ Overtaken(i, s) /\ ist' = ist
      BY <1>7 DEF HearsNew, Hears
    <2>2. \A r, q \in Statuses : Answer(i, r) = Answer(i, q) => r = q
      BY MessageSame
    <2> QED
      BY <1>1, <1>3, <2>1, <2>2, GivenSame DEF HeedsAnswer, Overtaken
  <1>8. /\ ict'[Caller][i] = Gone => Given(i)' >= 200
        /\ Heard(i)' <= Given(i)'
    <2>1. Heard(i) = Unauthorized => Given(i) >= 200
      BY <1>1, <1>2 DEF HeedsAnswer, Unauthorized
    <2>2. ict'[Caller][i] = Gone => Heard(i)' = 0
      BY NoneFacts DEF Heard
    <2> QED
      BY <1>1, <1>2, <1>4, <1>5, <1>7, <2>1, <2>2, HeardStep DEF HeedsAnswer
  <1>9. ASSUME NEW s \in Statuses, Answer(i, s) \in wire'
        PROVE  s <= Given(i)' /\ s > Heard(i)'
    <2>1. CASE Answer(i, s) \notin wire
      <3>1. SendsAnswer(t, i, s) /\ s > Given(i) /\ Given(i)' = s
        BY <1>9, <2>1, AnswerStepWire
      <3>2. Heard(i)' = Heard(i)
        BY <3>1, HeardSame DEF SendsAnswer
      <3> QED
        BY <1>1, <1>2, <1>3, <3>1, <3>2 DEF HeedsAnswer
    <2>2. CASE Answer(i, s) \in wire
      <3>1. s <= Given(i) /\ s > Heard(i)
        BY <1>1, <2>2 DEF HeedsAnswer
      <3>2. s > Heard(i)'
        <4>1. ict'[Caller][i] = Gone => Heard(i)' = 0
          BY NoneFacts DEF Heard
        <4> QED
          BY <1>2, <1>3, <1>5, <1>7, <1>9, <3>1, <4>1, HeardStep
      <3> QED
        BY <1>2, <1>3, <1>4, <3>1, <3>2
    <2> QED
      BY <2>1, <2>2
  <1>10. ASSUME Given(i)' >= 200
         PROVE  Answer(i, Given(i))' \in wire' \/ ict'[Caller][i] = Gone \/ Heard(i)' = Given(i)'
    <2>1. CASE Given(i)' # Given(i)
      BY <2>1, GivenStep DEF Answer
    <2>2. CASE Given(i)' = Given(i)
      <3> DEFINE g == Given(i)
      <3>1. Answer(i, g)' = Answer(i, g)
        BY <2>2 DEF Answer
      <3>2. g \in Statuses /\ g >= 200
        BY <1>10, <2>2, GivenNat
      <3>3. CASE Answer(i, g) \in wire /\ Answer(i, g) \notin wire'
        <4>1. PICK s \in Statuses : g <= s /\ Hears(t, i, s)
          BY <3>2, <3>3, WireGone, MessagesDiffer, MessageSame
        <4>2. s = g
          BY <1>1, <1>2, <1>3, <4>1 DEF HeedsAnswer, Hears
        <4>3. CASE HearsNew(t, i, g)
          BY <2>2, <3>2, <4>3, HeardNow
        <4>4. CASE ~HearsNew(t, i, g)
          <5>1. ict' = ict /\ ~(ict[Caller][i] \in Transaction /\ ict[Caller][i].status # g)
            BY <4>1, <4>2, <4>4 DEF Hears, HearsNew
          <5>2. ict[Caller][i] # None
            <6>1. ist[Callee][i] # None
              BY <3>2 DEF Given
            <6> QED
              BY <6>1 DEF Numbers, InviteOnce
          <5>3. ict[Caller][i] \in Transaction \cup {None, Gone}
            BY SentFacts DEF Base
          <5> QED
            BY <2>2, <5>1, <5>2, <5>3, HeardSame DEF Heard
        <4> QED
          BY <4>3, <4>4
      <3>4. CASE Answer(i, g) \notin wire
        <4>1. ict[Caller][i] = Gone \/ Heard(i) = g
          BY <1>1, <3>2, <3>4 DEF HeedsAnswer
        <4>2. ASSUME NEW s \in Statuses, HearsNew(t, i, s)
              PROVE  ict[Caller][i] # Gone /\ s > Heard(i) /\ s <= g
          BY <1>7, <4>2, NoneFacts DEF HearsNew
        <4> QED
          BY <1>2, <1>3, <1>5, <2>2, <4>1, <4>2, HeardStep
      <3> QED
        BY <3>1, <3>3, <3>4
    <2> QED
      BY <2>1, <2>2
  <1> QED
    BY <1>6, <1>8, <1>9, <1>10 DEF HeedsAnswer, Answer

-----------------------------------------------------------------------------
(* What gives the users each of the other things to do. *)
LEMMA GetsAnswer ==
  ASSUME NEW t, NEW i \in Seqs, NEW s, CalleeGets(t, Send(Answer(i, s)))
  PROVE  \/ s \in {Decline, Moved} /\ Rejects(t, i, s)
         \/ s = Ok /\ Accepts(t, i)
         \/ s = SessionProgress /\ Rings(t, i)
         \/ s = Ok /\ AnswersAgain(t, i)
         \/ \E S : InviteComes(t, i, S) /\ InviteAnswers(i, S) /\ S # {AnswerStep(i)}
         \/ s = Terminated /\ CancelComes(t) /\ In \in Dialog /\ ~In.start /\ In.invite = i
  <1> DEFINE x == Send(Answer(i, s))
  <1>1. /\ \A a : x # Send(ByeMsg(a))
        /\ \A e : x # Tell(e)
        /\ x # Delete /\ x # SetEnd
        /\ \A j : x # InsertStep(j) /\ x # AnswerStep(j)
        /\ \A j, r : x = Send(Answer(j, r)) => j = i /\ r = s
    BY AnswerTags
  <1> HIDE DEF x
  <1>2. CalleeGets(t, x)
    BY DEF x
  <1>3. ASSUME NEW j \in Seqs, NEW S, InviteComes(t, j, S), InviteAnswers(j, S), x \in S
        PROVE  j = i /\ S # {AnswerStep(i)}
    BY <1>1, <1>3 DEF InviteAnswers
  <1> QED
    BY <1>1, <1>2, <1>3 DEF CalleeGets

LEMMA GetsInsert ==
  ASSUME NEW t, NEW i \in Seqs, CalleeGets(t, InsertStep(i))
  PROVE  \E S : InviteComes(t, i, S) /\ In = None /\ S = {Send(Answer(i, Ringing)), InsertStep(i)}
  <1> DEFINE x == InsertStep(i)
  <1>1. /\ \A m : x # Send(m)
        /\ \A e : x # Tell(e)
        /\ x # Delete /\ x # SetEnd
        /\ \A j : x # AnswerStep(j) /\ (x = InsertStep(j) => i = j)
    BY InsertTags
  <1> HIDE DEF x
  <1>2. CalleeGets(t, x)
    BY DEF x
  <1>3. ASSUME NEW j \in Seqs, NEW S, InviteComes(t, j, S), InviteAnswers(j, S), x \in S
        PROVE  j = i /\ In = None /\ S = {Send(Answer(i, Ringing)), InsertStep(i)}
    BY <1>1, <1>3 DEF InviteAnswers
  <1> QED
    BY <1>1, <1>2, <1>3 DEF CalleeGets

LEMMA GetsAnswerStep ==
  ASSUME NEW t, NEW i \in Seqs, CalleeGets(t, AnswerStep(i))
  PROVE  \E S : InviteComes(t, i, S) /\ In # None
  <1> DEFINE x == AnswerStep(i)
  <1>1. /\ \A m : x # Send(m)
        /\ \A e : x # Tell(e)
        /\ x # Delete /\ x # SetEnd
        /\ \A j : x # InsertStep(j) /\ (x = AnswerStep(j) => i = j)
    BY InsertTags
  <1> HIDE DEF x
  <1>2. CalleeGets(t, x)
    BY DEF x
  <1>3. ASSUME NEW j \in Seqs, NEW S, InviteComes(t, j, S), InviteAnswers(j, S), x \in S
        PROVE  j = i /\ In # None
    BY <1>1, <1>3 DEF InviteAnswers
  <1> QED
    BY <1>1, <1>2, <1>3 DEF CalleeGets

LEMMA GetsDelete ==
  ASSUME NEW t, CalleeGets(t, Delete)
  PROVE  \/ EndsCall(Callee, t)
         \/ CancelComes(t) /\ In \in Dialog /\ ~In.start /\ In.invite \in Seqs
         \/ \E i \in Seqs : GivesUp(t, i)
  <1> DEFINE x == Delete
  <1>1. /\ \A m : x # Send(m)
        /\ \A e : x # Tell(e)
        /\ x # SetEnd /\ \A i : x # InsertStep(i) /\ x # AnswerStep(i)
    BY StepsDiffer
  <1> HIDE DEF x
  <1>2. CalleeGets(t, x)
    BY DEF x
  <1>3. \A i, S : InviteAnswers(i, S) => x \notin S
    BY <1>1 DEF InviteAnswers
  <1> QED
    BY <1>1, <1>2, <1>3 DEF CalleeGets

LEMMA GetsByeBack ==
  ASSUME NEW t, CalleeGets(t, Send(ByeMsg(Caller)))
  PROVE  HangsUp(Callee, t)
  <1> DEFINE x == Send(ByeMsg(Caller))
  <1>1. /\ \A e : x # Tell(e)
        /\ x # SetEnd /\ x # Delete /\ \A i : x # InsertStep(i) /\ x # AnswerStep(i)
        /\ \A i, s : x # Send(Answer(i, s))
    BY StepsDiffer, AnswerTags
  <1> HIDE DEF x
  <1>2. CalleeGets(t, x)
    BY DEF x
  <1>3. \A i, S : InviteAnswers(i, S) => x \notin S
    BY <1>1 DEF InviteAnswers
  <1> QED
    BY <1>1, <1>2, <1>3 DEF CalleeGets

LEMMA CallerGetsDelete ==
  ASSUME NEW t, CallerGets(t, Delete)
  PROVE  \/ EndsCall(Caller, t) /\ Out \in Dialog
         \/ \E s \in Statuses : Takes(t, s) /\ Refuses(t, s)
  <1> DEFINE x == Delete
  <1>1. x # StopStep /\ x # SetEnd /\ (\A m : x # Send(m)) /\ \A e : x # Tell(e)
    BY StepsDiffer
  <1> HIDE DEF x
  <1>2. CallerGets(t, x)
    BY DEF x
  <1> QED
    BY <1>1, <1>2 DEF CallerGets, ResponseGives

LEMMA CallerGetsSetEnd ==
  ASSUME NEW t, CallerGets(t, SetEnd)
  PROVE  ByeComes(Caller, t)
  <1> DEFINE x == SetEnd
  <1>1. x # StopStep /\ x # Delete /\ (\A m : x # Send(m)) /\ \A e : x # Tell(e)
    BY StepsDiffer
  <1> HIDE DEF x
  <1>2. CallerGets(t, x)
    BY DEF x
  <1> QED
    BY <1>1, <1>2 DEF CallerGets, ResponseGives

(* An answer is given up only for a higher one. *)
LEMMA AnswerDone ==
  ASSUME Base, NEW t \in Threads, Acts(t), NEW u \in Threads, NEW i \in Seqs, NEW s \in Statuses,
         Send(Answer(i, s)) \in Steps(Callee, u), Send(Answer(i, s)) \notin Steps(Callee, u)'
  PROVE  /\ u = t /\ SendsAnswer(t, i, s)
         /\ ist[Callee][i] \in Transaction => Given(i)' >= s
  <1>1. u = t /\ SendsAnswer(t, i, s)
    BY SendDone, MessagesDiffer, MessageSame, Pair
  <1>2. ASSUME ist[Callee][i] \in Transaction
        PROVE  Given(i)' >= s
    <2> DEFINE y == ist[Callee][i]
               x == [y EXCEPT !.status = s]
    <2>1. x \in Transaction /\ x.status = s /\ y.status \in Nat
      BY <1>2, TransactionFacts
    <2>2. s \in Nat
      BY StatusFacts
    <2>3. (s > y.status /\ ist'[Callee][i] = x) \/ (~(s > y.status) /\ ist' = ist)
      BY <1>1, <1>2 DEF SendsAnswer, IstBecomes
    <2> HIDE DEF x
    <2> QED
      BY <1>2, <2>1, <2>2, <2>3, NoneFacts DEF Given
  <1> QED
    BY <1>1, <1>2

LEMMA PendingDone ==
  ASSUME Base, NEW t \in Threads, Acts(t), NEW i \in Seqs, NEW s \in Statuses, Pending(i, s), ~Pending(i, s)'
  PROVE  /\ SendsAnswer(t, i, s)
         /\ ist[Callee][i] \in Transaction => Given(i)' >= s
  <1>1. PICK u \in Threads : Send(Answer(i, s)) \in Steps(Callee, u) /\ Send(Answer(i, s)) \notin Steps(Callee, u)'
    BY DEF Pending, Has
  <1> QED
    BY <1>1, AnswerDone

(* The callee hears of the end from a caller who has let the call go. *)
LetsGo ==
  /\ ByeSent \/ Has(Callee, SetEnd) => Out = None /\ ict[Caller][1] # None
  /\ Has(Callee, Delete) \/ (\E i \in Seqs : Pending(i, Terminated)) => LetGo

LEMMA LetsGoStep ==
  ASSUME Base, Numbers, CancelRight, LetsGo, Plain, NEW t \in Threads, Acts(t)
  PROVE  LetsGo'
  <1>1. ASSUME Out = None, ict[Caller][1] # None
        PROVE  Out' = None /\ ict'[Caller][1] # None
    BY <1>1, NoneStays, Grows, SeqFacts
  <1>2. ASSUME ByeSent' \/ Has(Callee, SetEnd)'
        PROVE  Out' = None /\ ict'[Caller][1] # None
    <2>1. CASE ByeSent \/ Has(Callee, SetEnd)
      BY <1>1, <2>1 DEF LetsGo
    <2>2. CASE ~(ByeSent \/ Has(Callee, SetEnd))
      <3>1. ~Has(Callee, SetEnd)'
        <4> SUFFICES ASSUME Has(Callee, SetEnd)' PROVE FALSE
          OBVIOUS
        <4>1. ByeComes(Callee, t)
          BY <2>2, CalleeNewHas, GetsSetEnd
        <4> QED
          BY <2>2, <4>1 DEF ByeComes, Arrives, ByeSent
      <3>2. Has(Caller, Send(ByeMsg(Callee)))'
        <4> SUFFICES ASSUME ByeMsg(Callee) \in wire' PROVE FALSE
          BY <1>2, <3>1 DEF ByeSent
        <4>1. PICK a \in Agents : Send(ByeMsg(Callee)) \in Steps(a, t)
          BY <2>2, WireStep DEF ByeSent
        <4>2. a = Caller
          BY <4>1, CallerNoBye DEF Agents
        <4> QED
          BY <2>2, <4>1, <4>2, HasSteps DEF ByeSent
      <3>3. HangsUp(Caller, t)
        BY <2>2, <3>2, CallerNewHas, GetsBye DEF ByeSent
      <3>4. Out # None /\ Out.start /\ Out' = None
        BY <3>3, NoneFacts DEF HangsUp, Out
      <3> QED
        BY <3>4, Grows, SeqFacts DEF Numbers, Fresh
    <2> QED
      BY <2>1, <2>2
  <1>3. ASSUME Has(Callee, Delete)' \/ \E i \in Seqs : Pending(i, Terminated)'
        PROVE  LetGo'
    <2>1. CASE LetGo
      BY <2>1, LetGoStays
    <2>2. CASE ~LetGo
      <3>1. ~Has(Callee, Delete) /\ \A i \in Seqs : ~Pending(i, Terminated)
        BY <2>2 DEF LetsGo
      <3>2. ~(CancelComes(t) /\ In \in Dialog)
        BY <2>2 DEF CancelComes, Arrives, CancelRight, CancelSent
      <3>3. ~EndsCall(Callee, t)
        BY <2>2, HasSteps DEF EndsCall, LetsGo, LetGo, Cancelled
      <3>4. \A i \in Seqs : ~GivesUp(t, i)
        BY DEF GivesUp, Plain
      <3>5. ~Has(Callee, Delete)'
        BY <3>1, <3>2, <3>3, <3>4, CalleeNewHas, GetsDelete
      <3>6. ASSUME NEW i \in Seqs, Pending(i, Terminated)'
            PROVE  FALSE
        <4>1. CalleeGets(t, Send(Answer(i, Terminated)))
          BY <3>1, <3>6, CalleeNewHas DEF Pending
        <4>2. \A S : InviteAnswers(i, S) => Send(Answer(i, Terminated)) \notin S
          BY AnswerTags DEF InviteAnswers, Terminated, NotAcceptable, Ringing, Unauthorized
        <4>5. Terminated \notin {Decline, Moved, Ok, SessionProgress}
          BY DEF Terminated, Decline, Moved, Ok, SessionProgress
        <4>3. PICK S : InviteComes(t, i, S) /\ InviteAnswers(i, S)
          BY <3>2, <4>1, <4>5, GetsAnswer
        <4>4. \A u \in Threads : Steps(Callee, u)' = IF u = t THEN S ELSE Steps(Callee, u)
          BY <4>3, Pair DEF InviteComes, Works
        <4> QED
          BY <3>1, <3>6, <4>2, <4>3, <4>4 DEF Pending, Has
      <3> QED
        BY <1>3, <3>5, <3>6
    <2> QED
      BY <2>1, <2>2
  <1> QED
    BY <1>2, <1>3 DEF LetsGo

-----------------------------------------------------------------------------
(* The last INVITE, and the steps that make a new one.                     *)
Last(i) == Made(i) /\ \A j \in Seqs : Made(j) => j <= i

Renewal(t, j, s, k) == HearsNew(t, j, s) /\ Retries(t, s, k)
SameMade == \A i \in Seqs : Made(i)' <=> Made(i)

LEMMA OneLast == ASSUME NEW i \in Seqs, NEW j \in Seqs, Last(i), Last(j) PROVE i = j
  BY SeqFacts DEF Last

LEMMA OutLast == ASSUME Numbers, Out # None PROVE Out.branch \in Seqs /\ Last(Out.branch)
  BY DEF Numbers, LastInvite, Last

LEMMA MadeKinds ==
  ASSUME Base, Numbers, Plain, NEW t \in Threads, Acts(t)
  PROVE  \/ CallStarts(t)
         \/ \E j, k \in Seqs, s \in Statuses : Renewal(t, j, s, k)
         \/ SameMade /\ ~CallStarts(t) /\ \A s \in Statuses : \A j, k \in Seqs : ~Renewal(t, j, s, k)
  <1>1. \A i : ~ReInvites(t, i)
    BY DEF ReInvites, Plain
  <1> QED
    BY <1>1, MadeStays, MadeStep DEF SameMade, Renewal

LEMMA SameLast == ASSUME SameMade, NEW i \in Seqs PROVE Last(i)' <=> Last(i)
  BY DEF SameMade, Last

(* When the call starts nothing of it is anywhere else. *)
LEMMA StartsClean ==
  ASSUME Base, Numbers, CancelRight, NEW t \in Threads, CallStarts(t)
  PROVE  /\ In' = None /\ wire' = {}
         /\ Out' # None /\ ~Out'.start /\ ~Out'.end /\ ~Out'.cancel
         /\ \A s : ~Has(Callee, s)' /\ (Has(Caller, s)' => s = Send(InviteMsg(1)))
         /\ \A i \in Seqs : /\ ict'[Caller][i] = None /\ ist'[Callee][i] = None
                            /\ Given(i)' = 0 /\ Heard(i)' = 0
                            /\ Made(i)' => i = 1
  <1>1. Out = None /\ ict[Caller][1] = None
    BY DEF CallStarts
  <1>2. /\ \A m \in wire : m = CancelMsg
        /\ In = None
        /\ \A i \in Seqs : ict[Caller][i] = None /\ ist[Callee][i] = None
        /\ \A u \in Threads : Steps(Callee, u) = {} /\ Steps(Caller, u) = {}
    BY <1>1 DEF Numbers, Fresh
  <1>3. wire = {}
    BY <1>1, <1>2 DEF CancelRight, CancelSent, LetGo
  <1>4. /\ In' = In /\ ict' = ict /\ ist' = ist /\ wire' = wire
        /\ Out' # None /\ ~Out'.start /\ ~Out'.end /\ ~Out'.cancel
    BY NoneFacts DEF CallStarts, Rest
  <1>5. \A u \in Threads : /\ Steps(Callee, u)' = {}
                           /\ Steps(Caller, u)' = IF u = t THEN {Send(InviteMsg(1))} ELSE {}
    BY <1>2, Pair DEF CallStarts, Works
  <1>6. \A s : ~Has(Callee, s)' /\ (Has(Caller, s)' => s = Send(InviteMsg(1)))
    BY <1>5 DEF Has
  <1>7. ASSUME NEW i \in Seqs, Made(i)'
        PROVE  i = 1
    <2>1. Send(InviteMsg(i)) = Send(InviteMsg(1))
      BY <1>2, <1>4, <1>6, <1>7 DEF Made
    <2> QED
      BY <2>1, SendSame, MessageSame
  <1> QED
    BY <1>2, <1>3, <1>4, <1>6, <1>7, NoneFacts DEF Given, Heard

LEMMA OutNone ==
  ASSUME Base, NEW t \in Threads, Acts(t), ~CallStarts(t), Out = None
  PROVE  Out' = None
  <1>1. None \notin Dialog
    BY NoneFacts
  <1> QED
    BY <1>1, OutStep, TakenNone DEF CallStarts, CallCancels, Requests, ReInvites, Pracks, HangsUp, Deletes, HearsNew,
       TimesOut, Out

LEMMA CancelledStays ==
  ASSUME Base, Numbers, Cancelled, NEW t \in Threads, Acts(t), ~CallStarts(t)
  PROVE  Cancelled'
  <1>1. CASE Out = None
    BY <1>1, OutNone DEF Cancelled
  <1>2. CASE Out # None
    BY <1>2, LetGoStays DEF LetGo
  <1> QED
    BY <1>1, <1>2

-----------------------------------------------------------------------------
(* The callee has to do with the last INVITE only, and gives up a dialog   *)
(* whose INVITE it has answered otherwise than by AcceptCall.              *)
PendingFinal(i) == \E s \in Statuses : Final(s) /\ Pending(i, s)
Inserting(i) == Has(Callee, InsertStep(i))
Asks(i) == In # None /\ In.invite = i
Open(i) == Inserting(i) \/ Asks(i) \/ PendingFinal(i)

OneInsert(i) ==
  /\ Inserting(i) => In = None /\ Given(i) < 200 /\ ~PendingFinal(i)
  /\ \A t, u \in Threads : InsertStep(i) \in Steps(Callee, t) /\ InsertStep(i) \in Steps(Callee, u) => t = u

Answering(i) ==
  /\ Asks(i) /\ Given(i) >= 200 => Has(Callee, Delete)
  /\ In # None /\ In.start /\ Last(i) =>
       (Given(i) >= 200 \/ Pending(i, Ok)) /\ (Given(i) > 200 => Has(Callee, Delete))
  /\ \A s \in Statuses : Final(s) /\ Pending(i, s) =>
       (In # None => s \in {Ok, Terminated}) /\ (Asks(i) => s = Terminated)
  /\ \A t \in Threads : Send(Answer(i, Terminated)) \in Steps(Callee, t) => Delete \in Steps(Callee, t)

CalleeInv ==
  /\ Replaced
  /\ \A i \in Seqs : /\ Open(i) => Last(i)
                     /\ ~Has(Callee, AnswerStep(i))
                     /\ OneInsert(i) /\ Answering(i)

LEMMA InviteIsNew ==
  ASSUME Base, Numbers, OnlyReceived, CalleeInv, NEW i \in Seqs, InviteMsg(i) \in wire
  PROVE  /\ ist[Callee][i] = None /\ Given(i) = 0 /\ Last(i) /\ In = None
         /\ \A j \in Seqs : ~Open(j)
         /\ \A s \in Statuses : ~Pending(i, s)
  <1>1. ist[Callee][i] = None /\ ict[Caller][i] # None
    BY DEF Numbers, InviteOnce
  <1>2. Given(i) = 0 /\ \A s \in Statuses : ~Pending(i, s)
    BY <1>1 DEF Given, OnlyReceived, InviteWork
  <1>3. Last(i)
    <2> SUFFICES ASSUME NEW j \in Seqs, Made(j), ~(j <= i) PROVE FALSE
      BY <1>1 DEF Last, Made
    <2>1. i < j
      BY SeqFacts
    <2> QED
      BY <1>1, <1>2, <2>1 DEF CalleeInv, Replaced, Made
  <1>4. ASSUME NEW j \in Seqs, Open(j)
        PROVE  FALSE
    <2>1. j = i
      BY <1>3, <1>4, OneLast DEF CalleeInv
    <2>2. InviteWork(i)
      BY <1>4, <2>1 DEF Open, Inserting, Asks, PendingFinal, InviteWork
    <2> QED
      BY <1>1, <2>2 DEF OnlyReceived
  <1>5. In = None
    <2> SUFFICES ASSUME In # None PROVE FALSE
      OBVIOUS
    <2>1. In \in Dialog /\ (In.start <=> In.invite = 0)
      BY Parties DEF Base, DialogsRight
    <2>2. In.invite \in Seqs \cup {0}
      BY <2>1, DialogRange DEF Seqs
    <2>3. CASE In.start
      BY <1>2, <1>3, <2>3, StatusFacts DEF CalleeInv, Answering
    <2>4. CASE In.invite \in Seqs
      BY <1>4, <2>4 DEF Open, Asks
    <2> QED
      BY <2>1, <2>2, <2>3, <2>4
  <1> QED
    BY <1>1, <1>2, <1>3, <1>4, <1>5

(* Where a final answer comes from, and what becomes of it. *)
LEMMA NewFinal ==
  ASSUME Base, Numbers, OnlyReceived, CalleeInv, NEW t \in Threads, Acts(t), NEW u \in Threads,
         NEW i \in Seqs, NEW s \in Statuses, Final(s),
         Send(Answer(i, s)) \in Steps(Callee, u)', Send(Answer(i, s)) \notin Steps(Callee, u)
  PROVE  /\ u = t
         /\ \/ s \in {Decline, Moved} /\ Rejects(t, i, s) /\ Asks(i)
            \/ s = Ok /\ Accepts(t, i) /\ Asks(i)
            \/ /\ \E S : InviteComes(t, i, S)
               /\ InviteMsg(i) \in wire /\ In' = In /\ s \in {NotAcceptable, Unauthorized}
            \/ s = Terminated /\ CancelComes(t) /\ In \in Dialog /\ ~In.start /\ Asks(i) /\ CancelMsg \in wire
  <1>1. u = t /\ CalleeGets(t, Send(Answer(i, s)))
    BY CalleeNew
  <1>2. ~AnswersAgain(t, i)
    BY HasSteps DEF AnswersAgain, CalleeInv
  <1>3. s \notin {SessionProgress, Ringing}
    BY FinalStatuses
  <1>4. ASSUME NEW S, InviteComes(t, i, S), InviteAnswers(i, S)
        PROVE  InviteMsg(i) \in wire /\ In' = In /\ s \in {NotAcceptable, Unauthorized}
    <2>1. Steps(Callee, t)' = S /\ dialog' = dialog /\ InviteMsg(i) \in wire
      BY <1>4, Pair DEF InviteComes, Works, Arrives
    <2>2. Send(Answer(i, s)) \in S
      BY <1>1, <2>1
    <2>3. s \in {NotAcceptable, Ringing, Unauthorized}
      BY <1>4, <2>2, AnswerTags DEF InviteAnswers
    <2> QED
      BY <1>3, <2>1, <2>3 DEF In
  <1>5. CASE Rejects(t, i, s) \/ Accepts(t, i) \/ (CancelComes(t) /\ In \in Dialog /\ In.invite = i)
    BY <1>1, <1>2, <1>3, <1>4, <1>5, GetsAnswer, NoneFacts DEF Rejects, Accepts, CancelComes, Arrives, Asks
  <1> QED
    BY <1>1, <1>2, <1>3, <1>4, <1>5, GetsAnswer

LEMMA GivenUp ==
  ASSUME Base, Numbers, NEW t \in Threads, Acts(t), NEW i \in Seqs, Given(i)' # Given(i), Given(i)' >= 200
  PROVE  \E s \in Statuses : /\ SendsAnswer(t, i, s) /\ Given(i)' = s /\ s > Given(i) /\ Final(s)
                             /\ Pending(i, s) /\ Send(Answer(i, s)) \in Steps(Callee, t)
  <1>1. PICK s \in Statuses : SendsAnswer(t, i, s) /\ Given(i)' = s /\ s > Given(i)
    BY GivenStep
  <1>2. Send(Answer(i, s)) \in Steps(Callee, t)
    BY <1>1 DEF SendsAnswer, Sends
  <1> QED
    BY <1>1, <1>2, HasSteps DEF Final, Pending

-----------------------------------------------------------------------------
(* As long as the caller wants the call its last INVITE has one final      *)
(* answer, which the caller hears.                                         *)
Answers(t, i, s) == Final(s) /\ Send(Answer(i, s)) \in Steps(Callee, t)

OneFinal(i) ==
  /\ PendingFinal(i) => Given(i) < 200
  /\ \A t, u \in Threads : \A s, r \in Statuses :
       Answers(t, i, s) /\ Answers(u, i, r) => t = u
  /\ \A s \in Statuses : Final(s) /\ Answer(i, s) \in wire => s = Given(i)
  /\ Heard(i) >= 200 => Heard(i) = Given(i)

FinalInv == ~Cancelled => \A i \in Seqs : Last(i) => OneFinal(i)

(* The callee has no dialog of an INVITE it refused, or is to delete it. *)
LEMMA RefusedDeletes ==
  ASSUME Base, CalleeInv, NEW i \in Seqs, Last(i), Given(i) > 200, In # None
  PROVE  Has(Callee, Delete)
  <1>1. In \in Dialog /\ (In.start <=> In.invite = 0)
    BY Parties DEF Base, DialogsRight
  <1>2. In.invite \in Seqs \cup {0}
    BY <1>1, DialogRange DEF Seqs
  <1>3. Given(i) \in Nat
    BY GivenNat
  <1>4. CASE In.start
    BY <1>4 DEF CalleeInv, Answering
  <1>5. CASE In.invite \in Seqs
    <2>1. Asks(In.invite) /\ Last(In.invite)
      BY <1>5 DEF Asks, CalleeInv, Open
    <2>2. In.invite = i
      BY <1>5, <2>1, OneLast
    <2> QED
      BY <1>3, <2>1, <2>2 DEF CalleeInv, Answering
  <1> QED
    BY <1>1, <1>2, <1>4, <1>5

LEMMA RefusedNoDialog ==
  ASSUME Base, CalleeInv, LetsGo, ~Cancelled, NEW i \in Seqs, Last(i), Given(i) >= 200
  PROVE  /\ ~Inserting(i) /\ ~Asks(i)
         /\ Given(i) # 200 => In = None
  <1>1. ~Has(Callee, Delete)
    BY DEF LetsGo, LetGo
  <1>2. Given(i) \in Nat
    BY GivenNat
  <1>3. ~Inserting(i) /\ ~Asks(i)
    BY <1>1, <1>2 DEF CalleeInv, OneInsert, Answering
  <1> QED
    BY <1>1, <1>2, <1>3, RefusedDeletes

LEMMA RenewalFacts ==
  ASSUME Base, Numbers, CalleeInv, FinalInv, LetsGo, Heeded, Plain, NEW t \in Threads, Acts(t),
         NEW j \in Seqs, NEW k \in Seqs, NEW s \in Statuses, Renewal(t, j, s, k)
  PROVE  /\ ~Cancelled /\ Last(j) /\ Out.branch = j /\ j < k /\ Given(j) = s /\ s >= 300
         /\ In = None /\ In' = None /\ ist' = ist /\ wire' \subseteq wire
         /\ \A u \in Threads : Steps(Callee, u)' = Steps(Callee, u)
         /\ \A r \in Statuses : Answer(j, r) \notin wire'
         /\ \A i \in Seqs : ~Open(i) /\ (Made(i)' <=> Made(i) \/ i = k)
         /\ ~Made(k) /\ ict'[Caller][k] = None /\ ist[Callee][k] = None /\ Given(k)' = 0 /\ Heard(k)' = 0
         /\ \A i \in Seqs : Last(i)' => i = k
         /\ Out' # None /\ Out'.branch = k /\ ~Out'.cancel
  <1>1. HearsNew(t, j, s) /\ Retries(t, s, k)
    BY DEF Renewal
  <1>2. /\ Final(s) /\ s >= 300 /\ k = NextSeq(Out) /\ Out # None /\ ~Out.cancel
        /\ Out \in Dialog /\ Renewed(Out, Out', k)
        /\ Works(Caller, t, {Send(AckMsg(Out.seq, Out.branch)), Send(InviteMsg(k))})
    BY <1>1, RetriesFinal DEF Retries
  <1>3. /\ Answer(j, s) \in wire /\ Overtaken(j, s) /\ ist' = ist /\ In' = In
        /\ \A i \in Seqs : i # j => ict'[Caller][i] = ict[Caller][i]
    BY <1>1 DEF HearsNew, Hears, ResponseTaken, IctBecomes
  <1>4. ~Cancelled
    BY <1>2 DEF Cancelled
  <1>5. Last(j) /\ Out.branch = j
    BY <1>1, <1>2, HeardLast DEF CalleeInv, Last
  <1>6. OneFinal(j) /\ Given(j) = s
    BY <1>2, <1>3, <1>4, <1>5 DEF FinalInv, OneFinal
  <1>7. j < k
    <2>1. Out.next \in {0, Out.seq + 2} /\ Out.branch <= Out.seq
      BY <1>2 DEF Numbers, LastInvite
    <2>2. k > Out.seq /\ Out.seq \in Nat
      BY <1>2, <2>1, NextSeqFacts, DialogRange
    <2> QED
      BY <1>5, <2>1, <2>2, SeqFacts
  <1>8. s \in Nat /\ s >= 200 /\ s # 200
    BY <1>2, StatusFacts
  <1>9. In = None /\ ~Inserting(j) /\ ~Asks(j)
    BY <1>4, <1>5, <1>6, <1>8, RefusedNoDialog
  <1>10. ~PendingFinal(j)
    BY <1>6, <1>8 DEF OneFinal
  <1>11. \A u \in Threads : Steps(Callee, u)' = Steps(Callee, u)
    BY <1>2, WorksAlone, Pair
  <1>12. \A i \in Seqs : ~Open(i)
    BY <1>5, <1>9, <1>10, OneLast DEF CalleeInv, Open
  <1>13. ~Made(k)
    BY <1>5, <1>7, SeqFacts DEF Last
  <1>14. ist[Callee][k] = None /\ ict[Caller][k] = None
    BY <1>13 DEF Made, Numbers, InviteOnce
  <1>15. ict'[Caller][k] = None /\ Given(k)' = 0 /\ Heard(k)' = 0
    BY <1>3, <1>7, <1>14, SeqFacts, NoneFacts DEF Given, Heard
  <1>16. ASSUME NEW r \in Statuses, Answer(j, r) \in wire'
         PROVE  FALSE
    <2>1. Answer(j, r) \in wire
      BY <1>3, <1>16 DEF Overtaken
    <2>2. r <= s
      BY <1>6, <2>1 DEF Heeded, HeedsAnswer
    <2> QED
      BY <1>3, <1>16, <2>1, <2>2 DEF Overtaken
  <1>17. Out' # None /\ Out'.branch = k /\ ~Out'.cancel
    BY <1>2, NoneFacts DEF Renewed
  <1>18. ASSUME NEW i \in Seqs
         PROVE  Made(i)' <=> Made(i) \/ i = k
    <2>1. Made(k)'
      BY <1>2, WorksHas, Pair DEF Made
    <2>2. ASSUME Made(i)', ~Made(i), i # k
          PROVE  FALSE
      <3>1. ~CallStarts(t) /\ ~ReInvites(t, i)
        BY <1>2 DEF CallStarts, ReInvites, Plain
      <3>2. PICK b \in Seqs, r \in Statuses : Retries(t, r, i)
        BY <2>2, <3>1, MadeStep
      <3> QED
        BY <1>17, <2>2, <3>2 DEF Retries, Renewed
    <2> QED
      BY <2>1, <2>2, MadeStays
  <1>19. ASSUME NEW i \in Seqs, Last(i)'
         PROVE  i = k
    <2>1. \A r \in Seqs : Made(r) => r <= j
      BY <1>5 DEF Last
    <2>2. Made(k)' /\ Made(i)' /\ k <= i
      BY <1>18, <1>19 DEF Last
    <2> QED
      BY <1>7, <1>18, <2>1, <2>2, SeqFacts
  <1> QED
    BY <1>2, <1>3, <1>4, <1>5, <1>6, <1>7, <1>9, <1>11, <1>12, <1>13, <1>14, <1>15, <1>16, <1>17, <1>18, <1>19 DEF Overtaken

LEMMA RenewalCallee ==
  ASSUME Base, Numbers, CalleeInv, FinalInv, LetsGo, Heeded, Plain, NEW t \in Threads, Acts(t),
         NEW j \in Seqs, NEW k \in Seqs, NEW s \in Statuses, Renewal(t, j, s, k)
  PROVE  CalleeInv'
  <1>1. /\ Last(j) /\ j < k /\ Given(j) = s /\ s >= 300
        /\ In = None /\ In' = None /\ ist' = ist /\ wire' \subseteq wire
        /\ \A u \in Threads : Steps(Callee, u)' = Steps(Callee, u)
        /\ \A r \in Statuses : Answer(j, r) \notin wire'
        /\ \A i \in Seqs : ~Open(i) /\ (Made(i)' <=> Made(i) \/ i = k)
    BY RenewalFacts
  <1>2. \A i \in Seqs : Given(i)' = Given(i)
    BY <1>1, GivenSame
  <1>3. \A x : Has(Callee, x)' <=> Has(Callee, x)
    BY <1>1 DEF Has
  <1>4. \A i \in Seqs : ~Inserting(i)' /\ ~Asks(i)' /\ ~PendingFinal(i)' /\ ~Open(i)'
    BY <1>1, <1>3 DEF Open, Inserting, Asks, PendingFinal, Pending
  <1>5. Replaced'
    <2> SUFFICES ASSUME NEW i \in Seqs, NEW l \in Seqs, Made(i)', Made(l)', i < l
                 PROVE  Given(i)' >= 300 /\ \A r \in Statuses : Answer(i, r) \notin wire'
      BY DEF Replaced, Answer
    <2>1. \A r \in Seqs : Made(r) => r <= j
      BY <1>1 DEF Last
    <2>2. Made(i) /\ i <= j
      <3>1. l <= k
        BY <1>1, <2>1, SeqFacts
      <3> QED
        BY <1>1, <2>1, <3>1, SeqFacts
    <2>3. CASE i = j
      BY <1>1, <1>2, <2>3
    <2>4. CASE i < j
      BY <1>1, <1>2, <2>2, <2>4 DEF CalleeInv, Replaced, Last
    <2> QED
      BY <2>2, <2>3, <2>4, SeqFacts
  <1>6. ASSUME NEW i \in Seqs
        PROVE  ~Has(Callee, AnswerStep(i))' /\ OneInsert(i)' /\ Answering(i)'
    <2>1. ~Has(Callee, AnswerStep(i))'
      BY <1>3 DEF CalleeInv
    <2>2. OneInsert(i)'
      BY <1>1, <1>4 DEF OneInsert, Inserting, Has
    <2>3. Answering(i)'
      <3>1. \A r \in Statuses : Final(r) => ~Pending(i, r)'
        BY <1>4 DEF PendingFinal
      <3>2. \A u \in Threads : Send(Answer(i, Terminated)) \in Steps(Callee, u)' => Delete \in Steps(Callee, u)'
        BY <1>1 DEF CalleeInv, Answering
      <3> QED
        BY <1>1, <1>4, <3>1, <3>2 DEF Answering, Answer
    <2> QED
      BY <2>1, <2>2, <2>3
  <1> QED
    BY <1>4, <1>5, <1>6 DEF CalleeInv, AnswerStep

LEMMA StartsCallee ==
  ASSUME Base, Numbers, CancelRight, NEW t \in Threads, CallStarts(t)
  PROVE  CalleeInv' /\ FinalInv'
  <1>1. /\ In' = None /\ wire' = {}
        /\ \A x : ~Has(Callee, x)'
        /\ \A i \in Seqs : Given(i)' = 0 /\ Heard(i)' = 0 /\ (Made(i)' => i = 1)
    BY StartsClean
  <1>2. \A u \in Threads : \A x : x \notin Steps(Callee, u)'
    BY <1>1 DEF Has
  <1>3. \A i \in Seqs : ~Inserting(i)' /\ ~Asks(i)' /\ ~PendingFinal(i)' /\ ~Open(i)'
    BY <1>1 DEF Open, Inserting, Asks, PendingFinal, Pending
  <1>4. Replaced'
    BY <1>1, SeqFacts DEF Replaced
  <1>5. \A i \in Seqs : OneInsert(i)' /\ Answering(i)'
    BY <1>1, <1>2, <1>3 DEF OneInsert, Answering, Pending
  <1>6. \A i \in Seqs : OneFinal(i)'
    <2> SUFFICES ASSUME NEW i \in Seqs PROVE OneFinal(i)'
      OBVIOUS
    <2>1. ~(Heard(i)' >= 200)
      BY <1>1
    <2>2. \A s : Answer(i, s) \notin wire'
      BY <1>1
    <2>3. \A u \in Threads, s \in Statuses : ~Answers(u, i, s)'
      BY <1>2 DEF Answers
    <2> QED
      BY <1>3, <2>1, <2>2, <2>3 DEF OneFinal, Answer
  <1> QED
    BY <1>1, <1>3, <1>4, <1>5, <1>6 DEF CalleeInv, FinalInv

-----------------------------------------------------------------------------
(* Any other step. *)
LEMMA DeleteDone ==
  ASSUME Base, NEW t \in Threads, Acts(t), NEW a \in Agents, NEW u \in Threads,
         Delete \in Steps(a, u), Delete \notin Steps(a, u)'
  PROVE  u = t /\ Deletes(a, t)
  <1> DEFINE x == Delete
  <1>1. x # StopStep /\ x # SetEnd /\ (\A m : x # Send(m)) /\ (\A e : x # Tell(e))
        /\ \A i : x # InsertStep(i) /\ x # AnswerStep(i)
    BY StepsDiffer
  <1> HIDE DEF x
  <1>2. x \in Steps(a, u) /\ x \notin Steps(a, u)'
    BY DEF x
  <1> QED
    BY <1>1, <1>2, StepDone

LEMMA DeleteStays ==
  ASSUME Base, NEW t \in Threads, Acts(t), NEW a \in Agents, Has(a, Delete), dialog'[a] # None
  PROVE  Has(a, Delete)'
  <1>1. PICK u \in Threads : Delete \in Steps(a, u)
    BY DEF Has
  <1>2. Delete \in Steps(a, u)'
    BY <1>1, DeleteDone DEF Deletes
  <1> QED
    BY <1>2 DEF Has

LEMMA AsksStep ==
  ASSUME Base, NEW t \in Threads, Acts(t), NEW i \in Seqs, Asks(i)', ~Asks(i)
  PROVE  Inserts(t, i) /\ In = None /\ Inserting(i)
  <1>1. In' # None /\ In' # In /\ In'.invite = i
    BY DEF Asks
  <1>2. ~HangsUp(Callee, t) /\ ~Deletes(Callee, t) /\ \A j, s : ~Rejects(t, j, s)
    BY <1>1 DEF HangsUp, Deletes, Rejects, In
  <1>3. \A j : ~Accepts(t, j)
    BY <1>1, SeqFacts DEF Accepts
  <1>4. ~Requests(Callee, t)
    BY <1>1, NoneFacts DEF Requests, Asks, In
  <1>5. ~(In \in Dialog /\ Ended(In, In'))
    BY <1>1, NoneFacts DEF Ended, Asks
  <1>6. Inserts(t, i) /\ In = None
    BY <1>1, <1>2, <1>3, <1>4, <1>5, InStep
  <1> QED
    BY <1>6, HasSteps DEF Inserts, Inserting

LEMMA ReplacedStays ==
  ASSUME Base, Numbers, CalleeInv, NEW t \in Threads, Acts(t), SameMade
  PROVE  Replaced'
  <1> SUFFICES ASSUME NEW i \in Seqs, NEW j \in Seqs, Made(i)', Made(j)', i < j
               PROVE  Given(i)' >= 300 /\ \A s \in Statuses : Answer(i, s) \notin wire'
    BY DEF Replaced, Answer
  <1>1. Made(i) /\ Made(j)
    BY DEF SameMade
  <1>2. Given(i) >= 300 /\ \A s \in Statuses : Answer(i, s) \notin wire
    BY <1>1 DEF CalleeInv, Replaced
  <1>3. Given(i) \in Nat /\ Given(i)' >= Given(i)
    BY GivenNat, GivenRises
  <1>4. Given(i)' >= 300
    <2>1. \A s \in Statuses : s \in Nat
      BY StatusFacts
    <2>2. Given(i)' \in Nat
      BY <1>3, <2>1, GivenStep
    <2> QED
      BY <1>2, <1>3, <2>2
  <1>5. ASSUME NEW s \in Statuses, Answer(i, s) \in wire'
        PROVE  FALSE
    <2>1. SendsAnswer(t, i, s) /\ s > Given(i)
      BY <1>2, <1>5, AnswerStepWire
    <2>2. Pending(i, s)
      BY <2>1, HasSteps DEF SendsAnswer, Sends, Pending
    <2>3. Final(s)
      BY <1>2, <1>3, <2>1, StatusFacts DEF Final
    <2>4. Last(i)
      BY <2>2, <2>3 DEF CalleeInv, Open, PendingFinal
    <2> QED
      BY <1>1, <2>4, SeqFacts DEF Last
  <1> QED
    BY <1>4, <1>5

LEMMA OpenStays ==
  ASSUME Base, Numbers, OnlyReceived, CalleeInv, NEW t \in Threads, Acts(t), NEW i \in Seqs, Open(i)'
  PROVE  Last(i) /\ (Inserting(i)' /\ ~Inserting(i) => InviteMsg(i) \in wire)
  <1>1. ASSUME Inserting(i)', ~Inserting(i)
        PROVE  InviteMsg(i) \in wire
    <2>1. CalleeGets(t, InsertStep(i))
      BY <1>1, CalleeNewHas DEF Inserting, InsertStep
    <2> QED
      BY <2>1, GetsInsert DEF InviteComes, Arrives
  <1>2. ASSUME PendingFinal(i)', ~PendingFinal(i)
        PROVE  Asks(i) \/ InviteMsg(i) \in wire
    <2>1. PICK s \in Statuses : Final(s) /\ Pending(i, s)'
      BY <1>2 DEF PendingFinal
    <2>2. PICK u \in Threads : (Send(Answer(i, s)) \in Steps(Callee, u))'
      BY <2>1 DEF Pending, Has
    <2>3. Send(Answer(i, s)) \in Steps(Callee, u)' /\ Send(Answer(i, s)) \notin Steps(Callee, u)
      BY <1>2, <2>1, <2>2, HasSteps DEF PendingFinal, Pending, Send, Answer
    <2> QED
      BY <2>1, <2>3, NewFinal
  <1>3. Asks(i)' /\ ~Asks(i) => Inserting(i)
    BY AsksStep
  <1>4. Open(i) \/ InviteMsg(i) \in wire
    BY <1>1, <1>2, <1>3 DEF Open
  <1> QED
    BY <1>1, <1>4, InviteIsNew DEF CalleeInv

LEMMA NoAnswerStep ==
  ASSUME Base, Numbers, OnlyReceived, CalleeInv, NEW t \in Threads, Acts(t), NEW i \in Seqs
  PROVE  ~Has(Callee, AnswerStep(i))'
  <1> SUFFICES ASSUME Has(Callee, AnswerStep(i))' PROVE FALSE
    OBVIOUS
  <1>1. ~Has(Callee, AnswerStep(i))
    BY DEF CalleeInv
  <1>2. CalleeGets(t, AnswerStep(i))
    BY <1>1, CalleeNewHas DEF AnswerStep
  <1>3. InviteMsg(i) \in wire /\ In # None
    BY <1>2, GetsAnswerStep DEF InviteComes, Arrives
  <1> QED
    BY <1>3, InviteIsNew

LEMMA GivenLow ==
  ASSUME Base, Numbers, NEW t \in Threads, Acts(t), NEW i \in Seqs, Given(i) < 200, ~PendingFinal(i)
  PROVE  Given(i)' < 200
  <1>1. Given(i) \in Nat /\ \A s \in Statuses : s \in Nat
    BY GivenNat, StatusFacts
  <1>2. Given(i)' \in Nat
    BY <1>1, GivenStep
  <1>3. ~(Given(i)' # Given(i) /\ Given(i)' >= 200)
    BY GivenUp DEF PendingFinal
  <1> QED
    BY <1>1, <1>2, <1>3

LEMMA OneInsertStays ==
  ASSUME Base, Numbers, OnlyReceived, CalleeInv, NEW t \in Threads, Acts(t), NEW i \in Seqs
  PROVE  OneInsert(i)'
  <1>1. OneInsert(i)
    BY DEF CalleeInv
  <1>2. ASSUME NEW u \in Threads, InsertStep(i) \in Steps(Callee, u)', InsertStep(i) \notin Steps(Callee, u)
        PROVE  /\ u = t /\ InviteMsg(i) \in wire /\ In = None
               /\ InviteComes(t, i, {Send(Answer(i, Ringing)), InsertStep(i)})
    BY <1>2, CalleeNew, GetsInsert DEF InviteComes, Arrives
  <1>3. CASE InviteMsg(i) \in wire
    <2>1. /\ ~Inserting(i) /\ ~PendingFinal(i) /\ In = None /\ Given(i) = 0
          /\ \A s \in Statuses : ~Pending(i, s)
      BY <1>3, InviteIsNew DEF Open
    <2>2. \A u \in Threads : InsertStep(i) \notin Steps(Callee, u)
      BY <2>1 DEF Inserting, Has
    <2>3. \A u \in Threads : InsertStep(i) \in Steps(Callee, u)' => u = t
      BY <1>2, <2>2
    <2>4. ASSUME Inserting(i)'
          PROVE  In' = None /\ Given(i)' < 200 /\ ~PendingFinal(i)'
      <3>1. PICK u \in Threads : (InsertStep(i) \in Steps(Callee, u))'
        BY <2>4 DEF Inserting, Has
      <3>2. InviteComes(t, i, {Send(Answer(i, Ringing)), InsertStep(i)})
        BY <1>2, <2>2, <3>1 DEF InsertStep
      <3>3. /\ In' = In
            /\ Works(Callee, t, {Send(Answer(i, Ringing)), InsertStep(i)})
        BY <3>2 DEF InviteComes, In
      <3>4. ASSUME NEW s \in Statuses, Final(s), Pending(i, s)'
            PROVE  FALSE
        <4>1. Send(Answer(i, s)) \in {Send(Answer(i, Ringing)), InsertStep(i)}
          BY <2>1, <3>3, <3>4, WorksHas, Pair DEF Pending
        <4>2. s = Ringing
          BY <4>1, AnswerTags
        <4> QED
          BY <3>4, <4>2, FinalStatuses
      <3> QED
        BY <2>1, <3>3, <3>4, GivenLow DEF PendingFinal
    <2> QED
      BY <2>3, <2>4 DEF OneInsert, InsertStep
  <1>4. CASE InviteMsg(i) \notin wire
    <2>1. \A u \in Threads : InsertStep(i) \in Steps(Callee, u)' => InsertStep(i) \in Steps(Callee, u)
      BY <1>2, <1>4
    <2>2. \A u, v \in Threads : InsertStep(i) \in Steps(Callee, u)' /\ InsertStep(i) \in Steps(Callee, v)' => u = v
      BY <1>1, <2>1 DEF OneInsert
    <2>3. ASSUME Inserting(i)'
          PROVE  In' = None /\ Given(i)' < 200 /\ ~PendingFinal(i)'
      <3>1. PICK w \in Threads : (InsertStep(i) \in Steps(Callee, w))'
        BY <2>3 DEF Inserting, Has
      <3>2. InsertStep(i) \in Steps(Callee, w)' /\ InsertStep(i) \in Steps(Callee, w)
        BY <2>1, <3>1 DEF InsertStep
      <3>3. Inserting(i)
        BY <3>2, HasSteps DEF Inserting
      <3>4. In = None /\ Given(i) < 200 /\ ~PendingFinal(i) /\ Last(i)
        BY <1>1, <3>3 DEF OneInsert, CalleeInv, Open
      <3>5. ASSUME NEW j \in Seqs, Inserts(t, j)
            PROVE  FALSE
        <4>1. Steps(Callee, t) = {InsertStep(j)} /\ Inserting(j)
          BY <3>5, HasSteps DEF Inserts, Inserting
        <4>2. j = i
          BY <3>4, <4>1, OneLast DEF CalleeInv, Open
        <4>3. w = t
          BY <1>1, <3>2, <4>1, <4>2 DEF OneInsert
        <4>4. Steps(Callee, t)' = {Tell("call")}
          BY <3>4, <3>5, Pair DEF Inserts, Works
        <4> QED
          BY <3>2, <4>3, <4>4, InsertTags
      <3>6. In' = None
        BY <3>4, <3>5, NoneFacts, InStep DEF HangsUp, Deletes, Requests, Accepts, Rejects, In
      <3>7. ASSUME NEW s \in Statuses, Final(s), Pending(i, s)'
            PROVE  FALSE
        <4>1. PICK u \in Threads : (Send(Answer(i, s)) \in Steps(Callee, u))'
          BY <3>7 DEF Pending, Has
        <4>2. Send(Answer(i, s)) \in Steps(Callee, u)' /\ Send(Answer(i, s)) \notin Steps(Callee, u)
          BY <3>4, <3>7, <4>1, HasSteps DEF PendingFinal, Pending, Send, Answer
        <4> QED
          BY <1>4, <3>4, <3>7, <4>2, NewFinal DEF Asks
      <3> QED
        BY <3>4, <3>6, <3>7, GivenLow DEF PendingFinal
    <2> QED
      BY <2>2, <2>3 DEF OneInsert, InsertStep
  <1> QED
    BY <1>3, <1>4

-----------------------------------------------------------------------------
(* What becomes of what the callee has to answer. *)
LEMMA AnswerKept ==
  ASSUME Base, NEW t \in Threads, NEW i \in Seqs, NEW s, SendsAnswer(t, i, s), Delete \in Steps(Callee, t)
  PROVE  Has(Callee, Delete)' /\ dialog' = dialog
  <1>1. Works(Callee, t, Steps(Callee, t) \ {Send(Answer(i, s))}) /\ dialog' = dialog
    BY DEF SendsAnswer, Sends
  <1>2. Delete # Send(Answer(i, s))
    BY AnswerTags
  <1> QED
    BY <1>1, <1>2, WorksHas, Pair

(* Who accepts, and what is so then. *)
LEMMA StartStep ==
  ASSUME Base, NEW t \in Threads, Acts(t), In' # None, In'.start, ~(In # None /\ In.start)
  PROVE  \E j \in Seqs : Accepts(t, j)
  <1>1. ~HangsUp(Callee, t) /\ ~Deletes(Callee, t) /\ \A j, s : ~Rejects(t, j, s)
    BY DEF HangsUp, Deletes, Rejects, In
  <1>2. ~Requests(Callee, t) /\ ~(In \in Dialog /\ Ended(In, In'))
    BY NoneFacts DEF Requests, Ended, SameTimes, In
  <1> QED
    BY <1>1, <1>2, InStep

LEMMA AsksAnswered ==
  ASSUME Base, Numbers, CalleeInv, NEW t \in Threads, Acts(t), NEW i \in Seqs, Asks(i)', Given(i)' >= 200
  PROVE  Has(Callee, Delete)'
  <1>1. Given(i) \in Nat
    BY GivenNat
  <1>2. CASE ~Asks(i)
    <2>1. Inserts(t, i) /\ Inserting(i)
      BY <1>2, AsksStep
    <2>2. Given(i)' = Given(i)
      BY <2>1, GivenSame DEF Inserts, Rest
    <2> QED
      BY <1>1, <2>1, <2>2 DEF CalleeInv, OneInsert
  <1>3. CASE Asks(i) /\ Given(i) >= 200
    <2>1. Has(Callee, Delete)
      BY <1>3 DEF CalleeInv, Answering
    <2> QED
      BY <2>1, DeleteStays, Pair DEF Asks, In
  <1>4. CASE Asks(i) /\ Given(i) < 200
    <2>1. PICK s \in Statuses : /\ SendsAnswer(t, i, s) /\ Final(s) /\ Pending(i, s)
                                /\ Send(Answer(i, s)) \in Steps(Callee, t)
      BY <1>1, <1>4, GivenUp
    <2>2. s = Terminated
      BY <1>4, <2>1 DEF CalleeInv, Answering
    <2>3. Delete \in Steps(Callee, t)
      BY <2>1, <2>2 DEF CalleeInv, Answering
    <2> QED
      BY <2>1, <2>3, AnswerKept
  <1> QED
    BY <1>1, <1>2, <1>3, <1>4

LEMMA StartedAnswered ==
  ASSUME Base, Numbers, OnlyReceived, CalleeInv, Heeded, NEW t \in Threads, Acts(t), NEW i \in Seqs, Last(i),
         In' # None, In'.start
  PROVE  /\ Given(i)' >= 200 \/ Pending(i, Ok)'
         /\ Given(i)' > 200 => Has(Callee, Delete)'
  <1>1. Given(i) \in Nat /\ (\A s \in Statuses : s \in Nat) /\ Ok \in Statuses /\ Ok = 200 /\ Terminated # 200
    BY GivenNat, StatusFacts DEF Ok, Terminated
  <1>2. Given(i)' \in Nat /\ Given(i)' >= Given(i)
    BY <1>1, GivenStep, GivenRises
  <1>3. Has(Callee, Delete) => Has(Callee, Delete)'
    BY DeleteStays, Pair DEF In
  <1>4. CASE In # None /\ In.start
    <2>1. /\ Given(i) >= 200 \/ Pending(i, Ok)
          /\ Given(i) > 200 => Has(Callee, Delete)
          /\ \A s \in Statuses : Final(s) /\ Pending(i, s) => s \in {Ok, Terminated}
      BY <1>4 DEF CalleeInv, Answering
    <2>2. ASSUME Pending(i, Ok), ~Pending(i, Ok)'
          PROVE  Given(i)' >= 200
      <3>1. ist[Callee][i] # None /\ ist[Callee][i] # Gone
        BY <1>1, <2>2 DEF OnlyReceived, InviteWork, Heeded, HeedsAnswer
      <3>2. ist[Callee][i] \in Transaction
        BY <3>1, SentFacts DEF Base
      <3> QED
        BY <1>1, <2>2, <3>2, PendingDone
    <2>3. ASSUME Given(i)' > 200, Given(i) <= 200
          PROVE  Has(Callee, Delete)'
      <3>1. PICK s \in Statuses : /\ SendsAnswer(t, i, s) /\ Given(i)' = s /\ Final(s) /\ Pending(i, s)
                                  /\ Send(Answer(i, s)) \in Steps(Callee, t)
        BY <1>1, <1>2, <2>3, GivenUp
      <3>2. s = Terminated
        BY <1>1, <2>1, <2>3, <3>1
      <3>3. Delete \in Steps(Callee, t)
        BY <3>1, <3>2 DEF CalleeInv, Answering
      <3> QED
        BY <3>1, <3>3, AnswerKept
    <2> QED
      BY <1>1, <1>2, <1>3, <2>1, <2>2, <2>3
  <1>5. CASE ~(In # None /\ In.start)
    <2>1. PICK j \in Seqs : Accepts(t, j)
      BY <1>5, StartStep
    <2>2. Asks(j)
      BY <2>1, NoneFacts DEF Accepts, Asks
    <2>3. j = i
      BY <2>2, OneLast DEF CalleeInv, Open
    <2>4. Given(i)' = Given(i)
      BY <2>1, GivenSame DEF Accepts, Rest
    <2>5. Pending(i, Ok)'
      BY <2>1, <2>3, WorksHas, Pair DEF Accepts, Pending, Answer, Send
    <2>6. Given(i) > 200 => Has(Callee, Delete)
      BY <1>1, <2>2, <2>3 DEF CalleeInv, Answering
    <2> QED
      BY <1>3, <2>4, <2>5, <2>6
  <1> QED
    BY <1>4, <1>5

LEMMA PendingAnswered ==
  ASSUME Base, Numbers, OnlyReceived, CalleeInv, NEW t \in Threads, Acts(t), NEW i \in Seqs,
         NEW s \in Statuses, Final(s), Pending(i, s)'
  PROVE  (In' # None => s \in {Ok, Terminated}) /\ (Asks(i)' => s = Terminated)
  <1>1. CASE Pending(i, s)
    <2>1. Last(i) /\ ~Inserting(i)
      BY <1>1 DEF CalleeInv, Open, OneInsert, PendingFinal
    <2>2. ASSUME In' # None, In = None
          PROVE  FALSE
      <3>1. PICK j \in Seqs : Inserts(t, j)
        BY <2>2, NoneFacts, InStep DEF HangsUp, Deletes, Requests, Accepts, Rejects, In
      <3>2. Inserting(j)
        BY <3>1, HasSteps DEF Inserts, Inserting
      <3> QED
        BY <2>1, <3>2, OneLast DEF CalleeInv, Open
    <2>3. Asks(i)' => Asks(i)
      BY <2>1, AsksStep
    <2> QED
      BY <1>1, <2>2, <2>3 DEF CalleeInv, Answering
  <1>2. CASE ~Pending(i, s)
    <2>1. PICK u \in Threads : (Send(Answer(i, s)) \in Steps(Callee, u))'
      BY DEF Pending, Has
    <2>2. Send(Answer(i, s)) \in Steps(Callee, u)' /\ Send(Answer(i, s)) \notin Steps(Callee, u)
      BY <1>2, <2>1, HasSteps DEF Pending, Send, Answer
    <2>3. /\ Rejects(t, i, s) => In' = None
          /\ Accepts(t, i) => In'.invite = 0
          /\ InviteMsg(i) \in wire => In = None
      BY InviteIsNew DEF Rejects, Accepts
    <2> QED
      BY <2>2, <2>3, NewFinal, SeqFacts DEF Asks
  <1> QED
    BY <1>1, <1>2

LEMMA TerminatedDeletes ==
  ASSUME Base, Numbers, OnlyReceived, CalleeInv, NEW t \in Threads, Acts(t), NEW i \in Seqs,
         NEW u \in Threads, (Send(Answer(i, Terminated)) \in Steps(Callee, u))'
  PROVE  Delete \in Steps(Callee, u)'
  <1> DEFINE x == Send(Answer(i, Terminated))
  <1>1. Final(Terminated) /\ Terminated \in Statuses
    BY FinalStatuses, StatusFacts
  <1>2. CASE x \in Steps(Callee, u)
    <2>1. Delete \in Steps(Callee, u)
      BY <1>2 DEF CalleeInv, Answering
    <2>2. ASSUME Delete \notin Steps(Callee, u)'
          PROVE  FALSE
      <3>1. u = t /\ Steps(Callee, t) = {Delete}
        BY <2>1, <2>2, DeleteDone, Pair DEF Deletes
      <3> QED
        BY <1>2, <3>1, AnswerTags
    <2> QED
      BY <2>2
  <1>3. CASE x \notin Steps(Callee, u)
    <2>1. x \in Steps(Callee, u)'
      BY DEF Send, Answer, Terminated
    <2>2. Terminated \notin {Decline, Moved} /\ Terminated # Ok /\ Terminated \notin {NotAcceptable, Unauthorized}
      BY DEF Terminated, Decline, Moved, Ok, NotAcceptable, Unauthorized
    <2>3. u = t /\ CancelComes(t) /\ In \in Dialog /\ ~In.start
      BY <1>1, <1>3, <2>1, <2>2, NewFinal
    <2>4. Works(Callee, t, {Send(Answer(In.invite, Terminated)), Tell("end"), Delete})
      BY <2>3, NoneFacts DEF CancelComes
    <2> QED
      BY <2>3, <2>4, WorksHas, Pair
  <1> QED
    BY <1>2, <1>3

LEMMA CalleeInvStep ==
  ASSUME Base, Numbers, OnlyReceived, CancelRight, CalleeInv, FinalInv, LetsGo, Heeded, Plain,
         NEW t \in Threads, Acts(t)
  PROVE  CalleeInv'
  <1>1. CASE CallStarts(t)
    BY <1>1, StartsCallee
  <1>2. CASE \E j, k \in Seqs, s \in Statuses : Renewal(t, j, s, k)
    BY <1>2, RenewalCallee
  <1>3. CASE SameMade
    <2>1. Replaced'
      BY <1>3, ReplacedStays
    <2>2. \A i \in Seqs : Open(i)' => Last(i)'
      BY <1>3, OpenStays, SameLast
    <2>3. \A i \in Seqs : ~Has(Callee, AnswerStep(i))' /\ OneInsert(i)'
      BY NoAnswerStep, OneInsertStays
    <2>4. ASSUME NEW i \in Seqs
          PROVE  Answering(i)'
      <3>1. Last(i)' => Last(i)
        BY <1>3, SameLast
      <3>2. (Asks(i) /\ Given(i) >= 200 => Has(Callee, Delete))'
        BY AsksAnswered
      <3>3. (In # None /\ In.start /\ Last(i) =>
               (Given(i) >= 200 \/ Pending(i, Ok)) /\ (Given(i) > 200 => Has(Callee, Delete)))'
        BY <3>1, StartedAnswered
      <3>4. (\A s \in Statuses : Final(s) /\ Pending(i, s) =>
               (In # None => s \in {Ok, Terminated}) /\ (Asks(i) => s = Terminated))'
        BY PendingAnswered
      <3>5. (\A u \in Threads : Send(Answer(i, Terminated)) \in Steps(Callee, u) => Delete \in Steps(Callee, u))'
        BY TerminatedDeletes
      <3> QED
        BY <3>2, <3>3, <3>4, <3>5 DEF Answering
    <2> QED
      BY <2>1, <2>2, <2>3, <2>4 DEF CalleeInv, AnswerStep
  <1> QED
    BY <1>1, <1>2, <1>3, MadeKinds

-----------------------------------------------------------------------------
(* The one final answer. *)
LEMMA RenewalFinal ==
  ASSUME Base, Numbers, CalleeInv, FinalInv, LetsGo, Heeded, Plain, NEW t \in Threads, Acts(t),
         NEW j \in Seqs, NEW k \in Seqs, NEW s \in Statuses, Renewal(t, j, s, k)
  PROVE  FinalInv'
  <1>1. /\ Last(j) /\ j < k /\ wire' \subseteq wire
        /\ \A u \in Threads : Steps(Callee, u)' = Steps(Callee, u)
        /\ \A i \in Seqs : ~Open(i) /\ (Made(i)' <=> Made(i) \/ i = k)
        /\ ist[Callee][k] = None /\ Given(k)' = 0 /\ Heard(k)' = 0
    BY RenewalFacts
  <1>2. \A i \in Seqs : Last(i)' => i = k
    BY RenewalFacts
  <1>3. \A u \in Threads, r \in Statuses : ~Answers(u, k, r)'
    <2> SUFFICES ASSUME NEW u \in Threads, NEW r \in Statuses, Answers(u, k, r)' PROVE FALSE
      OBVIOUS
    <2>1. Final(r) /\ Send(Answer(k, r)) \in Steps(Callee, u)
      BY <1>1 DEF Answers, Send, Answer
    <2>2. PendingFinal(k)
      BY <2>1, HasSteps DEF PendingFinal, Pending
    <2> QED
      BY <1>1, <2>2 DEF Open
  <1>4. ~PendingFinal(k)'
    BY <1>3 DEF PendingFinal, Pending, Has, Answers
  <1>5. \A r \in Statuses : Final(r) => Answer(k, r) \notin wire'
    <2> SUFFICES ASSUME NEW r \in Statuses, Final(r), Answer(k, r) \in wire' PROVE FALSE
      OBVIOUS
    <2>1. r <= Given(k)
      BY <1>1 DEF Heeded, HeedsAnswer
    <2>2. Given(k) = 0 /\ r >= 200
      BY <1>1 DEF Given, Final
    <2> QED
      BY <2>1, <2>2, StatusFacts
  <1>6. ~(Heard(k)' >= 200)
    BY <1>1
  <1>7. OneFinal(k)'
    BY <1>3, <1>4, <1>5, <1>6 DEF OneFinal, Answer
  <1> QED
    BY <1>2, <1>7 DEF FinalInv

LEMMA NewAnswer ==
  ASSUME Base, Numbers, OnlyReceived, CancelRight, CalleeInv, ~Cancelled, NEW t \in Threads, Acts(t), NEW u \in Threads,
         NEW i \in Seqs, NEW s \in Statuses, Final(s),
         Send(Answer(i, s)) \in Steps(Callee, u)', Send(Answer(i, s)) \notin Steps(Callee, u)
  PROVE  /\ u = t
         /\ (Asks(i) /\ Rest) \/ InviteMsg(i) \in wire
  <1>1. CancelMsg \notin wire
    BY DEF CancelRight, CancelSent, LetGo
  <1> QED
    BY <1>1, NewFinal DEF Rejects, Accepts

LEMMA GivenFixed ==
  ASSUME Base, Numbers, NEW t \in Threads, Acts(t), NEW i \in Seqs, OneFinal(i), Given(i) >= 200
  PROVE  Given(i)' = Given(i)
  <1>1. Given(i) \in Nat /\ \A s \in Statuses : s \in Nat
    BY GivenNat, StatusFacts
  <1>2. Given(i)' >= 200
    BY <1>1, GivenStep, GivenRises
  <1>3. ~PendingFinal(i)
    BY <1>1 DEF OneFinal
  <1> QED
    BY <1>2, <1>3, GivenUp DEF PendingFinal

LEMMA FinalStays ==
  ASSUME Base, Numbers, OnlyReceived, CancelRight, CalleeInv, LetsGo, Heeded, Plain, NEW t \in Threads, Acts(t),
         ~Cancelled, NEW i \in Seqs, Last(i), OneFinal(i)
  PROVE  OneFinal(i)'
  <1>1. Given(i) \in Nat /\ \A s \in Statuses : s \in Nat /\ (Final(s) <=> s >= 200)
    BY GivenNat, StatusFacts DEF Final
  <1>2. Given(i)' \in Nat
    BY <1>1, GivenStep
  <1>3. Given(i) >= 200 => Given(i)' = Given(i)
    BY GivenFixed
  <1>4. \A s \in Statuses : Pending(i, s) /\ Asks(i) => ~Final(s)
    BY DEF CalleeInv, Answering, LetsGo, LetGo
  <1>5. InviteMsg(i) \in wire => Given(i) = 0 /\ ~PendingFinal(i)
    BY InviteIsNew DEF Open
  <1>6. ASSUME NEW u \in Threads, NEW s \in Statuses, Answers(u, i, s)', Given(i)' >= 200
        PROVE  FALSE
    <2>1. Final(s) /\ Send(Answer(i, s)) \in Steps(Callee, u)'
      BY <1>6 DEF Answers, Send, Answer
    <2>2. CASE Send(Answer(i, s)) \in Steps(Callee, u)
      <3>1. Given(i) < 200 /\ Answers(u, i, s)
        BY <1>1, <2>1, <2>2, HasSteps DEF OneFinal, PendingFinal, Pending, Answers
      <3>2. PICK r \in Statuses : /\ SendsAnswer(t, i, r) /\ Final(r)
                                  /\ Send(Answer(i, r)) \in Steps(Callee, t)
        BY <1>1, <1>2, <1>6, <3>1, GivenUp
      <3>3. u = t
        BY <3>1, <3>2 DEF OneFinal, Answers
      <3>4. Send(Answer(i, s)) = Send(Answer(i, r))
        BY <2>2, <3>2, <3>3, OneAnswer, AnswerTags, Pair
      <3>5. Send(Answer(i, r)) \notin Steps(Callee, t)'
        BY <3>2, WorksHas, Pair DEF SendsAnswer, Sends
      <3> QED
        BY <2>1, <3>3, <3>4, <3>5
    <2>3. CASE Send(Answer(i, s)) \notin Steps(Callee, u)
      <3>1. (Asks(i) /\ Rest) \/ InviteMsg(i) \in wire
        BY <2>1, <2>3, NewAnswer
      <3>2. CASE Asks(i) /\ Rest
        <4>1. Given(i)' = Given(i)
          BY <3>2, GivenSame DEF Rest
        <4> QED
          BY <1>6, <3>2, <4>1, RefusedNoDialog
      <3>3. CASE InviteMsg(i) \in wire
        BY <1>2, <1>5, <1>6, <3>3, GivenLow
      <3> QED
        BY <3>1, <3>2, <3>3
    <2> QED
      BY <2>2, <2>3
  <1>7. PendingFinal(i)' => Given(i)' < 200
    <2> SUFFICES ASSUME PendingFinal(i)', Given(i)' >= 200 PROVE FALSE
      BY <1>2
    <2>1. PICK s \in Statuses : Final(s) /\ Pending(i, s)'
      BY DEF PendingFinal
    <2>2. PICK u \in Threads : (Send(Answer(i, s)) \in Steps(Callee, u))'
      BY <2>1 DEF Pending, Has
    <2> QED
      BY <1>6, <2>1, <2>2 DEF Answers
  <1>8. ASSUME NEW u \in Threads, NEW v \in Threads, NEW s \in Statuses, NEW r \in Statuses,
               Answers(u, i, s)', Answers(v, i, r)'
        PROVE  u = v
    <2>1. ASSUME NEW w \in Threads, NEW x \in Threads, NEW p \in Statuses, NEW q \in Statuses,
                 Answers(w, i, p)', Answers(x, i, q)', ~Answers(w, i, p), w # x
          PROVE  FALSE
      <3>1. /\ Final(p) /\ Send(Answer(i, p)) \in Steps(Callee, w)'
            /\ Final(q) /\ Send(Answer(i, q)) \in Steps(Callee, x)'
        BY <2>1 DEF Answers, Send, Answer
      <3>2. w = t /\ (Asks(i) \/ InviteMsg(i) \in wire)
        BY <2>1, <3>1, NewAnswer DEF Answers
      <3>3. Send(Answer(i, q)) \in Steps(Callee, x)
        BY <2>1, <3>1, <3>2, OnlyMine, Pair
      <3>4. Pending(i, q) /\ PendingFinal(i)
        BY <3>1, <3>3, HasSteps DEF Pending, PendingFinal
      <3> QED
        BY <1>4, <1>5, <3>1, <3>2, <3>4
    <2>2. CASE Answers(u, i, s) /\ Answers(v, i, r)
      BY <2>2 DEF OneFinal
    <2> QED
      BY <1>8, <2>1, <2>2
  <1>9. ASSUME NEW s \in Statuses, Final(s), Answer(i, s) \in wire'
        PROVE  s = Given(i)'
    <2>1. CASE Answer(i, s) \in wire
      BY <1>1, <1>3, <1>9, <2>1 DEF OneFinal
    <2> QED
      BY <1>9, <2>1, AnswerStepWire
  <1>10. Heard(i)' >= 200 => Heard(i)' = Given(i)'
    <2>1. ~TimesOut(t, i)
      BY DEF TimesOut, Plain
    <2>2. CASE Heard(i)' = Heard(i)
      BY <1>3, <2>2 DEF OneFinal
    <2>3. CASE ict'[Caller][i] = Gone
      <3>1. Heard(i)' = 0
        BY <2>3, NoneFacts DEF Heard
      <3> QED
        BY <3>1
    <2>4. ASSUME NEW s \in Statuses, HearsNew(t, i, s), Heard(i)' = s, s >= 200
          PROVE  Heard(i)' = Given(i)'
      BY <1>1, <1>3, <2>4 DEF HearsNew, Hears, OneFinal
    <2> QED
      BY <2>1, <2>2, <2>3, <2>4, HeardStep
  <1> QED
    BY <1>7, <1>8, <1>9, <1>10 DEF OneFinal, Answer

LEMMA FinalInvStep ==
  ASSUME Base, Numbers, OnlyReceived, CancelRight, CalleeInv, FinalInv, LetsGo, Heeded, Plain,
         NEW t \in Threads, Acts(t)
  PROVE  FinalInv'
  <1>1. CASE CallStarts(t)
    BY <1>1, StartsCallee
  <1>2. CASE \E j, k \in Seqs, s \in Statuses : Renewal(t, j, s, k)
    BY <1>2, RenewalFinal
  <1>3. CASE SameMade /\ ~CallStarts(t)
    <2>1. Cancelled => Cancelled'
      BY <1>3, CancelledStays
    <2>2. \A i \in Seqs : Last(i)' => Last(i)
      BY <1>3, SameLast
    <2>3. ASSUME ~Cancelled', NEW i \in Seqs, Last(i)'
          PROVE  OneFinal(i)'
      BY <2>1, <2>2, <2>3, FinalStays DEF FinalInv
    <2> QED
      BY <2>3 DEF FinalInv
  <1> QED
    BY <1>1, <1>2, <1>3, MadeKinds

-----------------------------------------------------------------------------
(* The caller's dialog and what the caller heard.                          *)
CallerKnows(i) ==
  /\ ~Out.start /\ Closed(i) => Has(Caller, Delete)
  /\ Out.start => Closed(i)
  /\ Out.start /\ ~Out.cancel => Given(i) = 200
  /\ Out.cancel /\ Out.start => Has(Caller, StopStep) \/ Has(Caller, Delete)
  /\ Out.cancel /\ Out.end => Has(Caller, Delete)

CallerInv == Out # None => \A i \in Seqs : Last(i) => CallerKnows(i)

LEMMA ClosedStays ==
  ASSUME Base, Numbers, Heeded, Plain, NEW t \in Threads, Acts(t), NEW i \in Seqs, Closed(i)
  PROVE  Closed(i)'
  <1>1. ~TimesOut(t, i)
    BY DEF TimesOut, Plain
  <1>2. Heard(i) \in Nat
    BY HeardNat
  <1>3. ASSUME NEW s \in Statuses, HearsNew(t, i, s), Heard(i)' = s
        PROVE  Heard(i)' >= 200
    <2>1. s > Heard(i) /\ Heard(i) >= 200
      BY <1>3, NoneFacts DEF HearsNew, Hears, Heeded, HeedsAnswer, Closed
    <2> QED
      BY <1>2, <1>3, <2>1, StatusFacts
  <1> QED
    BY <1>1, <1>3, HeardStep DEF Closed

LEMMA ClosedStep ==
  ASSUME Base, Numbers, Plain, NEW t \in Threads, Acts(t), NEW i \in Seqs, Closed(i)', ~Closed(i)
  PROVE  \E s \in Statuses : HearsNew(t, i, s) /\ Final(s)
  <1>1. ~TimesOut(t, i)
    BY DEF TimesOut, Plain
  <1>2. Heard(i) # Unauthorized
    BY DEF Closed, Unauthorized
  <1> QED
    BY <1>1, <1>2, HeardStep DEF Closed, Final

(* The caller's dialog when no answer is heard. *)
LEMMA OutTimes ==
  ASSUME Base, Plain, NEW t \in Threads, Acts(t), ~CallStarts(t), Out # None, Out' # None,
         \A i \in Seqs, s \in Statuses : ~HearsNew(t, i, s)
  PROVE  \/ SameTimes(Out, Out')
         \/ ~Out.start /\ ~Out'.start /\ ~Out'.end /\ Out'.cancel
         \/ Has(Caller, Delete)' /\ (Out'.start <=> Out.start) /\ (Out'.cancel <=> Out.cancel)
  <1>1. ~HangsUp(Caller, t) /\ ~Deletes(Caller, t)
    BY DEF HangsUp, Deletes, Out
  <1>2. \A i : ~ReInvites(t, i) /\ ~TimesOut(t, i)
    BY DEF ReInvites, TimesOut, Plain
  <1>3. CASE Out' = Out \/ Requests(Caller, t) \/ \E n \in Seqs : Pracks(t, n)
    BY <1>3 DEF Requests, Pracks, SameTimes, Out
  <1>4. CASE CallCancels(t)
    BY <1>4 DEF CallCancels
  <1>5. CASE EndsCall(Caller, t) /\ Out \in Dialog /\ Ended(Out, Out')
    <2>1. Works(Caller, t, {Tell("end"), Delete})
      BY <1>5, NoneFacts DEF EndsCall, Out
    <2>2. Has(Caller, Delete)'
      BY <2>1, WorksHas, Pair
    <2> QED
      BY <1>5, <2>2 DEF Ended
  <1> QED
    BY <1>1, <1>2, <1>3, <1>4, <1>5, OutStep

LEMMA StopStays ==
  ASSUME Base, NEW t \in Threads, Acts(t), Has(Caller, StopStep), Out' # None, Out # None, ~Out.end
  PROVE  Has(Caller, StopStep)'
  <1>1. PICK u \in Threads : StopStep \in Steps(Caller, u)
    BY DEF Has
  <1>2. ASSUME StopStep \notin Steps(Caller, u)'
        PROVE  HangsUp(Caller, t) \/ StopsNothing(t)
    <2> DEFINE x == StopStep
    <2>1. x # Delete /\ x # SetEnd /\ (\A m : x # Send(m)) /\ \A e : x # Tell(e)
      BY StepsDiffer
    <2> HIDE DEF x
    <2>2. x \in Steps(Caller, u) /\ x \notin Steps(Caller, u)'
      BY <1>1, <1>2 DEF x
    <2> QED
      BY <2>1, <2>2, StepDone, Pair
  <1>3. StopStep \in Steps(Caller, u)'
    BY <1>2 DEF HangsUp, StopsNothing, Out
  <1> QED
    BY <1>3 DEF Has

LEMMA CallerUnheard ==
  ASSUME Base, Numbers, FinalInv, Heeded, Plain, NEW t \in Threads, Acts(t), ~CallStarts(t),
         \A i \in Seqs, s \in Statuses : ~HearsNew(t, i, s),
         Out # None, Out' # None, NEW i \in Seqs, Last(i), CallerKnows(i)
  PROVE  CallerKnows(i)'
  <1>1. Has(Caller, Delete) => Has(Caller, Delete)'
    BY DeleteStays, Pair DEF Out
  <1>2. Closed(i)' <=> Closed(i)
    BY ClosedStays, ClosedStep
  <1>3. Has(Caller, StopStep) /\ ~Out.end => Has(Caller, StopStep)'
    BY StopStays
  <1>4. Given(i) = 200 /\ ~Out.cancel => Given(i)' = 200
    <2> SUFFICES ASSUME Given(i) = 200, ~Out.cancel PROVE Given(i)' = 200
      OBVIOUS
    <2>1. OneFinal(i)
      BY DEF FinalInv, Cancelled
    <2> QED
      BY <2>1, GivenFixed
  <1>5. CASE SameTimes(Out, Out')
    BY <1>1, <1>2, <1>3, <1>4, <1>5 DEF CallerKnows, SameTimes
  <1>6. CASE ~Out.start /\ ~Out'.start /\ ~Out'.end /\ Out'.cancel
    BY <1>1, <1>2, <1>6 DEF CallerKnows
  <1>7. CASE Has(Caller, Delete)' /\ (Out'.start <=> Out.start) /\ (Out'.cancel <=> Out.cancel)
    BY <1>2, <1>4, <1>7 DEF CallerKnows
  <1> QED
    BY <1>5, <1>6, <1>7, OutTimes

LEMMA CallerHears ==
  ASSUME Base, Numbers, FinalInv, Heeded, Plain, NEW t \in Threads, Acts(t), NEW s \in Statuses,
         Out # None, NEW i \in Seqs, Last(i), HearsNew(t, i, s), \A k \in Seqs : ~Retries(t, s, k), CallerKnows(i)
  PROVE  CallerKnows(i)'
  <1>1. Steps(Caller, t) = {} /\ ResponseTaken(t, s) /\ Answer(i, s) \in wire /\ ist' = ist
    BY DEF HearsNew, Hears
  <1>2. Heard(i)' = s /\ ict'[Caller][i] # Gone
    BY HeardNow, NoneFacts
  <1>3. \A x : Has(Caller, x) => Has(Caller, x)'
    <2> SUFFICES ASSUME NEW x, Has(Caller, x) PROVE Has(Caller, x)'
      OBVIOUS
    <2>1. PICK u \in Threads : x \in Steps(Caller, u)
      BY DEF Has
    <2>2. x \in Steps(Caller, u)'
      BY <1>1, <2>1, OnlyMine, Pair
    <2> QED
      BY <2>2 DEF Has
  <1>4. Given(i)' = Given(i)
    BY <1>1, GivenSame
  <1>5. Closed(i) => Closed(i)'
    BY ClosedStays
  <1>6. Closed(i)' <=> s >= 200
    BY <1>2 DEF Closed
  <1>7. CASE Rings100(s)
    <2>1. SameTimes(Out, Out') /\ ~(s >= 200)
      BY <1>7, StatusFacts DEF Rings100
    <2> QED
      BY <1>3, <1>4, <1>5, <1>6, <2>1 DEF CallerKnows, SameTimes
  <1>8. CASE Connects(t, s)
    <2>1. Out'.start /\ (Out'.end <=> Out.end) /\ (Out'.cancel <=> Out.cancel) /\ s >= 200 /\ s < 300
      BY <1>8, StatusFacts DEF Connects
    <2>2. Out.cancel => Has(Caller, StopStep)'
      BY <1>8, WorksHas, Pair DEF Connects
    <2>3. ~Out.cancel => Given(i) = 200
      <3> SUFFICES ASSUME ~Out.cancel PROVE Given(i) = 200
        OBVIOUS
      <3>1. s = Given(i)
        BY <1>1, <2>1 DEF FinalInv, Cancelled, OneFinal, Final
      <3>2. s = 200
        BY <2>1 DEF Statuses, Ringing, SessionProgress, Ok, Moved, Unauthorized, RequestTimeout, Terminated, NotAcceptable, Decline
      <3> QED
        BY <3>1, <3>2
    <2> QED
      BY <1>3, <1>4, <1>6, <2>1, <2>2, <2>3 DEF CallerKnows
  <1>9. CASE RefusesAgain(t, s)
    <2>1. Out' = Out /\ Out.start /\ s >= 200
      BY <1>9, StatusFacts DEF RefusesAgain
    <2> QED
      BY <1>3, <1>4, <1>6, <2>1 DEF CallerKnows
  <1>10. CASE Refuses(t, s)
    <2>1. /\ s >= 200 /\ (s = Unauthorized => Out.cancel) /\ (s # Unauthorized => ~Out.start)
          /\ (Out'.start <=> Out.start) /\ (Out'.cancel <=> Out.cancel)
      BY <1>10, StatusFacts DEF Refuses
    <2>2. Has(Caller, Delete)'
      BY <1>10, WorksHas, Pair DEF Refuses
    <2> QED
      BY <1>6, <2>1, <2>2 DEF CallerKnows
  <1> QED
    BY <1>1, <1>7, <1>8, <1>9, <1>10 DEF ResponseTaken

LEMMA CallerInvStep ==
  ASSUME Base, Numbers, CancelRight, CalleeInv, FinalInv, LetsGo, Heeded, CallerInv, Plain,
         NEW t \in Threads, Acts(t)
  PROVE  CallerInv'
  <1>1. CASE CallStarts(t)
    <2>1. /\ ~Out'.start /\ ~Out'.cancel
          /\ \A i \in Seqs : ict'[Caller][i] # Gone /\ ~(Heard(i)' >= 200)
      BY <1>1, StartsClean, NoneFacts
    <2> QED
      BY <2>1 DEF CallerInv, CallerKnows, Closed
  <1>2. ASSUME NEW j \in Seqs, NEW k \in Seqs, NEW s \in Statuses, Renewal(t, j, s, k)
        PROVE  CallerInv'
    <2>1. /\ ~Cancelled /\ Last(j) /\ Given(j) = s /\ s >= 300
          /\ ict'[Caller][k] = None /\ Heard(k)' = 0
          /\ ~Out'.cancel
      BY <1>2, RenewalFacts
    <2>2. ~Out.start
      BY <2>1 DEF CallerInv, CallerKnows, Cancelled
    <2>3. ~Out'.start
      BY <1>2, <2>2 DEF Renewal, Retries, Renewed
    <2>4. \A i \in Seqs : Last(i)' => i = k
      BY <1>2, RenewalFacts
    <2>5. ~Closed(k)'
      BY <2>1, NoneFacts DEF Closed
    <2> QED
      BY <2>1, <2>3, <2>4, <2>5 DEF CallerInv, CallerKnows
  <1>3. CASE SameMade /\ ~CallStarts(t) /\ \A s \in Statuses : \A j, k \in Seqs : ~Renewal(t, j, s, k)
    <2> SUFFICES ASSUME Out' # None, NEW i \in Seqs, Last(i)' PROVE CallerKnows(i)'
      BY DEF CallerInv
    <2>1. Out # None
      BY <1>3, OutNone
    <2>2. Last(i) /\ CallerKnows(i)
      BY <1>3, <2>1, SameLast DEF CallerInv
    <2>3. CASE \A j \in Seqs, s \in Statuses : ~HearsNew(t, j, s)
      BY <1>3, <2>1, <2>2, <2>3, CallerUnheard
    <2>4. ASSUME NEW j \in Seqs, NEW s \in Statuses, HearsNew(t, j, s)
          PROVE  CallerKnows(i)'
      <3>1. j = i
        BY <2>2, <2>4, HeardLast, OneLast DEF CalleeInv, Last
      <3>2. \A k \in Seqs : ~Retries(t, s, k)
        BY <1>3, <2>4 DEF Renewal
      <3> QED
        BY <2>1, <2>2, <2>4, <3>1, <3>2, CallerHears
    <2> QED
      BY <2>3, <2>4
  <1> QED
    BY <1>1, <1>2, <1>3, MadeKinds

-----------------------------------------------------------------------------
(* The end of the call is on its way to the callee, to the caller.         *)
EndingCallee == Has(Callee, Delete) \/ Has(Callee, SetEnd) \/ ByeSent
ByeFlies == ByeMsg(Caller) \in wire \/ Has(Callee, Send(ByeMsg(Caller)))
ByeReaches == ByeFlies \/ Has(Caller, SetEnd)
EndingCaller == ByeReaches \/ Has(Caller, Delete)

LEMMA SetEndDone ==
  ASSUME Base, NEW t \in Threads, Acts(t), NEW a \in Agents, Has(a, SetEnd), ~Has(a, SetEnd)'
  PROVE  EndsCall(a, t)
  <1> DEFINE x == SetEnd
  <1>1. x # StopStep /\ x # Delete /\ (\A m : x # Send(m)) /\ (\A e : x # Tell(e))
        /\ \A i : x # InsertStep(i) /\ x # AnswerStep(i)
    BY StepsDiffer
  <1>2. PICK u \in Threads : x \in Steps(a, u) /\ x \notin Steps(a, u)'
    BY DEF Has
  <1> HIDE DEF x
  <1>3. x = SetEnd
    BY DEF x
  <1> QED
    BY <1>1, <1>2, StepDone

LEMMA ByeDone ==
  ASSUME Base, NEW t \in Threads, Acts(t), NEW a \in Agents,
         Has(a, Send(ByeMsg(Peer(a)))), ~Has(a, Send(ByeMsg(Peer(a))))'
  PROVE  ByeMsg(Peer(a)) \in wire'
  <1>1. PICK u \in Threads : Send(ByeMsg(Peer(a))) \in Steps(a, u) /\ Send(ByeMsg(Peer(a))) \notin Steps(a, u)'
    BY DEF Has
  <1>2. SendsOther(a, t, ByeMsg(Peer(a)))
    BY <1>1, SendDone, MessagesDiffer
  <1> QED
    BY <1>2 DEF SendsOther

LEMMA ByeTaken ==
  ASSUME Base, NEW t \in Threads, Acts(t), NEW a \in Agents, ByeMsg(a) \in wire, ByeMsg(a) \notin wire'
  PROVE  Has(a, SetEnd)'
  <1>1. ByeComes(a, t)
    BY WireGone, MessagesDiffer, MessageSame
  <1> QED
    BY <1>1, WorksHas DEF ByeComes

LEMMA EndDeletes ==
  ASSUME NEW t \in Threads, NEW a \in Agents, EndsCall(a, t), dialog[a] # None
  PROVE  Has(a, Delete)'
  BY WorksHas DEF EndsCall

LEMMA EndingCalleeStays ==
  ASSUME Base, EndingCallee, In # None, In' # None, NEW t \in Threads, Acts(t)
  PROVE  EndingCallee'
  <1>1. CASE Has(Callee, Delete)
    BY <1>1, DeleteStays, Pair DEF EndingCallee, In
  <1>2. CASE Has(Callee, SetEnd)
    BY <1>2, SetEndDone, EndDeletes, Pair DEF EndingCallee, In
  <1>3. CASE ByeSent
    <2>1. Has(Caller, Send(ByeMsg(Callee))) /\ ~Has(Caller, Send(ByeMsg(Callee)))' => ByeMsg(Callee) \in wire'
      BY ByeDone, Pair
    <2>2. ByeMsg(Callee) \in wire /\ ByeMsg(Callee) \notin wire' => Has(Callee, SetEnd)'
      BY ByeTaken, Pair
    <2> QED
      BY <1>3, <2>1, <2>2 DEF EndingCallee, ByeSent, ByeMsg
  <1> QED
    BY <1>1, <1>2, <1>3 DEF EndingCallee

LEMMA EndingCallerStays ==
  ASSUME Base, EndingCaller, Out # None, Out' # None, NEW t \in Threads, Acts(t)
  PROVE  EndingCaller'
  <1>1. CASE Has(Caller, Delete)
    BY <1>1, DeleteStays, Pair DEF EndingCaller, Out
  <1>2. CASE Has(Caller, SetEnd)
    BY <1>2, SetEndDone, EndDeletes, Pair DEF EndingCaller, ByeReaches, Out
  <1>3. CASE ByeFlies
    <2>1. Has(Callee, Send(ByeMsg(Caller))) /\ ~Has(Callee, Send(ByeMsg(Caller)))' => ByeMsg(Caller) \in wire'
      BY ByeDone, Pair
    <2>2. ByeMsg(Caller) \in wire /\ ByeMsg(Caller) \notin wire' => Has(Caller, SetEnd)'
      BY ByeTaken, Pair
    <2> QED
      BY <1>3, <2>1, <2>2 DEF EndingCaller, ByeReaches, ByeFlies, ByeMsg
  <1> QED
    BY <1>1, <1>2, <1>3 DEF EndingCaller, ByeReaches

(* What starts the end. *)
LEMMA ByeStep ==
  ASSUME Base, NEW t \in Threads, Acts(t), ByeReaches', ~ByeReaches
  PROVE  HangsUp(Callee, t)
  <1>1. ~Has(Caller, SetEnd)'
    <2> SUFFICES ASSUME Has(Caller, SetEnd)' PROVE FALSE
      OBVIOUS
    <2>1. ByeComes(Caller, t)
      BY CallerNewHas, CallerGetsSetEnd DEF ByeReaches
    <2> QED
      BY <2>1 DEF ByeComes, Arrives, ByeReaches, ByeFlies
  <1>2. ByeMsg(Caller) \notin wire'
    <2> SUFFICES ASSUME ByeMsg(Caller) \in wire' PROVE FALSE
      OBVIOUS
    <2>1. ByeMsg(Caller) \notin wire
      BY DEF ByeReaches, ByeFlies
    <2>2. PICK a \in Agents : Send(ByeMsg(Caller)) \in Steps(a, t) /\ ByeMsg(Caller) = ByeMsg(Peer(a))
      BY <2>1, WireStep, MessagesDiffer
    <2>3. a = Callee
      BY <2>2, MessageSame, Pair
    <2> QED
      BY <2>2, <2>3, HasSteps DEF ByeReaches, ByeFlies
  <1>3. Has(Callee, Send(ByeMsg(Caller)))' /\ ~Has(Callee, Send(ByeMsg(Caller)))
    BY <1>1, <1>2 DEF ByeReaches, ByeFlies, ByeMsg
  <1> QED
    BY <1>3, CalleeNewHas, GetsByeBack DEF Send, ByeMsg

LEMMA CallerDelete ==
  ASSUME Base, Plain, NEW t \in Threads, Acts(t), Has(Caller, Delete)', ~Has(Caller, Delete)
  PROVE  \/ EndsCall(Caller, t) /\ Has(Caller, SetEnd)
         \/ \E i \in Seqs, s \in Statuses : HearsNew(t, i, s) /\ Refuses(t, s)
  <1>1. \A i : ~TimesOut(t, i)
    BY DEF TimesOut, Plain
  <1>2. EndsCall(Caller, t) => Has(Caller, SetEnd)
    BY HasSteps DEF EndsCall
  <1> QED
    BY <1>1, <1>2, CallerNewHas, CallerGetsDelete DEF Takes

LEMMA OutGone ==
  ASSUME Base, Plain, NEW t \in Threads, Acts(t), Out # None, Out' = None
  PROVE  HangsUp(Caller, t) \/ Deletes(Caller, t)
  <1>1. ~CallStarts(t) /\ ~CallCancels(t) /\ ~Requests(Caller, t) /\ \A n : ~ReInvites(t, n) /\ ~Pracks(t, n) /\ ~TimesOut(t, n)
    BY NoneFacts DEF CallStarts, CallCancels, Requests, ReInvites, Pracks, TimesOut, Plain, Out
  <1>2. ~Ended(Out, Out')
    BY NoneFacts DEF Ended
  <1>3. \A i, s : ~HearsNew(t, i, s)
    BY NoneFacts DEF HearsNew, ResponseTaken, Rings100, Connects, Retries, Renewed, RefusesAgain, Refuses
  <1> QED
    BY <1>1, <1>2, <1>3, OutStep

LEMMA InGone ==
  ASSUME Base, NEW t \in Threads, Acts(t), In # None, In' = None
  PROVE  \/ HangsUp(Callee, t) \/ Deletes(Callee, t)
         \/ \E i \in Seqs, s \in {Decline, Moved} : Rejects(t, i, s) /\ Asks(i)
  <1>1. ~Requests(Callee, t) /\ ~Ended(In, In') /\ \A i : ~Accepts(t, i)
    BY NoneFacts DEF Requests, Ended, Accepts, In
  <1>2. \A i, s : Rejects(t, i, s) => Asks(i)
    BY NoneFacts DEF Rejects, Asks
  <1> QED
    BY <1>1, <1>2, InStep

LEMMA InComes ==
  ASSUME Base, NEW t \in Threads, Acts(t), In = None, In' # None
  PROVE  \E i \in Seqs : Inserts(t, i) /\ Inserting(i)
  <1>1. \A i : Inserts(t, i) /\ i \in Seqs => Inserting(i)
    BY HasSteps DEF Inserts, Inserting
  <1> QED
    BY <1>1, NoneFacts, InStep DEF HangsUp, Deletes, Requests, Accepts, Rejects, In

LEMMA Received ==
  ASSUME Base, NEW t \in Threads, Acts(t), NEW i \in Seqs, ist[Callee][i] = None, ist'[Callee][i] # None
  PROVE  \E S : InviteComes(t, i, S)
  <1>1. ~CallerActs(t)
    BY CalleeRestsThen DEF CalleeRests
  <1>2. ~Nothing
    BY DEF Nothing
  <1>3. CalleeActs(t)
    BY <1>1, <1>2, Whose
  <1>4. \A j \in Seqs : \A s : ~SendsAnswer(t, j, s) /\ ~GivesUp(t, j)
    BY NoneFacts DEF SendsAnswer, GivesUp, IstBecomes
  <1>5. \A n, b : ~AckComes(n, b)
    BY NoneFacts DEF AckComes, IstBecomes
  <1>6. \A j \in Seqs : \A S : InviteComes(t, j, S) => j = i
    BY DEF InviteComes, IstBecomes
  <1> QED
    BY <1>3, <1>4, <1>5, <1>6 DEF CalleeActs, HangsUp, Requests, Rejects, Accepts, Rings, Inserts, AnswersAgain, PrackComes,
       SendsOther, Tells, Deletes, EndsCall, CancelComes, ByeComes, Rest

-----------------------------------------------------------------------------
(* A user who has no call any more has told the other one.                 *)
Waits(i) == Given(i) < 200 /\ ~PendingFinal(i)
Accepting(i) == Given(i) = 200 \/ Pending(i, Ok)

EndsOf(i) ==
  /\ Waits(i) => Out # None /\ ~EndingCaller
  /\ Out # None /\ In = None /\ ist[Callee][i] # None /\ Given(i) < 200 => Inserting(i) \/ PendingFinal(i)
  /\ \A t \in Threads : Delete \in Steps(Callee, t) =>
       Send(Answer(i, Terminated)) \in Steps(Callee, t) \/ Given(i) >= 200 \/ Out = None
  /\ ~Cancelled /\ In = None /\ Accepting(i) => EndingCaller
  /\ ~Cancelled /\ ByeReaches => Accepting(i)
  /\ ~Cancelled /\ Has(Caller, Delete) => Accepting(i) \/ Closed(i)

EndsInv ==
  /\ Out = None /\ In # None => EndingCallee
  /\ Has(Caller, Delete) /\ In # None => EndingCallee
  /\ ByeReaches => In = None
  /\ \A i \in Seqs : Last(i) => EndsOf(i)

LEMMA StartsEnds ==
  ASSUME Base, Numbers, CancelRight, NEW t \in Threads, CallStarts(t)
  PROVE  EndsInv'
  <1>1. /\ In' = None /\ wire' = {} /\ Out' # None
        /\ \A x : ~Has(Callee, x)' /\ (Has(Caller, x)' => x = Send(InviteMsg(1)))
        /\ \A i \in Seqs : ist'[Callee][i] = None /\ Given(i)' = 0
    BY StartsClean
  <1>2. ~Has(Caller, SetEnd)' /\ ~Has(Caller, Delete)'
    BY <1>1, StepsDiffer
  <1>3. ~ByeReaches' /\ ~EndingCaller'
    BY <1>1, <1>2 DEF ByeReaches, EndingCaller, ByeFlies
  <1>4. \A i \in Seqs : ~Accepting(i)'
    BY <1>1 DEF Accepting, Pending
  <1>5. \A u \in Threads : Delete \notin Steps(Callee, u)'
    BY <1>1 DEF Has
  <1>6. \A i \in Seqs : EndsOf(i)'
    BY <1>1, <1>2, <1>3, <1>4, <1>5 DEF EndsOf
  <1> QED
    BY <1>1, <1>2, <1>3, <1>6 DEF EndsInv

LEMMA RenewalEnds ==
  ASSUME Base, Numbers, CalleeInv, FinalInv, LetsGo, Heeded, Plain, EndsInv, NEW t \in Threads, Acts(t),
         NEW j \in Seqs, NEW k \in Seqs, NEW s \in Statuses, Renewal(t, j, s, k)
  PROVE  EndsInv'
  <1>1. /\ ~Cancelled /\ Last(j) /\ Given(j) = s /\ s >= 300
        /\ In' = None /\ ist' = ist /\ wire' \subseteq wire
        /\ \A u \in Threads : Steps(Callee, u)' = Steps(Callee, u)
        /\ \A i \in Seqs : ~Open(i) /\ (Last(i)' => i = k)
        /\ ist[Callee][k] = None /\ Given(k)' = 0
        /\ Out' # None
    BY RenewalFacts
  <1>2. ~Accepting(j)
    <2>1. Final(Ok) /\ Ok \in Statuses /\ ~PendingFinal(j)
      BY <1>1, FinalStatuses, StatusFacts DEF Open
    <2> QED
      BY <1>1, <2>1 DEF Accepting, PendingFinal
  <1>3. ~Closed(j)
    <2>1. ict[Caller][j] \in Transaction /\ ict[Caller][j].status # s
      BY DEF Renewal, HearsNew
    <2> QED
      BY <1>1, <2>1, NoneFacts DEF Closed, Heard, FinalInv, OneFinal
  <1>4. ~EndingCaller
    BY <1>1, <1>2, <1>3 DEF EndsInv, EndsOf, EndingCaller
  <1>5. \A x : Has(Callee, x)' <=> Has(Callee, x)
    BY <1>1 DEF Has
  <1>6. \A x : Has(Caller, x)' => Has(Caller, x) \/ \E m : x = Send(m)
    BY WorksHas, Pair DEF Renewal, Retries
  <1>7. ~Has(Caller, SetEnd)' /\ ~Has(Caller, Delete)'
    BY <1>4, <1>6, StepsDiffer DEF EndingCaller, ByeReaches
  <1>8. ~ByeReaches' /\ ~EndingCaller'
    <2>1. ByeMsg(Caller) \notin wire' /\ ~Has(Callee, Send(ByeMsg(Caller)))'
      BY <1>1, <1>4, <1>5 DEF EndingCaller, ByeReaches, ByeFlies
    <2> QED
      BY <1>7, <2>1 DEF EndingCaller, ByeReaches, ByeFlies, ByeMsg, Send
  <1>9. ~Has(Callee, Delete)
    BY <1>1 DEF LetsGo, LetGo
  <1>10. EndsOf(k)'
    <2>1. ~Accepting(k)'
      <3>1. Final(Ok) /\ Ok \in Statuses /\ ~PendingFinal(k)
        BY <1>1, FinalStatuses, StatusFacts DEF Open, Renewal
      <3>2. ~Pending(k, Ok)'
        BY <1>5, <3>1 DEF PendingFinal, Pending
      <3> QED
        BY <1>1, <3>2 DEF Accepting
    <2>2. \A u \in Threads : Delete \notin Steps(Callee, u)'
      BY <1>1, <1>9 DEF Has
    <2> QED
      BY <1>1, <1>7, <1>8, <2>1, <2>2 DEF EndsOf
  <1> QED
    BY <1>1, <1>7, <1>8, <1>10 DEF EndsInv

(* What the last INVITE is given, when there is no other. *)
LEMMA WaitsStays ==
  ASSUME Base, Numbers, OnlyReceived, Heeded, NEW t \in Threads, Acts(t), NEW i \in Seqs, Given(i)' < 200
  PROVE  Given(i) < 200 /\ (PendingFinal(i) => PendingFinal(i)')
  <1>1. Given(i) \in Nat /\ (\A s \in Statuses : s \in Nat) /\ Given(i)' >= Given(i)
    BY GivenNat, StatusFacts, GivenRises
  <1>2. Given(i)' \in Nat
    BY <1>1, GivenStep
  <1>3. ASSUME NEW s \in Statuses, Final(s), Pending(i, s), ~Pending(i, s)'
        PROVE  FALSE
    <2>1. ist[Callee][i] \in Transaction
      BY <1>3, SentFacts DEF OnlyReceived, InviteWork, Heeded, HeedsAnswer, Base
    <2>2. Given(i)' >= s
      BY <1>3, <2>1, PendingDone
    <2> QED
      BY <1>1, <1>2, <1>3, <2>2 DEF Final
  <1> QED
    BY <1>1, <1>2, <1>3 DEF PendingFinal

LEMMA AcceptingStays ==
  ASSUME Base, Numbers, OnlyReceived, Heeded, NEW t \in Threads, Acts(t), NEW i \in Seqs, OneFinal(i), Accepting(i)
  PROVE  Accepting(i)'
  <1>1. Ok \in Statuses /\ Ok = 200 /\ Final(Ok) /\ (\A s \in Statuses : s \in Nat) /\ Given(i) \in Nat
    BY StatusFacts, FinalStatuses, GivenNat DEF Ok
  <1>2. CASE Given(i) = 200
    BY <1>2, GivenFixed DEF Accepting
  <1>3. CASE Pending(i, Ok) /\ Pending(i, Ok)'
    BY <1>3 DEF Accepting
  <1>4. CASE Pending(i, Ok) /\ ~Pending(i, Ok)'
    <2>1. ist[Callee][i] \in Transaction
      BY <1>1, <1>4, SentFacts DEF OnlyReceived, InviteWork, Heeded, HeedsAnswer, Base
    <2>2. SendsAnswer(t, i, Ok) /\ Given(i)' >= 200
      BY <1>1, <1>4, <2>1, PendingDone
    <2>3. Given(i) < 200
      BY <1>1, <1>4 DEF OneFinal, PendingFinal
    <2>4. PICK s \in Statuses : SendsAnswer(t, i, s) /\ Given(i)' = s
      <3>1. Given(i)' # Given(i)
        BY <1>1, <2>2, <2>3
      <3> QED
        BY <3>1, GivenStep
    <2>5. Send(Answer(i, s)) = Send(Answer(i, Ok))
      BY <2>2, <2>4, OneAnswer, AnswerTags, Pair DEF SendsAnswer, Sends
    <2>6. s = Ok
      BY <2>5, AnswerTags
    <2> QED
      BY <1>1, <2>4, <2>6 DEF Accepting
  <1> QED
    BY <1>2, <1>3, <1>4 DEF Accepting

LEMMA AcceptingStep ==
  ASSUME Base, Numbers, OnlyReceived, CalleeInv, NEW t \in Threads, Acts(t), NEW i \in Seqs,
         Accepting(i)', ~Accepting(i)
  PROVE  In' # None
  <1>1. Ok \in Statuses /\ Ok = 200 /\ Final(Ok) /\ (\A s \in Statuses : s \in Nat)
        /\ Ok \notin {Decline, Moved, NotAcceptable, Unauthorized, Terminated}
    BY StatusFacts, FinalStatuses DEF Ok, Decline, Moved, NotAcceptable, Unauthorized, Terminated
  <1>2. ~(Given(i)' = 200 /\ Given(i)' # Given(i))
    <2> SUFFICES ASSUME Given(i)' = 200, Given(i)' # Given(i) PROVE FALSE
      OBVIOUS
    <2>1. PICK s \in Statuses : Given(i)' = s /\ Pending(i, s)
      BY GivenUp
    <2> QED
      BY <1>1, <2>1 DEF Accepting
  <1>3. Pending(i, Ok)' /\ ~Pending(i, Ok)
    BY <1>2 DEF Accepting
  <1>4. PICK u \in Threads : (Send(Answer(i, Ok)) \in Steps(Callee, u))'
    BY <1>3 DEF Pending, Has
  <1>5. Send(Answer(i, Ok)) \in Steps(Callee, u)' /\ Send(Answer(i, Ok)) \notin Steps(Callee, u)
    BY <1>3, <1>4, HasSteps DEF Pending, Send, Answer, Ok
  <1>6. Accepts(t, i)
    BY <1>1, <1>5, NewFinal
  <1> QED
    BY <1>6, NoneFacts DEF Accepts

-----------------------------------------------------------------------------
(* How the end of the call is told. *)
LEMMA InsertWaits ==
  ASSUME CalleeInv, EndsInv, NEW i \in Seqs, Inserting(i)
  PROVE  Last(i) /\ Out # None /\ ~EndingCaller
  BY DEF CalleeInv, Open, OneInsert, EndsInv, EndsOf, Waits

(* A final answer that the caller hears was given. *)
LEMMA HeardGiven ==
  ASSUME Base, Numbers, CalleeInv, Heeded, Out # None, NEW t \in Threads, NEW j \in Seqs, NEW s \in Statuses,
         HearsNew(t, j, s), Refuses(t, s)
  PROVE  Last(j) /\ Given(j) >= 300 /\ Heard(j)' >= 300 /\ In' = In
  <1>1. Answer(j, s) \in wire /\ s >= 300 /\ In' = In
    BY DEF HearsNew, Hears, Refuses, ResponseTaken
  <1>2. s <= Given(j) /\ Given(j) \in Nat /\ s \in Nat
    BY <1>1, GivenNat, StatusFacts DEF Heeded, HeedsAnswer
  <1>3. Last(j)
    BY HeardLast DEF CalleeInv, Last
  <1> QED
    BY <1>1, <1>2, <1>3, HeardNow

LEMMA HeldGiven == ASSUME Base, Heeded, NEW i \in Seqs, Closed(i) PROVE Given(i) >= 200
  <1>1. Heard(i) <= Given(i) /\ (ict[Caller][i] = Gone => Given(i) >= 200)
    BY DEF Heeded, HeedsAnswer
  <1>2. Heard(i) \in Nat /\ Given(i) \in Nat
    BY HeardNat, GivenNat
  <1> QED
    BY <1>1, <1>2 DEF Closed

LEMMA DialogOrEnding ==
  ASSUME Base, Numbers, CalleeInv, Heeded, EndsInv, Plain, NEW t \in Threads, Acts(t), ~CallStarts(t)
  PROVE  /\ Out' = None /\ In' # None => EndingCallee'
         /\ Has(Caller, Delete)' /\ In' # None => EndingCallee'
         /\ ByeReaches' => In' = None
  <1>1. ASSUME In = None, In' # None
        PROVE  Out # None /\ ~EndingCaller /\ dialog'[Caller] = dialog[Caller] /\ CalleeActs(t)
    <2>1. PICK i \in Seqs : Inserts(t, i) /\ Inserting(i)
      BY <1>1, InComes
    <2>2. CalleeActs(t)
      BY <2>1 DEF CalleeActs
    <2> QED
      BY <2>1, <2>2, InsertWaits, CallerRestsThen DEF CallerRests, Out
  <1>2. ASSUME EndingCallee, In # None, In' # None
        PROVE  EndingCallee'
    BY <1>2, EndingCalleeStays
  <1>3. ASSUME Out' = None, In' # None
        PROVE  EndingCallee'
    <2>1. CASE Out = None
      BY <1>1, <1>2, <1>3, <2>1 DEF EndsInv
    <2>2. CASE HangsUp(Caller, t)
      BY <2>2, WorksHas, Pair DEF HangsUp, EndingCallee, ByeSent, Send, ByeMsg
    <2>3. CASE Deletes(Caller, t) /\ Out # None
      <3>1. Has(Caller, Delete) /\ In' = In
        BY <2>3, HasSteps, Pair DEF Deletes, In
      <3> QED
        BY <1>2, <1>3, <3>1 DEF EndsInv
    <2> QED
      BY <1>3, <2>1, <2>2, <2>3, OutGone
  <1>4. ASSUME Has(Caller, Delete)', In' # None
        PROVE  EndingCallee'
    <2>1. CASE Has(Caller, Delete)
      BY <1>1, <1>2, <1>4, <2>1 DEF EndsInv, EndingCaller
    <2>2. CASE ~Has(Caller, Delete) /\ EndsCall(Caller, t) /\ Has(Caller, SetEnd)
      <3>1. In = None
        BY <2>2 DEF EndsInv, ByeReaches
      <3> QED
        BY <1>1, <1>4, <2>2, <3>1 DEF EndingCaller, ByeReaches
    <2>3. ASSUME NEW j \in Seqs, NEW s \in Statuses, HearsNew(t, j, s), Refuses(t, s)
          PROVE  EndingCallee'
      <3>1. Out # None
        BY <2>3, NoneFacts DEF Refuses
      <3>2. Last(j) /\ Given(j) >= 300 /\ In' = In
        BY <2>3, <3>1, HeardGiven
      <3>3. Given(j) \in Nat
        BY GivenNat
      <3>4. Has(Callee, Delete)
        BY <1>4, <3>2, <3>3, RefusedDeletes
      <3> QED
        BY <1>2, <1>4, <3>2, <3>4 DEF EndingCallee
    <2> QED
      BY <1>4, <2>1, <2>2, <2>3, CallerDelete
  <1>5. ASSUME ByeReaches'
        PROVE  In' = None
    <2>1. CASE ByeReaches
      BY <1>1, <2>1 DEF EndsInv, EndingCaller
    <2>2. CASE HangsUp(Callee, t)
      BY <2>2 DEF HangsUp, In
    <2> QED
      BY <1>5, <2>1, <2>2, ByeStep
  <1> QED
    BY <1>3, <1>4, <1>5

LEMMA WaitingCall ==
  ASSUME Base, Numbers, OnlyReceived, CalleeInv, Heeded, CallerInv, EndsInv, Plain, NEW t \in Threads, Acts(t),
         NEW i \in Seqs, Last(i), Waits(i)'
  PROVE  Out' # None /\ ~EndingCaller'
  <1>1. Waits(i)
    BY WaitsStays DEF Waits
  <1>2. Out # None /\ ~EndingCaller /\ Given(i) < 200 /\ ~PendingFinal(i) /\ Given(i) \in Nat
    BY <1>1, GivenNat DEF EndsInv, EndsOf, Waits
  <1>3. Out' # None
    <2>1. ~Deletes(Caller, t)
      BY <1>2, HasSteps DEF Deletes, EndingCaller
    <2>2. ~HangsUp(Caller, t)
      <3> SUFFICES ASSUME HangsUp(Caller, t) PROVE FALSE
        OBVIOUS
      <3>1. Out.start
        BY DEF HangsUp, Out
      <3>2. Closed(i)
        BY <1>2, <3>1 DEF CallerInv, CallerKnows
      <3> QED
        BY <1>2, <3>2, HeldGiven
    <2> QED
      BY <1>2, <2>1, <2>2, OutGone
  <1>4. ~ByeReaches'
    <2> SUFFICES ASSUME HangsUp(Callee, t) PROVE FALSE
      BY <1>2, ByeStep DEF EndingCaller
    <2>1. In # None /\ In.start
      BY NoneFacts DEF HangsUp, In
    <2>2. Pending(i, Ok)
      BY <1>2, <2>1 DEF CalleeInv, Answering
    <2> QED
      BY <1>2, <2>2, FinalStatuses, StatusFacts DEF PendingFinal
  <1>5. ~Has(Caller, Delete)'
    <2> SUFFICES ASSUME NEW j \in Seqs, NEW s \in Statuses, HearsNew(t, j, s), Refuses(t, s) PROVE FALSE
      BY <1>2, CallerDelete DEF EndingCaller, ByeReaches
    <2>1. Last(j) /\ Given(j) >= 300
      BY <1>2, HeardGiven
    <2>2. j = i
      BY <2>1, OneLast
    <2> QED
      BY <1>2, <2>1, <2>2
  <1> QED
    BY <1>3, <1>4, <1>5 DEF EndingCaller

LEMMA NoDialogWaits ==
  ASSUME Base, Numbers, OnlyReceived, CalleeInv, Heeded, EndsInv, Plain, NEW t \in Threads, Acts(t), ~CallStarts(t),
         NEW i \in Seqs, Last(i), Out' # None, In' = None, ist'[Callee][i] # None, Given(i)' < 200
  PROVE  Inserting(i)' \/ PendingFinal(i)'
  <1>1. Out # None
    BY OutNone
  <1>2. Given(i) < 200 /\ (PendingFinal(i) => PendingFinal(i)') /\ Given(i) \in Nat
    BY WaitsStays, GivenNat
  <1>3. CASE ist[Callee][i] = None
    <2>1. PICK S : InviteComes(t, i, S)
      BY <1>3, Received
    <2>2. Works(Callee, t, S) /\ InviteMsg(i) \in wire /\ InviteAnswers(i, S)
      BY <2>1 DEF InviteComes, Arrives
    <2>3. \A x \in S : Has(Callee, x)'
      BY <2>2, WorksHas, Pair
    <2>4. In = None
      BY <2>2, InviteIsNew
    <2>5. CASE Send(Answer(i, NotAcceptable)) \in S
      BY <2>3, <2>5, FinalStatuses, StatusFacts DEF PendingFinal, Pending, Send, Answer, NotAcceptable
    <2>6. CASE Send(Answer(i, Unauthorized)) \in S
      BY <2>3, <2>6, FinalStatuses, StatusFacts DEF PendingFinal, Pending, Send, Answer, Unauthorized
    <2>7. CASE InsertStep(i) \in S
      BY <2>3, <2>7 DEF Inserting, InsertStep
    <2> QED
      BY <2>2, <2>4, <2>5, <2>6, <2>7 DEF InviteAnswers
  <1>4. CASE ist[Callee][i] # None /\ In = None
    <2>1. Inserting(i) \/ PendingFinal(i)
      BY <1>1, <1>2, <1>4 DEF EndsInv, EndsOf
    <2>2. ASSUME Inserting(i), ~Inserting(i)'
          PROVE  FALSE
      <3> DEFINE x == InsertStep(i)
      <3>1. /\ \A m : x # Send(m)
            /\ \A e : x # Tell(e)
            /\ x # Delete /\ x # SetEnd
            /\ \A j : x # AnswerStep(j) /\ (x = InsertStep(j) => i = j)
        BY InsertTags
      <3>2. PICK u \in Threads : x \in Steps(Callee, u) /\ x \notin Steps(Callee, u)'
        BY <2>2 DEF Inserting, Has
      <3> HIDE DEF x
      <3>3. Inserts(t, i)
        BY <3>1, <3>2, StepDone, Pair
      <3> QED
        BY <1>4, <3>3, NoneFacts DEF Inserts
    <2> QED
      BY <1>2, <2>1, <2>2
  <1>5. CASE In # None
    <2>1. CASE HangsUp(Callee, t)
      <3>1. In.start
        BY <2>1 DEF HangsUp, In
      <3>2. Pending(i, Ok)
        BY <1>2, <1>5, <3>1 DEF CalleeInv, Answering
      <3> QED
        BY <1>2, <3>2, FinalStatuses, StatusFacts DEF PendingFinal
    <2>2. CASE Deletes(Callee, t)
      <3>1. Steps(Callee, t) = {Delete}
        BY <2>2 DEF Deletes
      <3> QED
        BY <1>1, <1>2, <3>1, AnswerTags DEF EndsInv, EndsOf
    <2>3. ASSUME NEW j \in Seqs, NEW s \in {Decline, Moved}, Rejects(t, j, s), Asks(j)
          PROVE  PendingFinal(i)'
      <3>1. j = i
        BY <2>3, OneLast DEF CalleeInv, Open
      <3>2. Pending(i, s)'
        BY <2>3, <3>1, WorksHas, Pair DEF Rejects, Pending, Send, Answer
      <3> QED
        BY <3>2, FinalStatuses, StatusFacts DEF PendingFinal
    <2> QED
      BY <1>5, <2>1, <2>2, <2>3, InGone
  <1> QED
    BY <1>3, <1>4, <1>5

-----------------------------------------------------------------------------
(* What deletes the callee's dialog answers the INVITE, or the caller has  *)
(* no call any more.                                                       *)
LEMMA DeleteAnswers ==
  ASSUME Base, Numbers, OnlyReceived, CalleeInv, LetsGo, Heeded, EndsInv, Plain, NEW t \in Threads, Acts(t),
         ~CallStarts(t), NEW i \in Seqs, Last(i), NEW u \in Threads, Delete \in Steps(Callee, u)'
  PROVE  (Send(Answer(i, Terminated)) \in Steps(Callee, u))' \/ Given(i)' >= 200 \/ Out' = None
  <1>1. CASE Delete \in Steps(Callee, u)
    <2>1. CASE Send(Answer(i, Terminated)) \in Steps(Callee, u)
      <3>1. SUFFICES ASSUME Send(Answer(i, Terminated)) \notin Steps(Callee, u)'
                     PROVE  Given(i)' >= 200
        BY DEF Send, Answer, Terminated
      <3>2. Terminated \in Statuses /\ Pending(i, Terminated)
        BY <2>1, StatusFacts DEF Pending, Has, Terminated, Statuses
      <3>3. ist[Callee][i] \in Transaction
        BY <3>2, SentFacts DEF OnlyReceived, InviteWork, Heeded, HeedsAnswer, Base
      <3>4. Given(i)' >= Terminated
        BY <2>1, <3>1, <3>2, <3>3, AnswerDone
      <3>5. Given(i)' \in Nat
        BY GivenNat, StatusFacts, GivenStep
      <3> QED
        BY <3>4, <3>5 DEF Terminated
    <2>2. CASE Given(i) >= 200
      <3>1. Given(i) \in Nat /\ Given(i)' >= Given(i)
        BY GivenNat, GivenRises
      <3>2. Given(i)' \in Nat
        BY <3>1, GivenStep, StatusFacts
      <3> QED
        BY <2>2, <3>1, <3>2
    <2>3. CASE Out = None
      BY <2>3, OutNone
    <2> QED
      BY <1>1, <2>1, <2>2, <2>3 DEF EndsInv, EndsOf
  <1>2. CASE Delete \notin Steps(Callee, u)
    <2>1. u = t /\ CalleeGets(t, Delete)
      BY <1>2, CalleeNew
    <2>2. CASE EndsCall(Callee, t)
      <3>1. Has(Callee, SetEnd)
        BY <2>2 DEF EndsCall, Has
      <3> QED
        BY <3>1, OutNone DEF LetsGo
    <2>3. CASE CancelComes(t) /\ In \in Dialog /\ ~In.start /\ In.invite \in Seqs
      <3>1. In # None
        BY <2>3, NoneFacts
      <3>2. In.invite = i
        BY <2>3, <3>1, OneLast DEF CalleeInv, Open, Asks
      <3>3. Works(Callee, t, {Send(Answer(i, Terminated)), Tell("end"), Delete})
        BY <2>3, <3>1, <3>2 DEF CancelComes
      <3> QED
        BY <2>1, <3>3, Pair DEF Works, Send, Answer, Terminated
    <2>4. CASE \E j \in Seqs : GivesUp(t, j)
      BY <2>4 DEF GivesUp, Plain
    <2> QED
      BY <2>1, <2>2, <2>3, <2>4, GetsDelete
  <1> QED
    BY <1>1, <1>2

(* Whoever has no call any more was told of its end. *)
LEMMA NotCancelled ==
  ASSUME Base, Numbers, LetsGo, NEW t \in Threads, Acts(t), ~CallStarts(t), ~Cancelled'
  PROVE  ~Cancelled /\ Out # None /\ Out' # None /\ ~Has(Callee, Delete) /\ ~Has(Callee, SetEnd) /\ ~ByeSent
  <1>1. ~Cancelled
    BY CancelledStays
  <1>2. Out' # None
    BY DEF Cancelled, Out
  <1> QED
    BY <1>1, <1>2 DEF Cancelled, LetsGo, LetGo

LEMMA AcceptedEnds ==
  ASSUME Base, Numbers, OnlyReceived, CalleeInv, LetsGo, Heeded, FinalInv, EndsInv, Plain, NEW t \in Threads, Acts(t),
         ~CallStarts(t), NEW i \in Seqs, Last(i), ~Cancelled', In' = None, Accepting(i)'
  PROVE  EndingCaller'
  <1>1. ~Cancelled /\ Out # None /\ Out' # None /\ ~Has(Callee, Delete)
    BY NotCancelled
  <1>2. Accepting(i)
    BY AcceptingStep DEF In
  <1>3. CASE In = None
    <2>1. EndingCaller
      BY <1>1, <1>2, <1>3 DEF EndsInv, EndsOf
    <2> QED
      BY <1>1, <2>1, EndingCallerStays
  <1>4. CASE HangsUp(Callee, t)
    BY <1>4, WorksHas, Pair DEF HangsUp, EndingCaller, ByeReaches, ByeFlies, Send, ByeMsg
  <1>5. CASE Deletes(Callee, t)
    BY <1>1, <1>5, HasSteps DEF Deletes
  <1>6. ASSUME NEW j \in Seqs, NEW s \in {Decline, Moved}, Rejects(t, j, s), Asks(j)
        PROVE  FALSE
    <2>1. j = i
      BY <1>6, OneLast DEF CalleeInv, Open
    <2>2. CASE Given(i) = 200
      BY <1>1, <1>6, <2>1, <2>2 DEF CalleeInv, Answering
    <2>3. CASE Pending(i, Ok)
      <3>1. Ok \in Statuses /\ Final(Ok) /\ Ok # Terminated
        BY FinalStatuses, StatusFacts DEF Ok, Terminated
      <3> QED
        BY <1>6, <2>1, <2>3, <3>1 DEF CalleeInv, Answering
    <2> QED
      BY <1>2, <2>2, <2>3 DEF Accepting
  <1> QED
    BY <1>3, <1>4, <1>5, <1>6, InGone

LEMMA ByeAccepted ==
  ASSUME Base, Numbers, OnlyReceived, CalleeInv, LetsGo, Heeded, FinalInv, EndsInv, Plain, NEW t \in Threads, Acts(t),
         ~CallStarts(t), NEW i \in Seqs, Last(i), ~Cancelled'
  PROVE  /\ ByeReaches' => Accepting(i)'
         /\ Has(Caller, Delete)' => Accepting(i)' \/ Closed(i)'
  <1>1. ~Cancelled /\ Out # None /\ Out' # None /\ ~Has(Callee, Delete) /\ OneFinal(i)
    BY NotCancelled DEF FinalInv
  <1>2. Accepting(i) => Accepting(i)'
    BY <1>1, AcceptingStays
  <1>3. ASSUME ByeReaches'
        PROVE  Accepting(i)'
    <2>1. CASE ByeReaches
      BY <1>1, <1>2, <2>1 DEF EndsInv, EndsOf
    <2>2. CASE HangsUp(Callee, t)
      <3>1. In # None /\ In.start
        BY <2>2, NoneFacts DEF HangsUp, In
      <3>2. (Given(i) >= 200 \/ Pending(i, Ok)) /\ ~(Given(i) > 200)
        BY <1>1, <3>1 DEF CalleeInv, Answering
      <3>3. Given(i) \in Nat
        BY GivenNat
      <3>4. Accepting(i)
        BY <3>2, <3>3 DEF Accepting
      <3> QED
        BY <1>2, <3>4
    <2> QED
      BY <1>3, <2>1, <2>2, ByeStep
  <1>4. ASSUME Has(Caller, Delete)'
        PROVE  Accepting(i)' \/ Closed(i)'
    <2>1. CASE Has(Caller, Delete)
      <3>1. Accepting(i) \/ Closed(i)
        BY <1>1, <2>1 DEF EndsInv, EndsOf
      <3> QED
        BY <1>2, <3>1, ClosedStays
    <2>2. CASE Has(Caller, SetEnd)
      BY <1>1, <1>2, <2>2 DEF EndsInv, EndsOf, ByeReaches
    <2>3. ASSUME NEW j \in Seqs, NEW s \in Statuses, HearsNew(t, j, s), Refuses(t, s)
          PROVE  Closed(i)'
      <3>1. Last(j) /\ Heard(j)' >= 300
        BY <1>1, <2>3, HeardGiven
      <3>2. j = i
        BY <3>1, OneLast
      <3>3. Heard(i)' \in Nat
        BY <2>3, <3>2, HeardNow, StatusFacts
      <3> QED
        BY <3>1, <3>2, <3>3 DEF Closed
    <2> QED
      BY <1>4, <2>1, <2>2, <2>3, CallerDelete
  <1> QED
    BY <1>3, <1>4

LEMMA EndsInvStep ==
  ASSUME Base, Numbers, OnlyReceived, CancelRight, CalleeInv, FinalInv, LetsGo, Heeded, CallerInv, EndsInv, Plain,
         NEW t \in Threads, Acts(t)
  PROVE  EndsInv'
  <1>1. CASE CallStarts(t)
    BY <1>1, StartsEnds
  <1>2. ASSUME NEW j \in Seqs, NEW k \in Seqs, NEW s \in Statuses, Renewal(t, j, s, k)
        PROVE  EndsInv'
    BY <1>2, RenewalEnds
  <1>3. CASE SameMade /\ ~CallStarts(t)
    <2>1. ASSUME NEW i \in Seqs, Last(i)'
          PROVE  EndsOf(i)'
      <3>1. Last(i)
        BY <1>3, <2>1, SameLast
      <3>2. Waits(i)' => Out' # None /\ ~EndingCaller'
        BY <3>1, WaitingCall
      <3>3. Out' # None /\ In' = None /\ ist'[Callee][i] # None /\ Given(i)' < 200 => Inserting(i)' \/ PendingFinal(i)'
        BY <1>3, <3>1, NoDialogWaits
      <3>4. \A u \in Threads : Delete \in Steps(Callee, u)' =>
              (Send(Answer(i, Terminated)) \in Steps(Callee, u))' \/ Given(i)' >= 200 \/ Out' = None
        BY <1>3, <3>1, DeleteAnswers
      <3>5. ~Cancelled' /\ In' = None /\ Accepting(i)' => EndingCaller'
        BY <1>3, <3>1, AcceptedEnds
      <3>6. ~Cancelled' => (ByeReaches' => Accepting(i)') /\ (Has(Caller, Delete)' => Accepting(i)' \/ Closed(i)')
        BY <1>3, <3>1, ByeAccepted
      <3> QED
        BY <3>2, <3>3, <3>4, <3>5, <3>6 DEF EndsOf, Send, Answer, Terminated
    <2>2. /\ Out' = None /\ In' # None => EndingCallee'
          /\ Has(Caller, Delete)' /\ In' # None => EndingCallee'
          /\ ByeReaches' => In' = None
      BY <1>3, DialogOrEnding
    <2> QED
      BY <2>1, <2>2 DEF EndsInv
  <1> QED
    BY <1>1, <1>2, <1>3, MadeKinds

-----------------------------------------------------------------------------
(* When nothing is under way the two users agree. *)
AgreeInv == Heeded /\ LetsGo /\ CalleeInv /\ FinalInv /\ CallerInv /\ EndsInv

LEMMA AgreeInvInit == ASSUME Init PROVE AgreeInv
  <1>1. /\ \A a \in Agents, t \in Threads : Steps(a, t) = {}
        /\ \A a \in Agents : \A s : ~Has(a, s)
        /\ \A i \in Seqs : ict[Caller][i] = None /\ ist[Callee][i] = None
        /\ wire = {} /\ Out = None /\ In = None
    BY InitLists
  <1>2. \A s : ~Has(Caller, s) /\ ~Has(Callee, s)
    BY <1>1, Pair
  <1>3. \A i \in Seqs : Given(i) = 0 /\ Heard(i) = 0 /\ ~Made(i)
    BY <1>1, <1>2, NoneFacts DEF Given, Heard, Made
  <1>4. Heeded
    BY <1>1, <1>3, NoneFacts DEF Heeded, HeedsAnswer
  <1>5. LetsGo
    BY <1>1, <1>2 DEF LetsGo, ByeSent, Pending
  <1>6. CalleeInv
    <2>1. \A i \in Seqs : ~Open(i) /\ ~Inserting(i) /\ ~Asks(i)
      BY <1>1, <1>2 DEF Open, Inserting, Asks, PendingFinal, Pending
    <2>2. \A i \in Seqs : OneInsert(i) /\ Answering(i)
      BY <1>1, <1>2, <2>1, Pair DEF OneInsert, Answering, Pending
    <2> QED
      BY <1>2, <1>3, <2>1, <2>2 DEF CalleeInv, Replaced
  <1>7. FinalInv /\ CallerInv
    BY <1>1 DEF FinalInv, CallerInv, Cancelled
  <1>8. EndsInv
    BY <1>1, <1>2, <1>3 DEF EndsInv, ByeReaches, ByeFlies, Last
  <1> QED
    BY <1>4, <1>5, <1>6, <1>7, <1>8 DEF AgreeInv

LEMMA SameAgree == ASSUME AgreeInv, UNCHANGED vars PROVE AgreeInv'
  <1>1. /\ Out' = Out /\ In' = In /\ wire' = wire /\ ict' = ict /\ ist' = ist
        /\ \A a, t : Steps(a, t)' = Steps(a, t)
    BY DEF vars, Steps, Out, In
  <1>2. \A a, s : Has(a, s)' <=> Has(a, s)
    BY <1>1 DEF Has
  <1>3. \A i : Given(i)' = Given(i) /\ Heard(i)' = Heard(i) /\ (Made(i)' <=> Made(i))
    BY <1>1, <1>2 DEF Given, Heard, Made
  <1>4. \A i \in Seqs : Last(i)' <=> Last(i)
    BY <1>3 DEF Last
  <1>5. \A i, s : Pending(i, s)' <=> Pending(i, s)
    BY <1>2 DEF Pending, Send, Answer
  <1>6. /\ ByeSent' <=> ByeSent
        /\ ByeFlies' <=> ByeFlies
    BY <1>1, <1>2 DEF ByeSent, ByeFlies, ByeMsg, Send
  <1>7. Heeded'
    BY <1>1, <1>3 DEF AgreeInv, Heeded, HeedsAnswer, Answer
  <1>8. LetsGo'
    BY <1>1, <1>2, <1>5, <1>6 DEF AgreeInv, LetsGo, LetGo, Cancelled, SetEnd, Delete, Terminated
  <1>9. CalleeInv'
    <2>1. \A i \in Seqs : /\ PendingFinal(i)' <=> PendingFinal(i)
                          /\ Inserting(i)' <=> Inserting(i)
                          /\ Asks(i)' <=> Asks(i)
      BY <1>1, <1>2, <1>5 DEF PendingFinal, Inserting, Asks, InsertStep, Final
    <2>2. ASSUME NEW i \in Seqs
          PROVE  (OneInsert(i) => OneInsert(i)') /\ (Answering(i) => Answering(i)')
                 /\ (Has(Callee, AnswerStep(i))' <=> Has(Callee, AnswerStep(i)))
                 /\ (Open(i)' <=> Open(i))
      BY <1>1, <1>2, <1>3, <1>4, <1>5, <2>1
         DEF OneInsert, Answering, Open, AnswerStep, InsertStep, Send, Answer, Terminated, Delete, Final, Ok
    <2>3. Replaced => Replaced'
      BY <1>1, <1>3 DEF Replaced, Answer
    <2> QED
      BY <1>4, <2>2, <2>3 DEF AgreeInv, CalleeInv
  <1>10. FinalInv'
    <2>1. \A i \in Seqs : OneFinal(i) => OneFinal(i)'
      BY <1>1, <1>3, <1>5 DEF OneFinal, PendingFinal, Answers, Answer, Send, Final
    <2> QED
      BY <1>1, <1>4, <2>1 DEF AgreeInv, FinalInv, Cancelled
  <1>11. CallerInv'
    BY <1>1, <1>2, <1>3, <1>4 DEF AgreeInv, CallerInv, CallerKnows, Closed, StopStep, Delete
  <1>12. EndsInv'
    <2>1. /\ EndingCallee' <=> EndingCallee
          /\ ByeReaches' <=> ByeReaches
          /\ EndingCaller' <=> EndingCaller
          /\ Has(Caller, Delete)' <=> Has(Caller, Delete)
      BY <1>2, <1>6 DEF EndingCallee, EndingCaller, ByeReaches, SetEnd, Delete
    <2>2. \A i \in Seqs : /\ Waits(i)' <=> Waits(i)
                          /\ Accepting(i)' <=> Accepting(i)
                          /\ Closed(i)' <=> Closed(i)
                          /\ Inserting(i)' <=> Inserting(i)
                          /\ PendingFinal(i)' <=> PendingFinal(i)
      BY <1>1, <1>2, <1>3, <1>5 DEF Waits, Accepting, Closed, Inserting, PendingFinal, InsertStep, Final, Ok
    <2>3. \A i \in Seqs : EndsOf(i) => EndsOf(i)'
      BY <1>1, <1>2, <1>3, <2>1, <2>2 DEF EndsOf, Cancelled, Send, Answer, Terminated, Delete
    <2> QED
      BY <1>1, <1>4, <2>1, <2>3 DEF AgreeInv, EndsInv
  <1> QED
    BY <1>7, <1>8, <1>9, <1>10, <1>11, <1>12 DEF AgreeInv

LEMMA AgreeInvStep ==
  ASSUME CallInv, AgreeInv, Plain, NEW t \in Threads, Acts(t)
  PROVE  AgreeInv'
  <1>1. Base /\ Numbers /\ OnlyReceived /\ CancelRight
    BY DEF CallInv, ChainInv
  <1>2. Heeded /\ LetsGo /\ CalleeInv /\ FinalInv /\ CallerInv /\ EndsInv
    BY DEF AgreeInv
  <1>3. Heeded'
    BY <1>1, <1>2, HeededStep
  <1>4. LetsGo'
    BY <1>1, <1>2, LetsGoStep
  <1>5. CalleeInv' /\ FinalInv'
    BY <1>1, <1>2, CalleeInvStep, FinalInvStep
  <1>6. CallerInv'
    BY <1>1, <1>2, CallerInvStep
  <1>7. EndsInv'
    BY <1>1, <1>2, EndsInvStep
  <1> QED
    BY <1>3, <1>4, <1>5, <1>6, <1>7 DEF AgreeInv

(* When nothing is under way the last INVITE was answered and the caller   *)
(* heard it; either both users have the call or neither has.               *)
LEMMA QuietAgrees ==
  ASSUME Base, Numbers, AgreeInv, Quiet
  PROVE  \/ Out = None /\ In = None
         \/ Out # None /\ In # None /\ (Out.start <=> In.start)
  <1>1. wire = {} /\ \A a \in Agents : \A s : ~Has(a, s)
    BY IdleSteps DEF Quiet, Has
  <1>2. \A s : ~Has(Caller, s) /\ ~Has(Callee, s)
    BY <1>1, Pair
  <1>3. Heeded /\ CalleeInv /\ CallerInv /\ EndsInv
    BY DEF AgreeInv
  <1>4. ~EndingCallee /\ ~EndingCaller /\ \A i, s : ~Pending(i, s)
    BY <1>1, <1>2 DEF EndingCallee, EndingCaller, ByeReaches, ByeFlies, ByeSent, Pending
  <1>5. CASE Out = None
    BY <1>3, <1>4, <1>5 DEF EndsInv
  <1>6. CASE Out # None
    <2>1. PICK i \in Seqs : Last(i)
      BY <1>6, OutLast
    <2>2. ict[Caller][i] # None /\ ist[Callee][i] # None
      BY <1>1, <1>2, <2>1 DEF Last, Made, Numbers, InviteOnce
    <2>3. CallerKnows(i) /\ EndsOf(i)
      BY <1>3, <1>6, <2>1 DEF CallerInv, EndsInv
    <2>4. Out.start /\ Out.cancel => FALSE
      BY <1>2, <2>3 DEF CallerKnows
    <2>5. ASSUME Given(i) >= 200
          PROVE  Out.start /\ Given(i) = 200 /\ ~Cancelled
      <3>1. Closed(i)
        BY <1>1, <1>3, <2>5 DEF Heeded, HeedsAnswer, Closed
      <3>2. Out.start
        BY <1>2, <2>3, <3>1 DEF CallerKnows
      <3>3. ~Out.cancel
        BY <2>4, <3>2
      <3> QED
        BY <1>6, <2>3, <3>2, <3>3 DEF CallerKnows, Cancelled
    <2>6. CASE In = None
      <3>1. Given(i) >= 200
        <4>1. ~(Given(i) < 200)
          BY <1>2, <1>4, <1>6, <2>2, <2>3, <2>6 DEF EndsOf, Inserting, PendingFinal
        <4> QED
          BY <4>1, GivenNat
      <3>2. Accepting(i) /\ ~Cancelled
        BY <2>5, <3>1 DEF Accepting
      <3> QED
        BY <1>4, <2>3, <2>6, <3>2 DEF EndsOf
    <2>7. CASE In # None
      <3>1. Answering(i)
        BY <1>3 DEF CalleeInv
      <3>2. ASSUME In.start
            PROVE  Out.start
        <4>1. Given(i) >= 200
          BY <1>4, <2>1, <2>7, <3>1, <3>2 DEF Answering
        <4> QED
          BY <2>5, <4>1
      <3>3. ASSUME Out.start, ~In.start
            PROVE  FALSE
        <4>1. In.invite \in Seqs
          <5>1. In \in Dialog /\ In.invite # 0
            BY <2>7, <3>3, Pair DEF Base, DialogsRight, In
          <5> QED
            BY <5>1, AgentAssumption DEF Dialog, Seqs
        <4>2. In.invite = i
          BY <1>3, <2>1, <2>7, <4>1, OneLast DEF CalleeInv, Open, Asks
        <4>3. Given(i) = 200
          BY <2>3, <2>4, <3>3 DEF CallerKnows
        <4> QED
          BY <1>2, <2>7, <3>1, <4>2, <4>3 DEF Answering, Asks
      <3>4. Out.start \in BOOLEAN /\ In.start \in BOOLEAN
        BY <1>6, <2>7, Pair DEF Base, DialogsRight, Out, In, Dialog
      <3> QED
        BY <1>6, <2>7, <3>2, <3>3, <3>4
    <2> QED
      BY <2>6, <2>7
  <1> QED
    BY <1>5, <1>6

LEMMA AgreeGood == ASSUME Base, Numbers, Plain => AgreeInv PROVE Agreement
  <1> SUFFICES ASSUME Quiet, Plain
               PROVE  \/ \A a \in Agents : dialog[a] = None
                      \/ /\ \A a \in Agents : dialog[a] # None
                         /\ dialog[Caller].start = dialog[Callee].start
    BY DEF Agreement, Plain
  <1>1. \/ Out = None /\ In = None
        \/ Out # None /\ In # None /\ (Out.start <=> In.start)
    BY QuietAgrees
  <1>2. Out # None /\ In # None => Out.start \in BOOLEAN /\ In.start \in BOOLEAN
    BY Pair DEF Base, DialogsRight, Out, In, Dialog
  <1> QED
    BY <1>1, <1>2, Pair DEF Out, In

(* The data are right, no request takes the number of a PRACK, and when    *)
(* nothing is under way any more both users have the call or neither has,  *)
(* and both think that it is connected or neither does, if no transaction  *)
(* timed out and there are no re-INVITEs.                                  *)
THEOREM UsersAgree == Spec => []Consistent
  <1>1. Init => CallInv /\ (Plain => AgreeInv)
    BY CallInvInit, AgreeInvInit
  <1>2. CallInv /\ (Plain => AgreeInv) /\ [Next]_vars => (CallInv /\ (Plain => AgreeInv))'
    <2>1. ASSUME CallInv, Plain => AgreeInv, Next
          PROVE  CallInv' /\ (Plain' => AgreeInv')
      <3>1. CallInv'
        BY <2>1, CallInvNext
      <3>2. scenario' = scenario /\ \E t \in Workers : Acts(t)
        BY <2>1, NextDoes DEF CallInv
      <3>3. Plain' => Plain
        BY <3>2 DEF Plain, May
      <3>4. PICK t \in Threads : Acts(t)
        BY <3>2, WorkerThreads
      <3>5. Plain' => AgreeInv'
        BY <2>1, <3>3, <3>4, AgreeInvStep
      <3> QED
        BY <3>1, <3>5
    <2>2. ASSUME CallInv, Plain => AgreeInv, UNCHANGED vars
          PROVE  CallInv' /\ (Plain' => AgreeInv')
      <3>1. CallInv'
        BY <2>2, CallInvNext
      <3>2. Plain' => Plain
        BY <2>2 DEF Plain, May, vars
      <3> QED
        BY <2>2, <3>1, <3>2, SameAgree
    <2> QED
      BY <2>1, <2>2
  <1>3. CallInv /\ (Plain => AgreeInv) => Consistent
    BY BaseType, NumbersGood, AgreeGood DEF CallInv, Consistent
  <1> QED
    BY <1>1, <1>2, <1>3, PTL DEF Spec
=============================================================================
