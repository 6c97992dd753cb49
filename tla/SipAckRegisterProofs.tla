------------------------ MODULE SipAckRegisterProofs ------------------------
(***************************************************************************)
(* Two parts of the proofs about the user agent, apart from each other:    *)
(*                                                                         *)
(* Acknowledgements (SipUserAgent).  Every ACK is for an INVITE that was   *)
(* answered, and the answers to a call that both users have are            *)
(* acknowledged: for any number of threads of each agent, any CSeqs and    *)
(* any scenarios in which no other request takes the CSeq of an ACK.       *)
(* Timeouts are allowed, so what SipUserAgentProofs says of calls without  *)
(* them is not used here, only what it says of all.                        *)
(*                                                                         *)
(* Registration (SipRegister), for every number of REGISTERs under way,    *)
(* every expiry, every patience of Stop and any number of troubles.        *)
(***************************************************************************)
EXTENDS SipUserAgentProofs, SipRegister

(* What the caller heard is what the callee answered, whether or not there *)
(* are timeouts.                                                           *)
HeardRight(i) ==
  /\ \A s \in Statuses : Answer(i, s) \in wire => s <= Given(i) /\ s > Heard(i)
  /\ Heard(i) <= Given(i)
  /\ Given(i) >= 200 => Answer(i, Given(i)) \in wire \/ ict[Caller][i] = Gone \/ Heard(i) = Given(i)
  /\ ~May("threads") /\ Heard(i) >= 200 => Heard(i) = Given(i)

LEMMA GoneHeard == ASSUME NEW i, ict[Caller][i] = Gone PROVE Heard(i) = 0
  BY NoneFacts DEF Heard

LEMMA HeardRightStep ==
  ASSUME Base, Numbers, ChainInv, OneAtATime, \A j \in Seqs : HeardRight(j), NEW t \in Workers, Acts(t),
         scenario' = scenario, NEW i \in Seqs
  PROVE  HeardRight(i)'
  <1>1. HeardRight(i) /\ t \in Threads
    BY WorkerThreads
  <1>2. Given(i) \in Nat /\ Heard(i) \in Nat /\ Given(i)' >= Given(i)
    BY <1>1, GivenNat, HeardNat, GivenRises
  <1>3. \A s \in Statuses : s \in Nat /\ s >= 100
    BY StatusFacts
  <1>4. Given(i)' \in Nat
    BY <1>1, <1>2, <1>3, GivenStep
  <1>7. ASSUME NEW s \in Statuses, HearsNew(t, i, s)
        PROVE  /\ s <= Given(i) /\ s > Heard(i)
               /\ \A r \in Statuses : Answer(i, r) \in wire' => r > s
               /\ Given(i)' = Given(i)
               /\ Heard(i)' = s
               /\ ict[Caller][i] # Gone
    <2>1. Answer(i, s) \in wire /\ Overtaken(i, s) /\ ist' = ist
      BY <1>7 DEF HearsNew, Hears
    <2>2. \A r, q \in Statuses : Answer(i, r) = Answer(i, q) => r = q
      BY MessageSame
    <2>3. ict[Caller][i] # Gone
      BY <1>7, NoneFacts DEF HearsNew
    <2> QED
      BY <1>1, <1>3, <1>7, <2>1, <2>2, <2>3, GivenSame, HeardNow DEF HeardRight, Overtaken
  <1>8. /\ \/ Heard(i)' = Heard(i) /\ (ict'[Caller][i] = Gone <=> ict[Caller][i] = Gone)
           \/ ict'[Caller][i] = Gone /\ Heard(i)' = 0
           \/ \E s \in Statuses : HearsNew(t, i, s) /\ Heard(i)' = s
    <2>1. ASSUME TimesOut(t, i)
          PROVE  ict'[Caller][i] = Gone
      BY <2>1 DEF TimesOut, IctBecomes
    <2>2. ict'[Caller][i] = Gone => Heard(i)' = 0
      BY NoneFacts DEF Heard
    <2> QED
      BY <1>1, <2>1, <2>2, HeardStep
  <1>9. Heard(i)' <= Given(i)'
    BY <1>1, <1>2, <1>3, <1>4, <1>7, <1>8 DEF HeardRight
  <1>10. ASSUME NEW s \in Statuses, Answer(i, s) \in wire'
         PROVE  s <= Given(i)' /\ s > Heard(i)'
    <2>1. CASE Answer(i, s) \notin wire
      <3>1. SendsAnswer(t, i, s) /\ s > Given(i) /\ Given(i)' = s
        BY <1>1, <1>10, <2>1, AnswerStepWire
      <3>2. Heard(i)' = Heard(i)
        BY <3>1, HeardSame DEF SendsAnswer
      <3> QED
        BY <1>1, <1>2, <1>3, <3>1, <3>2 DEF HeardRight
    <2>2. CASE Answer(i, s) \in wire
      <3>1. s <= Given(i) /\ s > Heard(i)
        BY <1>1, <2>2 DEF HeardRight
      <3>2. s > Heard(i)'
        BY <1>2, <1>3, <1>7, <1>8, <1>10, <3>1
      <3> QED
        BY <1>2, <1>3, <1>4, <3>1, <3>2
    <2> QED
      BY <2>1, <2>2
  <1>11. ASSUME Given(i)' >= 200
         PROVE  Answer(i, Given(i))' \in wire' \/ ict'[Caller][i] = Gone \/ Heard(i)' = Given(i)'
    <2>1. CASE Given(i)' # Given(i)
      BY <1>1, <2>1, GivenStep DEF Answer
    <2>2. CASE Given(i)' = Given(i)
      <3> DEFINE g == Given(i)
      <3>1. Answer(i, g)' = Answer(i, g)
        BY <2>2 DEF Answer
      <3>2. g \in Statuses /\ g >= 200
        BY <1>11, <2>2, GivenNat
      <3>3. CASE Answer(i, g) \in wire /\ Answer(i, g) \notin wire'
        <4>1. PICK s \in Statuses : g <= s /\ Hears(t, i, s)
          BY <1>1, <3>2, <3>3, WireGone, MessagesDiffer, MessageSame
        <4>2. s = g
          BY <1>1, <1>2, <1>3, <4>1 DEF HeardRight, Hears
        <4>3. CASE HearsNew(t, i, g)
          BY <1>7, <2>2, <3>2, <4>3
        <4>4. CASE ~HearsNew(t, i, g)
          <5>1. ict' = ict /\ ~(ict[Caller][i] \in Transaction /\ ict[Caller][i].status # g)
            BY <4>1, <4>2, <4>4 DEF Hears, HearsNew
          <5>2. ict[Caller][i] # None
            <6>1. ist[Callee][i] # None
              BY <3>2 DEF Given
            <6> QED
              BY <6>1 DEF Numbers, InviteOnce
          <5>3. ict[Caller][i] \in Transaction \cup {None, Gone}
            BY SentFacts DEF Base
          <5> QED
            BY <2>2, <5>1, <5>2, <5>3, HeardSame DEF Heard
        <4> QED
          BY <4>3, <4>4
      <3>4. CASE Answer(i, g) \notin wire
        <4>1. ict[Caller][i] = Gone \/ Heard(i) = g
          BY <1>1, <3>2, <3>4 DEF HeardRight
        <4> QED
          BY <1>2, <1>3, <1>7, <1>8, <2>2, <4>1
      <3> QED
        BY <3>1, <3>3, <3>4
    <2> QED
      BY <2>1, <2>2
  <1>12. ASSUME ~May("threads"), Heard(i)' >= 200
         PROVE  Heard(i)' = Given(i)'
    <2>1. ASSUME NEW s \in Statuses, HearsNew(t, i, s), Heard(i)' = s
          PROVE  Heard(i)' = Given(i)'
      <3>1. Given(i) = s
        BY <1>1, <1>12, <2>1, HeardFinal DEF ChainInv, Final
      <3> QED
        BY <1>7, <2>1, <3>1
    <2>2. CASE Heard(i)' = Heard(i)
      <3>1. Heard(i) = Given(i)
        BY <1>1, <1>12, <2>2 DEF HeardRight
      <3>2. Given(i)' = Given(i)
        BY <1>12, <2>2, <3>1, AnsweredStays
      <3> QED
        BY <2>2, <3>1, <3>2
    <2> QED
      BY <1>8, <1>12, <2>1, <2>2
  <1>13. May("threads")' <=> May("threads")
    BY DEF May
  <1> QED
    BY <1>9, <1>10, <1>11, <1>12, <1>13 DEF HeardRight, Answer

(* A final answer that was heard stays heard, or was given up. *)
LEMMA HeardStays ==
  ASSUME Base, Numbers, NEW t \in Threads, Acts(t), NEW i \in Seqs, HeardRight(i), Closed(i)
  PROVE  Closed(i)'
  <1>1. Heard(i) \in Nat /\ \A s \in Statuses : s \in Nat
    BY HeardNat, StatusFacts
  <1>2. ASSUME TimesOut(t, i)
        PROVE  ict'[Caller][i] = Gone
    BY <1>2 DEF TimesOut, IctBecomes
  <1>3. ASSUME NEW s \in Statuses, HearsNew(t, i, s)
        PROVE  s > Heard(i) /\ ict[Caller][i] # Gone
    BY <1>3, NoneFacts DEF HearsNew, Hears, HeardRight
  <1> QED
    BY <1>1, <1>2, <1>3, HeardStep DEF Closed

-----------------------------------------------------------------------------
(* An INVITE can be answered once: as long as the caller wants the call,   *)
(* only one of the callee's threads, or the dialog, has it to answer.      *)
Again(i) == Has(Callee, AnswerStep(i))
ToAnswer(i) == Inserting(i) \/ Asks(i) \/ Again(i)
Entry(i) == {InsertStep(i), AnswerStep(i)}

OneToken(i) ==
  /\ ToAnswer(i) \/ PendingFinal(i) => Given(i) < 200
  /\ ToAnswer(i) => ~PendingFinal(i)
  /\ Asks(i) => ~Inserting(i) /\ ~Again(i)
  /\ Inserting(i) => ~Again(i)
  /\ \A t, u \in Threads : \A x \in Entry(i) : x \in Steps(Callee, t) /\ x \in Steps(Callee, u) => t = u
  /\ \A t, u \in Threads : \A s, r \in Statuses : Answers(t, i, s) /\ Answers(u, i, r) => t = u

(* What a step does to that.                                               *)
Lessens(i) ==
  /\ Given(i)' = Given(i)
  /\ Asks(i)' => Asks(i)
  /\ \A u \in Threads : \A x \in Entry(i) : x \in Steps(Callee, u)' => x \in Steps(Callee, u)
  /\ \A u \in Threads : \A s \in Statuses :
       Final(s) /\ Send(Answer(i, s)) \in Steps(Callee, u)' => Send(Answer(i, s)) \in Steps(Callee, u)

Handles(t, i) ==
  \/ \E S : InviteComes(t, i, S)
  \/ Inserts(t, i) \/ AnswersAgain(t, i) \/ Accepts(t, i)
  \/ \E s \in {Decline, Moved} : Rejects(t, i, s)
  \/ \E s \in Statuses : SendsAnswer(t, i, s)
  \/ CancelComes(t) /\ Asks(i)

LEMMA TokenKinds ==
  ASSUME Base, Numbers, NEW t \in Threads, Acts(t), NEW i \in Seqs, ~Handles(t, i)
  PROVE  Lessens(i)
  <1>1. Given(i)' = Given(i)
    BY GivenStep DEF Handles
  <1>2. Asks(i)' => Asks(i)
    BY AsksStep DEF Handles
  <1>3. ASSUME NEW u \in Threads, NEW x \in Entry(i), x \in Steps(Callee, u)', x \notin Steps(Callee, u)
        PROVE  FALSE
    <2>1. CalleeGets(t, x)
      BY <1>3, CalleeNew
    <2> QED
      BY <1>3, <2>1, GetsInsert, GetsAnswerStep DEF Entry, Handles
  <1>4. ASSUME NEW u \in Threads, NEW s \in Statuses, Final(s), Send(Answer(i, s)) \in Steps(Callee, u)',
               Send(Answer(i, s)) \notin Steps(Callee, u)
        PROVE  FALSE
    <2>1. CalleeGets(t, Send(Answer(i, s)))
      BY <1>4, CalleeNew
    <2>2. ~Final(SessionProgress)
      BY FinalStatuses
    <2> QED
      BY <1>4, <2>1, <2>2, GetsAnswer, NoneFacts DEF Handles, Asks
  <1> QED
    BY <1>1, <1>2, <1>3, <1>4 DEF Lessens

LEMMA LessensFacts ==
  ASSUME NEW i \in Seqs, Lessens(i)
  PROVE  /\ Inserting(i)' => Inserting(i)
         /\ Again(i)' => Again(i)
         /\ ToAnswer(i)' => ToAnswer(i)
         /\ PendingFinal(i)' => PendingFinal(i)
  <1>1. Inserting(i)' => Inserting(i)
    BY DEF Inserting, Has, Lessens, Entry, InsertStep
  <1>2. Again(i)' => Again(i)
    BY DEF Again, Has, Lessens, Entry, AnswerStep
  <1>3. PendingFinal(i)' => PendingFinal(i)
    BY DEF PendingFinal, Pending, Has, Lessens, Send, Answer
  <1> QED
    BY <1>1, <1>2, <1>3 DEF ToAnswer, Lessens

LEMMA LessensToken ==
  ASSUME NEW i \in Seqs, Lessens(i), OneToken(i)
  PROVE  OneToken(i)'
  <1>1. /\ ToAnswer(i)' \/ PendingFinal(i)' => Given(i)' < 200
        /\ ToAnswer(i)' => ~PendingFinal(i)'
        /\ Asks(i)' => ~Inserting(i)' /\ ~Again(i)'
        /\ Inserting(i)' => ~Again(i)'
    BY LessensFacts DEF OneToken, Lessens
  <1>2. ASSUME NEW u \in Threads, NEW v \in Threads, NEW x \in Entry(i), x \in Steps(Callee, u)', x \in Steps(Callee, v)'
        PROVE  u = v
    BY <1>2 DEF Lessens, OneToken
  <1>3. ASSUME NEW u \in Threads, NEW v \in Threads, NEW s \in Statuses, NEW r \in Statuses,
               Answers(u, i, s)', Answers(v, i, r)'
        PROVE  u = v
    <2>1. Answers(u, i, s) /\ Answers(v, i, r)
      BY <1>3 DEF Lessens, Answers, Final, Send, Answer
    <2> QED
      BY <2>1 DEF OneToken
  <1>4. Entry(i)' = Entry(i)
    BY DEF Entry, InsertStep, AnswerStep
  <1> QED
    BY <1>1, <1>2, <1>3, <1>4 DEF OneToken

(* A thread that has nothing else about the INVITE takes the token.        *)
LEMMA NewToken ==
  ASSUME NEW t \in Threads, NEW S, Works(Callee, t, S), NEW i \in Seqs, Given(i)' < 200,
         \A u \in Threads \ {t} : /\ Entry(i) \cap Steps(Callee, u) = {}
                                  /\ \A s \in Statuses : ~Answers(u, i, s),
         \/ ~Asks(i)' /\ (\E x \in Entry(i) : Entry(i) \cap S \subseteq {x}) /\ \A s \in Statuses : Final(s) => Send(Answer(i, s)) \notin S
         \/ ~Asks(i)' /\ Entry(i) \cap S = {}
         \/ Entry(i) \cap S = {} /\ \A s \in Statuses : Final(s) => Send(Answer(i, s)) \notin S
  PROVE  OneToken(i)'
  <1>1. Entry(i)' = Entry(i) /\ InsertStep(i) \in Entry(i) /\ AnswerStep(i) \in Entry(i) /\ InsertStep(i) # AnswerStep(i)
    BY InsertTags DEF Entry, InsertStep, AnswerStep
  <1>2. \A u \in Threads : Steps(Callee, u)' = IF u = t THEN S ELSE Steps(Callee, u)
    BY Pair DEF Works
  <1>3. /\ Inserting(i)' => InsertStep(i) \in S
        /\ Again(i)' => AnswerStep(i) \in S
    BY <1>1, <1>2 DEF Inserting, Again, Has, InsertStep, AnswerStep
  <1>4. \A u \in Threads : \A s \in Statuses : Answers(u, i, s)' => u = t /\ Final(s) /\ Send(Answer(i, s)) \in S
    BY <1>2 DEF Answers, Final, Send, Answer
  <1>5. PendingFinal(i)' => \E s \in Statuses : Final(s) /\ Send(Answer(i, s)) \in S
    BY <1>4 DEF PendingFinal, Pending, Has, Answers
  <1>6. \A u \in Threads : \A x \in Entry(i) : x \in Steps(Callee, u)' => u = t
    BY <1>2
  <1> QED
    BY <1>1, <1>3, <1>4, <1>5, <1>6 DEF OneToken, ToAnswer

(* Nobody else has the token of the one who has it. *)
LEMMA TokenElse ==
  ASSUME NEW i \in Seqs, OneToken(i), NEW t \in Threads,
         \/ \E x \in Entry(i) : x \in Steps(Callee, t)
         \/ Asks(i) /\ Steps(Callee, t) = {}
  PROVE  /\ Given(i) < 200
         /\ \A u \in Threads \ {t} : /\ Entry(i) \cap Steps(Callee, u) = {}
                                     /\ \A s \in Statuses : ~Answers(u, i, s)
  <1>1. \A u \in Threads : \A x \in Entry(i) : x \in Steps(Callee, u) => Inserting(i) \/ Again(i)
    BY DEF Entry, Inserting, Again, Has
  <1>2. ToAnswer(i)
    BY <1>1 DEF ToAnswer
  <1>3. \A u \in Threads : \A s \in Statuses : ~Answers(u, i, s)
    BY <1>2 DEF OneToken, PendingFinal, Pending, Has, Answers
  <1>4. ASSUME NEW u \in Threads \ {t}, NEW x \in Entry(i), x \in Steps(Callee, u)
        PROVE  FALSE
    <2>1. CASE Asks(i)
      <3>1. ~Inserting(i) /\ ~Again(i)
        BY <2>1 DEF OneToken
      <3> QED
        BY <1>1, <1>4, <3>1
    <2>2. CASE ~Asks(i)
      <3>1. PICK y \in Entry(i) : y \in Steps(Callee, t)
        BY <2>2
      <3>2. x # y
        BY <1>4, <3>1 DEF OneToken
      <3>3. Inserting(i) /\ Again(i)
        BY <1>4, <3>1, <3>2 DEF Entry, Inserting, Again, Has
      <3> QED
        BY <3>3 DEF OneToken
    <2> QED
      BY <2>1, <2>2
  <1> QED
    BY <1>2, <1>3, <1>4 DEF OneToken

LEMMA TokenStays ==
  ASSUME Base, Numbers, OnlyReceived, NEW t \in Threads, Acts(t), NEW i \in Seqs, OneToken(i),
         ~(CancelComes(t) /\ Asks(i))
  PROVE  OneToken(i)'
  <1>1. ASSUME NEW S, InviteComes(t, i, S)
        PROVE  OneToken(i)'
    <2>1. ist[Callee][i] = None /\ ist'[Callee][i] = NewTransaction
      BY <1>1 DEF InviteComes, Arrives, IstBecomes, Numbers, InviteOnce
    <2>2. ~InviteWork(i)
      BY <2>1 DEF OnlyReceived
    <2>3. Given(i)' < 200
      <3>1. NewTransaction.status = 0 /\ NewTransaction \notin {None, Gone}
        BY NoneFacts DEF NewTransaction
      <3> QED
        BY <2>1, <3>1 DEF Given
    <2>4. /\ Works(Callee, t, S) /\ Steps(Callee, t) = {} /\ InviteAnswers(i, S) /\ dialog' = dialog
      BY <1>1 DEF InviteComes
    <2>5. ~Asks(i)'
      BY <2>2, <2>4 DEF Asks, InviteWork, In
    <2>6. \A u \in Threads \ {t} : /\ Entry(i) \cap Steps(Callee, u) = {}
                                   /\ \A s \in Statuses : ~Answers(u, i, s)
      BY <2>2 DEF InviteWork, Has, Entry, Answers, Pending
    <2>7. CASE S = {AnswerStep(i)}
      BY <2>3, <2>4, <2>5, <2>6, <2>7, NewToken, InsertTags DEF Entry
    <2>8. CASE S = {Send(Answer(i, Ringing)), InsertStep(i)}
      <3>1. \A s \in Statuses : Final(s) => Send(Answer(i, s)) \notin S
        BY <2>8, AnswerTags, FinalStatuses
      <3>2. Entry(i) \cap S \subseteq {InsertStep(i)}
        BY <2>8, InsertTags DEF Entry
      <3> QED
        BY <2>3, <2>4, <2>5, <2>6, <3>1, <3>2, NewToken DEF Entry
    <2>9. CASE S = {Send(Answer(i, NotAcceptable))} \/ S = {Send(Answer(i, Unauthorized))}
      <3>1. Entry(i) \cap S = {}
        BY <2>9, InsertTags DEF Entry
      <3> QED
        BY <2>3, <2>4, <2>5, <2>6, <3>1, NewToken
    <2> QED
      BY <2>4, <2>7, <2>8, <2>9 DEF InviteAnswers
  <1>2. ASSUME Inserts(t, i)
        PROVE  OneToken(i)'
    <2>1. PICK S : Works(Callee, t, S) /\ S \subseteq {Tell("call")}
      BY <1>2 DEF Inserts
    <2>2. Given(i)' = Given(i)
      BY <1>2, GivenSame DEF Inserts, Rest
    <2>3. InsertStep(i) \in Steps(Callee, t)
      BY <1>2 DEF Inserts
    <2>4. Entry(i) \cap S = {} /\ \A s : Send(Answer(i, s)) \notin S
      BY <2>1, InsertTags, AnswerTags DEF Entry
    <2> QED
      BY <2>1, <2>2, <2>3, <2>4, TokenElse, NewToken DEF Entry
  <1>3. ASSUME AnswersAgain(t, i)
        PROVE  OneToken(i)'
    <2>1. PICK S : Works(Callee, t, S) /\ S \subseteq {Send(Answer(i, Ok))}
      BY <1>3 DEF AnswersAgain
    <2>2. Given(i)' = Given(i) /\ dialog' = dialog
      BY <1>3, GivenSame DEF AnswersAgain, Rest
    <2>3. AnswerStep(i) \in Steps(Callee, t)
      BY <1>3 DEF AnswersAgain
    <2>4. Entry(i) \cap S = {}
      BY <2>1, InsertTags DEF Entry
    <2>5. ~Asks(i)'
      BY <2>2, <2>3 DEF OneToken, ToAnswer, Asks, Again, Has, In
    <2> QED
      BY <2>1, <2>2, <2>3, <2>4, <2>5, TokenElse, NewToken DEF Entry
  <1>4. ASSUME Accepts(t, i) \/ \E s \in {Decline, Moved} : Rejects(t, i, s)
        PROVE  OneToken(i)'
    <2>1. PICK s : Works(Callee, t, {Send(Answer(i, s))})
      BY <1>4 DEF Accepts, Rejects
    <2>2. Given(i)' = Given(i) /\ Steps(Callee, t) = {} /\ Asks(i) /\ ~Asks(i)'
      <3>1. In # None
        BY <1>4, NoneFacts DEF Accepts, Rejects
      <3> QED
        BY <1>4, <3>1, GivenSame, SeqFacts DEF Accepts, Rejects, Rest, Asks
    <2>3. Entry(i) \cap {Send(Answer(i, s))} = {}
      BY InsertTags DEF Entry
    <2> QED
      BY <2>1, <2>2, <2>3, TokenElse, NewToken
  <1>5. ASSUME NEW s \in Statuses, SendsAnswer(t, i, s)
        PROVE  OneToken(i)'
    <2>1. /\ Works(Callee, t, Steps(Callee, t) \ {Send(Answer(i, s))}) /\ dialog' = dialog
          /\ Send(Answer(i, s)) \in Steps(Callee, t)
      BY <1>5 DEF SendsAnswer, Sends
    <2>2. \A u \in Threads : Steps(Callee, u)' \subseteq Steps(Callee, u)
      BY <2>1, Pair DEF Works
    <2>3. CASE Given(i)' = Given(i)
      <3>1. Lessens(i)
        BY <2>1, <2>2, <2>3 DEF Lessens, Asks, In
      <3> QED
        BY <3>1, LessensToken
    <2>4. CASE Given(i)' # Given(i)
      <3>1. Given(i)' = s
        <4>1. PICK r \in Statuses : SendsAnswer(t, i, r) /\ Given(i)' = r
          BY <2>4, GivenStep
        <4>2. Send(Answer(i, r)) \in Steps(Callee, t) /\ Send(Answer(i, r)) \notin Steps(Callee, t)'
          BY <4>1, Pair DEF SendsAnswer, Sends, Works
        <4>3. Send(Answer(i, r)) = Send(Answer(i, s))
          BY <2>1, <4>2, Pair DEF Works
        <4> QED
          BY <4>1, <4>3, AnswerTags
      <3>2. CASE Final(s)
        <4>1. Answers(t, i, s) /\ ~ToAnswer(i)
          BY <2>1, <3>2 DEF Answers, OneToken, PendingFinal, Pending, Has
        <4>2. \A u \in Threads : \A r \in Statuses : ~Answers(u, i, r)'
          <5> SUFFICES ASSUME NEW u \in Threads, NEW r \in Statuses, Answers(u, i, r)' PROVE FALSE
            OBVIOUS
          <5>1. Answers(u, i, r)
            BY <2>2 DEF Answers, Send, Answer, Final
          <5>2. u = t
            BY <4>1, <5>1 DEF OneToken
          <5>3. Send(Answer(i, r)) \in Steps(Callee, t)'
            BY <5>2 DEF Answers, Send, Answer
          <5>4. Send(Answer(i, r)) = Send(Answer(i, s))
            BY <1>5, <2>1, <5>1, <5>2, OneAnswer, AnswerTags, Pair DEF Answers
          <5> QED
            BY <2>1, <5>3, <5>4, Pair DEF Works
        <4>3. ~PendingFinal(i)'
          BY <4>2 DEF PendingFinal, Pending, Has, Answers
        <4>4. ~ToAnswer(i)'
          BY <2>1, <2>2, <4>1 DEF ToAnswer, Asks, In, Inserting, Again, Has, InsertStep, AnswerStep
        <4>5. Entry(i)' = Entry(i) /\ ~Inserting(i)' /\ ~Again(i)' /\ ~Asks(i)'
          BY <4>4 DEF Entry, InsertStep, AnswerStep, ToAnswer
        <4>6. \A u \in Threads : \A x \in Entry(i) : x \notin Steps(Callee, u)'
          BY <4>5 DEF Entry, Inserting, Again, Has, InsertStep, AnswerStep
        <4> QED
          BY <4>2, <4>3, <4>4, <4>5, <4>6 DEF OneToken
      <3>3. CASE ~Final(s)
        <4> DEFINE P == PendingFinal(i)
        <4>1. PendingFinal(i)' => PendingFinal(i)
          BY <2>2 DEF PendingFinal, Pending, Has, Send, Answer
        <4>2. (Inserting(i)' => Inserting(i)) /\ (Again(i)' => Again(i)) /\ (Asks(i)' => Asks(i))
          BY <2>1, <2>2 DEF Inserting, Again, Has, InsertStep, AnswerStep, Asks, In
        <4>3. Given(i)' < 200
          BY <3>1, <3>3, StatusFacts DEF Final
        <4>4. Entry(i)' = Entry(i)
          BY DEF Entry, InsertStep, AnswerStep
        <4>5. \A u \in Threads : \A r \in Statuses : Answers(u, i, r)' => Answers(u, i, r)
          BY <2>2 DEF Answers, Send, Answer, Final
        <4> QED
          BY <2>2, <4>1, <4>2, <4>3, <4>4, <4>5 DEF OneToken, ToAnswer
      <3> QED
        BY <3>2, <3>3
    <2> QED
      BY <2>3, <2>4
  <1>6. CASE ~Handles(t, i)
    BY <1>6, TokenKinds, LessensToken
  <1> QED
    BY <1>1, <1>2, <1>3, <1>4, <1>5, <1>6 DEF Handles

(* As long as the caller wants the call, an INVITE has one final answer,   *)
(* which is the one on the wire and the one the caller heard.              *)
AnswerRight(i) ==
  /\ \A s \in Statuses : Final(s) /\ Answer(i, s) \in wire => s = Given(i)
  /\ Heard(i) >= 200 => Heard(i) = Given(i)

TokenInv == ~Cancelled => \A i \in Seqs : OneToken(i) /\ AnswerRight(i)

LEMMA GivenOnce ==
  ASSUME Base, Numbers, NEW t \in Threads, Acts(t), NEW i \in Seqs, OneToken(i), Given(i) >= 200
  PROVE  Given(i)' = Given(i)
  <1>1. Given(i) \in Nat
    BY GivenNat
  <1>2. ASSUME Given(i)' # Given(i)
        PROVE  FALSE
    <2>1. PICK s \in Statuses : SendsAnswer(t, i, s) /\ Given(i)' = s /\ s > Given(i)
      BY <1>2, GivenStep
    <2>2. Final(s)
      BY <1>1, <2>1, StatusFacts DEF Final
    <2>3. PendingFinal(i)
      BY <2>1, <2>2, HasSteps DEF SendsAnswer, Sends, PendingFinal, Pending
    <2> QED
      BY <1>1, <2>3 DEF OneToken
  <1> QED
    BY <1>2

LEMMA AnswerRightStays ==
  ASSUME Base, Numbers, NEW t \in Threads, Acts(t), NEW i \in Seqs, OneToken(i), HeardRight(i), AnswerRight(i)
  PROVE  AnswerRight(i)'
  <1>1. Given(i) \in Nat /\ Heard(i) \in Nat /\ \A s \in Statuses : s \in Nat
    BY GivenNat, HeardNat, StatusFacts
  <1>2. ASSUME NEW s \in Statuses, Final(s), Answer(i, s) \in wire'
        PROVE  s = Given(i)'
    <2>1. CASE Answer(i, s) \in wire
      <3>1. s = Given(i) /\ Given(i) >= 200
        BY <1>2, <2>1 DEF AnswerRight, Final
      <3> QED
        BY <3>1, GivenOnce
    <2>2. CASE Answer(i, s) \notin wire
      BY <1>2, <2>2, AnswerStepWire
    <2> QED
      BY <2>1, <2>2
  <1>3. ASSUME Heard(i)' >= 200
        PROVE  Heard(i)' = Given(i)'
    <2>1. CASE Heard(i)' = Heard(i)
      <3>1. Heard(i) = Given(i) /\ Given(i) >= 200
        BY <1>3, <2>1 DEF AnswerRight
      <3> QED
        BY <2>1, <3>1, GivenOnce
    <2>2. ASSUME NEW s \in Statuses, HearsNew(t, i, s), Heard(i)' = s
          PROVE  Heard(i)' = Given(i)'
      <3>1. Answer(i, s) \in wire /\ ist' = ist
        BY <2>2 DEF HearsNew, Hears
      <3>2. s = Given(i)
        BY <1>3, <2>2, <3>1 DEF AnswerRight, Final
      <3> QED
        BY <2>2, <3>1, <3>2, GivenSame
    <2>3. ASSUME ict'[Caller][i] = Gone
          PROVE  FALSE
      <3>1. Heard(i)' = 0
        BY <2>3, NoneFacts DEF Heard
      <3> QED
        BY <1>3, <3>1
    <2>4. TimesOut(t, i) => ict'[Caller][i] = Gone
      BY DEF TimesOut, IctBecomes
    <2> QED
      BY <2>1, <2>2, <2>3, <2>4, HeardStep
  <1> QED
    BY <1>2, <1>3 DEF AnswerRight, Final, Answer

LEMMA TokenInvStep ==
  ASSUME Base, Numbers, OnlyReceived, CancelRight, TokenInv, \A j \in Seqs : HeardRight(j),
         NEW t \in Threads, Acts(t)
  PROVE  TokenInv'
  <1> SUFFICES ASSUME ~Cancelled', NEW i \in Seqs PROVE OneToken(i)' /\ AnswerRight(i)'
    BY DEF TokenInv
  <1>1. CASE CallStarts(t)
    <2>1. /\ In' = None /\ wire' = {} /\ \A s : ~Has(Callee, s)'
          /\ Given(i)' = 0 /\ Heard(i)' = 0
      BY <1>1, StartsClean
    <2>2. Entry(i)' = Entry(i) /\ ~Inserting(i)' /\ ~Again(i)' /\ ~Asks(i)' /\ ~PendingFinal(i)'
      BY <2>1 DEF Entry, InsertStep, AnswerStep, Inserting, Again, Asks, PendingFinal, Pending
    <2>3. \A u \in Threads : \A x : x \notin Steps(Callee, u)'
      BY <2>1 DEF Has
    <2>4. \A u \in Threads : \A s : ~Answers(u, i, s)'
      BY <2>3 DEF Answers
    <2> QED
      BY <2>1, <2>2, <2>3, <2>4 DEF OneToken, AnswerRight, ToAnswer
  <1>2. CASE ~CallStarts(t)
    <2>1. ~Cancelled
      BY <1>2, CancelledStays
    <2>2. ~CancelComes(t)
      BY <2>1 DEF CancelRight, CancelSent, LetGo, CancelComes, Arrives
    <2> QED
      BY <2>1, <2>2, TokenStays, AnswerRightStays DEF TokenInv
  <1> QED
    BY <1>1, <1>2

(* Only an INVITE that was refused for good is followed by another one.    *)
Dead(i) ==
  /\ Given(i) >= 300 /\ ~ToAnswer(i) /\ ~PendingFinal(i)
  /\ \A s \in Statuses : Answer(i, s) \notin wire

DeadInv == \A i, j \in Seqs : Made(i) /\ Made(j) /\ i < j => Dead(i)

LEMMA DeadReplaced == DeadInv => Replaced
  BY DEF DeadInv, Dead, Replaced

LEMMA DeadStays ==
  ASSUME Base, Numbers, OnlyReceived, NEW t \in Threads, Acts(t), NEW i \in Seqs, Dead(i)
  PROVE  Dead(i)'
  <1>1. Given(i) \in Nat /\ Given(i)' >= Given(i) /\ Given(i)' \in Nat
    <2>1. Given(i) \in Nat /\ \A s \in Statuses : s \in Nat
      BY GivenNat, StatusFacts
    <2> QED
      BY <2>1, GivenRises, GivenStep
  <1>2. ASSUME NEW s \in Statuses, SendsAnswer(t, i, s)
        PROVE  ~Final(s)
    BY <1>2, HasSteps DEF SendsAnswer, Sends, Dead, PendingFinal, Pending
  <1>3. ASSUME NEW s \in Statuses, Answer(i, s) \in wire'
        PROVE  FALSE
    <2>1. SendsAnswer(t, i, s) /\ s > Given(i)
      BY <1>3, AnswerStepWire DEF Dead
    <2> QED
      BY <1>1, <1>2, <2>1, StatusFacts DEF Dead, Final
  <1>4. ASSUME NEW s \in Statuses, SendsAnswer(t, i, s)
        PROVE  ~ToAnswer(i)' /\ ~PendingFinal(i)'
    <2>1. \A u \in Threads : Steps(Callee, u)' \subseteq Steps(Callee, u)
      BY <1>4, Pair DEF SendsAnswer, Sends, Works
    <2>2. dialog' = dialog
      BY <1>4 DEF SendsAnswer, Sends
    <2>3. PendingFinal(i)' => PendingFinal(i)
      BY <2>1 DEF PendingFinal, Pending, Has, Send, Answer
    <2>4. (Inserting(i)' => Inserting(i)) /\ (Again(i)' => Again(i)) /\ (Asks(i)' => Asks(i))
      BY <2>1, <2>2 DEF Inserting, Again, Has, InsertStep, AnswerStep, Asks, In
    <2> QED
      BY <2>3, <2>4 DEF ToAnswer, Dead
  <1>5. CASE ~Handles(t, i)
    BY <1>1, <1>3, <1>5, TokenKinds, LessensFacts DEF Dead, Answer
  <1>6. CASE \E s \in Statuses : SendsAnswer(t, i, s)
    BY <1>1, <1>3, <1>4, <1>6 DEF Dead, Answer
  <1>7. ASSUME NEW S, InviteComes(t, i, S)
        PROVE  FALSE
    <2>1. ist[Callee][i] = None
      BY <1>7 DEF InviteComes, Arrives, Numbers, InviteOnce
    <2> QED
      BY <2>1 DEF Dead, Given
  <1>8. ~Asks(i) /\ ~Inserts(t, i) /\ ~AnswersAgain(t, i)
    BY HasSteps DEF Dead, ToAnswer, Inserts, AnswersAgain, Inserting, Again
  <1>9. ~Accepts(t, i) /\ \A s \in {Decline, Moved} : ~Rejects(t, i, s)
    BY <1>8, NoneFacts DEF Asks, Accepts, Rejects
  <1> QED
    BY <1>5, <1>6, <1>7, <1>8, <1>9 DEF Handles

(* A step that makes an INVITE without a re-INVITE. *)
LEMMA NextMade ==
  ASSUME Base, Numbers, ~May("reinvite"), NEW t \in Threads, Acts(t), NEW k \in Seqs, Made(k)', ~Made(k)
  PROVE  \/ CallStarts(t) /\ k = 1 /\ \A i \in Seqs : ~Made(i)
         \/ \E j \in Seqs, s \in Statuses : Renewal(t, j, s, k) /\ \A i \in Seqs : Made(i) => i < k
  <1>1. CASE CallStarts(t) /\ k = 1
    <2>1. \A u \in Threads : Steps(Caller, u) = {}
      BY <1>1 DEF CallStarts, Numbers, Fresh
    <2>2. \A i \in Seqs : ~Made(i)
      BY <1>1, <2>1 DEF CallStarts, Numbers, Fresh, Made, Has
    <2> QED
      BY <1>1, <2>2
  <1>2. ASSUME NEW j \in Seqs, NEW s \in Statuses, HearsNew(t, j, s), Retries(t, s, k)
        PROVE  Renewal(t, j, s, k) /\ \A i \in Seqs : Made(i) => i < k
    <2>1. k = NextSeq(Out) /\ Out # None
      BY <1>2, RetriesFinal
    <2>2. Out \in Dialog /\ Out.seq \in Nat /\ Out.branch \in Nat
      BY <2>1, DialogRange
    <2>3. k > Out.seq
      BY <2>1, <2>2, NextSeqFacts DEF Numbers, LastInvite
    <2>4. \A i \in Seqs : Made(i) => i <= Out.branch
      BY <2>1 DEF Numbers, LastInvite
    <2>5. Out.branch <= Out.seq
      BY <2>1 DEF Numbers, LastInvite
    <2> QED
      BY <1>2, <2>2, <2>3, <2>4, <2>5, SeqFacts DEF Renewal
  <1> QED
    BY <1>1, <1>2, MadeStep DEF ReInvites

(* The INVITE that is followed by another is the last, and was refused. *)
LEMMA RenewedDead ==
  ASSUME Base, Numbers, OnlyReceived, TokenInv, DeadInv, \A j \in Seqs : HeardRight(j), NEW t \in Threads, Acts(t),
         NEW j \in Seqs, NEW s \in Statuses, NEW k \in Seqs, Renewal(t, j, s, k)
  PROVE  /\ j = Out.branch /\ Made(j) /\ (\A i \in Seqs : Made(i) => i <= j)
         /\ ~Cancelled /\ Heard(j) < 200 /\ Dead(j)'
  <1>1. Out # None /\ ~Cancelled /\ Final(s) /\ s >= 300 /\ HearsNew(t, j, s)
    BY RetriesFinal DEF Renewal, Cancelled
  <1>2. j = Out.branch /\ Made(j) /\ \A i \in Seqs : Made(i) => i <= j
    BY <1>1, HeardLast, DeadReplaced
  <1>3. Answer(j, s) \in wire /\ Overtaken(j, s) /\ Steps(Caller, t) = {} /\ In' = In /\ ist' = ist
    BY <1>1 DEF HearsNew, Hears, ResponseTaken
  <1>4. OneToken(j) /\ AnswerRight(j) /\ HeardRight(j)
    BY <1>1 DEF TokenInv
  <1>5. Given(j) = s /\ s > Heard(j)
    BY <1>1, <1>3, <1>4 DEF AnswerRight, HeardRight
  <1>6. Heard(j) < 200
    BY <1>4, <1>5, HeardNat, StatusFacts DEF AnswerRight
  <1>7. ~ToAnswer(j) /\ ~PendingFinal(j)
    BY <1>1, <1>4, <1>5, StatusFacts DEF OneToken
  <1>8. \A u \in Threads : Steps(Callee, u)' = Steps(Callee, u)
    <2>1. CallerActs(t)
      BY <1>1 DEF CallerActs, HearsNew
    <2> QED
      BY <2>1, CalleeRestsThen DEF CalleeRests
  <1>9. ~ToAnswer(j)' /\ ~PendingFinal(j)'
    BY <1>3, <1>7, <1>8 DEF ToAnswer, PendingFinal, Pending, Inserting, Again, Asks, Has, Send, Answer, InsertStep, AnswerStep
  <1>10. Given(j)' = Given(j)
    BY <1>3, GivenSame
  <1>11. \A r \in Statuses : Answer(j, r) \notin wire'
    <2> SUFFICES ASSUME NEW r \in Statuses, Answer(j, r) \in wire' PROVE FALSE
      OBVIOUS
    <2>1. Answer(j, r) \in wire /\ ~(r <= s)
      BY <1>3 DEF Overtaken
    <2>2. r <= Given(j)
      BY <1>4, <2>1 DEF HeardRight
    <2> QED
      BY <1>5, <2>1, <2>2
  <1> QED
    BY <1>1, <1>2, <1>5, <1>6, <1>9, <1>10, <1>11 DEF Dead, Answer

LEMMA DeadInvStep ==
  ASSUME Base, Numbers, OnlyReceived, TokenInv, DeadInv, \A j \in Seqs : HeardRight(j), ~May("reinvite"),
         NEW t \in Threads, Acts(t)
  PROVE  DeadInv'
  <1> SUFFICES ASSUME NEW i \in Seqs, NEW k \in Seqs, Made(i)', Made(k)', i < k PROVE Dead(i)'
    BY DEF DeadInv
  <1>1. CASE Made(i) /\ Made(k)
    BY <1>1, DeadStays DEF DeadInv
  <1>2. ASSUME ~Made(k), NEW j \in Seqs, NEW s \in Statuses, Renewal(t, j, s, k), Made(i)
        PROVE  Dead(i)'
    <2>1. j = Out.branch /\ Made(j) /\ (\A l \in Seqs : Made(l) => l <= j) /\ Dead(j)'
      BY <1>2, RenewedDead
    <2>2. CASE i = j
      BY <2>1, <2>2
    <2>3. CASE i # j
      <3>1. i < j
        BY <1>2, <2>1, <2>3, SeqFacts
      <3> QED
        BY <1>2, <2>1, <3>1, DeadStays DEF DeadInv
    <2> QED
      BY <2>2, <2>3
  <1>3. ASSUME NEW j \in Seqs, NEW s \in Statuses, Renewal(t, j, s, k), NEW l \in Seqs, NEW r \in Statuses, Renewal(t, l, r, i)
        PROVE  FALSE
    <2>1. k = NextSeq(Out) /\ i = NextSeq(Out)
      BY <1>3, RetriesFinal DEF Renewal
    <2> QED
      BY <2>1, SeqFacts
  <1>4. ASSUME NEW j \in Seqs, NEW s \in Statuses, Renewal(t, j, s, k), CallStarts(t)
        PROVE  FALSE
    BY <1>4, RetriesFinal DEF Renewal, CallStarts
  <1>5. CASE ~Made(k) /\ Made(i)
    BY <1>2, <1>5, NextMade
  <1>6. CASE ~Made(i) /\ Made(k)
    BY <1>6, NextMade, SeqFacts
  <1>7. CASE ~Made(i) /\ ~Made(k)
    <2>1. \/ i = 1 /\ CallStarts(t)
          \/ \E l \in Seqs, r \in Statuses : Renewal(t, l, r, i)
      BY <1>7, NextMade
    <2>2. \/ k = 1 /\ CallStarts(t)
          \/ \E j \in Seqs, s \in Statuses : Renewal(t, j, s, k)
      BY <1>7, NextMade
    <2> QED
      BY <1>3, <1>4, <2>1, <2>2, SeqFacts
  <1> QED
    BY <1>1, <1>5, <1>6, <1>7

(* The ACKs the caller has to send: each is for an INVITE that was         *)
(* answered, and the next INVITE is not sent before it.                    *)
AckTodo(u, n) == \E b \in 0..MaxSeq : Send(AckMsg(n, b)) \in Steps(Caller, u)
ToAck(i) == \E u \in Threads : AckTodo(u, i)

AckRight(u, n) ==
  AckTodo(u, n) =>
    /\ n \in Seqs /\ Closed(n)
    /\ \A b \in 0..MaxSeq : Send(AckMsg(n, b)) \in Steps(Caller, u) =>
         b \in {0, n} /\ (~May("threads") /\ b = 0 => Heard(n) \in 200..299)
    /\ \A i \in Seqs : Made(i) /\ i > n => Send(InviteMsg(i)) \in Steps(Caller, u)

Acknowledged(i) == ict[Caller][i] \in Transaction => ict[Caller][i].ack

AcksInOrder == \A i, j \in Seqs : Made(i) /\ Made(j) /\ i < j => Acknowledged(i) \/ ToAck(i)

AcksRight == \A u \in Threads, n \in 0..MaxSeq : AckRight(u, n)

(* The dialog of a connected call is that of an INVITE that was answered.  *)
Straight ==
  Out # None =>
    /\ May("refer") \/ Out.seq = Out.branch
    /\ Out.start => \A b \in Seqs : b = Out.branch => Closed(b)

AnswerInv == TokenInv /\ DeadInv /\ Straight /\ \A i \in Seqs : HeardRight(i)

LEMMA ClosedMade ==
  ASSUME NEW i \in Seqs, Closed(i)
  PROVE  Made(i) /\ ict[Caller][i] # None
  <1>1. ict[Caller][i] # None
    BY NoneFacts DEF Closed, Heard
  <1> QED
    BY <1>1 DEF Made

(* What is heard last of the INVITE the dialog is about. *)
LEMMA HeardOnce ==
  ASSUME Base, AnswerInv, ChainInv, NEW t \in Threads, NEW i \in Seqs, NEW s \in Statuses,
         HearsNew(t, i, s), Final(s), ~Cancelled \/ ~May("threads")
  PROVE  ~Closed(i)
  <1>1. Answer(i, s) \in wire /\ ict[Caller][i] # Gone
    BY NoneFacts DEF HearsNew, Hears
  <1>2. s > Heard(i) /\ Heard(i) \in Nat /\ s \in Nat
    BY <1>1, HeardNat, StatusFacts DEF AnswerInv, HeardRight
  <1>3. CASE ~May("threads")
    <2>1. Given(i) = s
      BY <1>3, HeardFinal DEF ChainInv
    <2> QED
      BY <1>1, <1>2, <1>3, <2>1 DEF AnswerInv, HeardRight, Closed
  <1>4. CASE ~Cancelled
    <2>1. AnswerRight(i)
      BY <1>4 DEF AnswerInv, TokenInv
    <2> QED
      BY <1>1, <1>2, <2>1 DEF AnswerRight, Closed
  <1> QED
    BY <1>3, <1>4

LEMMA TakesLast ==
  ASSUME Base, Numbers, AnswerInv, ChainInv, AcksInOrder, AcksRight, NumberKept, Out # None,
         NEW t \in Threads, NEW s \in Statuses, Takes(t, s), Final(s)
  PROVE  /\ Out.seq = Out.branch /\ Out.branch \in Seqs /\ \A i \in Seqs : Made(i) => i <= Out.branch
         /\ \/ HearsNew(t, Out.branch, s)
            \/ TimesOut(t, Out.branch) /\ ~Out.start /\ s = RequestTimeout
  <1>1. /\ Out.branch \in Seqs /\ Made(Out.branch) /\ \A i \in Seqs : Made(i) => i <= Out.branch
        /\ ~Out.start => Out.seq = Out.branch
    BY DEF Numbers, LastInvite
  <1>2. ASSUME NEW i \in Seqs, HearsNew(t, i, s)
        PROVE  Out.seq = Out.branch /\ i = Out.branch
    <2>1. i = Out.branch
      BY <1>2, HeardLast, DeadReplaced DEF AnswerInv
    <2>2. CASE Out.start /\ Out.seq # Out.branch
      <3>1. May("refer") /\ ~May("threads") /\ Closed(i)
        BY <2>1, <2>2 DEF AnswerInv, Straight, NumberKept
      <3> QED
        BY <1>2, <3>1, HeardOnce
    <2> QED
      BY <1>1, <2>1, <2>2
  <1>3. ASSUME NEW i \in Seqs, TimesOut(t, i)
        PROVE  Out.seq = Out.branch /\ i = Out.branch /\ ~Out.start
    <2>1. ict[Caller][i] \in Transaction /\ ~ict[Caller][i].ack /\ ict[Caller][i].status < 200
      BY <1>3 DEF TimesOut
    <2>2. ~Closed(i) /\ Made(i) /\ ~Acknowledged(i)
      <3>1. ict[Caller][i].status \in Nat
        BY <2>1, TransactionFacts
      <3> QED
        BY <2>1, <3>1, NoneFacts DEF Closed, Heard, Made, Acknowledged
    <2>3. ~ToAck(i)
      BY <2>2, SeqFacts DEF ToAck, AcksRight, AckRight
    <2>4. i = Out.branch
      BY <1>1, <2>2, <2>3, SeqFacts DEF AcksInOrder
    <2>5. ~Out.start
      BY <2>2, <2>4 DEF AnswerInv, Straight
    <2> QED
      BY <1>1, <2>4, <2>5
  <1> QED
    BY <1>1, <1>2, <1>3 DEF Takes

LEMMA ClosedSame ==
  ASSUME NEW i, Closed(i), ict'[Caller][i] = ict[Caller][i]
  PROVE  Closed(i)'
  BY HeardSame DEF Closed

LEMMA StraightStep ==
  ASSUME Base, Numbers, AnswerInv, ChainInv, NumberKept, scenario' = scenario, NEW t \in Threads, Acts(t)
  PROVE  Straight'
  <1> SUFFICES ASSUME Out' # None PROVE (May("refer") \/ Out'.seq = Out'.branch) /\ (Out'.start => \A b \in Seqs : b = Out'.branch => Closed(b)')
    BY DEF Straight, May
  <1>1. ASSUME Out # None, SameNumbers(Out, Out'), Out'.start => Out.start
        PROVE  (May("refer") \/ Out'.seq = Out'.branch) /\ (Out'.start => \A b \in Seqs : b = Out'.branch => Closed(b)')
    <2>1. Out.branch \in Seqs /\ Out'.branch = Out.branch /\ Out'.seq = Out.seq
      BY <1>1 DEF Numbers, LastInvite, SameNumbers
    <2>2. \A b \in Seqs : Closed(b) => Closed(b)'
      BY HeardStays DEF AnswerInv
    <2> QED
      BY <1>1, <2>1, <2>2 DEF AnswerInv, Straight
  <1>2. CASE CallStarts(t)
    BY <1>2 DEF CallStarts
  <1>3. CASE Out' = Out
    BY <1>1, <1>3 DEF SameNumbers
  <1>4. CASE CallCancels(t) \/ \E n \in Seqs : Pracks(t, n)
    <2>1. CASE CallCancels(t)
      BY <1>1, <2>1, NoneFacts DEF CallCancels
    <2>2. ASSUME NEW n \in Seqs, Pracks(t, n)
          PROVE  ~Out'.start /\ Out'.seq = Out'.branch
      BY <2>2, NoneFacts DEF Pracks, SameTimes, Numbers, LastInvite
    <2> QED
      BY <1>4, <2>1, <2>2
  <1>5. CASE Requests(Caller, t)
    <2>1. May("refer") /\ Out # None /\ Out'.branch = Out.branch /\ (Out'.start <=> Out.start)
      BY <1>5, NoneFacts DEF Requests, SameTimes, Out
    <2>2. \A b \in Seqs : Closed(b) => Closed(b)'
      BY HeardStays DEF AnswerInv
    <2> QED
      BY <2>1, <2>2 DEF AnswerInv, Straight
  <1>6. CASE HangsUp(Caller, t) \/ Deletes(Caller, t)
    BY <1>6 DEF HangsUp, Deletes, Out
  <1>7. CASE EndsCall(Caller, t) /\ Out \in Dialog /\ Ended(Out, Out')
    BY <1>1, <1>7, NoneFacts DEF Ended
  <1>8. ASSUME NEW s \in Statuses, Takes(t, s), ResponseTaken(t, s)
        PROVE  (May("refer") \/ Out'.seq = Out'.branch) /\ (Out'.start => \A b \in Seqs : b = Out'.branch => Closed(b)')
    <2>1. Out # None
      BY <1>8, TakenNone
    <2>2. CASE Rings100(s)
      BY <1>1, <2>1, <2>2 DEF Rings100, SameTimes
    <2>3. CASE Connects(t, s)
      <3>1. s \in 200..299 /\ SameNumbers(Out, Out')
        BY <2>3 DEF Connects
      <3>2. PICK i \in Seqs : HearsNew(t, i, s)
        BY <1>8, <3>1 DEF Takes, RequestTimeout
      <3>3. i = Out.branch
        BY <2>1, <3>2, HeardLast, DeadReplaced DEF AnswerInv
      <3>4. Closed(i)'
        BY <3>1, <3>2, HeardNow DEF Closed
      <3>5. Out'.branch = i
        BY <3>1, <3>3 DEF SameNumbers
      <3>6. Out'.seq = Out.seq /\ Out'.branch = Out.branch
        BY <3>1 DEF SameNumbers
      <3> QED
        BY <2>1, <3>4, <3>5, <3>6 DEF AnswerInv, Straight
    <2>4. ASSUME NEW n \in Seqs, Retries(t, s, n)
          PROVE  ~Out'.start /\ Out'.seq = Out'.branch
      <3>1. s # RequestTimeout /\ ~Cancelled /\ Final(s)
        BY <2>1, <2>4, RetriesFinal DEF Retries, Cancelled, RequestTimeout, Unauthorized, Moved
      <3>2. PICK i \in Seqs : HearsNew(t, i, s)
        BY <1>8, <3>1 DEF Takes
      <3>3. i = Out.branch
        BY <2>1, <3>2, HeardLast, DeadReplaced DEF AnswerInv
      <3>4. ~Closed(i)
        BY <3>1, <3>2, HeardOnce
      <3> QED
        BY <2>1, <2>4, <3>3, <3>4 DEF AnswerInv, Straight, Retries, Renewed
    <2>5. CASE RefusesAgain(t, s)
      BY <1>1, <2>1, <2>5 DEF RefusesAgain, SameNumbers
    <2>6. CASE Refuses(t, s)
      BY <1>1, <2>1, <2>6 DEF Refuses
    <2> QED
      BY <1>8, <2>1, <2>2, <2>3, <2>4, <2>5, <2>6 DEF ResponseTaken
  <1>9. \A n \in Seqs : ~ReInvites(t, n)
    BY DEF NumberKept, ReInvites
  <1>10. ASSUME NEW i \in Seqs, NEW s \in Statuses, HearsNew(t, i, s)
         PROVE  Takes(t, s) /\ ResponseTaken(t, s)
    BY <1>10 DEF Takes, HearsNew
  <1>11. ASSUME NEW i \in Seqs, TimesOut(t, i)
         PROVE  RequestTimeout \in Statuses /\ Takes(t, RequestTimeout) /\ ResponseTaken(t, RequestTimeout)
    BY <1>11, StatusFacts DEF Takes, TimesOut
  <1> QED
    BY <1>2, <1>3, <1>4, <1>5, <1>6, <1>7, <1>8, <1>9, <1>10, <1>11, OutStep

-----------------------------------------------------------------------------
(* An ACK goes to the INVITE it is for: no other INVITE lacks one. *)
LEMMA AckPicks ==
  ASSUME Base, Numbers, AcksInOrder, AcksRight, NEW t \in Threads, NEW n \in 0..MaxSeq, AckTodo(t, n),
         NEW l \in Sent(Caller), ~ict[Caller][l].ack
  PROVE  l = n
  <1>1. n \in Seqs /\ Closed(n) /\ \A i \in Seqs : Made(i) /\ i > n => Send(InviteMsg(i)) \in Steps(Caller, t)
    BY DEF AcksRight, AckRight
  <1>2. l \in Seqs /\ ict[Caller][l] \in Transaction
    BY SentFacts DEF Base
  <1>3. ict[Caller][l] # None /\ Made(l) /\ ict[Caller][n] # None /\ Made(n)
    BY <1>1, <1>2, ClosedMade, NoneFacts DEF Made
  <1>4. ASSUME NEW i \in Seqs, NEW u \in Threads, Send(InviteMsg(i)) \in Steps(Caller, u)
        PROVE  ict[Caller][i] = None
    BY <1>4, HasSteps DEF Numbers, InviteOnce
  <1>5. ~(l > n)
    BY <1>1, <1>2, <1>3, <1>4
  <1>6. ASSUME l < n
        PROVE  FALSE
    <2>1. ~Acknowledged(l)
      BY <1>2 DEF Acknowledged
    <2>2. PICK u \in Threads : AckTodo(u, l)
      BY <1>1, <1>2, <1>3, <1>6, <2>1 DEF AcksInOrder, ToAck
    <2>3. n > l
      BY <1>1, <1>2, <1>6, SeqFacts
    <2>4. Send(InviteMsg(n)) \in Steps(Caller, u)
      BY <1>1, <1>2, <1>3, <2>2, <2>3, SeqFacts DEF AcksRight, AckRight
    <2> QED
      BY <1>1, <1>3, <1>4, <2>4
  <1> QED
    BY <1>1, <1>2, <1>5, <1>6, SeqFacts

LEMMA AckLands ==
  ASSUME Base, Numbers, AcksInOrder, AcksRight, NEW t \in Threads, NEW n \in 0..MaxSeq, NEW b \in 0..MaxSeq,
         SendsAck(t, n, b)
  PROVE  /\ n \in Seqs /\ Closed(n) /\ b \in {0, n} /\ AckTodo(t, n) /\ ist' = ist /\ dialog' = dialog
         /\ \/ UNCHANGED <<ict, wire>> /\ \A i \in Sent(Caller) : ict[Caller][i].ack
            \/ /\ ict[Caller][n] \in Transaction /\ Heard(n) >= 200 /\ wire' = wire \cup {AckMsg(n, b)}
               /\ \A j \in Seqs : j # n => ict'[Caller][j] = ict[Caller][j]
               /\ \/ ict'[Caller][n] \in Transaction /\ ict'[Caller][n].ack /\ Heard(n)' = Heard(n)
                  \/ ict'[Caller][n] = Gone /\ May("threads")
  <1>1. Send(AckMsg(n, b)) \in Steps(Caller, t) /\ ist' = ist /\ dialog' = dialog /\ AckGoes(n, b)
    BY DEF SendsAck, Sends
  <1>2. AckTodo(t, n)
    BY <1>1 DEF AckTodo
  <1>3. /\ n \in Seqs /\ Closed(n) /\ b \in {0, n}
        /\ ~May("threads") /\ b = 0 => Heard(n) \in 200..299
    BY <1>1, <1>2 DEF AcksRight, AckRight
  <1>4. ASSUME NEW l \in Sent(Caller), ~ict[Caller][l].ack
        PROVE  l = n
    BY <1>2, <1>4, AckPicks
  <1>5. n \in Sent(Caller) => ict[Caller][n] \in Transaction /\ Heard(n) = ict[Caller][n].status /\ Heard(n) >= 200
    BY <1>3, SentFacts, NoneFacts DEF Base, Closed, Heard
  <1> DEFINE y == ict[Caller][n]
             x == [y EXCEPT !.ack = TRUE]
  <1>6. n \in Sent(Caller) => x \in Transaction /\ x.status = y.status /\ x.ack
    BY <1>5, TransactionFacts
  <1>7. Acked(y, TRUE) = IF y.status = Unauthorized THEN Gone ELSE x
    BY DEF Acked
  <1>8. ASSUME n \in Sent(Caller), IctBecomes(n, x)
        PROVE  /\ \A j \in Seqs : j # n => ict'[Caller][j] = ict[Caller][j]
               /\ ict'[Caller][n] \in Transaction /\ ict'[Caller][n].ack /\ Heard(n)' = Heard(n)
    <2>1. ict'[Caller][n] = x /\ \A j \in Seqs : j # n => ict'[Caller][j] = ict[Caller][j]
      BY <1>3, <1>8 DEF IctBecomes
    <2> HIDE DEF x
    <2> QED
      BY <1>5, <1>6, <1>8, <2>1 DEF Heard
  <1> HIDE DEF x
  <1>9. CASE b = n /\ n \in Sent(Caller) /\ IctBecomes(n, x) /\ wire' = wire \cup {AckMsg(n, b)}
    BY <1>1, <1>2, <1>3, <1>5, <1>8, <1>9
  <1>10. ASSUME ~(b = n /\ n \in Sent(Caller)), wire' = wire \cup {AckMsg(n, b)},
                NEW l \in Sent(Caller), ~ict[Caller][l].ack, IctBecomes(l, Acked(ict[Caller][l], TRUE))
         PROVE  /\ ict[Caller][n] \in Transaction /\ Heard(n) >= 200
                /\ \A j \in Seqs : j # n => ict'[Caller][j] = ict[Caller][j]
                /\ \/ ict'[Caller][n] \in Transaction /\ ict'[Caller][n].ack /\ Heard(n)' = Heard(n)
                   \/ ict'[Caller][n] = Gone /\ May("threads")
    <2>1. l = n
      BY <1>4, <1>10
    <2>2. n \in Sent(Caller) /\ b = 0 /\ IctBecomes(n, Acked(y, TRUE))
      BY <1>3, <1>10, <2>1
    <2>3. CASE y.status = Unauthorized
      <3>1. May("threads")
        BY <1>3, <1>5, <2>2, <2>3 DEF Unauthorized
      <3> QED
        BY <1>3, <1>5, <1>7, <2>2, <2>3, <3>1 DEF IctBecomes
    <2>4. CASE y.status # Unauthorized
      BY <1>5, <1>7, <1>8, <2>2, <2>4
    <2> QED
      BY <2>3, <2>4
  <1>11. \/ b = n /\ n \in Sent(Caller) /\ IctBecomes(n, x) /\ wire' = wire \cup {AckMsg(n, b)}
         \/ /\ ~(b = n /\ n \in Sent(Caller)) /\ wire' = wire \cup {AckMsg(n, b)}
            /\ \E l \in Sent(Caller) : ~ict[Caller][l].ack /\ IctBecomes(l, Acked(ict[Caller][l], TRUE))
         \/ UNCHANGED <<ict, wire>> /\ \A i \in Sent(Caller) : ict[Caller][i].ack
    BY <1>1 DEF AckGoes, x
  <1> QED
    BY <1>1, <1>2, <1>3, <1>9, <1>10, <1>11

(* Where an ACK comes from. *)
LEMMA GetsAck ==
  ASSUME NEW t, NEW n, NEW b, CallerGets(t, Send(AckMsg(n, b)))
  PROVE  \E s \in Statuses : /\ Takes(t, s) /\ ResponseTaken(t, s) /\ Out # None /\ Final(s) /\ n = Out.seq
                             /\ (Connects(t, s) /\ b = 0) \/ b = Out.branch
  <1> DEFINE x == Send(AckMsg(n, b))
  <1>1. /\ \A i : x # Send(InviteMsg(i)) /\ x # Send(PrackMsg(i))
        /\ \A a : x # Send(ByeMsg(a))
        /\ x # Send(CancelMsg)
    BY SendSame, MessagesDiffer
  <1>2. x # Tell("end") /\ x # Delete /\ x # SetEnd /\ x # StopStep /\ x # Tell("start")
    BY StepsDiffer
  <1>3. \A k, c : x = Send(AckMsg(k, c)) => n = k /\ b = c
    BY SendSame, MessageSame
  <1> HIDE DEF x
  <1>4. CallerGets(t, x)
    BY DEF x
  <1>5. PICK s \in Statuses : Takes(t, s) /\ ResponseTaken(t, s) /\ ResponseGives(t, s, x)
    BY <1>1, <1>2, <1>4 DEF CallerGets
  <1>6. \/ Connects(t, s) /\ x = Send(AckMsg(Out.seq, 0))
        \/ (Refuses(t, s) \/ RefusesAgain(t, s) \/ \E k \in Seqs : Retries(t, s, k)) /\ x = Send(AckMsg(Out.seq, Out.branch))
    BY <1>1, <1>2, <1>5 DEF ResponseGives
  <1>7. Out # None /\ Final(s)
    <2>1. CASE \E k \in Seqs : Retries(t, s, k)
      BY <2>1, RetriesFinal
    <2>2. CASE Connects(t, s) \/ Refuses(t, s) \/ RefusesAgain(t, s)
      <3>1. s >= 200 /\ Out \in Dialog
        BY <1>5, <2>2, StatusFacts DEF Connects, Refuses, RefusesAgain
      <3> QED
        BY <3>1, NoneFacts DEF Final
    <2> QED
      BY <1>6, <2>1, <2>2
  <1>8. n = Out.seq /\ ((Connects(t, s) /\ b = 0) \/ b = Out.branch)
    BY <1>3, <1>6
  <1> QED
    BY <1>5, <1>7, <1>8

(* A final response is acknowledged. *)
LEMMA GivesAck ==
  ASSUME Base, NEW t \in Threads, NEW s \in Statuses, ResponseTaken(t, s), Out # None, Final(s), NEW n, n = Out.seq
  PROVE  AckTodo(t, n)'
  <1> DEFINE p == Out.branch
  <1>1. 0 \in 0..MaxSeq /\ p \in 0..MaxSeq
    BY Parties, SeqFacts DEF Dialog
  <1>2. \A S : Works(Caller, t, S) => Steps(Caller, t)' = S
    BY Pair DEF Works
  <1>3. Send(AckMsg(n, 0)) \in Steps(Caller, t)' \/ Send(AckMsg(n, p)) \in Steps(Caller, t)'
    <2>1. CASE \E k \in Seqs : Retries(t, s, k)
      BY <1>2, <2>1 DEF Retries
    <2>2. CASE Connects(t, s) \/ Refuses(t, s) \/ RefusesAgain(t, s)
      BY <1>2, <2>2 DEF Connects, Refuses, RefusesAgain
    <2>3. ~Rings100(s)
      BY StatusFacts DEF Final, Rings100
    <2> QED
      BY <2>1, <2>2, <2>3 DEF ResponseTaken
  <1> HIDE DEF p
  <1> QED
    BY <1>1, <1>3 DEF AckTodo, Send, AckMsg

(* What is heard in time is what is kept: an ACK that is still to be sent  *)
(* stays the ACK of that answer.                                           *)
LEMMA OldAckRight ==
  ASSUME Base, Numbers, OnlyReceived, AnswerInv, ChainInv, AcksRight, NumberKept, scenario' = scenario,
         NEW t \in Threads, Acts(t), NEW u \in Threads, NEW n \in 0..MaxSeq, AckTodo(u, n)
  PROVE  AckRight(u, n)'
  <1>1. /\ n \in Seqs /\ Closed(n)
        /\ \A b \in 0..MaxSeq : Send(AckMsg(n, b)) \in Steps(Caller, u) =>
             b \in {0, n} /\ (~May("threads") /\ b = 0 => Heard(n) \in 200..299)
        /\ \A i \in Seqs : Made(i) /\ i > n => Send(InviteMsg(i)) \in Steps(Caller, u)
    BY DEF AcksRight, AckRight
  <1>2. PICK c \in 0..MaxSeq : Send(AckMsg(n, c)) \in Steps(Caller, u)
    BY DEF AckTodo
  <1>3. HeardRight(n) /\ Closed(n)'
    BY <1>1, HeardStays DEF AnswerInv
  <1>4. ASSUME NEW b \in 0..MaxSeq, Send(AckMsg(n, b)) \in Steps(Caller, u)'
        PROVE  Send(AckMsg(n, b)) \in Steps(Caller, u)
    <2> SUFFICES ASSUME Send(AckMsg(n, b)) \notin Steps(Caller, u) PROVE FALSE
      OBVIOUS
    <2>1. u = t /\ CallerGets(t, Send(AckMsg(n, b)))
      BY <1>4, CallerNew
    <2>2. \E s \in Statuses : Takes(t, s)
      BY <2>1, GetsAck
    <2> QED
      BY <1>2, <2>1, <2>2 DEF Takes, HearsNew, Hears, TimesOut
  <1>5. ASSUME ~May("threads"), Heard(n) \in 200..299
        PROVE  Heard(n)' \in 200..299
    <2>1. ~TimesOut(t, n)
      BY <1>5 DEF TimesOut, Heard
    <2>2. ASSUME NEW s \in Statuses, HearsNew(t, n, s)
          PROVE  FALSE
      <3>1. s > Heard(n)
        BY <2>2, <1>3 DEF HearsNew, Hears, HeardRight
      <3>2. Final(s)
        BY <1>5, <3>1, StatusFacts DEF Final
      <3> QED
        BY <1>1, <1>5, <2>2, <3>2, HeardOnce
    <2>3. Heard(n) # Unauthorized
      BY <1>5 DEF Unauthorized
    <2> QED
      BY <1>1, <1>5, <2>1, <2>2, <2>3, HeardStep
  <1>6. ASSUME NEW i \in Seqs, Made(i)', i > n
        PROVE  (Send(InviteMsg(i)) \in Steps(Caller, u))'
    <2>1. CASE Made(i)
      <3>1. Send(InviteMsg(i)) \in Steps(Caller, u)
        BY <1>1, <1>6, <2>1
      <3>2. ASSUME Send(InviteMsg(i)) \notin Steps(Caller, u)'
            PROVE  FALSE
        <4>1. u = t /\ \E j \in Seqs : SendsInvite(t, j)
          BY <3>1, <3>2, SendDone, MessagesDiffer, Pair
        <4> QED
          BY <1>2, <4>1, SendSame, MessagesDiffer DEF SendsInvite
      <3> QED
        BY <3>2 DEF InviteMsg, Send
    <2>2. CASE ~Made(i)
      <3>1. Made(n)
        BY <1>1, ClosedMade
      <3>2. PICK j \in Seqs, s \in Statuses : Renewal(t, j, s, i)
        BY <1>1, <1>6, <2>2, <3>1, NextMade DEF NumberKept
      <3>3. j = Out.branch /\ (\A k \in Seqs : Made(k) => k <= j) /\ Made(j) /\ Heard(j) < 200
        BY <3>2, RenewedDead DEF AnswerInv
      <3>4. ict[Caller][j] \in Transaction
        BY <3>2 DEF Renewal, HearsNew
      <3>5. CASE n = j
        BY <1>1, <3>3, <3>4, <3>5, NoneFacts, HeardNat DEF Closed
      <3>6. CASE n # j
        <4>1. j > n
          BY <1>1, <3>1, <3>3, <3>6, SeqFacts
        <4>2. Send(InviteMsg(j)) \in Steps(Caller, u)
          BY <1>1, <3>3, <4>1
        <4>3. ict[Caller][j] = None
          BY <4>2, HasSteps DEF Numbers, InviteOnce
        <4> QED
          BY <3>4, <4>3, NoneFacts
      <3> QED
        BY <3>5, <3>6
    <2> QED
      BY <2>1, <2>2
  <1>7. May("threads")' <=> May("threads")
    BY DEF May
  <1>8. \A b \in 0..MaxSeq : (Send(AckMsg(n, b)) \in Steps(Caller, u))' => Send(AckMsg(n, b)) \in Steps(Caller, u)
    BY <1>4 DEF Send, AckMsg
  <1>9. \A b \in 0..MaxSeq : (Send(AckMsg(n, b)) \in Steps(Caller, u))' =>
             b \in {0, n} /\ (~May("threads")' /\ b = 0 => Heard(n)' \in 200..299)
    BY <1>1, <1>5, <1>7, <1>8
  <1>10. \A i \in Seqs : Made(i)' /\ i > n => (Send(InviteMsg(i)) \in Steps(Caller, u))'
    BY <1>6
  <1> QED
    BY <1>1, <1>3, <1>9, <1>10 DEF AckRight

LEMMA NewAckRight ==
  ASSUME Base, Numbers, OnlyReceived, AnswerInv, ChainInv, AcksInOrder, AcksRight, NumberKept, scenario' = scenario,
         NEW t \in Threads, Acts(t), NEW u \in Threads, NEW n \in 0..MaxSeq, ~AckTodo(u, n)
  PROVE  AckRight(u, n)'
  <1> SUFFICES ASSUME AckTodo(u, n)' PROVE AckRight(u, n)'
    BY DEF AckRight
  <1>1. ASSUME NEW b \in 0..MaxSeq, (Send(AckMsg(n, b)) \in Steps(Caller, u))'
        PROVE  u = t /\ CallerGets(t, Send(AckMsg(n, b)))
    <2>1. Send(AckMsg(n, b)) \in Steps(Caller, u)' /\ Send(AckMsg(n, b)) \notin Steps(Caller, u)
      BY <1>1 DEF AckTodo, Send, AckMsg
    <2> QED
      BY <2>1, CallerNew
  <1>2. PICK b \in 0..MaxSeq : (Send(AckMsg(n, b)) \in Steps(Caller, u))'
    BY DEF AckTodo
  <1>3. u = t
    BY <1>1, <1>2
  <1>4. PICK s \in Statuses : Takes(t, s) /\ ResponseTaken(t, s) /\ Out # None /\ Final(s) /\ n = Out.seq
    BY <1>1, <1>2, GetsAck
  <1>5. /\ n = Out.branch /\ n \in Seqs /\ \A i \in Seqs : Made(i) => i <= n
        /\ HearsNew(t, n, s) \/ TimesOut(t, n)
    BY <1>4, TakesLast
  <1>6. Closed(n)'
    <2>1. CASE HearsNew(t, n, s)
      <3>1. Heard(n)' = s
        BY <1>5, <2>1, HeardNow
      <3> QED
        BY <1>4, <3>1 DEF Closed, Final
    <2>2. CASE TimesOut(t, n)
      BY <1>5, <2>2 DEF Closed, TimesOut, IctBecomes
    <2> QED
      BY <1>5, <2>1, <2>2
  <1>7. ASSUME NEW c \in 0..MaxSeq, (Send(AckMsg(n, c)) \in Steps(Caller, u))'
        PROVE  c \in {0, n} /\ (~May("threads") /\ c = 0 => Heard(n)' \in 200..299)
    <2>1. PICK r \in Statuses : Takes(t, r) /\ Final(r) /\ ((Connects(t, r) /\ c = 0) \/ c = Out.branch)
      BY <1>1, <1>7, GetsAck
    <2>2. ASSUME c = 0
          PROVE  Heard(n)' \in 200..299
      <3>1. Connects(t, r) /\ r \in 200..299
        BY <1>5, <2>1, <2>2, SeqFacts DEF Connects
      <3>2. HearsNew(t, Out.branch, r)
        BY <1>4, <2>1, <3>1, TakesLast DEF RequestTimeout
      <3> QED
        BY <1>5, <3>1, <3>2, HeardNow
    <2> QED
      BY <1>5, <2>1, <2>2
  <1>8. ASSUME NEW i \in Seqs, Made(i)', i > n
        PROVE  (Send(InviteMsg(i)) \in Steps(Caller, u))'
    <2>1. ~Made(i)
      BY <1>5, <1>8, SeqFacts
    <2>2. ~CallStarts(t)
      BY <1>4 DEF CallStarts
    <2>3. PICK j \in Seqs, r \in Statuses : Renewal(t, j, r, i)
      BY <1>8, <2>1, <2>2, NextMade DEF NumberKept
    <2>4. Works(Caller, t, {Send(AckMsg(Out.seq, Out.branch)), Send(InviteMsg(i))})
      BY <2>3 DEF Renewal, Retries
    <2>5. Send(InviteMsg(i)) \in Steps(Caller, t)'
      BY <2>4, Pair DEF Works
    <2> QED
      BY <1>3, <2>5 DEF Send, InviteMsg
  <1>9. May("threads")' <=> May("threads")
    BY DEF May
  <1>10. \A c \in 0..MaxSeq : (Send(AckMsg(n, c)) \in Steps(Caller, u))' =>
             c \in {0, n} /\ (~May("threads")' /\ c = 0 => Heard(n)' \in 200..299)
    BY <1>7, <1>9
  <1>11. \A i \in Seqs : Made(i)' /\ i > n => (Send(InviteMsg(i)) \in Steps(Caller, u))'
    BY <1>8
  <1> QED
    BY <1>5, <1>6, <1>10, <1>11 DEF AckRight

LEMMA AcksRightStep ==
  ASSUME Base, Numbers, OnlyReceived, AnswerInv, ChainInv, AcksInOrder, AcksRight, NumberKept, scenario' = scenario,
         NEW t \in Threads, Acts(t)
  PROVE  AcksRight'
  <1>1. ASSUME NEW u \in Threads, NEW n \in 0..MaxSeq
        PROVE  AckRight(u, n)'
    BY OldAckRight, NewAckRight
  <1> QED
    BY <1>1 DEF AcksRight

(* An INVITE that was acknowledged, or is about to be, stays so.           *)
LEMMA KeepsAck ==
  ASSUME Base, Numbers, AcksInOrder, AcksRight, NEW t \in Threads, Acts(t), NEW i \in Seqs,
         ict[Caller][i] # None, Acknowledged(i) \/ ToAck(i)
  PROVE  Acknowledged(i)' \/ ToAck(i)'
  <1>1. CASE ict'[Caller][i] = ict[Caller][i] /\ Acknowledged(i)
    BY <1>1 DEF Acknowledged
  <1>2. ASSUME NEW n \in 0..MaxSeq, NEW b \in 0..MaxSeq, SendsAck(t, n, b),
               ict'[Caller][i] # ict[Caller][i] \/ n = i
        PROVE  Acknowledged(i)'
    <2>1. CASE UNCHANGED ict /\ \A j \in Sent(Caller) : ict[Caller][j].ack
      BY <1>2, <2>1, SentFacts DEF Acknowledged, Base
    <2>2. CASE /\ \A j \in Seqs : j # n => ict'[Caller][j] = ict[Caller][j]
               /\ \/ ict'[Caller][n] \in Transaction /\ ict'[Caller][n].ack
                  \/ ict'[Caller][n] = Gone
      BY <1>2, <2>2, NoneFacts DEF Acknowledged
    <2> QED
      BY <1>2, <2>1, <2>2, AckLands
  <1>3. ASSUME NEW s \in Statuses, HearsNew(t, i, s), Acknowledged(i)
        PROVE  Acknowledged(i)'
    <2>1. ict[Caller][i] \in Transaction /\ ict[Caller][i].ack /\ ict'[Caller][i] = [ict[Caller][i] EXCEPT !.status = s]
      BY <1>3 DEF HearsNew, Acknowledged, IctBecomes
    <2>2. \A y \in Transaction : [y EXCEPT !.status = s].ack = y.ack
      BY TransactionFacts
    <2> QED
      BY <2>1, <2>2 DEF Acknowledged
  <1>4. ASSUME NEW j \in Seqs, TimesOut(t, j), ict'[Caller][i] # ict[Caller][i]
        PROVE  Acknowledged(i)'
    BY <1>4, NoneFacts DEF TimesOut, IctBecomes, Acknowledged
  <1>5. ASSUME Acknowledged(i), ict'[Caller][i] # ict[Caller][i]
        PROVE  Acknowledged(i)'
    <2>1. ASSUME NEW j \in Seqs, SendsInvite(t, j)
          PROVE  FALSE
      <3>1. ict[Caller][j] = None
        BY <2>1, HasSteps DEF SendsInvite, Sends, Numbers, InviteOnce
      <3> QED
        BY <1>5, <2>1, <3>1 DEF SendsInvite, IctBecomes
    <2>2. ASSUME NEW j \in Seqs, NEW s \in Statuses, Hears(t, j, s)
          PROVE  HearsNew(t, i, s)
      <3>1. HearsNew(t, j, s)
        BY <1>5, <2>2 DEF Hears, HearsNew
      <3>2. j = i
        BY <1>5, <3>1 DEF HearsNew, IctBecomes
      <3> QED
        BY <3>1, <3>2
    <2>3. CASE CallerActs(t)
      BY <1>2, <1>3, <1>4, <1>5, <2>1, <2>2, <2>3 DEF CallerActs, CallStarts, HangsUp, CallCancels, ReInvites, Pracks, Requests, SendsOther,
       Tells, Deletes, EndsCall, StopsNothing, ByeComes, Rest
    <2> QED
      BY <1>5, <2>3, Whose, CallerRestsThen DEF CallerRests, Nothing
  <1>6. ASSUME NEW u \in Threads, AckTodo(u, i), ~AckTodo(u, i)'
        PROVE  Acknowledged(i)'
    <2>1. PICK b \in 0..MaxSeq : Send(AckMsg(i, b)) \in Steps(Caller, u)
      BY <1>6 DEF AckTodo
    <2>2. Send(AckMsg(i, b)) \notin Steps(Caller, u)'
      BY <1>6 DEF AckTodo, Send, AckMsg
    <2>3. PICK n, c \in 0..MaxSeq : AckMsg(i, b) = AckMsg(n, c) /\ SendsAck(t, n, c)
      BY <2>1, <2>2, SendDone, MessagesDiffer, Pair
    <2>4. n = i
      BY <2>3, MessageSame
    <2> QED
      BY <1>2, <2>3, <2>4
  <1> QED
    BY <1>1, <1>5, <1>6 DEF ToAck

LEMMA AcksInOrderStep ==
  ASSUME Base, Numbers, OnlyReceived, AnswerInv, ChainInv, AcksInOrder, AcksRight, NumberKept,
         NEW t \in Threads, Acts(t)
  PROVE  AcksInOrder'
  <1> SUFFICES ASSUME NEW i \in Seqs, NEW j \in Seqs, Made(i)', Made(j)', i < j PROVE Acknowledged(i)' \/ ToAck(i)'
    BY DEF AcksInOrder
  <1>1. ASSUME NEW k \in Seqs, Made(i), Made(k), i < k
        PROVE  Acknowledged(i)' \/ ToAck(i)'
    <2>1. Given(i) >= 300
      BY <1>1 DEF AnswerInv, DeadInv, Dead
    <2>2. ist[Callee][i] # None
      BY <2>1 DEF Given
    <2>3. ict[Caller][i] # None
      BY <2>2 DEF Numbers, InviteOnce
    <2> QED
      BY <1>1, <2>3, KeepsAck DEF AcksInOrder
  <1>2. ASSUME ~Made(j), NEW l \in Seqs, NEW s \in Statuses, Renewal(t, l, s, j)
        PROVE  Acknowledged(i)' \/ ToAck(i)'
    <2>1. l = Out.branch /\ Made(l) /\ \A k \in Seqs : Made(k) => k <= l
      BY <1>2, RenewedDead DEF AnswerInv
    <2>2. Out # None /\ Final(s) /\ HearsNew(t, l, s) /\ j = NextSeq(Out)
      BY <1>2, RetriesFinal DEF Renewal
    <2>3. Takes(t, s) /\ ResponseTaken(t, s)
      BY <2>2 DEF Takes, HearsNew
    <2>4. Out.seq = l
      BY <2>1, <2>2, <2>3, TakesLast
    <2>5. CASE i = l
      <3>1. AckTodo(t, i)'
        BY <2>2, <2>3, <2>4, <2>5, GivesAck
      <3> QED
        BY <3>1 DEF ToAck
    <2>6. CASE i # l /\ Made(i)
      <3>1. i < l
        BY <2>1, <2>6, SeqFacts
      <3> QED
        BY <1>1, <2>1, <2>6, <3>1
    <2>7. CASE ~Made(i)
      <3>1. ASSUME NEW k \in Seqs, NEW r \in Statuses, Renewal(t, k, r, i)
            PROVE  FALSE
        <4>1. i = NextSeq(Out)
          BY <3>1, RetriesFinal DEF Renewal
        <4> QED
          BY <2>2, <4>1, SeqFacts
      <3>2. ~CallStarts(t)
        BY <2>2 DEF CallStarts
      <3> QED
        BY <2>7, <3>1, <3>2, NextMade DEF NumberKept
    <2> QED
      BY <2>5, <2>6, <2>7
  <1>3. CASE Made(i) /\ Made(j)
    BY <1>1, <1>3
  <1>4. CASE ~Made(j)
    <2>1. \/ CallStarts(t) /\ j = 1
          \/ \E l \in Seqs, s \in Statuses : Renewal(t, l, s, j)
      BY <1>4, NextMade DEF NumberKept
    <2> QED
      BY <1>2, <1>4, <2>1, SeqFacts
  <1>5. CASE ~Made(i) /\ Made(j)
    <2>1. \/ \A k \in Seqs : ~Made(k)
          \/ \A k \in Seqs : Made(k) => k < i
      BY <1>5, NextMade DEF NumberKept
    <2> QED
      BY <1>5, <2>1, SeqFacts
  <1> QED
    BY <1>3, <1>4, <1>5

-----------------------------------------------------------------------------
(* An INVITE whose ACK was sent has it, or gets it, at the callee.         *)
AckUnder(i) ==
  \/ ist[Callee][i] = Gone
  \/ ist[Callee][i] \in Transaction /\ ist[Callee][i].ack
  \/ ist[Callee][i] # None /\ \E b \in 0..MaxSeq : AckMsg(i, b) \in wire

AckTaken(i) ==
  /\ ict[Caller][i] \in Transaction /\ ict[Caller][i].ack => AckUnder(i)
  /\ ict[Caller][i] = Gone => AckUnder(i) \/ Out = None \/ Has(Caller, Delete)
  /\ Out # None /\ ict[Caller][i] \in Transaction /\ Heard(i) >= 200 => ict[Caller][i].ack \/ ToAck(i)

AckWire ==
  \A n, b \in 0..MaxSeq : AckMsg(n, b) \in wire =>
    /\ n \in Seqs /\ b \in {0, n}
    /\ ~May("threads") => Heard(n) >= 200

AckInv == AnswerInv /\ AcksInOrder /\ AcksRight /\ AckWire /\ \A i \in Seqs : AckTaken(i)

LEMMA AckGone ==
  ASSUME Base, NEW t \in Threads, Acts(t), NEW n, NEW b, AckMsg(n, b) \in wire, AckMsg(n, b) \notin wire'
  PROVE  AckComes(n, b)
  <1>1. CASE Calls(t)
    BY <1>1 DEF Calls, CallStarts, HangsUp, CallCancels, Rejects, Accepts, Rings, ReInvites, Requests, Pracks, Nothing, Rest
  <1>2. CASE Proceeds(t)
    BY <1>2 DEF Proceeds, SendsInvite, SendsAck, AckGoes, SendsAnswer, SendsOther, Tells, Deletes, EndsCall, Inserts,
       AnswersAgain, HangsUp, StopsNothing, Rest
  <1>3. CASE Expires(t)
    BY <1>3 DEF Expires, TimesOut, GivesUp
  <1>4. CASE Receives(t)
    <2>1. \A i \in Seqs, s \in Statuses : ~Hears(t, i, s)
      BY MessagesDiffer DEF Hears, Overtaken
    <2>2. \A i, S : ~InviteComes(t, i, S)
      BY MessagesDiffer DEF InviteComes, Arrives
    <2>3. ASSUME NEW k, NEW c, AckComes(k, c)
          PROVE  k = n /\ c = b
      BY <2>3, MessageSame DEF AckComes, Arrives
    <2>4. ~CancelComes(t) /\ (\A a : ~ByeComes(a, t)) /\ \A k : ~PrackComes(t, k)
      BY MessagesDiffer DEF CancelComes, ByeComes, PrackComes, Arrives
    <2> QED
      BY <1>4, <2>1, <2>2, <2>3, <2>4 DEF Receives
  <1> QED
    BY <1>1, <1>2, <1>3, <1>4 DEF Acts

LEMMA UnderStays ==
  ASSUME Base, Numbers, NEW t \in Threads, Acts(t), NEW i \in Seqs, AckUnder(i)
  PROVE  AckUnder(i)'
  <1>1. CASE ist[Callee][i] = Gone
    BY <1>1, GoneStays DEF AckUnder
  <1>2. CASE ist[Callee][i] \in Transaction /\ ist[Callee][i].ack
    <2> DEFINE y == ist[Callee][i]
    <2>1. /\ \A s \in Statuses : [y EXCEPT !.status = s] \in Transaction /\ [y EXCEPT !.status = s].ack = y.ack
          /\ [y EXCEPT !.ack = TRUE] \in Transaction /\ [y EXCEPT !.ack = TRUE].ack
      BY <1>2, TransactionFacts
    <2>2. CASE ist' = ist
      BY <1>2, <2>2 DEF AckUnder
    <2>3. ASSUME NEW j \in Seqs, NEW s \in Statuses, SendsAnswer(t, j, s)
          PROVE  AckUnder(i)'
      <3>1. ist'[Callee][i] = y \/ ist'[Callee][i] = [y EXCEPT !.status = s]
        BY <2>3 DEF SendsAnswer, IstBecomes
      <3>2. ist'[Callee][i] \in Transaction /\ ist'[Callee][i].ack = y.ack
        BY <1>2, <2>1, <3>1
      <3> QED
        BY <1>2, <3>2 DEF AckUnder
    <2>4. ASSUME NEW j \in Seqs, NEW S, InviteComes(t, j, S)
          PROVE  AckUnder(i)'
      <3>1. ist[Callee][j] = None
        BY <2>4 DEF InviteComes, Arrives, Numbers, InviteOnce
      <3>2. j # i
        BY <1>2, <3>1, NoneFacts
      <3> QED
        BY <1>2, <2>4, <3>2 DEF InviteComes, IstBecomes, AckUnder
    <2>5. ASSUME NEW n, NEW b, AckComes(n, b)
          PROVE  AckUnder(i)'
      <3>1. ist'[Callee][i] = y \/ ist'[Callee][i] = [y EXCEPT !.ack = TRUE]
        BY <2>5 DEF AckComes, IstBecomes
      <3>2. ist'[Callee][i] \in Transaction /\ ist'[Callee][i].ack
        BY <1>2, <2>1, <3>1
      <3> QED
        BY <3>2 DEF AckUnder
    <2>6. ASSUME NEW j \in Seqs, GivesUp(t, j)
          PROVE  AckUnder(i)'
      BY <1>2, <2>6 DEF GivesUp, IstBecomes, AckUnder
    <2>7. CASE CalleeActs(t)
      <3>1. \/ ist' = ist
            \/ \E j \in Seqs : \/ GivesUp(t, j) \/ (\E S : InviteComes(t, j, S))
                               \/ \E s \in Statuses : SendsAnswer(t, j, s)
            \/ \E n, b : AckComes(n, b)
        BY <2>7 DEF CalleeActs, HangsUp, Requests, Rejects, Accepts, Rings, Inserts, AnswersAgain,
           PrackComes, SendsOther, Tells, Deletes, EndsCall, CancelComes, ByeComes, Rest
      <3> QED
        BY <2>2, <2>3, <2>4, <2>5, <2>6, <3>1
    <2> QED
      BY <2>2, <2>7, Whose, CalleeRestsThen DEF CalleeRests, Nothing
  <1>3. ASSUME ist[Callee][i] # None, NEW b \in 0..MaxSeq, AckMsg(i, b) \in wire
        PROVE  AckUnder(i)'
    <2>1. ist'[Callee][i] # None
      BY <1>3, Grows
    <2>2. CASE AckMsg(i, b) \in wire'
      BY <2>1, <2>2 DEF AckUnder, AckMsg
    <2>3. CASE AckMsg(i, b) \notin wire'
      <3>1. AckComes(i, b)
        BY <1>3, <2>3, AckGone
      <3>2. ist[Callee][i] \in Transaction \cup {None, Gone}
        BY SentFacts DEF Base
      <3>3. CASE ist[Callee][i] = Gone
        BY <1>1, <3>3
      <3>4. CASE ist[Callee][i] \in Transaction
        <4>1. \A y \in Transaction : [y EXCEPT !.ack = TRUE] \in Transaction /\ [y EXCEPT !.ack = TRUE].ack
          BY TransactionFacts
        <4>2. ist'[Callee][i] = [ist[Callee][i] EXCEPT !.ack = TRUE]
          BY <3>1, <3>4 DEF AckComes, IstBecomes
        <4> QED
          BY <3>4, <4>1, <4>2 DEF AckUnder
      <3> QED
        BY <1>3, <3>2, <3>3, <3>4
    <2> QED
      BY <2>2, <2>3
  <1> QED
    BY <1>1, <1>2, <1>3 DEF AckUnder

(* What becomes of the transaction of an INVITE. *)
LEMMA IctKinds ==
  ASSUME Base, Numbers, AnswerInv, AcksInOrder, AcksRight, NEW t \in Threads, Acts(t), NEW i \in Seqs
  PROVE  \/ ict'[Caller][i] = ict[Caller][i]
         \/ ict[Caller][i] = None /\ ict'[Caller][i] = NewTransaction
         \/ /\ AckUnder(i)' /\ Heard(i) >= 200
            /\ \/ ict'[Caller][i] \in Transaction /\ ict'[Caller][i].ack /\ Heard(i)' = Heard(i)
               \/ ict'[Caller][i] = Gone /\ May("threads")
         \/ \E s \in Statuses : HearsNew(t, i, s)
         \/ TimesOut(t, i)
  <1> SUFFICES ASSUME ict'[Caller][i] # ict[Caller][i]
               PROVE  \/ ict[Caller][i] = None /\ ict'[Caller][i] = NewTransaction
                      \/ /\ AckUnder(i)' /\ Heard(i) >= 200
                         /\ \/ ict'[Caller][i] \in Transaction /\ ict'[Caller][i].ack /\ Heard(i)' = Heard(i)
                            \/ ict'[Caller][i] = Gone /\ May("threads")
                      \/ \E s \in Statuses : HearsNew(t, i, s)
                      \/ TimesOut(t, i)
    OBVIOUS
  <1>1. ASSUME NEW j \in Seqs, SendsInvite(t, j)
        PROVE  ict[Caller][i] = None /\ ict'[Caller][i] = NewTransaction
    <2>1. ict[Caller][j] = None
      BY <1>1, HasSteps DEF SendsInvite, Sends, Numbers, InviteOnce
    <2> QED
      BY <1>1, <2>1 DEF SendsInvite, IctBecomes
  <1>2. ASSUME NEW n \in 0..MaxSeq, NEW b \in 0..MaxSeq, SendsAck(t, n, b)
        PROVE  /\ AckUnder(i)' /\ Heard(i) >= 200
               /\ \/ ict'[Caller][i] \in Transaction /\ ict'[Caller][i].ack /\ Heard(i)' = Heard(i)
                  \/ ict'[Caller][i] = Gone /\ May("threads")
    <2>1. n \in Seqs /\ ist' = ist
      BY <1>2, AckLands
    <2>2. /\ Heard(n) >= 200 /\ wire' = wire \cup {AckMsg(n, b)}
          /\ \A j \in Seqs : j # n => ict'[Caller][j] = ict[Caller][j]
          /\ \/ ict'[Caller][n] \in Transaction /\ ict'[Caller][n].ack /\ Heard(n)' = Heard(n)
             \/ ict'[Caller][n] = Gone /\ May("threads")
      BY <1>2, AckLands
    <2>3. n = i
      BY <2>2
    <2>4. Given(i) >= 200
      BY <2>2, <2>3, HeardNat, GivenNat DEF AnswerInv, HeardRight
    <2>5. ist'[Callee][i] # None
      BY <2>1, <2>4, GivenReceived
    <2> QED
      BY <2>2, <2>3, <2>5 DEF AckUnder, AckMsg
  <1>3. ASSUME NEW j \in Seqs, NEW s \in Statuses, Hears(t, j, s)
        PROVE  HearsNew(t, i, s)
    <2>1. HearsNew(t, j, s)
      BY <1>3 DEF Hears, HearsNew
    <2>2. j = i
      BY <2>1 DEF HearsNew, IctBecomes
    <2> QED
      BY <2>1, <2>2
  <1>4. ASSUME NEW j \in Seqs, TimesOut(t, j)
        PROVE  TimesOut(t, i)
    BY <1>4 DEF TimesOut, IctBecomes
  <1>5. CASE CallerActs(t)
    BY <1>1, <1>2, <1>3, <1>4, <1>5 DEF CallerActs, CallStarts, HangsUp, CallCancels, ReInvites, Pracks, Requests, SendsOther,
       Tells, Deletes, EndsCall, StopsNothing, ByeComes, Rest
  <1> QED
    BY <1>5, Whose, CallerRestsThen DEF CallerRests, Nothing

(* An INVITE that timed out ends the dialog. *)
LEMMA TimedOutEnds ==
  ASSUME Base, Numbers, AnswerInv, ChainInv, AcksInOrder, AcksRight, NumberKept,
         NEW t \in Threads, NEW i \in Seqs, TimesOut(t, i), Out # None
  PROVE  Has(Caller, Delete)'
  <1>1. RequestTimeout \in Statuses /\ Final(RequestTimeout)
    BY StatusFacts, FinalStatuses
  <1>2. Takes(t, RequestTimeout) /\ ResponseTaken(t, RequestTimeout)
    BY DEF Takes, TimesOut
  <1>3. \A s, r \in Statuses : Answer(i, s) \in wire /\ s # r => Answer(i, s) # Answer(i, r)
    BY MessageSame
  <1>4. HearsNew(t, Out.branch, RequestTimeout) => FALSE
    <2>1. Out.branch \in Seqs
      BY DEF Numbers, LastInvite
    <2> SUFFICES ASSUME HearsNew(t, Out.branch, RequestTimeout) PROVE FALSE
      OBVIOUS
    <2>2. Answer(Out.branch, RequestTimeout) \in wire /\ Answer(Out.branch, RequestTimeout) \notin wire'
      <3>1. RequestTimeout <= RequestTimeout
        BY StatusFacts
      <3> QED
        BY <1>1, <3>1 DEF HearsNew, Hears, Overtaken
    <2> QED
      BY <2>2 DEF TimesOut
  <1>5. ~Out.start
    BY <1>1, <1>2, <1>4, TakesLast
  <1>6. ~Rings100(RequestTimeout) /\ ~Connects(t, RequestTimeout) /\ ~RefusesAgain(t, RequestTimeout)
        /\ \A n : ~Retries(t, RequestTimeout, n)
    BY <1>5 DEF Rings100, Connects, RefusesAgain, Retries, RequestTimeout, Unauthorized, Moved
  <1>7. Refuses(t, RequestTimeout)
    BY <1>2, <1>6 DEF ResponseTaken
  <1> QED
    BY <1>7, WorksHas, Pair DEF Refuses

LEMMA AckTakenStep ==
  ASSUME Base, Numbers, CallInv, AckInv, NumberKept, NEW t \in Threads, Acts(t), NEW i \in Seqs
  PROVE  AckTaken(i)'
  <1>1. AnswerInv /\ AcksInOrder /\ AcksRight /\ AckTaken(i) /\ ChainInv
    BY DEF AckInv, CallInv
  <1>2. CASE ict[Caller][i] = None /\ ict'[Caller][i] = NewTransaction
    <2>1. NewTransaction \in Transaction /\ ~NewTransaction.ack /\ NewTransaction.status = 0
      BY NoneFacts DEF NewTransaction
    <2> QED
      BY <1>2, <2>1, NoneFacts DEF AckTaken, Heard
  <1>3. CASE /\ AckUnder(i)'
             /\ \/ ict'[Caller][i] \in Transaction /\ ict'[Caller][i].ack
                \/ ict'[Caller][i] = Gone
    BY <1>3, NoneFacts DEF AckTaken
  <1>4. ASSUME ict[Caller][i] # None, Out = None
        PROVE  Out' = None
    <2>1. ~CallStarts(t)
      BY <1>4 DEF CallStarts, Numbers, Fresh
    <2> QED
      BY <1>4, <2>1, OutNone
  <1>5. ASSUME NEW s \in Statuses, HearsNew(t, i, s)
        PROVE  AckTaken(i)'
    <2>1. ict[Caller][i] \in Transaction /\ ict'[Caller][i] = [ict[Caller][i] EXCEPT !.status = s] /\ ResponseTaken(t, s)
      BY <1>5 DEF HearsNew, IctBecomes
    <2>2. \A y \in Transaction : [y EXCEPT !.status = s] \in Transaction /\ [y EXCEPT !.status = s].ack = y.ack
      BY TransactionFacts
    <2>3. ict'[Caller][i] \in Transaction /\ ict'[Caller][i].ack = ict[Caller][i].ack
      BY <2>1, <2>2
    <2>4. ict'[Caller][i].ack => AckUnder(i)'
      BY <1>1, <2>1, <2>3, UnderStays DEF AckTaken
    <2>5. ASSUME Out' # None, Heard(i)' >= 200
          PROVE  ToAck(i)'
      <3>1. Out # None
        BY <2>1, <2>5, TakenNone
      <3>2. Final(s) /\ Takes(t, s)
        BY <1>5, <2>5, HeardNow DEF Final, Takes
      <3>3. Out.seq = Out.branch /\ Out.branch = i
        BY <1>1, <1>5, <3>1, <3>2, TakesLast, HeardLast, DeadReplaced DEF AnswerInv
      <3>4. AckTodo(t, i)'
        BY <2>1, <3>1, <3>2, <3>3, GivesAck
      <3> QED
        BY <3>4 DEF ToAck
    <2> QED
      BY <2>3, <2>4, <2>5, NoneFacts DEF AckTaken
  <1>6. CASE TimesOut(t, i)
    <2>1. ict'[Caller][i] = Gone
      BY <1>6 DEF TimesOut, IctBecomes
    <2>2. Out' = None \/ Has(Caller, Delete)'
      BY <1>1, <1>6, TimedOutEnds, TakenNone DEF TimesOut
    <2> QED
      BY <2>1, <2>2, NoneFacts DEF AckTaken
  <1>7. CASE ict'[Caller][i] = ict[Caller][i]
    <2>1. ict'[Caller][i] \in Transaction /\ ict'[Caller][i].ack => AckUnder(i)'
      BY <1>1, <1>7, UnderStays DEF AckTaken
    <2>2. ASSUME ict'[Caller][i] = Gone
          PROVE  AckUnder(i)' \/ Out' = None \/ Has(Caller, Delete)'
      <3>1. AckUnder(i) \/ Out = None \/ Has(Caller, Delete)
        BY <1>1, <1>7, <2>2 DEF AckTaken
      <3> QED
        BY <1>4, <1>7, <2>2, <3>1, UnderStays, DeleteStays, NoneFacts, Pair DEF Out
    <2>3. ASSUME Out' # None, ict'[Caller][i] \in Transaction, Heard(i)' >= 200
          PROVE  ict'[Caller][i].ack \/ ToAck(i)'
      <3>1. ict[Caller][i] # None /\ Heard(i)' = Heard(i)
        BY <1>7, <2>3, HeardSame, NoneFacts
      <3>2. Out # None
        BY <1>4, <2>3, <3>1
      <3>3. Acknowledged(i) \/ ToAck(i)
        BY <1>1, <1>7, <2>3, <3>1, <3>2 DEF AckTaken, Acknowledged
      <3>4. Acknowledged(i)' \/ ToAck(i)'
        BY <1>1, <3>1, <3>3, KeepsAck
      <3> QED
        BY <2>3, <3>4 DEF Acknowledged
    <2> QED
      BY <2>1, <2>2, <2>3 DEF AckTaken
  <1> QED
    BY <1>1, <1>2, <1>3, <1>5, <1>6, <1>7, IctKinds

LEMMA AckWireStep ==
  ASSUME Base, Numbers, AckInv, NumberKept, scenario' = scenario, NEW t \in Threads, Acts(t)
  PROVE  AckWire'
  <1> SUFFICES ASSUME NEW n \in 0..MaxSeq, NEW b \in 0..MaxSeq, AckMsg(n, b)' \in wire'
               PROVE  /\ n \in Seqs /\ b \in {0, n}
                      /\ ~May("threads")' => Heard(n)' >= 200
    BY DEF AckWire
  <1>1. AnswerInv /\ AcksInOrder /\ AcksRight /\ AckWire
    BY DEF AckInv
  <1>2. AckMsg(n, b) \in wire' /\ (May("threads")' <=> May("threads"))
    BY DEF AckMsg, May
  <1>3. CASE AckMsg(n, b) \notin wire
    <2>1. PICK k, c \in 0..MaxSeq : AckMsg(n, b) = AckMsg(k, c) /\ SendsAck(t, k, c)
      BY <1>2, <1>3, WireStep, MessagesDiffer, Pair
    <2>2. SendsAck(t, n, b)
      BY <2>1, MessageSame
    <2>3. wire' # wire
      BY <1>2, <1>3
    <2>4. /\ n \in Seqs /\ b \in {0, n} /\ Heard(n) >= 200
          /\ Heard(n)' = Heard(n) \/ May("threads")
      BY <1>1, <2>2, <2>3, AckLands
    <2> QED
      BY <1>2, <2>4
  <1>4. CASE AckMsg(n, b) \in wire
    <2>1. n \in Seqs /\ b \in {0, n} /\ (~May("threads") => Heard(n) >= 200)
      BY <1>1, <1>4 DEF AckWire
    <2>2. ASSUME ~May("threads")
          PROVE  Heard(n)' >= 200
      <3>1. Heard(n) >= 200 /\ ict[Caller][n] \in Transaction /\ ict[Caller][n].status >= 200
        BY <2>1, <2>2 DEF Heard
      <3>2. ~TimesOut(t, n)
        <4>1. ict[Caller][n].status \in Nat
          BY <3>1, TransactionFacts
        <4> QED
          BY <3>1, <4>1 DEF TimesOut
      <3>3. ASSUME NEW s \in Statuses, HearsNew(t, n, s)
            PROVE  Heard(n)' >= 200
        <4>1. s > Heard(n) /\ Heard(n)' = s
          BY <1>1, <2>1, <3>3, HeardNow DEF AnswerInv, HeardRight, HearsNew, Hears
        <4> QED
          BY <2>1, <3>1, <4>1, HeardNat, StatusFacts
      <3>4. ict[Caller][n] # None
        BY <3>1, NoneFacts
      <3> QED
        BY <1>1, <2>1, <2>2, <3>1, <3>2, <3>3, <3>4, IctKinds, HeardSame
    <2> QED
      BY <1>2, <2>1, <2>2
  <1> QED
    BY <1>3, <1>4

-----------------------------------------------------------------------------
(* The invariant, and the theorem. *)
LEMMA AckInvStep ==
  ASSUME CallInv, AckInv, NumberKept, scenario' = scenario, NEW t \in Workers, Acts(t)
  PROVE  AckInv'
  <1>1. Base /\ Numbers /\ OnlyReceived /\ OneAtATime /\ ChainInv /\ CancelRight
    BY DEF CallInv, ChainInv
  <1>2. /\ AnswerInv /\ AcksInOrder /\ AcksRight
        /\ TokenInv /\ DeadInv /\ Straight /\ \A i \in Seqs : HeardRight(i)
    BY DEF AckInv, AnswerInv
  <1>3. t \in Threads /\ ~May("reinvite")
    BY WorkerThreads DEF NumberKept
  <1>4. TokenInv' /\ DeadInv'
    BY <1>1, <1>2, <1>3, TokenInvStep, DeadInvStep
  <1>5. Straight'
    BY <1>1, <1>2, <1>3, StraightStep
  <1>6. \A i \in Seqs : HeardRight(i)'
    BY <1>1, <1>2, HeardRightStep
  <1>7. AnswerInv'
    BY <1>4, <1>5, <1>6 DEF AnswerInv
  <1>8. AcksRight' /\ AcksInOrder'
    BY <1>1, <1>2, <1>3, AcksRightStep, AcksInOrderStep
  <1>9. AckWire'
    BY <1>1, <1>3, AckWireStep
  <1>10. \A i \in Seqs : AckTaken(i)'
    BY <1>1, <1>3, AckTakenStep
  <1> QED
    BY <1>7, <1>8, <1>9, <1>10 DEF AckInv

LEMMA AckInvInit == Init => AckInv
  <1> SUFFICES ASSUME Init PROVE AckInv
    OBVIOUS
  <1>1. /\ \A t \in Threads : Steps(Caller, t) = {} /\ Steps(Callee, t) = {}
        /\ \A s : ~Has(Caller, s) /\ ~Has(Callee, s)
        /\ \A i \in Seqs : ict[Caller][i] = None /\ ist[Callee][i] = None
        /\ wire = {} /\ Out = None /\ In = None
    BY InitLists, Pair
  <1>2. \A i \in Seqs : ~Made(i) /\ Given(i) = 0 /\ Heard(i) = 0
    BY <1>1, NoneFacts DEF Made, Given, Heard
  <1>3. \A u \in Threads, n \in 0..MaxSeq : ~AckTodo(u, n)
    BY <1>1 DEF AckTodo
  <1>4. TokenInv
    BY <1>1 DEF TokenInv, Cancelled
  <1>5. DeadInv /\ Straight /\ AcksInOrder /\ AcksRight
    BY <1>1, <1>2, <1>3 DEF DeadInv, Straight, AcksInOrder, AcksRight, AckRight
  <1>6. AckWire /\ \A i \in Seqs : HeardRight(i) /\ AckTaken(i)
    BY <1>1, <1>2, NoneFacts DEF AckWire, HeardRight, AckTaken
  <1> QED
    BY <1>4, <1>5, <1>6 DEF AckInv, AnswerInv

LEMMA SameAck == ASSUME AckInv, UNCHANGED vars PROVE AckInv'
  <1>1. /\ Out' = Out /\ In' = In /\ wire' = wire /\ ict' = ict /\ ist' = ist
        /\ \A f : May(f)' <=> May(f)
        /\ \A a, t : Steps(a, t)' = Steps(a, t)
    BY DEF vars, Steps, Out, In, May
  <1>2. \A a, s : Has(a, s)' <=> Has(a, s)
    BY <1>1 DEF Has
  <1>3. \A i : Given(i)' = Given(i) /\ Heard(i)' = Heard(i) /\ (Made(i)' <=> Made(i)) /\ (Closed(i)' <=> Closed(i))
    BY <1>1, <1>2 DEF Given, Heard, Made, Closed
  <1>4. \A i, s : Pending(i, s)' <=> Pending(i, s)
    BY <1>2 DEF Pending, Send, Answer
  <1>5. \A i : /\ PendingFinal(i)' <=> PendingFinal(i)
               /\ Inserting(i)' <=> Inserting(i)
               /\ Asks(i)' <=> Asks(i)
               /\ Again(i)' <=> Again(i)
               /\ ToAnswer(i)' <=> ToAnswer(i)
    BY <1>1, <1>2, <1>4 DEF ToAnswer, Again, PendingFinal, Inserting, Asks, InsertStep, AnswerStep, Final
  <1>6. \A u, n : AckTodo(u, n)' <=> AckTodo(u, n)
    BY <1>1 DEF AckTodo, Send, AckMsg
  <1>7. \A i : (ToAck(i)' <=> ToAck(i)) /\ (Acknowledged(i)' <=> Acknowledged(i)) /\ (AckUnder(i)' <=> AckUnder(i))
    BY <1>1, <1>6 DEF ToAck, Acknowledged, AckUnder, AckMsg
  <1>8. TokenInv'
    <2>1. ASSUME NEW i \in Seqs
          PROVE  /\ OneToken(i) => OneToken(i)'
                 /\ AnswerRight(i) => AnswerRight(i)'
      <3>1. OneToken(i) => OneToken(i)'
        BY <1>1, <1>3, <1>5 DEF OneToken, Entry, Answers, Send, Answer, Final, InsertStep, AnswerStep
      <3>2. AnswerRight(i) => AnswerRight(i)'
        BY <1>1, <1>3 DEF AnswerRight, Answer, Final
      <3> QED
        BY <3>1, <3>2
    <2>2. Cancelled' <=> Cancelled
      BY <1>1 DEF Cancelled
    <2> QED
      BY <2>1, <2>2 DEF AckInv, AnswerInv, TokenInv
  <1>9. DeadInv'
    <2>1. \A i \in Seqs : Dead(i) => Dead(i)'
      BY <1>1, <1>3, <1>5 DEF Dead, Answer
    <2> QED
      BY <1>3, <2>1 DEF AckInv, AnswerInv, DeadInv
  <1>10. Straight'
    BY <1>1, <1>3 DEF AckInv, AnswerInv, Straight
  <1>11. \A i \in Seqs : HeardRight(i)'
    BY <1>1, <1>3 DEF AckInv, AnswerInv, HeardRight, Answer
  <1>12. AcksInOrder'
    BY <1>3, <1>7 DEF AckInv, AcksInOrder
  <1>13. AcksRight'
    <2>1. \A u \in Threads, n \in 0..MaxSeq : AckRight(u, n) => AckRight(u, n)'
      BY <1>1, <1>3, <1>6 DEF AckRight, Send, AckMsg, InviteMsg
    <2> QED
      BY <2>1 DEF AckInv, AcksRight
  <1>14. AckWire'
    BY <1>1, <1>3 DEF AckInv, AckWire, AckMsg
  <1>15. \A i \in Seqs : AckTaken(i)'
    BY <1>1, <1>2, <1>3, <1>7 DEF AckInv, AckTaken, Delete
  <1> QED
    BY <1>8, <1>9, <1>10, <1>11, <1>12, <1>13, <1>14, <1>15 DEF AckInv, AnswerInv

LEMMA AcksGood == ASSUME Base, NumberKept => AckInv PROVE AcksMatch
  <1>1. ASSUME NEW m \in wire, OneInvite, m.kind = "ACK"
        PROVE  /\ m.seq \in Sent(Peer(m.to))
               /\ ict[Peer(m.to)][m.seq].status >= 200
               /\ m.branch \in {0, m.seq}
    <2>1. PICK n, b \in 0..MaxSeq : m = AckMsg(n, b)
      BY <1>1, MessageForms DEF Base, StackRight
    <2>2. m.to = Callee /\ m.seq = n /\ m.branch = b
      BY <2>1, MessageParts
    <2>3. ~May("threads") /\ AckWire
      BY <1>1 DEF OneInvite, NumberKept, AckInv
    <2>4. n \in Seqs /\ b \in {0, n} /\ Heard(n) >= 200
      BY <1>1, <2>1, <2>3 DEF AckWire
    <2>5. ict[Caller][n] \in Transaction /\ ict[Caller][n].status >= 200
      BY <2>4 DEF Heard
    <2>6. n \in Sent(Caller)
      BY <2>4, <2>5, SentFacts DEF Base
    <2> QED
      BY <2>2, <2>4, <2>5, <2>6, Pair
  <1>2. ASSUME Quiet, \A a \in Agents : dialog[a] # None, NumberKept, NEW a \in Agents, NEW i \in Seqs,
               ist[a][i] \notin {None, Gone}, ist[a][i].status >= 200
        PROVE  ist[a][i].ack
    <2>1. a = Callee
      BY <1>2, Pair DEF Base, StackRight
    <2>2. wire = {} /\ \A u \in Threads : Steps(Caller, u) = {}
      BY <1>2, IdleSteps, Pair DEF Quiet
    <2>3. Out # None /\ ~Has(Caller, Delete) /\ ~ToAck(i)
      BY <1>2, <2>2, Pair DEF Out, Has, ToAck, AckTodo
    <2>4. HeardRight(i) /\ AckTaken(i)
      BY <1>2 DEF AckInv, AnswerInv
    <2>5. Given(i) = ist[Callee][i].status
      BY <1>2, <2>1 DEF Given
    <2>6. ict[Caller][i] = Gone \/ Heard(i) >= 200
      BY <1>2, <2>1, <2>2, <2>4, <2>5 DEF HeardRight
    <2>7. Heard(i) >= 200 => ict[Caller][i] \in Transaction
      BY DEF Heard
    <2>8. AckUnder(i)
      BY <2>3, <2>4, <2>6, <2>7 DEF AckTaken
    <2> QED
      BY <1>2, <2>1, <2>2, <2>8 DEF AckUnder
  <1> QED
    BY <1>1, <1>2 DEF AcksMatch, AckNamesItsInvite, AnswersAcked

(* Every ACK is for an INVITE that was answered, with one thread and no    *)
(* re-INVITE, and when nothing is under way no answer of a call that both  *)
(* users have waits for its ACK, if no other request takes its CSeq:       *)
(* whatever is challenged, redirected, cancelled, timed out or lost.       *)
THEOREM AnswersAreAcked == Spec => []AcksMatch
  <1>1. Init => CallInv /\ (NumberKept => AckInv)
    BY CallInvInit, AckInvInit
  <1>2. CallInv /\ (NumberKept => AckInv) /\ [Next]_vars => (CallInv /\ (NumberKept => AckInv))'
    <2>1. ASSUME CallInv, NumberKept => AckInv, Next
          PROVE  CallInv' /\ (NumberKept' => AckInv')
      <3>1. CallInv'
        BY <2>1, CallInvNext
      <3>2. scenario' = scenario
        BY <2>1, NextDoes DEF CallInv
      <3>3. PICK t \in Workers : Acts(t)
        BY <2>1, NextDoes DEF CallInv
      <3>4. NumberKept' => NumberKept
        BY <3>2 DEF NumberKept, May
      <3>5. NumberKept' => AckInv'
        BY <2>1, <3>2, <3>3, <3>4, AckInvStep
      <3> QED
        BY <3>1, <3>5
    <2>2. ASSUME CallInv, NumberKept => AckInv, UNCHANGED vars
          PROVE  CallInv' /\ (NumberKept' => AckInv')
      <3>1. CallInv'
        BY <2>2, CallInvNext
      <3>2. NumberKept' => NumberKept
        BY <2>2 DEF NumberKept, May, vars
      <3> QED
        BY <2>2, <3>1, <3>2, SameAck
    <2> QED
      BY <2>1, <2>2
  <1>3. CallInv /\ (NumberKept => AckInv) => AcksMatch
    BY AcksGood DEF CallInv
  <1> QED
    BY <1>1, <1>2, <1>3, PTL DEF Spec
-----------------------------------------------------------------------------
(***************************************************************************)
(* Registration.                                                           *)
(***************************************************************************)

Orderly == "astray" \notin doubts

(* A login or a logout the registrar has done, its 200 under way. *)
DoneLogin(k) ==
  Underway(k) /\ regs[k].stage = "done" /\ regs[k].code = 200 /\ regs[k].expires # 0
DoneLogout(k) ==
  Underway(k) /\ regs[k].stage = "done" /\ regs[k].code = 200 /\ regs[k].expires = 0

(* What is under way is what the user agent wants by now: logins if the user is to be logged *)
(* in, logouts if not.                                                                       *)
Purposeful ==
  \A k \in Slots : Underway(k) =>
    /\ info = Nil => regs[k].expires = 0
    /\ info # Nil => (regs[k].expires = 0 <=> info.timeout = 0)

(* Nothing was lost, and what arrives after the stack was stopped is a logout. *)
NothingLost ==
  \A k \in Slots : Underway(k) =>
    /\ regs[k].stage # "lost"
    /\ regs[k].stage = "stray" => info = Nil
    /\ regs[k].code = 423 => min # 0

(* Whom the registrar knows is logged in or about to learn it. *)
KnownIsLoggedIn ==
  binding # Nil => info # Nil /\ (info.login \/ \E k \in Slots : DoneLogin(k))

LogoutIsDone == \A k \in Slots : DoneLogout(k) => binding = Nil

Leaving == agent # "up" => info = Nil \/ info.timeout = 0

StoppedHasNoUser == agent = "stopped" => info = Nil

(* Conversely, unless the registrar loses users. *)
LoginIsDone ==
  /\ \A k \in Slots : DoneLogin(k) => binding # Nil
  /\ info # Nil /\ info.login => binding # Nil \/ \E k \in Slots : DoneLogout(k)

OrderlyInv == Purposeful /\ NothingLost /\ KnownIsLoggedIn /\ LogoutIsDone /\ Leaving

RegisterInv ==
  /\ RegisterTypeOK /\ StoppedHasNoUser
  /\ Orderly => OrderlyInv
  /\ doubts = {} => LoginIsDone

-----------------------------------------------------------------------------
(* Types. *)

LEMMA NoneDiffers == Nil \notin Info /\ Nil \notin Request /\ Nil \notin Binding
  BY DEF Nil, Info, Request, Binding

LEMMA TypeInit == RegisterInit => RegisterTypeOK
  BY TimeAssumption DEF RegisterInit, RegisterTypeOK

LEMMA NewInfoType == NewInfo \in Info
  BY TimeAssumption DEF NewInfo, Info, Expiries

LEMMA ChangedInfoType ==
  ASSUME NEW i \in Info
  PROVE  /\ ClearLogin(i) \in Info /\ LoggedIn(i) \in Info /\ Failed(i) \in Info
         /\ [i EXCEPT !.auth = TRUE] \in Info
         /\ \A t \in Expiries : [i EXCEPT !.timeout = t, !.auth = FALSE] \in Info
  <1>1. ClearLogin(i) \in Info
    BY DEF ClearLogin, Info
  <1>2. LoggedIn(i) \in Info
    BY <1>1 DEF LoggedIn, Info
  <1>3. Failed(i) \in Info
    BY <1>1, TimeAssumption DEF Failed, Info
  <1>4. [i EXCEPT !.auth = TRUE] \in Info
    BY DEF Info
  <1>5. \A t \in Expiries : [i EXCEPT !.timeout = t, !.auth = FALSE] \in Info
    BY DEF Info
  <1> QED
    BY <1>1, <1>2, <1>3, <1>4, <1>5

LEMMA RegisterType ==
  ASSUME NEW i \in Info, NEW a \in Auths
  PROVE  Register(i, a) \in Request
  <1>1. "sent" \in Stages /\ 0 \in Codes
    BY DEF Stages, Codes
  <1> QED
    BY <1>1 DEF Info, Request, Register

LEMMA ResponseType == ASSUME NEW r PROVE RegistrarResponse(r) \in {200, 401, 423}
  BY DEF RegistrarResponse

LEMMA ChangedRequestType ==
  ASSUME NEW r \in Request, NEW s \in Stages, NEW c \in Codes, NEW a \in Auths
  PROVE  [r EXCEPT !.stage = s, !.code = c, !.auth = a] \in Request
  BY DEF Request

LEMMA StageType ==
  ASSUME NEW r \in Request, NEW s \in Stages
  PROVE  [r EXCEPT !.stage = s] \in Request
  BY DEF Request

LEMMA OldNonceType == ASSUME NEW r \in Request PROVE [r EXCEPT !.auth = "old"] \in Request
  <1>1. "old" \in Auths
    BY DEF Auths
  <1> QED
    BY <1>1 DEF Request

LEMMA HandledType ==
  ASSUME NEW r \in Request
  PROVE  Handled(r) \in {Nil} \cup Request
  <1>1. "done" \in Stages /\ "good" \in Auths /\ "none" \in Auths /\ RegistrarResponse(r) \in Codes
    BY ResponseType DEF Stages, Auths, Codes
  <1> DEFINE h(a) == [r EXCEPT !.stage = "done", !.code = RegistrarResponse(r), !.auth = a]
  <1>2. h("good") \in Request /\ h("none") \in Request
    BY <1>1, ChangedRequestType
  <1>3. Handled(r) \in {Nil, h("good"), h("none")}
    BY DEF Handled
  <1> QED
    BY <1>2, <1>3

(* What the handler of a response does is one of five. *)
LEMMA ResponseOutcomes ==
  ASSUME NEW k \in Slots, NEW code, NEW rest, RecvRegisterResponse(k, code, rest)
  PROVE  \/ /\ info = Nil /\ info' = Nil
            /\ regs' = [regs EXCEPT ![k] = rest]
         \/ /\ info # Nil /\ code = 200
            /\ info' = IF Erased(info) THEN Nil ELSE LoggedIn(info)
            /\ regs' = [regs EXCEPT ![k] = rest]
         \/ /\ info # Nil /\ code = 401 /\ ~info.auth
            /\ info' = [info EXCEPT !.auth = TRUE]
            /\ regs' = [regs EXCEPT ![k] = Register(info, regs[k].auth)]
         \/ /\ info # Nil /\ code = 423
            /\ info' = [info EXCEPT !.timeout = min, !.auth = FALSE]
            /\ regs' = [regs EXCEPT ![k] = Register(info', "none")]
         \/ /\ info # Nil /\ code # 200 /\ code # 423 /\ (code = 401 => info.auth)
            /\ info' = Failed(info)
            /\ regs' = [regs EXCEPT ![k] = rest]
  BY DEF RecvRegisterResponse

LEMMA ResponseKeepsType ==
  ASSUME RegisterTypeOK, NEW k \in Slots, Underway(k), NEW code, NEW rest \in {Nil} \cup Request,
         RecvRegisterResponse(k, code, rest)
  PROVE  info' \in {Nil} \cup Info /\ regs' \in [Slots -> {Nil} \cup Request]
  <1>1. /\ regs \in [Slots -> {Nil} \cup Request] /\ min \in Expiries
        /\ info # Nil => info \in Info
        /\ regs[k].auth \in Auths /\ "none" \in Auths
    BY DEF RegisterTypeOK, Underway, Free, Request, Expiries, Auths
  <1> DEFINE logged == LoggedIn(info)
             failed == Failed(info)
             challenged == [info EXCEPT !.auth = TRUE]
             refused == [info EXCEPT !.timeout = min, !.auth = FALSE]
  <1>2. info # Nil => /\ logged \in Info /\ failed \in Info
                      /\ challenged \in Info /\ refused \in Info
    BY <1>1, ChangedInfoType
  <1>3. \/ info' = Nil
        \/ info # Nil /\ info' \in {logged, failed, challenged, refused}
    BY ResponseOutcomes
  <1>4. info' \in {Nil} \cup Info
    BY <1>2, <1>3
  <1>5. \/ regs' = [regs EXCEPT ![k] = rest]
        \/ info # Nil /\ regs' = [regs EXCEPT ![k] = Register(info, regs[k].auth)]
        \/ info # Nil /\ info' = refused /\ regs' = [regs EXCEPT ![k] = Register(info', "none")]
    BY ResponseOutcomes
  <1>6. info # Nil =>
           Register(info, regs[k].auth) \in Request /\ Register(refused, "none") \in Request
    BY <1>1, <1>2, RegisterType
  <1> QED
    BY <1>1, <1>4, <1>5, <1>6

LEMMA TypeStep == RegisterTypeOK /\ [RegisterNext]_registerVars => RegisterTypeOK'
  <1> SUFFICES ASSUME RegisterTypeOK, [RegisterNext]_registerVars PROVE RegisterTypeOK'
    OBVIOUS
  <1> USE TimeAssumption
  <1>0. /\ info # Nil => info \in Info
        /\ regs \in [Slots -> {Nil} \cup Request]
        /\ \A k \in Slots : Underway(k) => regs[k] \in Request
        /\ 0 \in Expiries /\ Timeout \in Expiries
    BY DEF RegisterTypeOK, Underway, Free, Expiries
  <1>1. CASE InsertRegisterInfo
    BY <1>1, NewInfoType DEF InsertRegisterInfo, RegisterTypeOK, Doubt
  <1>2. CASE UpdateRegisterInfo
    <2>1. info' \in Info
      BY <1>0, <1>2 DEF UpdateRegisterInfo, Info
    <2> QED
      BY <1>2, <2>1 DEF UpdateRegisterInfo, RegisterTypeOK, Doubt
  <1>3. CASE DeleteRegisterInfo
    <2>1. [info EXCEPT !.delete = TRUE, !.timeout = 0] \in Info
      BY <1>0, <1>3 DEF DeleteRegisterInfo, Info
    <2> QED
      BY <1>3, <2>1 DEF DeleteRegisterInfo, RegisterTypeOK, Doubt, Crossing
  <1>4. CASE SipRegisterThread
    <2>1. info' \in Info
      BY <1>0, <1>4 DEF SipRegisterThread, Info
    <2>2. Register(info, "none") \in Request
      BY <1>0, <1>4, RegisterType DEF SipRegisterThread, Auths
    <2>3. regs' \in [Slots -> {Nil} \cup Request]
      BY <1>0, <1>4, <2>2 DEF SipRegisterThread
    <2> QED
      BY <1>4, <2>1, <2>3 DEF SipRegisterThread, RegisterTypeOK
  <1>5. CASE \E k \in Slots : Answered(k)
    <2>1. PICK k \in Slots : Answered(k)
      BY <1>5
    <2>2. info' \in {Nil} \cup Info /\ regs' \in [Slots -> {Nil} \cup Request]
      BY <2>1, ResponseKeepsType DEF Answered
    <2>3. Misread(k, regs[k].code) \subseteq {"astray"}
      BY DEF Misread
    <2> QED
      BY <2>1, <2>2, <2>3 DEF Answered, RegisterTypeOK, Doubt
  <1>6. CASE \E k \in Slots : RegisterUnanswered(k)
    <2>1. PICK k \in Slots : RegisterUnanswered(k)
      BY <1>6
    <2>2. regs[k] \in Request /\ Underway(k)
      BY <1>0, <2>1 DEF RegisterUnanswered
    <2>5. "stray" \in Stages
      BY DEF Stages
    <2>3. [regs[k] EXCEPT !.stage = "stray"] \in Request
      BY <2>2, <2>5, StageType
    <2>4. info' \in {Nil} \cup Info /\ regs' \in [Slots -> {Nil} \cup Request]
      BY <2>1, <2>2, <2>3, ResponseKeepsType DEF RegisterUnanswered
    <2> QED
      BY <2>1, <2>4 DEF RegisterUnanswered, RegisterTypeOK, Doubt
  <1>7. CASE TcpSessionEnd
    <2>1. info' \in Info
      BY <1>0, <1>7, ChangedInfoType DEF TcpSessionEnd
    <2> QED
      BY <1>7, <2>1 DEF TcpSessionEnd, RegisterTypeOK, Doubt
  <1>8. CASE \E k \in Slots : Lose(k)
    <2>1. PICK k \in Slots : Lose(k)
      BY <1>8
    <2>2. [regs[k] EXCEPT !.stage = "lost", !.code = 0, !.auth = "none"] \in Request
      <3>1. "lost" \in Stages /\ 0 \in Codes /\ "none" \in Auths
        BY DEF Stages, Auths, Codes
      <3>2. regs[k] \in Request
        BY <1>0, <2>1 DEF Lose
      <3> QED
        BY <3>1, <3>2, ChangedRequestType
    <2>3. regs' \in [Slots -> {Nil} \cup Request]
      BY <1>0, <2>1, <2>2 DEF Lose
    <2> QED
      BY <2>1, <2>3 DEF Lose, RegisterTypeOK, Doubt
  <1>9. CASE \E k \in Slots : RecvRequestRegister(k)
    <2>1. PICK k \in Slots : RecvRequestRegister(k)
      BY <1>9
    <2>2. regs[k] \in Request /\ regs[k].expires \in Expiries
      BY <1>0, <2>1 DEF RecvRequestRegister, Request
    <2>3. regs' \in [Slots -> {Nil} \cup Request]
      BY <1>0, <2>1, <2>2, HandledType DEF RecvRequestRegister
    <2>4. regs[k].expires # 0 => Inserted(regs[k]) \in Binding
      BY <2>2 DEF Inserted, Binding, RegisterTypeOK
    <2>5. binding' \in {Nil} \cup Binding
      BY <2>1, <2>4 DEF RecvRequestRegister, Deleted, RegisterTypeOK
    <2> QED
      BY <2>1, <2>3, <2>5 DEF RecvRequestRegister, RegisterTypeOK
  <1>10. CASE NonceTimeout \/ Restart
    <2>1. \A k \in Slots : Underway(k) => [regs[k] EXCEPT !.auth = "old"] \in Request
      BY <1>0, OldNonceType
    <2>2. regs' \in [Slots -> {Nil} \cup Request]
      BY <1>0, <1>10, <2>1 DEF NonceTimeout, Restart
    <2> QED
      BY <1>10, <2>2 DEF NonceTimeout, Restart, RegisterTypeOK, Doubt
  <1>11. CASE DeleteTimeout
    BY <1>11 DEF DeleteTimeout, RegisterTypeOK, Doubt
  <1>12. CASE Stop
    <2>1. info # Nil => [info EXCEPT !.delete = TRUE, !.timeout = 0] \in Info
      BY <1>0 DEF Info
    <2> QED
      BY <1>12, <2>1 DEF Stop, RegisterTypeOK, Doubt, Crossing
  <1>13. CASE LookAgain
    BY <1>13 DEF LookAgain, RegisterTypeOK
  <1>14. CASE StopStack
    <2>1. \A k \in Slots : Underway(k) => [regs[k] EXCEPT !.stage = "stray"] \in Request
      <3>1. "stray" \in Stages
        BY DEF Stages
      <3> QED
        BY <1>0, <3>1, StageType
    <2>2. regs' \in [Slots -> {Nil} \cup Request]
      BY <1>14, <2>1 DEF StopStack
    <2> QED
      BY <1>14, <2>2 DEF StopStack, RegisterTypeOK, Doubt
  <1>15. CASE Tick
    <2>1. info' \in {Nil} \cup Info
      <3>1. ASSUME info \in Info, NEW a \in Nat, NEW w \in 0 .. Retry
            PROVE  [info EXCEPT !.age = a, !.wait = w] \in Info
        BY <3>1 DEF Info
      <3>2. ASSUME info \in Info
            PROVE  /\ (IF info.login THEN Older(info.age, LoginAge) ELSE info.age) \in Nat
                   /\ (IF info.wait = 0 THEN 0 ELSE info.wait - 1) \in 0 .. Retry
        BY <3>2 DEF Info, Older
      <3> QED
        BY <1>0, <1>15, <3>1, <3>2 DEF Tick
    <2>2. binding' \in {Nil} \cup Binding
      BY <1>15 DEF Tick, Binding, Older, RegisterTypeOK
    <2> QED
      BY <1>15, <2>1, <2>2 DEF Tick, RegisterTypeOK
  <1>16. CASE UNCHANGED registerVars
    BY <1>16 DEF registerVars, RegisterTypeOK
  <1> QED
    BY <1>1, <1>2, <1>3, <1>4, <1>5, <1>6, <1>7, <1>8, <1>9, <1>10, <1>11, <1>12, <1>13,
       <1>14, <1>15, <1>16 DEF RegisterNext, Registering

-----------------------------------------------------------------------------
(* The invariant, one lemma for each action that may keep things in order. *)

(* What went wrong stays wrong. *)
LEMMA DoubtsStay ==
  ASSUME RegisterInv, NEW d, doubts' = Doubt(d)
  PROVE  /\ Orderly' => Orderly /\ OrderlyInv /\ "astray" \notin d
         /\ doubts' = {} => doubts = {} /\ LoginIsDone /\ Orderly'
  BY DEF RegisterInv, Doubt, Orderly

LEMMA InsertKeeps == RegisterInv /\ InsertRegisterInfo => (RegisterInv)'
  <1> SUFFICES ASSUME RegisterInv, InsertRegisterInfo PROVE (RegisterInv)'
    OBVIOUS
  <1>1. RegisterTypeOK' /\ StoppedHasNoUser'
    BY TypeStep DEF RegisterInv, RegisterNext, StoppedHasNoUser, InsertRegisterInfo
  <1>2. Orderly' => OrderlyInv /\ AllFree /\ info = Nil
    BY DoubtsStay DEF InsertRegisterInfo
  <1>3. info' # Nil /\ ~info'.login /\ UNCHANGED <<min, regs, binding, agent>> /\ agent = "up"
    BY NewInfoType, NoneDiffers DEF InsertRegisterInfo, NewInfo
  <1>4. Orderly' => OrderlyInv'
    BY <1>2, <1>3 DEF OrderlyInv, Purposeful, NothingLost, KnownIsLoggedIn, LogoutIsDone, Leaving,
       AllFree, Underway, Free, DoneLogin, DoneLogout
  <1>5. doubts' = {} => LoginIsDone'
    <2>1. doubts' = {} => LoginIsDone
      BY DoubtsStay DEF InsertRegisterInfo
    <2> QED
      BY <1>3, <2>1 DEF LoginIsDone, DoneLogin, DoneLogout, Underway, Free
  <1> QED
    BY <1>1, <1>4, <1>5 DEF RegisterInv

LEMMA LogoutKeeps == RegisterInv /\ (DeleteRegisterInfo \/ Stop) => (RegisterInv)'
  <1> SUFFICES ASSUME RegisterInv, DeleteRegisterInfo \/ Stop PROVE (RegisterInv)'
    OBVIOUS
  <1>0. UNCHANGED <<min, regs, binding>> /\ agent' # "stopped"
    BY DEF DeleteRegisterInfo, Stop
  <1>1. RegisterTypeOK' /\ StoppedHasNoUser'
    BY <1>0, TypeStep DEF RegisterInv, RegisterNext, StoppedHasNoUser
  <1>2. Orderly' => OrderlyInv /\ Crossing = {}
    <2>1. CASE DeleteRegisterInfo
      BY <2>1, DoubtsStay DEF DeleteRegisterInfo, Crossing
    <2>2. CASE Stop
      BY <2>2, DoubtsStay DEF Stop, Crossing
    <2> QED
      BY <2>1, <2>2
  <1>3. Orderly' => \A k \in Slots : Underway(k) => regs[k].expires = 0
    <2>1. \A k \in Slots : Underway(k) => regs[k].expires \in Nat
      <3>1. \A k \in Slots : Underway(k) => regs[k] \in Request
        BY DEF RegisterInv, RegisterTypeOK, Underway, Free
      <3>2. Expiries \subseteq Nat
        BY TimeAssumption DEF Expiries
      <3> QED
        BY <3>1, <3>2 DEF Request
    <2> QED
      BY <1>2, <2>1 DEF Crossing
  <1>4. Orderly' => \/ info = Nil /\ info' = Nil
                    \/ /\ info # Nil /\ info' # Nil
                       /\ info'.timeout = 0 /\ info'.login = info.login
    <2>1. info # Nil => /\ info \in Info
                        /\ [info EXCEPT !.delete = TRUE, !.timeout = 0] \in Info
      BY DEF RegisterInv, RegisterTypeOK, Info, Expiries
    <2>2. CASE DeleteRegisterInfo
      <3>1. Orderly' => info.timeout # 0
        BY <2>2, DoubtsStay DEF DeleteRegisterInfo
      <3> QED
        BY <2>1, <2>2, <3>1, NoneDiffers DEF DeleteRegisterInfo, Info
    <2>3. CASE Stop
      BY <2>1, <2>3, NoneDiffers DEF Stop, Info
    <2> QED
      BY <2>2, <2>3
  <1>5. Orderly' => OrderlyInv'
    BY <1>0, <1>2, <1>3, <1>4 DEF OrderlyInv, Purposeful, NothingLost, KnownIsLoggedIn,
       LogoutIsDone, Leaving, Underway, Free, DoneLogin, DoneLogout
  <1>6. doubts' = {} => LoginIsDone'
    <2>1. doubts' = {} => LoginIsDone /\ Orderly'
      BY DoubtsStay DEF DeleteRegisterInfo, Stop
    <2> QED
      BY <1>0, <1>4, <2>1 DEF LoginIsDone, DoneLogin, DoneLogout, Underway, Free
  <1> QED
    BY <1>1, <1>5, <1>6 DEF RegisterInv

LEMMA ThreadKeeps == RegisterInv /\ SipRegisterThread => (RegisterInv)'
  <1> SUFFICES ASSUME RegisterInv, SipRegisterThread PROVE (RegisterInv)'
    OBVIOUS
  <1>1. RegisterTypeOK' /\ info \in Info /\ info # Nil
    <2>1. RegisterTypeOK'
      BY TypeStep DEF RegisterInv, RegisterNext, Registering
    <2> QED
      BY <2>1 DEF RegisterInv, RegisterTypeOK, SipRegisterThread
  <1>2. PICK k \in Slots : Free(k) /\ regs' = [regs EXCEPT ![k] = Register(info, "none")]
    BY DEF SipRegisterThread
  <1>3. /\ UNCHANGED <<min, binding, agent, doubts>>
        /\ info' # Nil /\ info'.timeout = info.timeout /\ info'.login = info.login
    <2>1. [info EXCEPT !.sent = TRUE, !.answered = FALSE, !.auth = FALSE] \in Info
      BY <1>1 DEF Info
    <2> QED
      BY <1>1, <2>1, NoneDiffers DEF SipRegisterThread, Info
  <1>4. Register(info, "none") # Nil
    BY <1>1, RegisterType, NoneDiffers DEF Auths
  <1>5. /\ Underway(k)' /\ regs'[k].stage = "sent" /\ regs'[k].expires = info.timeout
        /\ regs'[k].code = 0
        /\ \A j \in Slots \ {k} : regs'[j] = regs[j]
    BY <1>2, <1>4 DEF RegisterInv, RegisterTypeOK, Underway, Free, Register
  <1>6. /\ \A j \in Slots : DoneLogin(j)' <=> DoneLogin(j)
        /\ \A j \in Slots : DoneLogout(j)' <=> DoneLogout(j)
    BY <1>2, <1>5 DEF DoneLogin, DoneLogout, Underway, Free
  <1>7. StoppedHasNoUser'
    BY <1>1, <1>3 DEF RegisterInv, StoppedHasNoUser
  <1>8. Orderly' => OrderlyInv'
    <2> SUFFICES ASSUME Orderly' PROVE OrderlyInv'
      OBVIOUS
    <2>1. OrderlyInv
      BY <1>3 DEF RegisterInv, Orderly
    <2>2. Purposeful' /\ NothingLost'
      BY <1>1, <1>3, <1>5, <2>1 DEF OrderlyInv, Purposeful, NothingLost, Underway, Free
    <2>3. KnownIsLoggedIn' /\ LogoutIsDone' /\ Leaving'
      BY <1>1, <1>3, <1>6, <2>1 DEF OrderlyInv, KnownIsLoggedIn, LogoutIsDone, Leaving
    <2> QED
      BY <2>2, <2>3 DEF OrderlyInv
  <1>9. doubts' = {} => LoginIsDone'
    BY <1>1, <1>3, <1>6 DEF RegisterInv, LoginIsDone
  <1> QED
    BY <1>1, <1>7, <1>8, <1>9 DEF RegisterInv

(* A REGISTER that is repeated: only what it stands for changed. *)
LEMMA RepeatKeeps ==
  ASSUME RegisterInv, RegisterTypeOK', NEW k \in Slots, Underway(k), ~DoneLogin(k), ~DoneLogout(k),
         info \in Info, info' \in Info, NEW a \in Auths,
         regs' = [regs EXCEPT ![k] = Register(info', a)],
         UNCHANGED <<min, binding, agent>>, info'.login = info.login,
         Orderly' => Orderly /\ (info'.timeout = 0 <=> info.timeout = 0),
         doubts' = {} => doubts = {}
  PROVE  (RegisterInv)'
  <1>0. info # Nil /\ info' # Nil
    BY NoneDiffers
  <1>1. Register(info', a) # Nil
    BY RegisterType, NoneDiffers
  <1>2. /\ Underway(k)' /\ regs'[k].stage = "sent" /\ regs'[k].expires = info'.timeout
        /\ regs'[k].code = 0
        /\ \A j \in Slots \ {k} : regs'[j] = regs[j]
    BY <1>1 DEF RegisterInv, RegisterTypeOK, Underway, Free, Register
  <1>3. /\ \A j \in Slots : DoneLogin(j)' <=> DoneLogin(j)
        /\ \A j \in Slots : DoneLogout(j)' <=> DoneLogout(j)
    BY <1>2 DEF DoneLogin, DoneLogout, Underway, Free
  <1>4. StoppedHasNoUser'
    BY <1>0 DEF RegisterInv, StoppedHasNoUser
  <1>5. ASSUME Orderly' PROVE OrderlyInv'
    <2>1. OrderlyInv /\ (info'.timeout = 0 <=> info.timeout = 0)
      BY <1>5 DEF RegisterInv
    <2>2. Purposeful' /\ NothingLost'
      BY <1>0, <1>2, <2>1 DEF OrderlyInv, Purposeful, NothingLost, Underway, Free
    <2>3. KnownIsLoggedIn' /\ LogoutIsDone' /\ Leaving'
      BY <1>0, <1>3, <2>1 DEF OrderlyInv, KnownIsLoggedIn, LogoutIsDone, Leaving
    <2> QED
      BY <2>2, <2>3 DEF OrderlyInv
  <1>6. doubts' = {} => LoginIsDone'
    BY <1>0, <1>3 DEF RegisterInv, LoginIsDone
  <1> QED
    BY <1>4, <1>5, <1>6 DEF RegisterInv

LEMMA AnsweredKeeps == ASSUME RegisterInv, NEW k \in Slots, Answered(k) PROVE (RegisterInv)'
  <1> DEFINE code == regs[k].code
  <1>1. RegisterTypeOK' /\ (info # Nil => info \in Info) /\ regs[k] \in Request
    <2>1. RegisterTypeOK'
      BY TypeStep DEF RegisterInv, RegisterNext, Registering
    <2>2. Underway(k)
      BY DEF Answered
    <2> QED
      BY <2>1, <2>2 DEF RegisterInv, RegisterTypeOK, Underway, Free
  <1>2. /\ Underway(k) /\ regs[k].stage = "done" /\ UNCHANGED <<min, binding, agent>>
        /\ doubts' = Doubt(Misread(k, code))
    BY DEF Answered
  <1>3. /\ Orderly' => Orderly /\ OrderlyInv /\ "astray" \notin Misread(k, code)
        /\ doubts' = {} => doubts = {} /\ LoginIsDone /\ Orderly'
    BY <1>2, DoubtsStay
  <1>4. \/ /\ info = Nil /\ info' = Nil
           /\ regs' = [regs EXCEPT ![k] = Nil]
        \/ /\ info # Nil /\ code = 200
           /\ info' = IF Erased(info) THEN Nil ELSE LoggedIn(info)
           /\ regs' = [regs EXCEPT ![k] = Nil]
        \/ /\ info # Nil /\ code = 401 /\ ~info.auth
           /\ info' = [info EXCEPT !.auth = TRUE]
           /\ regs' = [regs EXCEPT ![k] = Register(info, regs[k].auth)]
        \/ /\ info # Nil /\ code = 423
           /\ info' = [info EXCEPT !.timeout = min, !.auth = FALSE]
           /\ regs' = [regs EXCEPT ![k] = Register(info', "none")]
        \/ /\ info # Nil /\ code # 200 /\ code # 423 /\ (code = 401 => info.auth)
           /\ info' = Failed(info)
           /\ regs' = [regs EXCEPT ![k] = Nil]
    BY ResponseOutcomes DEF Answered
  <1> HIDE DEF code
  <1>5. regs' = [regs EXCEPT ![k] = Nil] =>
          /\ ~Underway(k)' /\ ~DoneLogin(k)' /\ ~DoneLogout(k)'
          /\ \A j \in Slots \ {k} : /\ regs'[j] = regs[j]
                                    /\ DoneLogin(j)' <=> DoneLogin(j)
                                    /\ DoneLogout(j)' <=> DoneLogout(j)
    BY <1>1 DEF RegisterInv, RegisterTypeOK, Underway, Free, DoneLogin, DoneLogout
  <1>6. CASE info = Nil
    BY <1>1, <1>2, <1>3, <1>4, <1>5, <1>6 DEF RegisterInv, OrderlyInv, Purposeful, NothingLost,
       KnownIsLoggedIn, LogoutIsDone, Leaving, LoginIsDone, StoppedHasNoUser, Underway, Free
  <1>7. CASE info # Nil /\ code = 200
    <2>1. info \in Info /\ regs' = [regs EXCEPT ![k] = Nil]
      BY <1>1, <1>4, <1>7
    <2>2. Orderly' => (info.timeout = 0 <=> regs[k].expires = 0)
      BY <1>3, <1>7 DEF Misread, code
    <2>3. info' = Nil \/ (info' \in Info /\ info' # Nil /\ info'.timeout = info.timeout
                            /\ (info'.login <=> info.timeout # 0))
      <3>1. LoggedIn(info) \in Info /\ LoggedIn(info).timeout = info.timeout
            /\ (LoggedIn(info).login <=> info.timeout # 0)
        BY <2>1, ChangedInfoType DEF LoggedIn, ClearLogin, Info
      <3> QED
        BY <1>4, <1>7, <3>1, NoneDiffers
    <2>4. info' = Nil => info.timeout = 0
      <3>1. LoggedIn(info) # Nil
        BY <2>1, ChangedInfoType, NoneDiffers
      <3> QED
        BY <1>4, <1>7, <3>1 DEF Erased
    <2>5. StoppedHasNoUser'
      BY <1>2, <1>7 DEF RegisterInv, StoppedHasNoUser
    <2>6. ASSUME Orderly' PROVE OrderlyInv'
      <3>1. OrderlyInv /\ (info.timeout = 0 <=> regs[k].expires = 0)
        BY <1>3, <2>2, <2>6
      <3>2. info.timeout = 0 => binding = Nil
        BY <1>2, <1>7, <3>1 DEF OrderlyInv, LogoutIsDone, DoneLogout, code
      <3>3. Purposeful' /\ NothingLost' /\ Leaving'
        BY <1>2, <1>5, <1>7, <2>1, <2>3, <2>4, <3>1
        DEF OrderlyInv, Purposeful, NothingLost, Leaving, Underway, Free
      <3>4. KnownIsLoggedIn' /\ LogoutIsDone'
        BY <1>2, <1>5, <2>1, <2>3, <2>4, <3>1, <3>2
        DEF OrderlyInv, KnownIsLoggedIn, LogoutIsDone
      <3> QED
        BY <3>3, <3>4 DEF OrderlyInv
    <2>7. ASSUME doubts' = {} PROVE LoginIsDone'
      <3>1. LoginIsDone /\ (info.timeout = 0 <=> regs[k].expires = 0)
        BY <1>3, <2>2, <2>7
      <3>2. info.timeout # 0 => binding # Nil
        BY <1>2, <1>7, <3>1 DEF LoginIsDone, DoneLogin, code
      <3> QED
        BY <1>2, <1>5, <2>1, <2>3, <3>1, <3>2 DEF LoginIsDone
    <2> QED
      BY <1>1, <2>5, <2>6, <2>7 DEF RegisterInv
  <1>8. CASE info # Nil /\ code = 401 /\ ~info.auth
    <2>1. info \in Info /\ info' \in Info /\ info'.login = info.login
          /\ info'.timeout = info.timeout
      <3>1. info \in Info /\ info' = [info EXCEPT !.auth = TRUE]
        BY <1>1, <1>4, <1>8
      <3>2. info' \in Info
        BY <3>1, ChangedInfoType
      <3> QED
        BY <3>1, <3>2 DEF Info
    <2>2. Register(info', regs[k].auth) = Register(info, regs[k].auth) /\ regs[k].auth \in Auths
      BY <1>1, <2>1 DEF Register, Request
    <2>3. regs' = [regs EXCEPT ![k] = Register(info', regs[k].auth)]
      BY <1>4, <1>8, <2>2
    <2>4. ~DoneLogin(k) /\ ~DoneLogout(k)
      BY <1>8 DEF DoneLogin, DoneLogout, code
    <2> QED
      BY <1>1, <1>2, <1>3, <2>1, <2>2, <2>3, <2>4, RepeatKeeps
  <1>9. CASE info # Nil /\ code = 423
    <2>1. info \in Info /\ info' \in Info /\ info'.login = info.login /\ info'.timeout = min
      <3>1. info \in Info /\ info' = [info EXCEPT !.timeout = min, !.auth = FALSE]
        BY <1>1, <1>4, <1>9
      <3>2. min \in Expiries
        BY DEF RegisterInv, RegisterTypeOK, Expiries
      <3>3. info' \in Info
        BY <3>1, <3>2, ChangedInfoType
      <3> QED
        BY <3>1, <3>3 DEF Info
    <2>2. regs' = [regs EXCEPT ![k] = Register(info', "none")] /\ "none" \in Auths
      BY <1>4, <1>9 DEF Auths
    <2>3. ~DoneLogin(k) /\ ~DoneLogout(k)
      BY <1>9 DEF DoneLogin, DoneLogout, code
    <2>4. Orderly' => info.timeout # 0 /\ min # 0
      BY <1>2, <1>3, <1>9 DEF Misread, OrderlyInv, NothingLost, code
    <2> QED
      BY <1>1, <1>2, <1>3, <2>1, <2>2, <2>3, <2>4, RepeatKeeps
  <1>10. CASE info # Nil /\ code # 200 /\ code # 423 /\ (code = 401 => info.auth)
    <2>1. ~Orderly' /\ doubts' # {}
      BY <1>3, <1>10 DEF Misread
    <2>2. StoppedHasNoUser'
      BY <1>2, <1>10 DEF RegisterInv, StoppedHasNoUser
    <2> QED
      BY <1>1, <2>1, <2>2 DEF RegisterInv
  <1> QED
    BY <1>4, <1>6, <1>7, <1>8, <1>9, <1>10

LEMMA HandledKeeps ==
  ASSUME RegisterInv, NEW k \in Slots, RecvRequestRegister(k) PROVE (RegisterInv)'
  <1>1. RegisterTypeOK' /\ regs[k] \in Request
    <2>1. RegisterTypeOK'
      BY TypeStep DEF RegisterInv, RegisterNext, Registering
    <2>2. Underway(k)
      BY DEF RecvRequestRegister
    <2> QED
      BY <2>1, <2>2 DEF RegisterInv, RegisterTypeOK, Underway, Free
  <1>2. /\ Underway(k) /\ regs[k].stage \in {"sent", "stray"}
        /\ UNCHANGED <<min, info, agent, doubts>>
        /\ \A j \in Slots \ {k} : regs'[j] = regs[j]
        /\ regs'[k] = Handled(regs[k])
    BY DEF RecvRequestRegister, RegisterInv, RegisterTypeOK
  <1>3. binding' = IF RegistrarResponse(regs[k]) # 200 THEN binding
                   ELSE IF regs[k].expires = 0 THEN Nil ELSE Inserted(regs[k])
    BY DEF RecvRequestRegister, Deleted
  <1>4. Inserted(regs[k]) # Nil
    <2>1. DOMAIN [age |-> 0, expires |-> regs[k].expires] # DOMAIN Nil
      BY DEF Nil
    <2> QED
      BY <2>1 DEF Inserted
  <1>5. CASE regs[k].stage = "stray"
    <2>1. ~Underway(k)' /\ ~DoneLogin(k) /\ ~DoneLogout(k) /\ ~DoneLogin(k)' /\ ~DoneLogout(k)'
      BY <1>2, <1>5 DEF Handled, Underway, Free, DoneLogin, DoneLogout
    <2>2. /\ \A j \in Slots : DoneLogin(j)' <=> DoneLogin(j)
          /\ \A j \in Slots : DoneLogout(j)' <=> DoneLogout(j)
      BY <1>2, <2>1 DEF DoneLogin, DoneLogout, Underway, Free
    <2>3. Orderly' => OrderlyInv /\ info = Nil /\ regs[k].expires = 0
      BY <1>2, <1>5 DEF RegisterInv, Orderly, OrderlyInv, NothingLost, Purposeful
    <2>4. Orderly' => OrderlyInv'
      BY <1>2, <1>3, <2>1, <2>2, <2>3 DEF OrderlyInv, Purposeful, NothingLost,
         KnownIsLoggedIn, LogoutIsDone, Leaving, Underway, Free
    <2>5. ASSUME doubts' = {} PROVE LoginIsDone'
      <3>1. Orderly' /\ LoginIsDone
        BY <1>2, <2>5 DEF RegisterInv, Orderly
      <3>2. \A j \in Slots : ~DoneLogin(j)
        BY <2>3, <3>1 DEF OrderlyInv, Purposeful, DoneLogin
      <3> QED
        BY <1>2, <2>2, <2>3, <3>1, <3>2 DEF LoginIsDone
    <2> QED
      BY <1>1, <1>2, <2>4, <2>5 DEF RegisterInv, StoppedHasNoUser
  <1>6. CASE regs[k].stage = "sent"
    <2>1. /\ Underway(k)' /\ regs'[k].stage = "done" /\ regs'[k].expires = regs[k].expires
          /\ regs'[k].code = RegistrarResponse(regs[k])
      <3>1. Handled(regs[k]) # Nil /\ Handled(regs[k]).stage = "done"
            /\ Handled(regs[k]).expires = regs[k].expires
            /\ Handled(regs[k]).code = RegistrarResponse(regs[k])
        <4> DEFINE c == RegistrarResponse(regs[k])
                   h(a) == [regs[k] EXCEPT !.stage = "done", !.code = c, !.auth = a]
        <4>1. Handled(regs[k]) = h("good") \/ Handled(regs[k]) = h("none")
          BY <1>6 DEF Handled
        <4>2. "done" \in Stages /\ "good" \in Auths /\ "none" \in Auths /\ c \in Codes
          BY ResponseType DEF Stages, Auths, Codes
        <4>3. h("good") \in Request /\ h("none") \in Request
          BY <1>1, <4>2, ChangedRequestType
        <4> HIDE DEF c
        <4>4. \A a \in Auths :
                 h(a).stage = "done" /\ h(a).expires = regs[k].expires /\ h(a).code = c
          BY <1>1 DEF Request
        <4> QED
          BY <4>1, <4>2, <4>3, <4>4, NoneDiffers DEF c
      <3> QED
        BY <1>2, <3>1 DEF Underway, Free
    <2>2. /\ ~DoneLogin(k) /\ ~DoneLogout(k)
          /\ DoneLogin(k)' <=> RegistrarResponse(regs[k]) = 200 /\ regs[k].expires # 0
          /\ DoneLogout(k)' <=> RegistrarResponse(regs[k]) = 200 /\ regs[k].expires = 0
      BY <1>6, <2>1 DEF DoneLogin, DoneLogout
    <2>3. \A j \in Slots \ {k} :
             (DoneLogin(j)' <=> DoneLogin(j)) /\ (DoneLogout(j)' <=> DoneLogout(j))
      BY <1>2 DEF DoneLogin, DoneLogout, Underway, Free
    <2>4. RegistrarResponse(regs[k]) = 423 => min # 0
      <3>1. regs[k].expires \in Nat
        <4>1. regs[k].expires \in Expiries /\ Expiries \subseteq Nat
          BY <1>1, TimeAssumption DEF Request, Expiries
        <4> QED
          BY <4>1
      <3> QED
        BY <3>1 DEF RegistrarResponse, RegisterInv, RegisterTypeOK
    <2>5. ASSUME Orderly' PROVE OrderlyInv'
      <3>1. OrderlyInv
        BY <1>2, <2>5 DEF RegisterInv, Orderly
      <3>2. Purposeful' /\ NothingLost' /\ Leaving'
        BY <1>2, <2>1, <2>4, <3>1 DEF OrderlyInv, Purposeful, NothingLost, Leaving, Underway, Free
      <3>3. \A j \in Slots : Underway(j) => (regs[j].expires = 0 <=> regs[k].expires = 0)
        BY <1>2, <3>1 DEF OrderlyInv, Purposeful
      <3>4. LogoutIsDone'
        BY <1>3, <2>2, <2>3, <3>1, <3>3 DEF OrderlyInv, LogoutIsDone, DoneLogout
      <3>5. KnownIsLoggedIn'
        BY <1>2, <1>3, <2>2, <2>3, <3>1 DEF OrderlyInv, KnownIsLoggedIn, Purposeful
      <3> QED
        BY <3>2, <3>4, <3>5 DEF OrderlyInv
    <2>6. ASSUME doubts' = {} PROVE LoginIsDone'
      <3>1. LoginIsDone /\ OrderlyInv
        BY <1>2, <2>6 DEF RegisterInv, Orderly
      <3>2. \A j \in Slots : Underway(j) => (regs[j].expires = 0 <=> regs[k].expires = 0)
        BY <1>2, <3>1 DEF OrderlyInv, Purposeful
      <3>3. \A j \in Slots : DoneLogin(j)' => binding' # Nil
        BY <1>3, <1>4, <2>2, <2>3, <3>1, <3>2 DEF LoginIsDone, DoneLogin
      <3>4. info # Nil /\ info.login => binding' # Nil \/ \E j \in Slots : DoneLogout(j)'
        BY <1>3, <1>4, <2>2, <2>3, <3>1 DEF LoginIsDone
      <3> QED
        BY <1>2, <3>3, <3>4 DEF LoginIsDone
    <2> QED
      BY <1>1, <1>2, <2>5, <2>6 DEF RegisterInv, StoppedHasNoUser
  <1> QED
    BY <1>2, <1>5, <1>6

(* Where the registrar loses a user, or nonces, what is under way stays. *)
LEMMA LossKeeps ==
  RegisterInv /\ (NonceTimeout \/ Restart \/ DeleteTimeout) => (RegisterInv)'
  <1> SUFFICES ASSUME RegisterInv, NonceTimeout \/ Restart \/ DeleteTimeout PROVE (RegisterInv)'
    OBVIOUS
  <1>1. RegisterTypeOK'
    BY TypeStep DEF RegisterInv, RegisterNext
  <1>2. UNCHANGED <<min, info, agent>> /\ (binding' = binding \/ binding' = Nil)
    BY DEF NonceTimeout, Restart, DeleteTimeout
  <1>3. \A k \in Slots : /\ Underway(k)' <=> Underway(k)
                         /\ Underway(k) => /\ regs'[k].stage = regs[k].stage
                                           /\ regs'[k].code = regs[k].code
                                           /\ regs'[k].expires = regs[k].expires
    <2> SUFFICES ASSUME NEW k \in Slots
                 PROVE  /\ Underway(k)' <=> Underway(k)
                        /\ Underway(k) => /\ regs'[k].stage = regs[k].stage
                                          /\ regs'[k].code = regs[k].code
                                          /\ regs'[k].expires = regs[k].expires
      OBVIOUS
    <2> DEFINE old == [regs[k] EXCEPT !.auth = "old"]
    <2>1. regs'[k] = regs[k] \/ (Underway(k) /\ regs'[k] = old)
      BY DEF NonceTimeout, Restart, DeleteTimeout
    <2>2. Underway(k) => /\ old \in Request
                         /\ old.stage = regs[k].stage /\ old.code = regs[k].code
                         /\ old.expires = regs[k].expires
      <3>1. Underway(k) => regs[k] \in Request
        BY DEF RegisterInv, RegisterTypeOK, Underway, Free
      <3> QED
        BY <3>1, OldNonceType DEF Request
    <2> QED
      BY <2>1, <2>2, NoneDiffers DEF Underway, Free
  <1>4. /\ \A k \in Slots : DoneLogin(k)' <=> DoneLogin(k)
        /\ \A k \in Slots : DoneLogout(k)' <=> DoneLogout(k)
    BY <1>3 DEF DoneLogin, DoneLogout
  <1>5. (Orderly' => Orderly) /\ (doubts' = {} => doubts = {} /\ binding' = binding)
    BY DEF NonceTimeout, Restart, DeleteTimeout, Doubt, Orderly
  <1>6. Orderly' => OrderlyInv'
    BY <1>2, <1>3, <1>4, <1>5 DEF RegisterInv, OrderlyInv, Purposeful, NothingLost,
       KnownIsLoggedIn, LogoutIsDone, Leaving
  <1>7. doubts' = {} => LoginIsDone'
    BY <1>2, <1>4, <1>5 DEF RegisterInv, LoginIsDone
  <1> QED
    BY <1>1, <1>2, <1>6, <1>7 DEF RegisterInv, StoppedHasNoUser

(* The other things that go wrong put everything in doubt. *)
LEMMA TroubleKeeps ==
  ASSUME RegisterInv,
         \/ UpdateRegisterInfo \/ TcpSessionEnd
         \/ \E k \in Slots : RegisterUnanswered(k) \/ Lose(k)
  PROVE  (RegisterInv)'
  <1>1. RegisterTypeOK'
    BY TypeStep DEF RegisterInv, RegisterNext
  <1>2. ~Orderly' /\ doubts' # {}
    BY DEF UpdateRegisterInfo, TcpSessionEnd, RegisterUnanswered, Lose, Doubt, Orderly
  <1>3. agent' = agent /\ (info = Nil => info' = Nil)
    <2>1. CASE UpdateRegisterInfo \/ TcpSessionEnd \/ \E k \in Slots : Lose(k)
      BY <2>1 DEF UpdateRegisterInfo, TcpSessionEnd, Lose
    <2>2. CASE \E k \in Slots : RegisterUnanswered(k)
      BY <2>2 DEF RegisterUnanswered, RecvRegisterResponse
    <2> QED
      BY <2>1, <2>2
  <1> QED
    BY <1>1, <1>2, <1>3 DEF RegisterInv, StoppedHasNoUser

LEMMA StopStackKeeps == RegisterInv /\ StopStack => (RegisterInv)'
  <1> SUFFICES ASSUME RegisterInv, StopStack PROVE (RegisterInv)'
    OBVIOUS
  <1>1. RegisterTypeOK' /\ info' = Nil /\ UNCHANGED <<min, binding>> /\ agent = "leaving"
    BY TypeStep DEF RegisterInv, RegisterNext, StopStack
  <1>2. \A k \in Slots : Underway(k)' => /\ Underway(k) /\ regs'[k].stage = "stray"
                                         /\ regs'[k].code = regs[k].code
                                         /\ regs'[k].expires = regs[k].expires
    <2> SUFFICES ASSUME NEW k \in Slots, Underway(k)'
                 PROVE  /\ Underway(k) /\ regs'[k].stage = "stray"
                        /\ regs'[k].code = regs[k].code
                        /\ regs'[k].expires = regs[k].expires
      OBVIOUS
    <2>1. Underway(k) /\ regs'[k] = [regs[k] EXCEPT !.stage = "stray"]
      BY DEF StopStack, Underway, Free
    <2>2. regs[k] \in Request
      BY <2>1 DEF RegisterInv, RegisterTypeOK, Underway, Free
    <2> QED
      BY <2>1, <2>2 DEF Request
  <1>3. ~(\E k \in Slots : DoneLogin(k)' \/ DoneLogout(k)')
    BY <1>2 DEF DoneLogin, DoneLogout
  <1>4. ASSUME Orderly' PROVE OrderlyInv'
    <2>1. OrderlyInv /\ LoggedOut
      BY <1>4, DoubtsStay DEF StopStack
    <2>2. \A k \in Slots : Underway(k) => regs[k].expires = 0
      BY <1>1, <2>1 DEF OrderlyInv, Purposeful, Leaving
    <2>3. binding = Nil
      BY <2>1, <2>2 DEF OrderlyInv, KnownIsLoggedIn, LoggedOut, DoneLogin
    <2>4. Purposeful' /\ NothingLost'
      BY <1>1, <1>2, <2>1, <2>2 DEF OrderlyInv, Purposeful, NothingLost
    <2> QED
      BY <1>1, <2>3, <2>4 DEF OrderlyInv, KnownIsLoggedIn, LogoutIsDone, Leaving
  <1>5. LoginIsDone'
    BY <1>1, <1>3 DEF LoginIsDone
  <1> QED
    BY <1>1, <1>4, <1>5 DEF RegisterInv, StoppedHasNoUser

LEMMA QuietKeeps == RegisterInv /\ (Tick \/ LookAgain \/ UNCHANGED registerVars) => (RegisterInv)'
  <1> SUFFICES ASSUME RegisterInv, Tick \/ LookAgain \/ UNCHANGED registerVars PROVE (RegisterInv)'
    OBVIOUS
  <1>1. RegisterTypeOK' /\ UNCHANGED <<min, regs, agent, doubts>>
    BY TypeStep DEF RegisterInv, RegisterNext, Tick, LookAgain, registerVars
  <1>2. \/ info = Nil /\ info' = Nil
        \/ /\ info # Nil /\ info' # Nil
           /\ info'.login = info.login /\ info'.timeout = info.timeout
    <2>1. CASE Tick /\ info # Nil
      <3>1. info \in Info
        BY <2>1 DEF RegisterInv, RegisterTypeOK
      <3>2. \E a, w : info' = [info EXCEPT !.age = a, !.wait = w]
        BY <2>1 DEF Tick
      <3>3. PICK a, w : info' = [info EXCEPT !.age = a, !.wait = w]
        BY <3>2
      <3>4. info'.login = info.login /\ info'.timeout = info.timeout
        BY <3>1, <3>3 DEF Info
      <3>5. info' # Nil
        BY <3>1, <3>3 DEF Info, Nil
      <3> QED
        BY <2>1, <3>4, <3>5
    <2> QED
      BY <2>1 DEF Tick, LookAgain, registerVars
  <1>3. binding = Nil <=> binding' = Nil
    <2>1. CASE Tick /\ binding # Nil
      <3>1. binding \in Binding /\ binding' \in {Nil} \cup Binding
        BY <1>1, <2>1 DEF RegisterInv, RegisterTypeOK
      <3>2. PICK a : binding' = [binding EXCEPT !.age = a]
        BY <2>1 DEF Tick
      <3> QED
        BY <2>1, <3>1, <3>2 DEF Binding, Nil
    <2> QED
      BY <2>1 DEF Tick, LookAgain, registerVars
  <1>4. /\ \A k \in Slots : Underway(k)' <=> Underway(k)
        /\ \A k \in Slots : DoneLogin(k)' <=> DoneLogin(k)
        /\ \A k \in Slots : DoneLogout(k)' <=> DoneLogout(k)
    BY <1>1 DEF Underway, Free, DoneLogin, DoneLogout
  <1>5. StoppedHasNoUser'
    BY <1>1, <1>2 DEF RegisterInv, StoppedHasNoUser
  <1>6. Orderly' => OrderlyInv'
    BY <1>1, <1>2, <1>3, <1>4 DEF RegisterInv, Orderly, OrderlyInv, Purposeful, NothingLost,
       KnownIsLoggedIn, LogoutIsDone, Leaving
  <1>7. doubts' = {} => LoginIsDone'
    BY <1>1, <1>2, <1>3, <1>4 DEF RegisterInv, LoginIsDone
  <1> QED
    BY <1>1, <1>5, <1>6, <1>7 DEF RegisterInv

-----------------------------------------------------------------------------

LEMMA RegisterInvInit == RegisterInit => RegisterInv
  <1> SUFFICES ASSUME RegisterInit PROVE RegisterInv
    OBVIOUS
  <1>1. \A k \in Slots : ~Underway(k)
    BY DEF RegisterInit, Underway, Free
  <1> QED
    BY <1>1, TypeInit DEF RegisterInit, RegisterInv, StoppedHasNoUser, OrderlyInv, Purposeful,
       NothingLost, KnownIsLoggedIn, LogoutIsDone, Leaving, LoginIsDone, DoneLogin, DoneLogout

LEMMA RegisterStep == RegisterInv /\ [RegisterNext]_registerVars => (RegisterInv)'
  BY InsertKeeps, LogoutKeeps, ThreadKeeps, AnsweredKeeps, HandledKeeps, LossKeeps,
     TroubleKeeps, StopStackKeeps, QuietKeeps DEF RegisterNext, Registering

(* The registrar knows who is logged in, when nothing is under way and nothing went wrong, *)
(* and every variable has its type (RecvRegisterResponse, RecvRequestRegister,             *)
(* CUserMap::Insert and Delete).                                                           *)
THEOREM LoggedInUserIsKnown == RegisterSpec => []RegisterConsistent
  <1>1. RegisterInv => RegisterConsistent
    BY DEF RegisterInv, LoginIsDone, RegisterConsistent, LoggedInIsKnown, AllFree, Underway,
       Free, DoneLogout
  <1> QED
    BY <1>1, RegisterInvInit, RegisterStep, PTL DEF RegisterSpec

(* A user agent that was stopped left nothing behind, unless messages were lost, responses *)
(* misread, or it gave up waiting (Stop and DeRegister of CSipUserAgent).                  *)
THEOREM StoppedAgentIsForgotten == RegisterSpec => []StopLeavesNothing
  <1>1. RegisterInv => StopLeavesNothing
    BY DEF RegisterInv, StoppedHasNoUser, Orderly, OrderlyInv, KnownIsLoggedIn,
       StopLeavesNothing
  <1> QED
    BY <1>1, RegisterInvInit, RegisterStep, PTL DEF RegisterSpec
=============================================================================
