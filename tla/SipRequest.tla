----------------------------- MODULE SipRequest -----------------------------
(***************************************************************************)
(* What the two non-INVITE transactions of a request promise the users at  *)
(* its two ends, over a network that loses, repeats and reorders messages: *)
(* the server's user is told of a request once at most, answers it with    *)
(* one final response, and the client's user learns that response or a     *)
(* timeout, one of the two and for good.                                   *)
(***************************************************************************)
EXTENDS Naturals

CONSTANTS Keys, Final, Timeout

VARIABLES
  sent,      \* the requests sent
  executed,  \* how often the server's user was told of each request
  answers,   \* the final statuses the server's user answered with
  outcome    \* the final statuses the client's user learnt

vars == <<sent, executed, answers, outcome>>

Init ==
  /\ sent = {}
  /\ executed = [k \in Keys |-> 0]
  /\ answers = [k \in Keys |-> {}]
  /\ outcome = [k \in Keys |-> {}]

Send(k) ==
  /\ k \notin sent
  /\ sent' = sent \cup {k}
  /\ UNCHANGED <<executed, answers, outcome>>

Execute(k) ==
  /\ k \in sent
  /\ executed[k] = 0
  /\ executed' = [executed EXCEPT ![k] = 1]
  /\ UNCHANGED <<sent, answers, outcome>>

Answer(k, s) ==
  /\ executed[k] = 1
  /\ answers[k] = {}
  /\ answers' = [answers EXCEPT ![k] = {s}]
  /\ UNCHANGED <<sent, executed, outcome>>

Learn(k) ==
  /\ answers[k] # {}
  /\ outcome[k] = {}
  /\ outcome' = [outcome EXCEPT ![k] = answers[k]]
  /\ UNCHANGED <<sent, executed, answers>>

Expire(k) ==
  /\ k \in sent
  /\ outcome[k] = {}
  /\ outcome' = [outcome EXCEPT ![k] = {Timeout}]
  /\ UNCHANGED <<sent, executed, answers>>

Next ==
  \E k \in Keys :
    \/ Send(k) \/ Execute(k) \/ Learn(k) \/ Expire(k)
    \/ \E s \in Final : Answer(k, s)

Spec == Init /\ [][Next]_vars
=============================================================================
