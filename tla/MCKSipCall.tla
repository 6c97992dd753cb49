----------------------------- MODULE MCKSipCall -----------------------------
(* Instances of KSipCall for TLC. *)
EXTENDS KSipCall

Scenario(features, incoming, outgoing, first) ==
  [features |-> features, incoming |-> incoming, outgoing |-> outgoing,
   ports |-> first, transferors |-> {}]

OneCall    == Scenario({"threads", "failure"}, {1}, {3}, {4})
TwoCalls   == Scenario({"threads"}, {1, 2}, {3, 4}, {4})
Blind      == Scenario({"threads", "blind"}, {1}, {3, 4}, {4, 8})
BlindTwice == Scenario({"blind", "failure"}, {1}, {3, 4, 5}, {4, 8})
Picked     == Scenario({"threads", "pickup"}, {1, 2}, {3}, {4})
Attended   == [Scenario({"crossing", "attended"}, {1, 2}, {3, 4}, {4, 8})
                 EXCEPT !.transferors = {1, 4}]
Redialed   == [Scenario({"attended", "failure"}, {1, 2}, {3, 4, 5}, {4, 8})
                 EXCEPT !.transferors = {1, 2, 3, 4}]

AllScenarios == {OneCall, TwoCalls, Blind, BlindTwice, Picked, Attended, Redialed}
=============================================================================
