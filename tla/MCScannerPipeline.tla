------------------------- MODULE MCScannerPipeline -------------------------
(* Instances of ScannerPipeline for TLC. *)
EXTENDS ScannerPipeline, TLC

CONSTANTS pro, enterprise

\* One pattern of the second set does not compile.
SecondBroken == {[version |-> 2, index |-> 1]}

Bundled == {pro, enterprise}
BundledRank == pro :> 1 @@ enterprise :> 2

Predicted(category, confidence) == [category |-> category, confidence |-> confidence]

\* The models disagree: pro is at the threshold, enterprise is surer than the signatures.
Says == pro :> <<Predicted("jailbreak", 50)>>
        @@ enterprise :> <<Predicted("safe", 60), Predicted("jailbreak", 95)>>

\* The first set logs the request, the second blocks it, the third has a tie.
Matching == SubSeq(<<<<"log", None>>, <<"warn", "block">>, <<"warn", "warn">>>>, 1, MaxVersions)

Proxied == [check |-> FALSE, signatures |-> Matching, heuristics |-> <<90>>, predictions |-> Says]
Checked == [Proxied EXCEPT !.check = TRUE, !.heuristics = <<70, 80>>]

Rules(sensitivity) ==
  [default_action |-> "block", allowlisted |-> {"jailbreak"},
   categories |-> "injection" :> [action |-> "warn", threshold |-> 0, sensitivity |-> sensitivity]]

OurRequests == {Proxied, Checked}
OurPolicies == {Rules(120), Rules(20), Rules(5)}  \* thresholds 0, 80 and 95
Full == [enabled |-> TRUE, stages |-> Stages, threshold |-> 50, action |-> "block"]
Boot == {Full, [Full EXCEPT !.stages = {"heuristics"}]}
=============================================================================
