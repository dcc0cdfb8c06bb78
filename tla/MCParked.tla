------------------------------ MODULE MCParked ------------------------------
(* A release gate: wait for CI, then ask a person, who may send it back.    *)
EXTENDS Parked, TLC

CONSTANT w1

None == [o \in {} |-> ""]

MCSteps == {"ci", "approve"}
MCKind == "ci" :> "wait" @@ "approve" :> "human"
MCMaxVisits == "ci" :> 2 @@ "approve" :> 2
MCAttempts == [s \in MCSteps |-> 1]
MCRetry == "ci" :> 2 @@ "approve" :> 1
MCTemplate == [s \in MCSteps |-> {}]
MCTimeout == "ci" :> 1 @@ "approve" :> 1
MCEmits == "ci" :> {"green"} @@ "approve" :> {"yes", "no"}
MCOutcomes == "ci" :> ("green" :> "approve" @@ "timeout" :> "blocked")
           @@ "approve" :> ("yes" :> "done" @@ "no" :> "ci" @@ "timeout" :> "ci")
MCCatch == [s \in MCSteps |-> None]
MCNextStep == [s \in MCSteps |-> "done"]
=============================================================================
