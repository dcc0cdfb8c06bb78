----------------------------- MODULE MCBranches -----------------------------
(* Two agents and a check review a change in parallel; what they object to   *)
(* another agent fixes, before one more round.                               *)
EXTENDS Branches, TLC

None == [o \in {} |-> ""]

MCSteps == {"review", "fix"}
MCBranchesOf == "review" :> <<"reader", "lint", "writer">> @@ "fix" :> <<>>
MCKind == "review" :> "parallel" @@ "fix" :> "agentic"
MCVisits == "review" :> 2 @@ "fix" :> 1
MCOne == [s \in MCSteps |-> 1]
MCZero == [s \in MCSteps |-> 0]
MCEmpty == [s \in MCSteps |-> {}]
MCEmits == [s \in MCSteps |-> {"success"}]
MCOutcomes == "review" :> ("failure" :> "fix") @@ "fix" :> None
MCCatch == [s \in MCSteps |-> "exhausted" :> "done"]
MCNextStep == "review" :> "done" @@ "fix" :> "review"
=============================================================================
