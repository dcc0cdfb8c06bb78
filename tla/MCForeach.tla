------------------------------ MODULE MCForeach ------------------------------
(* A machine splits the work item by item, agents do the parts; parts that  *)
(* are missing come round again.                                            *)
EXTENDS Foreach, TLC

None == [o \in {} |-> ""]

MCSteps == {"split", "parts"}
MCKind == [s \in MCSteps |-> "parallel"]
MCVisits == "split" :> 1 @@ "parts" :> 2
MCOne == [s \in MCSteps |-> 1]
MCTwo == [s \in MCSteps |-> 2]
MCZero == [s \in MCSteps |-> 0]
MCEmpty == [s \in MCSteps |-> {}]
MCEmits == [s \in MCSteps |-> {"success", "partial"}]
MCOutcomes == "split" :> ("partial" :> "parts") @@ "parts" :> ("partial" :> "parts")
MCCatch == [s \in MCSteps |-> None]
MCNextStep == "split" :> "parts" @@ "parts" :> "done"

MCItems == "split" :> 1 @@ "parts" :> 2
MCBodyKind == "split" :> "deterministic" @@ "parts" :> "agentic"
MCBodyKeys == "split" :> {} @@ "parts" :> {}
=============================================================================
