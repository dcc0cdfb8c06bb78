------------------------------ MODULE MCEngine ------------------------------
(* A review loop: an agent works, a deterministic check judges the work and *)
(* may send it back.                                                        *)
EXTENDS Engine, TLC

None == [o \in {} |-> ""]

MCSteps == {"work", "check"}
MCKind == "work" :> "agentic" @@ "check" :> "deterministic"
MCMaxVisits == "work" :> 2 @@ "check" :> 2
MCAttempts == "work" :> 2 @@ "check" :> 2
MCTries == "work" :> 1 @@ "check" :> 2
MCTemplate == [s \in MCSteps |-> {}]
MCTimeout == [s \in MCSteps |-> 0]
MCEmits == "work" :> {"success"} @@ "check" :> {"success", "again"}
MCOutcomes == "work" :> None @@ "check" :> ("again" :> "work")
MCCatch == "work" :> ("exhausted" :> "gave_up") @@ "check" :> ("failure" :> "work")
MCNextStep == "work" :> "check" @@ "check" :> "done"
MCTerminal == "gave_up" :> "blocked"

\* The same loop without an agent: one command may run all of it.
MCMachines == [s \in MCSteps |-> "deterministic"]

\* A step that is capped hands over to the other one.
MCHandOver == [s \in MCSteps |-> "exhausted" :> CHOOSE t \in MCSteps : t # s]

\* attempt_key: on one step.
MCKeyed == "work" :> {} @@ "check" :> {"k1"}
=============================================================================
