SPECIFICATION Spec
CONSTANTS
  Steps <- MCSteps
  StartStep = "work"
  MaxSteps = 4
  Kind <- MCKind
  MaxVisits <- MCMaxVisits
  Attempts <- MCAttempts
  Tries <- MCTries
  Template <- MCTemplate
  HasPost = {"work", "check"}
  Emits <- MCEmits
  Timeout <- MCTimeout
  Outcomes <- MCOutcomes
  Catch <- MCCatch
  NextStep <- MCNextStep
  Terminal <- MCTerminal
  Invariants = TRUE
  Texts = {"t1"}
  MaxCrashes = 1
INVARIANT NeverStranded
CHECK_DEADLOCK FALSE
