SPECIFICATION CommandsRun
CONSTANTS
  Steps <- MCSteps
  StartStep = "work"
  MaxSteps = 4
  Kind <- MCMachines
  MaxVisits <- MCMaxVisits
  Attempts <- MCAttempts
  Tries <- MCTries
  Template <- MCTemplate
  HasPost = {"work", "check"}
  Emits <- MCEmits
  Timeout <- MCTimeout
  Outcomes <- MCOutcomes
  Catch <- MCHandOver
  NextStep <- MCNextStep
  Terminal <- MCTerminal
  Invariants = TRUE
  Texts = {"t1"}
  MaxCrashes = 2
PROPERTIES IsWalk CommandsReturn
