SPECIFICATION SessionWorks
CONSTANTS
  Steps <- MCSteps
  StartStep = "work"
  MaxSteps = 3
  Kind <- MCKind
  MaxVisits <- MCMaxVisits
  Attempts <- MCAttempts
  Tries <- MCTries
  Template <- MCKeyed
  HasPost = {"work", "check"}
  Emits <- MCEmits
  Timeout <- MCTimeout
  Outcomes <- MCOutcomes
  Catch <- MCCatch
  NextStep <- MCNextStep
  Terminal <- MCTerminal
  Invariants = TRUE
  Texts = {"t1", "t2"}
  MaxCrashes = 1
INVARIANTS TypeOK VisitsWithinMax StepsWithinMax CrashConsumesNoVisit RetriesWithinBudget TriesSeeOneError
PROPERTIES CrashKeepsAttempt GatedTransitions FinalButForAbandon RunsStop
