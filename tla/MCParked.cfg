SPECIFICATION PollersWork
CONSTANTS
  w1 = w1
  Pollers = {w1}
  HasWrites = {"approve"}
  Steps <- MCSteps
  StartStep = "ci"
  MaxSteps = 3
  Kind <- MCKind
  MaxVisits <- MCMaxVisits
  Attempts <- MCAttempts
  Tries <- MCRetry
  Template <- MCTemplate
  HasPost = {}
  Emits <- MCEmits
  Timeout <- MCTimeout
  Outcomes <- MCOutcomes
  Catch <- MCCatch
  NextStep <- MCNextStep
  Terminal <- None
  Invariants = FALSE
  Texts = {"t1"}
  MaxCrashes = 1
INVARIANT ParkedTypeOK
PROPERTIES DeadlinePinned AnswerStands WaitsEnd
