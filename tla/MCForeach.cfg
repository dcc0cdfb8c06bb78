SPECIFICATION EachWorks
CONSTANTS
  Loops <- MCSteps
  MaxItems <- MCItems
  BodyKind <- MCBodyKind
  BodyTries <- MCTwo
  BodyAttempts <- MCTwo
  BodyKeys <- MCBodyKeys
  Steps <- MCSteps
  StartStep = "split"
  MaxSteps = 4
  Kind <- MCKind
  MaxVisits <- MCVisits
  Attempts <- MCOne
  Tries <- MCOne
  Template <- MCEmpty
  HasPost = {}
  Emits <- MCEmits
  Timeout <- MCZero
  Outcomes <- MCOutcomes
  Catch <- MCCatch
  NextStep <- MCNextStep
  Terminal <- None
  Invariants = FALSE
  Texts = {"t1", "t2"}
  MaxCrashes = 1
INVARIANTS ForeachTypeOK CollectsThisVisit ItemsRunOnce ItemRetriesWithinBudget
PROPERTIES EachEnds
