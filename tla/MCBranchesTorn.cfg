SPECIFICATION BranchesSpec
CONSTANTS
  BranchesOf <- MCBranchesOf
  Agents = {"reader", "writer"}
  Steps <- MCSteps
  StartStep = "review"
  MaxSteps = 3
  Kind <- MCKind
  MaxVisits <- MCVisits
  Attempts <- MCOne
  Tries <- MCOne
  Template <- MCEmpty
  HasPost = {}
  Emits <- MCEmits
  Timeout <- MCZero
  Outcomes <- MCOutcomes
  Catch <- MCCatch
  NextStep <- MCNextStep
  Terminal <- None
  Invariants = TRUE
  Texts = {"t1"}
  MaxCrashes = 1
INVARIANT JoinsAfterAll
