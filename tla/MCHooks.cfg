SPECIFICATION HooksWork
CONSTANTS
  Sessions = {"s1"}
  Terminals = {"t1"}
  Helpers = {"h1"}
  Roots = {"A", "B"}
  Runs = {"r1"}
  Cwd <- MCCwd
  MaxCrashes = 1
INVARIANTS EnforceTypeOK OffIsOff
PROPERTIES KeptAtWork CreditSpentOnce IndexHeals
