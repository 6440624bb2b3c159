SPECIFICATION LiveSpec
CONSTANTS
  ordinary = ordinary  negative = negative  huge = huge  typo = typo
  p1 = p1  p2 = p2
  Edits = {ordinary, negative, huge}
  Malformed = {typo}
  Targets = {p1, p2}
  ProbesOf <- MCProbesOf
  TimeoutOf <- MCTimeoutOf
  MinTimeout = 1
  MaxDuration = 3
INVARIANTS TypeOK CallBounded EditPickedUp
PROPERTIES SettingsKept CallReturns
