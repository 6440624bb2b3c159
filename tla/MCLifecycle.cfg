SPECIFICATION LiveSpec
CONSTANTS
  Conns = {c1, c2}
  MaxSignals = 2
INVARIANTS TypeOK NotifyHeard RequestsServed
PROPERTIES SignalEndsProcess
