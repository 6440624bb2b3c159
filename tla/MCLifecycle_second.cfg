SPECIFICATION Spec
CONSTANTS
  Conns = {c1, c2}
  MaxSignals = 2
PROPERTIES SecondSignalKills
