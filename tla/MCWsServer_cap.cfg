SPECIFICATION Spec
CONSTANTS
  t1 = t1  t2 = t2  t3 = t3
  c1 = c1  c2 = c2  c3 = c3
  Tokens = {t1, t2}
  Conns = {c1, c2}
  max_ws_connections = 1
  MaxHandshakes = 2
INVARIANTS CapHolds
