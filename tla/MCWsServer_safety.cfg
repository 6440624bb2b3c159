SPECIFICATION Spec
CONSTANTS
  t1 = t1  t2 = t2  t3 = t3
  c1 = c1  c2 = c2  c3 = c3
  Tokens = {t1, t2, t3}
  Conns = {c1, c2, c3}
  max_ws_connections = 1
  MaxHandshakes = 2
SYMMETRY Symmetry
INVARIANTS TypeOK CounterExact TokenSingleUse PendingExpires OvershootBounded
PROPERTIES OneTimeSpec
