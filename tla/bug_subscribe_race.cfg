SPECIFICATION Spec
CONSTANTS
  c1 = c1  c2 = c2  e1 = e1  e2 = e2
  Nil = Nil
  Clients = {c1, c2}
  Events = {e1, e2}
  EventsOf <- SharedEvent
  Deprecated = {}
  MaxRestarts = 0
INVARIANTS AllBound
