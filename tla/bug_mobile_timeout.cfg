SPECIFICATION Spec
CONSTANTS
  m1 = m1  h1 = h1  h2 = h2  s1 = s1  s2 = s2  w1 = w1  w2 = w2
  Nil = Nil
  Events = {m1}
  Hooks = {h1, h2}
  HooksOf <- OneMessage
  SubOf <- TwoOwners
  AnswersOf <- ApnHooks
  Subs = {s1, s2}
  Workers = {w1}
  MaxAttempts = 2
  Faults = {}
SYMMETRY WorkerSymmetry
INVARIANTS NoAnswerRetried
