SPECIFICATION FairSpec
CONSTANTS
  m1 = m1  h1 = h1  h2 = h2  s1 = s1  s2 = s2  w1 = w1  w2 = w2
  Nil = Nil
  Events = {m1}
  Hooks = {h1, h2}
  HooksOf <- OneMessage
  SubOf <- TwoOwners
  AnswersOf <- FourAnswersEach
  Subs = {s1, s2}
  Workers = {w1, w2}
  MaxAttempts = 3
  Faults = {"broker", "log", "crash", "delete"}
INVARIANTS TypeOK SingleFlight VerdictIsFinal LogsContiguous GivenUpAfterMax RetryAllowed
PROPERTIES Delivered MessagesEnd
