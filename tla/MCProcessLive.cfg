\* Two objects that can pass one child on, and negative timeouts.  AppSignals
\* stands for the death of other children too: both interrupt a wait.
SPECIFICATION FairSpec
CONSTANTS
  o1 = o1
  o2 = o2
  p1 = p1
  p2 = p2
  Objs = {o1, o2}
  Pids = {p1}
  NoChild = NoChild
  Returns = {0}
  Durations = {"positive", "negative"}
  AppSignals = TRUE
  Setuid = TRUE
PROPERTIES DtorEnds WaitsEnd
