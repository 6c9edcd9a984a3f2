\* Signal handlers of the program's own and children that change user, but no
\* negative timeouts (those are in MCProcessLive).
SPECIFICATION Spec
CONSTANTS
  o1 = o1
  o2 = o2
  p1 = p1
  p2 = p2
  Objs = {o1, o2}
  Pids = {p1, p2}
  NoChild = NoChild
  Returns <- MCReturns
  Durations = {"positive"}
  AppSignals = TRUE
  Setuid = TRUE
SYMMETRY MCSymmetry
INVARIANTS TypeOK OwnedUnreaped SoleOwner GroupLed ExitCodeTruth JoinVerdict HandlerRestored
PROPERTIES AbandonedLegally JoinCollects ImplementsHandle
