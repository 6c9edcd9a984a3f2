SPECIFICATION ProgramSpec
CONSTANTS
  Inputs <- MCInputs
  Offsets <- MCOffsets
  MaxInput = 2
  MaxArgs = 2
  MaxText = 2
  MaxSteps = 1
  MaxInt = 127
  Opts <- MCOpts
  MaxUnsigned = 65535
  Users = {0, 1, 2}
  Gid <- MCGid
  Entries = {1, 2, 3}
  Filters <- MCFilters
  Orders = {"up", "down"}
  MaxDepth = 2
  MaxScans = 3
  Streams = {"s1", "s2"}
  MaxWrites = 3
  Conns = {c1, c2}
  Devices = {d1, d2}
  LdapHandles = {l1}
  PcmHandles = {p1, p2}
  NoHandle = NoHandle
INVARIANTS ShellMissing
CHECK_DEADLOCK FALSE
