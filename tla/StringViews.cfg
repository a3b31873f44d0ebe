\* An int of 8 bits, so that short numbers do not fit.
SPECIFICATION EveryView
CONSTANTS
  NUL = "NUL"
  Spaces = {" "}
  INT_MAX = 127
  Tests <- MCTests
  Separator = " "
  DstSize = 5
INVARIANTS HasWordExact KeyValueSplits ParseExact CopyTerminates CpuCountExact
\* A view of maximal length.
CHECK_DEADLOCK FALSE
