\* 384 isa strings, and files of up to three lines of several harts.
SPECIFICATION FairSpec
CONSTANTS
  NUL = "NUL"
  Spaces = {" "}
  INT_MAX = 524287
  Blank <- NoKey
  Files <- MCFiles
INVARIANTS IsaExact UarchPair
PROPERTY Terminates
\* GetRiscvInfo returns.
CHECK_DEADLOCK FALSE
