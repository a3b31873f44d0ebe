SPECIFICATION FairSpec
CONSTANTS
  NUL = "NUL"
  Spaces = {" "}
  INT_MAX = 524287
  Blank <- NoKey
  Files <- NoVendorFiles
PROPERTY Terminates
\* GetRiscvInfo returns.
CHECK_DEADLOCK FALSE
