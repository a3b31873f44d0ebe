\* The processors of FixErrors with every mix of sources, and short files.
SPECIFICATION Spec
CONSTANTS
  NUL = "NUL"
  Spaces = {" "}
  INT_MAX = 524287
  Blank <- NoKey
  FlagSets <- MCFlagSets
  Files <- MCFiles
  Hwcaps <- MCHwcaps
INVARIANTS FeaturesAsReported IdivJustified NeonAndVfpImplications Armv6IsNotArmv7
\* GetArmInfo returns.
CHECK_DEADLOCK FALSE
