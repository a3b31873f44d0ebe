\* Every feature alone, files of two cores, and every machine; strings of 3
\* characters.
SPECIFICATION FairSpec
CONSTANTS
  NUL = "NUL"
  Spaces = {" "}
  INT_MAX = 524287
  Blank <- NoKey
  Calls <- MCCalls
  Machines <- MCMachines
  Stale <- MCStale
  StringSize = 4
INVARIANTS AnswerOrMisread FeaturesDeclared PlatformStrings
PROPERTY Terminates
\* A call returns.
CHECK_DEADLOCK FALSE
