\* The least number of slots that cpu_features_cache_info.h allows.
SPECIFICATION CacheFairSpec
CONSTANTS
  CPU_FEATURES_MAX_CACHE_LEVEL = 15
  Processors <- MCCpus
INVARIANTS LevelsInBounds OneSource NoLevelOfMissingLeaf
PROPERTY Terminates
\* GetX86CacheInfo returns.
CHECK_DEADLOCK FALSE
