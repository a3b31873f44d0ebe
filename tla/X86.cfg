SPECIFICATION Spec
CONSTANTS
  Cpus <- MCCpus
  Systems <- MCSystems
INVARIANTS NoFeatureOfMissingLeaf VectorNeedsOs NothingWithheld WiderImpliesNarrower SecondFmaByUarch
\* GetX86Info returns.
CHECK_DEADLOCK FALSE
