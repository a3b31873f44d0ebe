SPECIFICATION Spec
CONSTANTS
  Cpus <- OldSystemCpus
  Systems <- MCSystems
INVARIANT VexNeedsOs
\* GetX86Info returns.
CHECK_DEADLOCK FALSE
