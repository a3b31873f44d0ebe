\* A buffer of 3 bytes: lines shorter than, as long as and twice the buffer.
SPECIFICATION FairSpec
CONSTANTS
  N = 3
  NL = nl
  NUL = nul
  Junk = junk
  NoResult = none
  Byte = {nl, nul, a, b}
  ShortFile = 5
  LongFile = 7
  Contents <- MCContents
  ShortReads <- MCShort
  ReadErrors <- MCShort
INVARIANTS TypeOK ViewIsFileSegment AtLineStart RoomToLoad
PROPERTIES ImplementsLineReader EofReached
\* assert() may stop the program.
CHECK_DEADLOCK FALSE
