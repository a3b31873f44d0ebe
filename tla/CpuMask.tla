-------------------------------- MODULE CpuMask --------------------------------
(***************************************************************************)
(* The CPU lists of /sys/devices/system/cpu as ndk_compat/cpu-features.c   *)
(* reads them, e.g. "0-3,7".  A mask is the set of its bits.               *)
(***************************************************************************)
EXTENDS StringView, FiniteSets

MaskBits == 0 .. 31

set_cpu_mask_bit(index, mask) == mask \cup ({index} \cap MaskBits)

\* A single index or a range.  The loop over a range is for an end below the
\* largest int: at that end its counter would overflow.
parse_cpu_mask(text, mask) ==
  LET dash == IndexOfChar(text, "-")
      a    == ParsePositiveNumber(KeepFront(text, dash))
      b    == ParsePositiveNumber(PopFront(text, dash + 1))
      one  == ParsePositiveNumber(text)
  IN  IF dash < 0 THEN (IF one < 0 THEN mask ELSE set_cpu_mask_bit(one, mask))
      ELSE IF a < 0 \/ b < 0 THEN mask ELSE mask \cup (a .. b \cap MaskBits)

\* The entries between commas, one by one: how much of the line is passed, and
\* the mask so far.
parse_cpu_mask_entries(line, cpu_mask) ==
  LET from[loop \in [passed : Nat, mask : SUBSET MaskBits]] ==
        LET rest  == PopFront(line, loop.passed)
            comma == IndexOfChar(rest, ",")
        IN  IF rest = <<>> THEN loop.mask
            ELSE IF comma < 0 THEN parse_cpu_mask(rest, loop.mask)
            ELSE from[[passed |-> loop.passed + comma + 1,
                       mask |-> parse_cpu_mask(KeepFront(rest, comma), loop.mask)]]
  IN  from[[passed |-> 0, mask |-> cpu_mask]]

\* A line that is cut short or not terminated is ignored as a whole.
parse_cpu_mask_line(result, cpu_mask) ==
  IF ~result.full_line \/ result.eof THEN cpu_mask
  ELSE parse_cpu_mask_entries(result.line, cpu_mask)

\* A file of one line: whether it can be opened, whether the line ends in a
\* newline or in the end of the file, and whether one read gives all of it and
\* the buffer holds it.
MaskFile(line, ending) == [line |-> line, ending |-> ending]
Endings == {"newline", "eof", "cut", "missing"}

\* The first call of NextLine, which has nothing left of an earlier read: what
\* it reads without a newline is truncated, and only no bytes are the end.
FirstResult(file) ==
  LET nothing == file.ending = "eof" /\ file.line = <<>>
  IN  [line |-> file.line, eof |-> nothing,
       full_line |-> nothing \/ file.ending = "newline"]

\* Mutant: a line is used even if it is a part of a line.
update_cpu_mask_from_part(file, cpu_mask) ==
  IF file.ending = "missing" THEN cpu_mask
  ELSE parse_cpu_mask_entries(file.line, cpu_mask)

update_cpu_mask_from_file(file, cpu_mask) ==
  IF file.ending = "missing" THEN cpu_mask
  ELSE parse_cpu_mask_line(FirstResult(file), cpu_mask)

\* The CPUs of both files, counted.
get_cpu_count(present, possible) ==
  Cardinality(
    update_cpu_mask_from_file(possible, update_cpu_mask_from_file(present, {})))
===============================================================================
