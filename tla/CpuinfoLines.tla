------------------------------ MODULE CpuinfoLines ------------------------------
(***************************************************************************)
(* What the parsers of /proc/cpuinfo see of StackLineReader: LineReader    *)
(* for files whose lines fit the buffer, with lines in place of bytes.  A  *)
(* file is a sequence of lines and whether a newline ends the last one.    *)
(***************************************************************************)
EXTENDS Integers, Sequences

CONSTANT Blank   \* The empty line: what NextLine hands out at end of file.

Result(line, eof, pos) == [line |-> line, eof |-> eof, pos |-> pos]

\* Before the first call; NextLine never returns this.
NotRead == Result(Blank, FALSE, 1)

(***************************************************************************)
(* The LineResults that NextLine may return at line pos when it returned   *)
(* last before, and the line it goes on with.  A last line without newline  *)
(* is handed out with eof when the read(2) of an earlier line already      *)
(* brought it into the view, and so never when it is the first.  When the  *)
(* same call reads some of it, it is handed out as truncated, and the next *)
(* call skips to the end of the file.  At the end the view stays as it is, *)
(* so that every further call returns the same.                            *)
(***************************************************************************)
Results(file, pos, last) ==
  IF last.eof THEN {last}
  ELSE IF pos > Len(file.lines) THEN {Result(Blank, TRUE, pos)}
  ELSE {Result(file.lines[pos], FALSE, pos + 1)}
       \cup IF 1 < pos /\ pos = Len(file.lines) /\ ~file.terminated
            THEN {Result(file.lines[pos], TRUE, pos)} ELSE {}

\* The lines of a file with one of some keys, and the last of such lines.
LinesWith(file, keys) == {i \in DOMAIN file.lines : file.lines[i].key \in keys}
LastOf(S) == CHOOSE i \in S : \A j \in S : j <= i
===============================================================================
