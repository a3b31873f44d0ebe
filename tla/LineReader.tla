------------------------------ MODULE LineReader ------------------------------
(***************************************************************************)
(* What StackLineReader promises its callers (stack_line_reader.h): each   *)
(* call of NextLine hands out one line of the file, in the order of the    *)
(* file, none skipped and none handed out twice, cut short when it does    *)
(* not fit; at the end it reports eof, with the bytes after the last       *)
(* newline that no earlier call has handed out.  Nothing is said of        *)
(* buffers or of read(2).                                                  *)
(***************************************************************************)
EXTENDS Integers, Sequences

CONSTANTS
  NL,          \* The byte that ends a line.
  NUL,         \* The byte that no text file holds.
  Contents,    \* The files the specification is about: sequences of bytes.
  MaxLine,     \* STACK_LINE_READER_BUFFER_SIZE.
  ShortReads,  \* Those of which read(2) may return fewer bytes than asked for.
  NoResult     \* The value of result before the first call.

VARIABLES
  content,     \* The file.
  cursor,      \* How many bytes of it earlier calls have disposed of.
  result       \* The last LineResult handed out.

vars == <<content, cursor, result>>

\* CreateLineResult: the LineResult structure.
LineResult(eof, full, line) == [eof |-> eof, full_line |-> full, line |-> line]

\* The bytes of the file with offsets first .. last - 1.
Bytes(first, last) == SubSeq(content, first + 1, last)

\* Offset eol holds the newline that ends the line that starts at cursor.
EndsLine(eol) ==
  /\ eol \in cursor .. Len(content) - 1
  /\ content[eol + 1] = NL
  /\ \A i \in cursor .. eol - 1 : content[i + 1] # NL

Unterminated == \A i \in cursor .. Len(content) - 1 : content[i + 1] # NL

Init ==
  /\ content \in Contents
  /\ cursor = 0
  /\ result = NoResult

\* The whole line fits.
Deliver ==
  \E eol \in cursor .. Len(content) - 1 :
    /\ EndsLine(eol)
    /\ eol - cursor < MaxLine
    /\ result' = LineResult(FALSE, TRUE, Bytes(cursor, eol))
    /\ cursor' = eol + 1
    /\ UNCHANGED content

\* The line is cut at offset cut and its rest is dropped.  With full reads
\* this happens only to a line of at least MaxLine bytes, and to a last line
\* that has no newline.
Cut(cut) ==
  /\ cut - cursor \in 1..MaxLine
  /\ content \in ShortReads \/ cut - cursor = MaxLine \/ cut = Len(content)
  /\ result' = LineResult(FALSE, FALSE, Bytes(cursor, cut))
  /\ UNCHANGED content

Truncate ==
  \E cut \in cursor + 1 .. Len(content) :
    \/ \E eol \in cut .. Len(content) - 1 :
          /\ EndsLine(eol)
          /\ Cut(cut)
          /\ cursor' = eol + 1
    \/ /\ Unterminated
       /\ Cut(cut)
       /\ cursor' = Len(content)

\* End of file; a caller that asks again gets the same answer.
EndOfFile ==
  /\ Unterminated
  /\ Len(content) - cursor < MaxLine
  /\ result' = LineResult(TRUE, TRUE, Bytes(cursor, Len(content)))
  /\ UNCHANGED <<content, cursor>>

\* Nothing is promised for a file that is not text.
Unspecified ==
  /\ \E i \in DOMAIN content : content[i] = NUL
  /\ UNCHANGED content

Next == Deliver \/ Truncate \/ EndOfFile \/ Unspecified

Spec == Init /\ [][Next]_vars
===============================================================================
