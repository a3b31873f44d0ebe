--------------------------- MODULE StackLineReader ----------------------------
(***************************************************************************)
(* The line reader of src/src/stack_line_reader.c: a fixed buffer on the   *)
(* stack, a view into it, and read(2).  A call of StackLineReader_NextLine *)
(* runs until its next read, so that every return value of every read is   *)
(* an alternative of its own; between calls (pc = "idle") the caller may   *)
(* do anything with the result, including never calling again.             *)
(***************************************************************************)
EXTENDS Integers, Sequences

CONSTANTS
  N,           \* STACK_LINE_READER_BUFFER_SIZE.
  Byte,        \* The bytes a file may hold.
  NL,          \* '\n'
  NUL,         \* '\0', which ends the search of CpuFeatures_memchr.
  Junk,        \* What an uninitialised byte of the stack holds.
  Contents,    \* The files read.
  ShortReads,  \* Those of which read(2) may return fewer bytes than asked for.
  ReadErrors,  \* Those on which read(2) may fail with another errno than EINTR.
  NoResult     \* The value of result before the first call.

ASSUME SlrAssumption ==
  /\ N \in Nat \ {0}
  /\ NL \in Byte /\ NUL # NL /\ Junk \notin Byte
  /\ \A file \in Contents : file \in Seq(Byte)
  /\ ShortReads \subseteq Contents /\ ReadErrors \subseteq Contents

VARIABLES
  content,     \* The file behind reader->fd.
  head,        \* The file offset: bytes that read(2) has returned so far.
  buffer,      \* reader->buffer
  ptr,         \* reader->view.ptr - reader->buffer
  size,        \* reader->view.size
  skip_mode,   \* reader->skip_mode
  pc,          \* Where NextLine is: "idle", "skip", "scan", "load", "aborted".
  result       \* The last LineResult returned.

file_vars == <<content, head>>
view_vars == <<ptr, size>>
vars == <<content, head, buffer, ptr, size, skip_mode, pc, result>>

NatMin(a, b) == IF a < b THEN a ELSE b

(***************************************************************************)
(* IndexOfEol: CpuFeatures_memchr walks the view until it has seen all of  *)
(* it, the newline, or a NUL.                                              *)
(***************************************************************************)
IsEol(mem, start, len, eol) ==
  /\ eol \in 0 .. len - 1
  /\ mem[start + eol] = NL
  /\ \A i \in 0 .. eol - 1 : mem[start + i] \notin {NL, NUL}

HasEol(mem, start, len) == \E eol \in 0 .. len - 1 : IsEol(mem, start, len, eol)

\* The n bytes of the file after the file offset, stored from slot "at" on.
Fill(mem, at, n) ==
  [i \in 0 .. N - 1 |-> IF i \in at .. at + n - 1
                        THEN content[head + (i - at) + 1]
                        ELSE mem[i]]

\* What read(fd, ptr, want) may return: 0 only at the end of the file.
ReadCounts(want) ==
  LET most == NatMin(want, Len(content) - head)
  IN  IF content \in ShortReads THEN NatMin(1, most) .. most ELSE {most}

\* Mutant: the pending bytes are not moved.
BringToFrontNoMove == buffer

\* memmove of the pending bytes to the front of the buffer.
BringToFront ==
  [i \in 0 .. N - 1 |-> IF i < size THEN buffer[ptr + i] ELSE buffer[i]]

\* The bytes of buffer mem from slot start on, as the caller sees them.
ViewOf(mem, start, len) == [i \in 1 .. len |-> mem[start + i - 1]]

LineResult(eof, full, line) == [eof |-> eof, full_line |-> full, line |-> line]

Return(r) == pc' = "idle" /\ result' = r

-------------------------------------------------------------------------------
\* StackLineReader_Initialize; the buffer is not touched.
Init ==
  /\ content \in Contents
  /\ head = 0
  /\ buffer = [i \in 0 .. N - 1 |-> Junk]
  /\ ptr = 0
  /\ size = 0
  /\ skip_mode = FALSE
  /\ pc = "idle"
  /\ result = NoResult

\* The caller calls NextLine, again after eof if it likes.
Call ==
  /\ pc = "idle"
  /\ pc' = IF skip_mode THEN "skip" ELSE "scan"
  /\ UNCHANGED <<content, head, buffer, ptr, size, skip_mode, result>>

\* Mutants: skipping ends with the buffer, newline or not; the newline found
\* while skipping is left in the view.
SkipReadOneBuffer(n) ==
  /\ pc = "skip"
  /\ buffer' = Fill(buffer, 0, n)
  /\ head' = head + n
  /\ \/ /\ ~HasEol(buffer', 0, n)
        /\ ptr' = 0 /\ size' = 0
     \/ \E eol \in 0 .. n - 1 :
          IsEol(buffer', 0, n, eol) /\ ptr' = eol + 1 /\ size' = n - (eol + 1)
  /\ pc' = "scan" /\ skip_mode' = FALSE
  /\ UNCHANGED <<content, result>>

SkipReadKeepsNewline(n) ==
  /\ pc = "skip"
  /\ buffer' = Fill(buffer, 0, n)
  /\ head' = head + n
  /\ IF HasEol(buffer', 0, n)
     THEN \E eol \in 0 .. n - 1 :
            IsEol(buffer', 0, n, eol) /\ ptr' = eol /\ size' = n - eol
     ELSE ptr' = 0 /\ size' = n
  /\ IF n = 0 \/ HasEol(buffer', 0, n)
     THEN pc' = "scan" /\ skip_mode' = FALSE
     ELSE UNCHANGED <<pc, skip_mode>>
  /\ UNCHANGED <<content, result>>

\* One turn of the loop of SkipToNextLine: LoadFullBuffer, then leave the
\* loop at end of file or just after the first newline.
SkipRead(n) ==
  /\ pc = "skip"
  /\ buffer' = Fill(buffer, 0, n)
  /\ head' = head + n
  /\ \/ /\ n = 0
        /\ ptr' = 0 /\ size' = 0
        /\ pc' = "scan" /\ skip_mode' = FALSE
     \/ /\ n > 0
        /\ \E eol \in 0 .. n - 1 :
              /\ IsEol(buffer', 0, n, eol)
              /\ ptr' = eol + 1 /\ size' = n - (eol + 1)
        /\ pc' = "scan" /\ skip_mode' = FALSE
     \/ /\ n > 0
        /\ ~HasEol(buffer', 0, n)
        /\ ptr' = 0 /\ size' = n
        /\ UNCHANGED <<pc, skip_mode>>
  /\ UNCHANGED <<content, result>>

\* Mutant: the newline is left in the view, as the start of the next line.
TakeLineKeepsNewline(mem, start, len) ==
  \E eol \in 0 .. len - 1 :
    /\ IsEol(mem, start, len, eol)
    /\ Return(LineResult(FALSE, TRUE, ViewOf(mem, start, eol)))
    /\ ptr' = start + eol
    /\ size' = len - eol
    /\ UNCHANGED skip_mode

\* StringView_KeepFront / PopFront around the newline: the line is returned.
TakeLine(mem, start, len) ==
  \E eol \in 0 .. len - 1 :
    /\ IsEol(mem, start, len, eol)
    /\ Return(LineResult(FALSE, TRUE, ViewOf(mem, start, eol)))
    /\ ptr' = start + eol + 1
    /\ size' = len - (eol + 1)
    /\ UNCHANGED skip_mode

\* Mutant: view.ptr is not brought back to the buffer's start.
TakeTruncatedKeepsPtr(mem, start, len) ==
  /\ ~HasEol(mem, start, len)
  /\ Return(LineResult(FALSE, FALSE, ViewOf(mem, start, len)))
  /\ size' = len
  /\ skip_mode' = TRUE
  /\ UNCHANGED ptr

\* No newline in the buffer: what is there is returned as a truncated line.
TakeTruncated(mem, start, len) ==
  /\ ~HasEol(mem, start, len)
  /\ Return(LineResult(FALSE, FALSE, ViewOf(mem, start, len)))
  /\ ptr' = start
  /\ size' = len
  /\ skip_mode' = TRUE

\* The first IndexOfEol of NextLine, on what the view already holds.
Scan ==
  /\ pc = "scan"
  /\ \/ TakeLine(buffer, ptr, size)
     \/ /\ ~HasEol(buffer, ptr, size)
        /\ IF size < N  \* can_load_more
           THEN pc' = "load" /\ UNCHANGED <<ptr, size, skip_mode, result>>
           ELSE TakeTruncated(buffer, ptr, size)
  /\ UNCHANGED <<content, head, buffer>>

\* Mutant: read() = 0 is not told apart, so the end of file is never seen.
LoadMoreNoEof(n) ==
  /\ pc = "load"
  /\ buffer' = Fill(BringToFront, size, n)
  /\ head' = head + n
  /\ TakeLine(buffer', 0, size + n) \/ TakeTruncated(buffer', 0, size + n)
  /\ UNCHANGED content

\* BringToFrontAndLoadMore and the rest of NextLine.
LoadMore(n) ==
  /\ pc = "load"
  /\ buffer' = Fill(BringToFront, size, n)
  /\ head' = head + n
  /\ \/ /\ n = 0
        /\ ptr' = 0
        /\ Return(LineResult(TRUE, TRUE, ViewOf(buffer', 0, size)))
        /\ UNCHANGED <<size, skip_mode>>
     \/ n > 0 /\ TakeLine(buffer', 0, size + n)
     \/ n > 0 /\ TakeTruncated(buffer', 0, size + n)
  /\ UNCHANGED content

\* assert(read >= 0): LoadFullBuffer and LoadMore abort when read(2) fails
\* (CpuFeatures_ReadFile retries EINTR and passes on any other error).
ReadFails ==
  /\ content \in ReadErrors
  /\ pc \in {"skip", "load"}
  /\ pc' = "aborted"
  /\ UNCHANGED <<content, head, buffer, ptr, size, skip_mode, result>>

Skip == \E n \in ReadCounts(N) : SkipRead(n)
Load == \E n \in ReadCounts(N - size) : LoadMore(n)

Reader == Skip \/ Scan \/ Load
Next == Call \/ Reader \/ ReadFails

Spec == Init /\ [][Next]_vars

\* NextLine is a sequential call that runs to its end, and the loop of every
\* cpuinfo parser (e.g. impl_mips_linux_or_android.c:60-72) calls again
\* until it has seen eof.
FairSpec == Spec /\ WF_vars(Reader) /\ WF_vars(Call)

-------------------------------------------------------------------------------
\* The state stays in its types and the view inside the buffer
\* (buffer overruns would show as ptr + size > N).
TypeOK ==
  /\ content \in Seq(Byte)
  /\ head \in 0 .. Len(content)
  /\ buffer \in [0 .. N - 1 -> Byte \cup {Junk}]
  /\ ptr \in 0 .. N /\ size \in 0 .. N /\ ptr + size <= N
  /\ skip_mode \in BOOLEAN
  /\ pc \in {"idle", "skip", "scan", "load", "aborted"}

\* The view is always the last bytes read, in the order of the file, whatever
\* moves and partial reads built it (stack_line_reader.c:42-63).  So no byte of
\* an earlier line, nor of uninitialised stack, ever shows up in a result.
ViewIsFileSegment ==
  /\ size <= head
  /\ \A i \in 0 .. size - 1 : buffer[ptr + i] = content[head - size + i + 1]

\* NextLine starts looking for a newline only at the start of a line of the
\* file, or at its end: skip_mode is carried from the call that truncates a
\* line to the one that drops its rest (stack_line_reader.c:105-108, 122).
AtLineStart ==
  (~skip_mode /\ pc # "skip") =>
    LET start == head - size
    IN  start = 0 \/ start = Len(content) \/ content[start] = NL

\* can_load_more (stack_line_reader.c:110) is always true: a view that is full
\* never survives into the next scan, so a line is only ever declared
\* truncated after an attempt to read the rest of it.
RoomToLoad == pc \in {"scan", "load"} => size < N

\* Every loop that calls NextLine until eof ends, unless a read fails; and eof is
\* reported for good: a later call says the same again.
AtEof == result # NoResult /\ result.eof
EofReached == <>[](AtEof \/ pc = "aborted")

-------------------------------------------------------------------------------
(***************************************************************************)
(* Refinement.  The bytes disposed of are those before the view or, while  *)
(* the rest of a truncated line is still to be dropped, those up to the    *)
(* end of that line.                                                       *)
(***************************************************************************)
NextLineStart(offset) ==
  LET eols == {i \in offset .. Len(content) - 1 : content[i + 1] = NL}
  IN  IF eols = {} THEN Len(content)
      ELSE 1 + CHOOSE i \in eols : \A j \in eols : i <= j

cursorBar == IF skip_mode THEN NextLineStart(head) ELSE head - size

Abs == INSTANCE LineReader WITH MaxLine <- N, cursor <- cursorBar

\* The reader does what LineReader says: every line of a file without NULs once,
\* in order, cut only where LineReader lets it be cut.
ImplementsLineReader == Abs!Spec
===============================================================================
