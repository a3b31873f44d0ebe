------------------------- MODULE StackLineReaderProofs -------------------------
(***************************************************************************)
(* Proofs about StackLineReader for every buffer size, every set of files  *)
(* and every way read(2) may split them or fail.                           *)
(***************************************************************************)
EXTENDS StackLineReader, TLAPS, WellFoundedInduction

\* The inductive invariant: the four properties, and what ties skip_mode to
\* the place of NextLine: a pending skip is over before the scan starts.
Control ==
  /\ pc = "skip" => skip_mode
  /\ pc \in {"scan", "load"} => ~skip_mode
  /\ ~skip_mode => size < N

IInv == TypeOK /\ ViewIsFileSegment /\ AtLineStart /\ Control

-------------------------------------------------------------------------------
\* What read(2) returns fits the space asked for and the rest of the file.
LEMMA ReadCountsBound ==
  ASSUME TypeOK, NEW want \in 0 .. N, NEW n \in ReadCounts(want)
  PROVE  /\ n \in Nat
         /\ n <= want
         /\ head + n <= Len(content)
         /\ want > 0 /\ n = 0 => head = Len(content)
  BY SlrAssumption DEF SlrAssumption, TypeOK, ReadCounts, NatMin

\* A read that fits fills a buffer of bytes and touches no other slot.
LEMMA FillBuffer ==
  ASSUME TypeOK, NEW mem \in [0 .. N - 1 -> Byte \cup {Junk}],
         NEW at \in 0 .. N, NEW n \in Nat,
         at + n <= N, head + n <= Len(content)
  PROVE  /\ Fill(mem, at, n) \in [0 .. N - 1 -> Byte \cup {Junk}]
         /\ \A i \in 0 .. at - 1 : Fill(mem, at, n)[i] = mem[i]
         /\ \A i \in at .. at + n - 1 :
              Fill(mem, at, n)[i] = content[head + (i - at) + 1]
  <1>1. \A i \in at .. at + n - 1 : content[head + (i - at) + 1] \in Byte
    BY DEF TypeOK
  <1>2. N \in Nat
    BY SlrAssumption DEF SlrAssumption
  <1>3. ASSUME NEW i \in 0 .. N - 1
        PROVE  (IF i \in at .. at + n - 1 THEN content[head + (i - at) + 1]
                ELSE mem[i]) \in Byte \cup {Junk}
    BY <1>1
  <1>4. Fill(mem, at, n) \in [0 .. N - 1 -> Byte \cup {Junk}]
    BY <1>3 DEF Fill
  <1>5. \A i \in 0 .. at - 1 : i \in 0 .. N - 1 /\ i \notin at .. at + n - 1
    BY <1>2
  <1>6. \A i \in at .. at + n - 1 : i \in 0 .. N - 1
    BY <1>2
  <1>7. \A i \in 0 .. at - 1 : Fill(mem, at, n)[i] = mem[i]
    BY <1>5 DEF Fill
  <1>8. \A i \in at .. at + n - 1 :
          Fill(mem, at, n)[i] = content[head + (i - at) + 1]
    BY <1>6 DEF Fill
  <1> QED
    BY <1>4, <1>7, <1>8

\* Moving the pending bytes keeps their order and their number.
LEMMA BringToFrontView ==
  ASSUME TypeOK
  PROVE  /\ BringToFront \in [0 .. N - 1 -> Byte \cup {Junk}]
         /\ \A i \in 0 .. size - 1 : BringToFront[i] = buffer[ptr + i]
  <1>1. /\ N \in Nat /\ ptr \in Nat /\ size \in Nat /\ ptr + size <= N
        /\ buffer \in [0 .. N - 1 -> Byte \cup {Junk}]
    BY SlrAssumption DEF SlrAssumption, TypeOK
  <1>2. \A i \in 0 .. N - 1 : i < size => ptr + i \in 0 .. N - 1
    BY <1>1
  <1>3. \A i \in 0 .. size - 1 : i \in 0 .. N - 1 /\ i < size
    BY <1>1
  <1>4. BringToFront \in [0 .. N - 1 -> Byte \cup {Junk}]
    BY <1>1, <1>2 DEF BringToFront
  <1>5. \A i \in 0 .. size - 1 : BringToFront[i] = buffer[ptr + i]
    BY <1>3 DEF BringToFront
  <1> QED BY <1>4, <1>5

\* A filled buffer of which the first len bytes are the last len bytes read.
Mirrors(mem, start, len, offset) ==
  /\ len <= offset
  /\ start + len <= N
  /\ \A i \in 0 .. len - 1 : mem[start + i] = content[offset - len + i + 1]

\* Returning a whole line leaves the view at the start of the next line.
LEMMA TakeLineKeeps ==
  ASSUME TypeOK, TypeOK', NEW mem, NEW start \in Nat, NEW len \in 0 .. N,
         mem = buffer', content' = content,
         Mirrors(mem, start, len, head'), TakeLine(mem, start, len), ~skip_mode
  PROVE  (ViewIsFileSegment /\ AtLineStart /\ Control)'
  <1>1. PICK eol \in 0 .. len - 1 :
          /\ IsEol(mem, start, len, eol)
          /\ pc' = "idle"
          /\ ptr' = start + eol + 1
          /\ size' = len - (eol + 1)
          /\ skip_mode' = skip_mode
    BY DEF TakeLine, Return
  <1>2. mem[start + eol] = NL /\ mem[start + eol] = content[head' - len + eol + 1]
    BY <1>1 DEF IsEol, Mirrors
  <1>0. head' \in Nat
    BY DEF TypeOK
  <1>3. head' - size' = head' - len + eol + 1
    BY <1>0, <1>1
  <1>4. ViewIsFileSegment'
    <2>1. size' <= head'
      BY <1>1 DEF Mirrors, TypeOK
    <2>2. ASSUME NEW i \in 0 .. size' - 1
          PROVE  buffer'[ptr' + i] = content'[head' - size' + i + 1]
      <3> DEFINE j == eol + 1 + i
      <3>1. j \in 0 .. len - 1 /\ ptr' + i = start + j
            /\ head' - len + j + 1 = head' - size' + i + 1
        BY <1>1, <2>2 DEF TypeOK
      <3>2. mem[start + j] = content[head' - len + j + 1]
        BY <3>1 DEF Mirrors
      <3> QED BY <3>1, <3>2
    <2> QED BY <2>1, <2>2 DEF ViewIsFileSegment
  <1>5. AtLineStart'
    BY <1>1, <1>2, <1>3 DEF AtLineStart
  <1>6. Control'
    <2>1. size' < N
      BY <1>1, SlrAssumption DEF SlrAssumption
    <2> QED BY <1>1, <2>1 DEF Control
  <1> QED BY <1>4, <1>5, <1>6

\* Returning a truncated line leaves the view where it was and asks to skip.
LEMMA TakeTruncatedKeeps ==
  ASSUME TypeOK, TypeOK', NEW mem, NEW start \in Nat, NEW len \in 0 .. N,
         mem = buffer', content' = content,
         Mirrors(mem, start, len, head'), TakeTruncated(mem, start, len)
  PROVE  (ViewIsFileSegment /\ AtLineStart /\ Control)'
  BY DEF TakeTruncated, Return, Mirrors, ViewIsFileSegment, AtLineStart,
         Control, TypeOK
-------------------------------------------------------------------------------
\* A new reader has an empty view, at the start of the first line.
LEMMA InitOK == Init => IInv
  <1> SUFFICES ASSUME Init PROVE IInv
    OBVIOUS
  <1>1. TypeOK
    BY SlrAssumption DEF SlrAssumption, Init, TypeOK
  <1>2. ViewIsFileSegment /\ AtLineStart
    BY DEF Init, ViewIsFileSegment, AtLineStart
  <1>3. Control
    BY SlrAssumption DEF SlrAssumption, Init, Control
  <1> QED BY <1>1, <1>2, <1>3 DEF IInv

\* Entering NextLine changes only where it is.
LEMMA CallOK == IInv /\ Call => IInv'
  BY DEF IInv, Call, TypeOK, ViewIsFileSegment, AtLineStart, Control

\* A read that fails stops the program and changes nothing else.
LEMMA ReadFailsOK == IInv /\ ReadFails => IInv'
  BY DEF IInv, ReadFails, TypeOK, ViewIsFileSegment, AtLineStart, Control

\* Searching the view takes a line off its front, or leaves it alone.
LEMMA ScanOK == IInv /\ Scan => IInv'
  <1> SUFFICES ASSUME IInv, Scan PROVE IInv'
    OBVIOUS
  <1>1. TypeOK /\ ~skip_mode /\ size < N
    BY DEF IInv, Scan, Control
  <1>2. Mirrors(buffer, ptr, size, head)
    BY DEF IInv, ViewIsFileSegment, Mirrors, TypeOK
  <1>3. CASE TakeLine(buffer, ptr, size)
    <2>1. TypeOK'
      <3>1. PICK eol \in 0 .. size - 1 :
               /\ ptr' = ptr + eol + 1 /\ size' = size - (eol + 1)
               /\ pc' = "idle" /\ skip_mode' = skip_mode
        BY <1>3 DEF TakeLine, Return
      <3>2. ptr' \in 0 .. N /\ size' \in 0 .. N /\ ptr' + size' <= N
        BY <1>1, <3>1, SlrAssumption DEF SlrAssumption, TypeOK
      <3> QED BY <1>1, <3>1, <3>2 DEF Scan, TypeOK
    <2>2. /\ buffer' = buffer /\ content' = content /\ head' = head
          /\ ptr \in Nat /\ size \in 0 .. N
      BY <1>1 DEF Scan, TypeOK
    <2> QED BY <1>1, <1>2, <1>3, <2>1, <2>2, TakeLineKeeps DEF IInv
  <1>4. CASE /\ pc' = "load"
             /\ UNCHANGED <<ptr, size, skip_mode, result>>
    BY <1>1, <1>4 DEF IInv, Scan, TypeOK, ViewIsFileSegment, AtLineStart, Control
  <1> QED BY <1>1, <1>3, <1>4 DEF Scan

\* What LoadMore has in the buffer is the view and the bytes that follow it.
LEMMA LoadMoreMirrors ==
  ASSUME IInv, NEW n \in ReadCounts(N - size), LoadMore(n)
  PROVE  /\ n \in Nat /\ n <= N - size /\ head + n <= Len(content)
         /\ n = 0 => head = Len(content)
         /\ buffer' \in [0 .. N - 1 -> Byte \cup {Junk}]
         /\ Mirrors(buffer', 0, size + n, head + n)
  <1>1. /\ TypeOK /\ ~skip_mode /\ size < N /\ N \in Nat
        /\ size \in Nat /\ head \in Nat
    BY SlrAssumption DEF SlrAssumption, IInv, LoadMore, Control, TypeOK
  <1>2. /\ n \in Nat /\ n <= N - size /\ head + n <= Len(content)
        /\ n = 0 => head = Len(content)
    <2>1. N - size \in 0 .. N
      BY <1>1
    <2> QED BY <1>1, <2>1, ReadCountsBound
  <1>3. /\ buffer' = Fill(BringToFront, size, n)
        /\ content' = content
    BY DEF LoadMore
  <1>4. /\ buffer' \in [0 .. N - 1 -> Byte \cup {Junk}]
        /\ \A i \in 0 .. size - 1 : buffer'[i] = buffer[ptr + i]
        /\ \A i \in size .. size + n - 1 :
             buffer'[i] = content[head + (i - size) + 1]
    <2>1. size \in 0 .. N /\ size + n <= N
      BY <1>1, <1>2
    <2>2. /\ BringToFront \in [0 .. N - 1 -> Byte \cup {Junk}]
          /\ \A i \in 0 .. size - 1 : BringToFront[i] = buffer[ptr + i]
      BY <1>1, BringToFrontView
    <2>3. /\ buffer' \in [0 .. N - 1 -> Byte \cup {Junk}]
          /\ \A i \in 0 .. size - 1 : buffer'[i] = BringToFront[i]
          /\ \A i \in size .. size + n - 1 :
               buffer'[i] = content[head + (i - size) + 1]
      BY <1>1, <1>2, <1>3, <2>1, <2>2, FillBuffer
    <2> QED BY <2>2, <2>3
  <1> DEFINE len == size + n
             offset == head + n
  <1>5. Mirrors(buffer', 0, len, offset)
    <2>1. size <= head /\ \A i \in 0 .. size - 1 :
             buffer[ptr + i] = content[head - size + i + 1]
      BY DEF IInv, ViewIsFileSegment
    <2>2. ASSUME NEW i \in 0 .. len - 1
          PROVE  buffer'[0 + i] = content[offset - len + i + 1]
      <3>1. CASE i \in 0 .. size - 1
        <4>1. offset - len + i + 1 = head - size + i + 1 /\ 0 + i = i
          BY <1>1, <1>2
        <4> QED BY <1>4, <2>1, <3>1, <4>1
      <3>2. CASE i \in size .. size + n - 1
        <4>1. offset - len + i + 1 = head + (i - size) + 1 /\ 0 + i = i
          BY <1>1, <1>2
        <4> QED BY <1>4, <3>2, <4>1
      <3> QED BY <1>1, <1>2, <2>2, <3>1, <3>2
    <2>3. len <= offset /\ 0 + len <= N
      BY <1>1, <1>2, <2>1
    <2> HIDE DEF len, offset
    <2> QED BY <2>2, <2>3 DEF Mirrors
  <1> QED BY <1>2, <1>4, <1>5

\* Moving the view to the front and reading behind it keeps the segment.
LEMMA LoadOK == IInv /\ Load => IInv'
  <1> SUFFICES ASSUME IInv, NEW n \in ReadCounts(N - size), LoadMore(n)
               PROVE  IInv'
    BY DEF Load
  <1>1. /\ TypeOK /\ ~skip_mode /\ size < N /\ N \in Nat
        /\ size \in Nat /\ head \in Nat /\ pc = "load"
    BY SlrAssumption DEF SlrAssumption, IInv, LoadMore, Control, TypeOK
  <1>2. /\ n \in Nat /\ n <= N - size /\ head + n <= Len(content)
        /\ n = 0 => head = Len(content)
    BY LoadMoreMirrors
  <1>3. /\ head' = head + n
        /\ content' = content
    BY DEF LoadMore
  <1>4. buffer' \in [0 .. N - 1 -> Byte \cup {Junk}]
    BY LoadMoreMirrors
  <1>5. Mirrors(buffer', 0, size + n, head')
    BY <1>3, LoadMoreMirrors
  <1>6. head' \in 0 .. Len(content)
    BY <1>1, <1>2, <1>3
  <1>7. CASE n = 0 /\ ptr' = 0 /\ pc' = "idle" /\ UNCHANGED <<size, skip_mode>>
    <2>1. TypeOK'
      BY <1>1, <1>3, <1>4, <1>6, <1>7 DEF TypeOK
    <2>2. ViewIsFileSegment'
      BY <1>1, <1>2, <1>3, <1>5, <1>7 DEF Mirrors, ViewIsFileSegment
    <2>3. AtLineStart' /\ Control'
      BY <1>1, <1>2, <1>3, <1>7 DEF IInv, AtLineStart, Control
    <2> QED BY <2>1, <2>2, <2>3 DEF IInv
  <1>8. CASE TakeLine(buffer', 0, size + n)
    <2>1. TypeOK'
      BY <1>1, <1>2, <1>3, <1>4, <1>6, <1>8 DEF TakeLine, Return, TypeOK
    <2>2. size + n \in 0 .. N
      BY <1>1, <1>2
    <2> QED BY <1>1, <1>3, <1>5, <1>8, <2>1, <2>2, TakeLineKeeps DEF IInv
  <1>9. CASE TakeTruncated(buffer', 0, size + n)
    <2>1. TypeOK'
      BY <1>1, <1>2, <1>3, <1>4, <1>6, <1>9 DEF TakeTruncated, Return, TypeOK
    <2>2. size + n \in 0 .. N
      BY <1>1, <1>2
    <2> QED BY <1>1, <1>3, <1>5, <1>9, <2>1, <2>2, TakeTruncatedKeeps DEF IInv
  <1> QED BY <1>7, <1>8, <1>9 DEF LoadMore, Return

\* Dropping a buffer of a truncated line ends at a line's start, or goes on.
LEMMA SkipOK == IInv /\ Skip => IInv'
  <1> SUFFICES ASSUME IInv, NEW n \in ReadCounts(N), SkipRead(n)
               PROVE  IInv'
    BY DEF Skip
  <1>1. /\ TypeOK /\ skip_mode /\ N \in Nat \ {0} /\ head \in Nat
        /\ pc = "skip"
    BY SlrAssumption DEF SlrAssumption, IInv, SkipRead, Control, TypeOK
  <1>2. /\ n \in Nat /\ n <= N /\ head + n <= Len(content)
        /\ n = 0 => head = Len(content)
    <2>1. N \in 0 .. N
      BY <1>1
    <2> QED BY <1>1, <2>1, ReadCountsBound
  <1>3. /\ buffer' = Fill(buffer, 0, n)
        /\ head' = head + n
        /\ content' = content
    BY DEF SkipRead
  <1>4. /\ buffer' \in [0 .. N - 1 -> Byte \cup {Junk}]
        /\ \A i \in 0 .. n - 1 : buffer'[i] = content[head + i + 1]
    <2>1. 0 \in 0 .. N /\ 0 + n <= N
      BY <1>1, <1>2
    <2>2. buffer \in [0 .. N - 1 -> Byte \cup {Junk}]
      BY <1>1 DEF TypeOK
    <2>3. /\ buffer' \in [0 .. N - 1 -> Byte \cup {Junk}]
          /\ \A i \in 0 .. 0 + n - 1 : buffer'[i] = content[head + (i - 0) + 1]
      BY <1>1, <1>2, <1>3, <2>1, <2>2, FillBuffer
    <2> QED BY <1>1, <1>2, <2>3
  <1>5. head' \in 0 .. Len(content)
    BY <1>1, <1>2, <1>3
  <1>6. CASE n = 0 /\ ptr' = 0 /\ size' = 0 /\ pc' = "scan" /\ skip_mode' = FALSE
    <2>1. TypeOK'
      BY <1>1, <1>3, <1>4, <1>5, <1>6 DEF TypeOK
    <2> QED BY <1>1, <1>2, <1>3, <1>6, <2>1
            DEF IInv, ViewIsFileSegment, AtLineStart, Control
  <1>7. ASSUME NEW eol \in 0 .. n - 1, IsEol(buffer', 0, n, eol),
               ptr' = eol + 1, size' = n - (eol + 1),
               pc' = "scan", skip_mode' = FALSE
        PROVE  IInv'
    <2>1. TypeOK'
      <3>1. ptr' \in 0 .. N /\ size' \in 0 .. N /\ ptr' + size' <= N
        BY <1>1, <1>2, <1>7
      <3> QED BY <1>1, <1>3, <1>4, <1>5, <1>7, <3>1 DEF TypeOK
    <2>2. head' - size' = head + eol + 1
      BY <1>1, <1>2, <1>3, <1>7
    <2>3. ViewIsFileSegment'
      <3>1. size' <= head'
        BY <1>1, <1>2, <1>3, <1>7
      <3>2. ASSUME NEW i \in 0 .. size' - 1
            PROVE  buffer'[ptr' + i] = content'[head' - size' + i + 1]
        <4>1. /\ ptr' + i \in 0 .. n - 1
              /\ head + (ptr' + i) + 1 = head' - size' + i + 1
          BY <1>1, <1>2, <1>7, <2>2, <3>2
        <4> QED BY <1>3, <1>4, <4>1
      <3> QED BY <3>1, <3>2 DEF ViewIsFileSegment
    <2>4. AtLineStart'
      <3>1. buffer'[eol] = NL
        BY <1>2, <1>7 DEF IsEol
      <3>2. content[head + eol + 1] = NL
        BY <1>4, <1>7, <3>1
      <3> QED BY <1>3, <2>2, <3>2 DEF AtLineStart
    <2>5. Control'
      <3>1. size' < N
        BY <1>1, <1>2, <1>7
      <3> QED BY <1>7, <3>1 DEF Control
    <2> QED BY <2>1, <2>3, <2>4, <2>5 DEF IInv
  <1>8. CASE n > 0 /\ ptr' = 0 /\ size' = n /\ UNCHANGED <<pc, skip_mode>>
    <2>1. TypeOK'
      BY <1>1, <1>2, <1>3, <1>4, <1>5, <1>8 DEF TypeOK
    <2>2. ViewIsFileSegment'
      <3>1. head' - size' = head /\ size' <= head'
        BY <1>1, <1>2, <1>3, <1>8
      <3>2. \A i \in 0 .. n - 1 : ptr' + i = i
        BY <1>8
      <3> QED BY <1>3, <1>4, <1>8, <3>1, <3>2 DEF ViewIsFileSegment
    <2>3. AtLineStart' /\ Control'
      BY <1>1, <1>8 DEF AtLineStart, Control
    <2> QED BY <2>1, <2>2, <2>3 DEF IInv
  <1> QED BY <1>6, <1>7, <1>8 DEF SkipRead

-------------------------------------------------------------------------------
\* IInv holds in every state the reader reaches.
LEMMA Invariance == Spec => []IInv
  <1>1. IInv /\ [Next]_vars => IInv'
    <2> SUFFICES ASSUME IInv, [Next]_vars PROVE IInv'
      OBVIOUS
    <2>1. CASE UNCHANGED vars
      BY <2>1 DEF IInv, vars, TypeOK, ViewIsFileSegment, AtLineStart, Control
    <2> QED BY <2>1, CallOK, SkipOK, ScanOK, LoadOK, ReadFailsOK DEF Next, Reader
  <1> QED BY InitOK, <1>1, PTL DEF Spec

\* The reader never leaves its buffer, for any buffer size and any file.
THEOREM TypeCorrect == Spec => []TypeOK
  BY Invariance, PTL DEF IInv

\* The bytes NextLine hands out are the bytes of the file, in its order.
THEOREM ViewCorrect == Spec => []ViewIsFileSegment
  BY Invariance, PTL DEF IInv

\* Every scan starts at the start of a line: skipping never loses the place.
THEOREM LineStartCorrect == Spec => []AtLineStart
  BY Invariance, PTL DEF IInv

\* A line is declared truncated only after an attempt to read its rest.
THEOREM RoomCorrect == Spec => []RoomToLoad
  <1>1. IInv => RoomToLoad
    BY DEF IInv, Control, RoomToLoad
  <1> QED BY <1>1, Invariance, PTL

-------------------------------------------------------------------------------
(***************************************************************************)
(* StackLineReader implements LineReader, for every buffer size, every     *)
(* file and every way in which read(2) may split it: each step is a step   *)
(* of LineReader or leaves its variables alone.                            *)
(***************************************************************************)
IsText == \A i \in DOMAIN content : content[i] # NUL

\* A file without a newline from an offset on, or a first newline there.
FirstEol(first, eol) ==
  /\ eol \in first .. Len(content) - 1
  /\ content[eol + 1] = NL
  /\ \A i \in first .. eol - 1 : content[i + 1] # NL

NoEol(first, last) == \A i \in first .. last - 1 : content[i + 1] # NL

\* A set of naturals that is not empty has a least element.
LEMMA LeastOf ==
  ASSUME NEW S \in SUBSET Nat, S # {}
  PROVE  \E m \in S : \A k \in S : m <= k
  <1> DEFINE R == {ss \in Nat \X Nat : ss[1] < ss[2]}
  <1>1. IsWellFoundedOn(R, Nat)
    BY NatLessThanWellFounded DEF OpToRel
  <1>2. PICK m \in S : \A k \in S : <<k, m>> \notin R
    <2> HIDE DEF R
    <2> QED BY <1>1, WFMin
  <1>3. \A k \in S : m \in Nat /\ k \in Nat /\ ~(k < m)
    BY <1>2
  <1> QED BY <1>3

\* Looking for a newline from an offset on, one finds a first one or none.
LEMMA EolOrNone ==
  ASSUME TypeOK, NEW first \in Nat
  PROVE  NoEol(first, Len(content)) \/ \E eol \in Nat : FirstEol(first, eol)
  <1> DEFINE S == {i \in first .. Len(content) - 1 : content[i + 1] = NL}
  <1>1. Len(content) \in Nat
    BY DEF TypeOK
  <1>2. CASE S = {}
    BY <1>2 DEF NoEol
  <1>3. CASE S # {}
    <2>1. S \in SUBSET Nat
      BY <1>1
    <2>2. PICK eol \in S : \A i \in S : eol <= i
      <3> HIDE DEF S
      <3> QED BY <1>3, <2>1, LeastOf
    <2>3. \A i \in first .. eol - 1 : i \in first .. Len(content) - 1 /\ ~(eol <= i)
      BY <1>1, <2>2
    <2> QED BY <1>1, <2>2, <2>3 DEF FirstEol
  <1> QED BY <1>2, <1>3

\* NextLineStart is behind the first newline, or the end of the file.
LEMMA NextLineStartIs ==
  ASSUME TypeOK, NEW first \in Nat
  PROVE  /\ \A eol \in Nat : FirstEol(first, eol) => NextLineStart(first) = eol + 1
         /\ NoEol(first, Len(content)) => NextLineStart(first) = Len(content)
  <1> DEFINE S == {i \in first .. Len(content) - 1 : content[i + 1] = NL}
             least == CHOOSE i \in S : \A j \in S : i <= j
  <1>1. NextLineStart(first) = IF S = {} THEN Len(content) ELSE 1 + least
    BY DEF NextLineStart
  <1>2. Len(content) \in Nat
    BY DEF TypeOK
  <1>3. ASSUME NEW eol \in Nat, FirstEol(first, eol)
        PROVE  NextLineStart(first) = eol + 1
    <2>1. eol \in S /\ \A j \in S : eol <= j /\ j \in Nat
      BY <1>2, <1>3 DEF FirstEol
    <2>2. \A i \in S : (\A j \in S : i <= j) => i = eol
      BY <2>1
    <2>3. least = eol
      <3> HIDE DEF S
      <3> QED BY <2>1, <2>2
    <2>4. S # {}
      BY <2>1
    <2> HIDE DEF S, least
    <2> QED BY <1>1, <2>3, <2>4
  <1>4. ASSUME NoEol(first, Len(content))
        PROVE  NextLineStart(first) = Len(content)
    <2>1. S = {}
      BY <1>4 DEF NoEol
    <2> HIDE DEF S, least
    <2> QED BY <1>1, <2>1
  <1> QED BY <1>3, <1>4

-------------------------------------------------------------------------------
\* The first len bytes of a mirrored buffer are bytes of the file.
LEMMA ViewIsBytes ==
  ASSUME TypeOK, NEW mem, NEW start \in Nat, NEW len \in Nat,
         NEW offset \in 0 .. Len(content), Mirrors(mem, start, len, offset),
         NEW k \in 0 .. len
  PROVE  ViewOf(mem, start, k) = SubSeq(content, offset - len + 1, offset - len + k)
  <1> DEFINE first == offset - len
  <1>1. first \in Nat /\ first + k <= Len(content) /\ Len(content) \in Nat
    BY DEF Mirrors, TypeOK
  <1>2. \A i \in 1 .. k : mem[start + i - 1] = content[first + i]
    <2> SUFFICES ASSUME NEW i \in 1 .. k PROVE mem[start + i - 1] = content[first + i]
      OBVIOUS
    <2>1. i - 1 \in 0 .. len - 1 /\ start + (i - 1) = start + i - 1
          /\ first + (i - 1) + 1 = first + i
      BY <1>1
    <2>2. mem[start + (i - 1)] = content[offset - len + (i - 1) + 1]
      BY <2>1 DEF Mirrors
    <2> QED BY <2>1, <2>2
  <1>3. SubSeq(content, first + 1, first + k) = [i \in 1 .. k |-> content[first + i]]
    <2>1. SubSeq(content, first + 1, first + k)
            = [i \in 1 .. (1 + (first + k) - (first + 1)) |-> content[i + (first + 1) - 1]]
      OBVIOUS
    <2>2. 1 + (first + k) - (first + 1) = k
          /\ \A i \in 1 .. k : i + (first + 1) - 1 = first + i
      BY <1>1
    <2> HIDE DEF first
    <2> QED BY <2>1, <2>2
  <1> HIDE DEF first
  <1>4. ViewOf(mem, start, k) = [i \in 1 .. k |-> content[first + i]]
    BY <1>2 DEF ViewOf
  <1> QED BY <1>3, <1>4 DEF first

\* In a text file the search of the view is a search of the file.
LEMMA SearchIsExact ==
  ASSUME TypeOK, IsText, NEW mem, NEW start \in Nat, NEW len \in Nat,
         NEW offset \in 0 .. Len(content), Mirrors(mem, start, len, offset)
  PROVE  /\ \A eol \in 0 .. len - 1 :
              IsEol(mem, start, len, eol) => FirstEol(offset - len, offset - len + eol)
         /\ ~HasEol(mem, start, len) => NoEol(offset - len, offset)
  <1> DEFINE first == offset - len
  <1>1. first \in Nat /\ offset = first + len /\ Len(content) \in Nat
        /\ offset <= Len(content)
    BY DEF Mirrors, TypeOK
  <1>2. \A i \in 0 .. len - 1 : mem[start + i] = content[first + i + 1]
    BY DEF Mirrors
  <1>3. \A i \in 0 .. len - 1 : content[first + i + 1] # NUL
    <2> HIDE DEF first
    <2>1. \A i \in 0 .. len - 1 : first + i + 1 \in 1 .. Len(content)
      BY <1>1
    <2>2. DOMAIN content = 1 .. Len(content)
      BY DEF TypeOK
    <2> QED BY <2>1, <2>2 DEF IsText
  <1> HIDE DEF first
  <1>4. ASSUME NEW eol \in 0 .. len - 1, IsEol(mem, start, len, eol)
        PROVE  FirstEol(first, first + eol)
    <2>1. first + eol \in first .. Len(content) - 1
      BY <1>1
    <2>2. content[first + eol + 1] = NL
      BY <1>2, <1>4 DEF IsEol
    <2>3. ASSUME NEW i \in first .. first + eol - 1 PROVE content[i + 1] # NL
      <3>1. i - first \in 0 .. eol - 1 /\ i - first \in 0 .. len - 1
            /\ first + (i - first) + 1 = i + 1
        BY <1>1
      <3>2. mem[start + (i - first)] # NL
        BY <1>4, <3>1 DEF IsEol
      <3> QED BY <1>2, <3>1, <3>2
    <2> DEFINE last == first + eol
    <2>4. /\ last \in first .. Len(content) - 1
          /\ content[last + 1] = NL
          /\ \A i \in first .. last - 1 : content[i + 1] # NL
      BY <1>1, <2>1, <2>2, <2>3
    <2> HIDE DEF last
    <2>5. FirstEol(first, last)
      BY <2>4 DEF FirstEol
    <2> QED BY <2>5 DEF last
  <1>5. ASSUME ~HasEol(mem, start, len) PROVE NoEol(first, offset)
    <2> DEFINE S == {i \in 0 .. len - 1 : mem[start + i] = NL}
    <2>1. CASE S = {}
      <3>1. ASSUME NEW i \in first .. offset - 1 PROVE content[i + 1] # NL
        <4>1. i - first \in 0 .. len - 1 /\ first + (i - first) + 1 = i + 1
          BY <1>1
        <4>2. mem[start + (i - first)] # NL
          BY <2>1, <4>1
        <4> QED BY <1>2, <4>1, <4>2
      <3> QED BY <3>1 DEF NoEol
    <2>2. CASE S # {}
      <3>1. S \in SUBSET Nat
        OBVIOUS
      <3>2. PICK eol \in S : \A i \in S : eol <= i
        <4> HIDE DEF S
        <4> QED BY <2>2, <3>1, LeastOf
      <3>3. ASSUME NEW i \in 0 .. eol - 1 PROVE mem[start + i] \notin {NL, NUL}
        <4>1. i \in 0 .. len - 1 /\ ~(eol <= i)
          BY <3>2
        <4> QED BY <1>2, <1>3, <3>2, <4>1
      <3>4. IsEol(mem, start, len, eol)
        BY <3>2, <3>3 DEF IsEol
      <3> QED BY <1>5, <3>2, <3>4 DEF HasEol
    <2> QED BY <2>1, <2>2
  <1> QED BY <1>4, <1>5 DEF first

\* Where the next line starts does not depend on where in a line one is.
LEMMA NextLineStartSame ==
  ASSUME TypeOK, NEW first \in Nat, NEW last \in Nat, first <= last,
         last <= Len(content), NoEol(first, last)
  PROVE  NextLineStart(first) = NextLineStart(last)
  <1>1. Len(content) \in Nat
    BY DEF TypeOK
  <1>2. CASE NoEol(last, Len(content))
    <2>1. NoEol(first, Len(content))
      BY <1>1, <1>2 DEF NoEol
    <2> QED BY <1>2, <2>1, NextLineStartIs
  <1>3. ASSUME NEW eol \in Nat, FirstEol(last, eol)
        PROVE  NextLineStart(first) = NextLineStart(last)
    <2>1. FirstEol(first, eol)
      BY <1>1, <1>3 DEF NoEol, FirstEol
    <2> QED BY <1>3, <2>1, NextLineStartIs
  <1> QED BY <1>2, <1>3, EolOrNone

\* It is a matter of the file alone.
LEMMA NextLineStartPrime ==
  ASSUME content' = content PROVE NextLineStart(head)' = NextLineStart(head')
  BY DEF NextLineStart

-------------------------------------------------------------------------------
\* More is loaded only when the view holds no newline.
SearchedInv == pc = "load" => ~HasEol(buffer, ptr, size)

RInv == IInv /\ SearchedInv

\* SearchedInv holds as nothing happens between the search and the read.
LEMMA RInvariance == Spec => []RInv
  <1>1. Init => SearchedInv
    BY DEF Init, SearchedInv
  <1>2. IInv /\ SearchedInv /\ [Next]_vars => SearchedInv'
    BY DEF SearchedInv, Next, Reader, Call, ReadFails, Skip, SkipRead, Scan, Load,
           LoadMore, TakeLine, TakeTruncated, Return, vars, HasEol, IsEol
  <1> QED BY <1>1, <1>2, Invariance, PTL DEF Spec, RInv

\* Handing out a whole line is a step of LineReader.
LEMMA TakeLineDelivers ==
  ASSUME TypeOK, IsText, content' = content, ~skip_mode,
         NEW offset \in 0 .. Len(content), head' = offset,
         NEW mem, NEW start \in Nat, NEW len \in 0 .. N,
         Mirrors(mem, start, len, offset), offset - len = head - size,
         TakeLine(mem, start, len)
  PROVE  Abs!Deliver
  <1> DEFINE first == offset - len
  <1>1. /\ N \in Nat /\ len \in Nat /\ Len(content) \in Nat /\ first \in Nat
        /\ offset = first + len
    <2>1. N \in Nat /\ Len(content) \in Nat
      BY SlrAssumption DEF SlrAssumption, TypeOK
    <2>2. len <= offset
      BY DEF Mirrors
    <2> QED BY <2>1, <2>2
  <1>2. PICK eol \in 0 .. len - 1 :
          /\ IsEol(mem, start, len, eol)
          /\ result' = LineResult(FALSE, TRUE, ViewOf(mem, start, eol))
          /\ size' = len - (eol + 1)
          /\ skip_mode' = skip_mode
    BY DEF TakeLine, Return
  <1>3. FirstEol(first, first + eol)
    BY <1>1, <1>2, SearchIsExact
  <1>4. ViewOf(mem, start, eol) = SubSeq(content, first + 1, first + eol)
    <2>1. eol \in 0 .. len
      BY <1>1, <1>2
    <2> QED BY <1>1, <2>1, ViewIsBytes, ZenonT(30)
  <1>5. cursorBar = first
    BY DEF cursorBar
  <1>6. cursorBar' = first + eol + 1
    <2>1. cursorBar' = head' - size'
      BY <1>2 DEF cursorBar
    <2> QED BY <1>1, <1>2, <2>1
  <1> HIDE DEF first
  <1> DEFINE at == first + eol
  <1>7. /\ at \in first .. Len(content) - 1 /\ at - first < N /\ cursorBar' = at + 1
        /\ FirstEol(first, at) /\ ViewOf(mem, start, eol) = SubSeq(content, first + 1, at)
    <2>1. at \in first .. Len(content) - 1
      BY <1>3 DEF FirstEol
    <2>2. at - first < N
      BY <1>1
    <2> QED BY <1>3, <1>4, <1>6, <2>1, <2>2
  <1> HIDE DEF at
  <1>8. Abs!EndsLine(at)
    BY <1>5, <1>7 DEF Abs!EndsLine, FirstEol
  <1>9. result' = Abs!LineResult(FALSE, TRUE, Abs!Bytes(cursorBar, at))
    BY <1>2, <1>5, <1>7 DEF Abs!LineResult, LineResult, Abs!Bytes
  <1> QED BY <1>5, <1>7, <1>8, <1>9 DEF Abs!Deliver

\* Handing out what fits of a line is a step of LineReader, which disposes of
\* the rest of the line at once.
LEMMA TakeTruncatedTruncates ==
  ASSUME TypeOK, IsText, content' = content, ~skip_mode,
         NEW offset \in 0 .. Len(content), head' = offset,
         NEW mem, NEW start \in Nat, NEW len \in 1 .. N,
         Mirrors(mem, start, len, offset), offset - len = head - size,
         TakeTruncated(mem, start, len),
         content \in ShortReads \/ len = N \/ head' = Len(content)
  PROVE  Abs!Truncate
  <1> DEFINE first == offset - len
             cut == offset
  <1>1. /\ N \in Nat /\ len \in Nat /\ Len(content) \in Nat /\ first \in Nat
        /\ cut = first + len /\ cut \in Nat /\ cut <= Len(content)
    <2>1. N \in Nat /\ Len(content) \in Nat
      BY SlrAssumption DEF SlrAssumption, TypeOK
    <2>2. len <= offset
      BY DEF Mirrors
    <2> QED BY <2>1, <2>2
  <1>2. NoEol(first, cut)
    BY <1>1, SearchIsExact DEF TakeTruncated
  <1>3. ViewOf(mem, start, len) = SubSeq(content, first + 1, cut)
    <2>1. len \in 0 .. len
      BY <1>1
    <2>2. ViewOf(mem, start, len) = SubSeq(content, first + 1, first + len)
      BY <1>1, <2>1, ViewIsBytes, ZenonT(30)
    <2> QED BY <1>1, <2>2
  <1>4. cursorBar = first
    BY DEF cursorBar
  <1>5. cursorBar' = NextLineStart(cut)
    BY NextLineStartPrime DEF cursorBar, TakeTruncated
  <1> HIDE DEF first, cut
  <1>6. Abs!Cut(cut)
    <2>1. cut - first \in 1 .. N /\ cut - first = len
      BY <1>1
    <2>2. content \in ShortReads \/ cut - first = N \/ cut = Len(content)
      BY <2>1 DEF cut
    <2>3. result' = Abs!LineResult(FALSE, FALSE, Abs!Bytes(first, cut))
      BY <1>3 DEF TakeTruncated, Return, LineResult, Abs!LineResult, Abs!Bytes
    <2> QED BY <1>4, <2>1, <2>2, <2>3 DEF Abs!Cut
  <1>7. cut \in first + 1 .. Len(content)
    BY <1>1
  <1>8. ASSUME NEW eol \in Nat, FirstEol(cut, eol)
        PROVE  Abs!Truncate
    <2>1. cursorBar' = eol + 1
      BY <1>1, <1>5, <1>8, NextLineStartIs
    <2>2. Abs!EndsLine(eol) /\ eol \in cut .. Len(content) - 1
      BY <1>1, <1>2, <1>4, <1>8 DEF FirstEol, NoEol, Abs!EndsLine
    <2> QED BY <1>4, <1>6, <1>7, <2>1, <2>2 DEF Abs!Truncate
  <1>9. CASE NoEol(cut, Len(content))
    <2>1. cursorBar' = Len(content)
      BY <1>1, <1>5, <1>9, NextLineStartIs
    <2>2. Abs!Unterminated
      BY <1>1, <1>2, <1>4, <1>9 DEF NoEol, Abs!Unterminated
    <2> QED BY <1>4, <1>6, <1>7, <2>1, <2>2 DEF Abs!Truncate
  <1> QED BY <1>1, <1>8, <1>9, EolOrNone

-------------------------------------------------------------------------------
\* What LineReader sees depends on these variables.
LEMMA SeesNothing ==
  ASSUME UNCHANGED <<content, head, size, skip_mode, result>>
  PROVE  UNCHANGED Abs!vars
  BY DEF Abs!vars, cursorBar, NextLineStart

\* Dropping the rest of a truncated line is no step of LineReader: the start
\* of the next line stays the same.
LEMMA SkipStutters ==
  ASSUME IInv, IsText, Skip PROVE UNCHANGED Abs!vars
  <1>1. PICK n \in ReadCounts(N) : SkipRead(n)
    BY DEF Skip
  <1>2. /\ TypeOK /\ skip_mode /\ N \in Nat \ {0}
        /\ head \in Nat /\ Len(content) \in Nat
        /\ content' = content /\ result' = result /\ head' = head + n
    BY <1>1, SlrAssumption DEF SlrAssumption, IInv, Control, TypeOK, SkipRead
  <1>3. n \in Nat /\ n <= N /\ head + n <= Len(content) /\ (n = 0 => head = Len(content))
    <2>1. N \in 0 .. N
      BY <1>2
    <2> QED BY <1>2, <2>1, ReadCountsBound
  <1> DEFINE last == head + n
  <1>4. last \in 0 .. Len(content) /\ last \in Nat /\ last - n = head
    BY <1>2, <1>3
  <1>5. Mirrors(buffer', 0, n, last)
    <2>1. 0 \in 0 .. N /\ 0 + n <= N /\ buffer \in [0 .. N - 1 -> Byte \cup {Junk}]
      BY <1>2, <1>3 DEF TypeOK
    <2>2. \A i \in 0 .. 0 + n - 1 : buffer'[i] = content[head + (i - 0) + 1]
      BY <1>1, <1>2, <1>3, <2>1, FillBuffer, SMTT(30) DEF SkipRead
    <2>3. n <= last
      BY <1>2, <1>3
    <2>4. ASSUME NEW i \in 0 .. n - 1 PROVE buffer'[0 + i] = content[last - n + i + 1]
      <3>1. i \in 0 .. 0 + n - 1 /\ 0 + i = i /\ last - n + i + 1 = head + (i - 0) + 1
        BY <1>2, <1>3
      <3> QED BY <2>2, <3>1
    <2> HIDE DEF last
    <2> QED BY <2>1, <2>3, <2>4 DEF Mirrors
  <1> HIDE DEF last
  <1>6. cursorBar = NextLineStart(head)
    BY <1>2 DEF cursorBar
  <1>7. CASE n = 0 /\ size' = 0 /\ skip_mode' = FALSE
    <2>1. NextLineStart(head) = Len(content)
      BY <1>2, <1>3, <1>7, NextLineStartIs DEF NoEol
    <2>2. cursorBar' = Len(content)
      BY <1>2, <1>3, <1>7 DEF cursorBar
    <2> QED BY <1>2, <1>6, <2>1, <2>2 DEF Abs!vars
  <1>8. ASSUME NEW eol \in 0 .. n - 1, IsEol(buffer', 0, n, eol),
               size' = n - (eol + 1), skip_mode' = FALSE
        PROVE  UNCHANGED Abs!vars
    <2>1. FirstEol(head, head + eol)
      BY <1>2, <1>3, <1>4, <1>5, <1>8, SearchIsExact
    <2>2. NextLineStart(head) = head + eol + 1
      <3>1. head + eol \in Nat
        BY <1>2, <1>3
      <3> QED BY <1>2, <2>1, <3>1, NextLineStartIs
    <2>3. cursorBar' = head + eol + 1
      <3>1. cursorBar' = head' - size'
        BY <1>8 DEF cursorBar
      <3> QED BY <1>2, <1>3, <1>8, <3>1
    <2> QED BY <1>2, <1>6, <2>2, <2>3 DEF Abs!vars
  <1>9. CASE ~HasEol(buffer', 0, n) /\ skip_mode' = skip_mode
    <2>1. NoEol(head, last)
      BY <1>2, <1>3, <1>4, <1>5, <1>9, SearchIsExact
    <2>2. NextLineStart(head) = NextLineStart(last)
      BY <1>2, <1>3, <1>4, <2>1, NextLineStartSame
    <2>3. cursorBar' = NextLineStart(last)
      BY <1>2, <1>9, NextLineStartPrime DEF cursorBar, last
    <2> QED BY <1>2, <1>6, <2>2, <2>3 DEF Abs!vars
  <1> QED BY <1>1, <1>7, <1>8, <1>9 DEF SkipRead

\* A line that is in the view already is delivered; else nothing happens yet.
LEMMA ScanMaps ==
  ASSUME IInv, IsText, Scan PROVE Abs!Deliver \/ UNCHANGED Abs!vars
  <1>1. /\ TypeOK /\ ~skip_mode /\ size < N /\ head \in 0 .. Len(content)
        /\ ptr \in Nat /\ size \in 0 .. N
        /\ content' = content /\ head' = head
    BY DEF IInv, Control, TypeOK, Scan
  <1>2. Mirrors(buffer, ptr, size, head)
    BY DEF IInv, ViewIsFileSegment, Mirrors, TypeOK
  <1>3. CASE TakeLine(buffer, ptr, size)
    BY <1>1, <1>2, <1>3, TakeLineDelivers
  <1>4. CASE UNCHANGED <<ptr, size, skip_mode, result>>
    BY <1>1, <1>4, SeesNothing
  <1> QED BY <1>1, <1>3, <1>4 DEF Scan

\* At the end of the file the pending bytes are handed out; before it a line.
LEMMA LoadMaps ==
  ASSUME RInv, IsText, Load PROVE Abs!Next
  <1>1. PICK n \in ReadCounts(N - size) : LoadMore(n)
    BY DEF Load
  <1>2. /\ IInv /\ TypeOK /\ ~skip_mode /\ size < N /\ N \in Nat /\ size \in Nat
        /\ head \in Nat /\ Len(content) \in Nat /\ content' = content
        /\ head' = head + n /\ ~HasEol(buffer, ptr, size) /\ ptr \in Nat
    BY <1>1, SlrAssumption
       DEF SlrAssumption, RInv, SearchedInv, IInv, Control, TypeOK, LoadMore
  <1> DEFINE last == head + n
             len == size + n
  <1>3. /\ n \in Nat /\ n <= N - size /\ head + n <= Len(content)
        /\ n = 0 => head = Len(content)
        /\ Mirrors(buffer', 0, len, last)
    BY <1>1, <1>2, LoadMoreMirrors
  <1>4. /\ last \in 0 .. Len(content) /\ len \in 0 .. N /\ last - len = head - size
        /\ head' = last
    BY <1>2, <1>3
  <1>5. CASE TakeLine(buffer', 0, len)
    <2> HIDE DEF last, len
    <2>1. Abs!Deliver
      BY <1>2, <1>3, <1>4, <1>5, TakeLineDelivers
    <2> QED BY <2>1 DEF Abs!Next
  <1>6. CASE n > 0 /\ TakeTruncated(buffer', 0, len)
    <2>1. len \in 1 .. N
      BY <1>2, <1>3, <1>6
    <2>2. content \in ShortReads \/ len = N \/ last = Len(content)
      BY <1>1, <1>2, <1>3 DEF ReadCounts, NatMin
    <2>3. head' = Len(content) <=> last = Len(content)
      BY <1>4
    <2> HIDE DEF last, len
    <2>4. Abs!Truncate
      BY <1>2, <1>3, <1>4, <1>6, <2>1, <2>2, <2>3, TakeTruncatedTruncates
    <2> QED BY <2>4 DEF Abs!Next
  <1>7. CASE /\ n = 0
             /\ Return(LineResult(TRUE, TRUE, ViewOf(buffer', 0, size)))
             /\ UNCHANGED <<size, skip_mode>>
    <2> DEFINE first == head - size
    <2>1. last = head /\ len = size /\ head = Len(content) /\ head \in 0 .. Len(content)
          /\ head' = head
      BY <1>2, <1>3, <1>7
    <2>2. Mirrors(buffer, ptr, size, head)
      BY <1>2 DEF IInv, ViewIsFileSegment, Mirrors, TypeOK
    <2>3. NoEol(first, head)
      BY <1>2, <2>1, <2>2, SearchIsExact
    <2>4. cursorBar = first /\ cursorBar' = first
      BY <1>2, <1>7, <2>1 DEF cursorBar
    <2>5. ViewOf(buffer', 0, size) = SubSeq(content, first + 1, Len(content))
      <3>1. size \in 0 .. size /\ first + size = head /\ Mirrors(buffer', 0, size, head)
        BY <1>2, <1>3, <2>1
      <3>2. ViewOf(buffer', 0, size) = SubSeq(content, first + 1, first + size)
        <4>1. TypeOK /\ size \in Nat /\ head \in 0 .. Len(content)
          BY <1>2, <2>1
        <4> QED BY <3>1, <4>1, ViewIsBytes, ZenonT(30)
      <3> QED BY <2>1, <3>1, <3>2
    <2>6. Len(content) - first < N
      BY <1>2, <2>1
    <2> HIDE DEF first
    <2>7. Abs!EndOfFile
      BY <1>2, <1>7, <2>1, <2>3, <2>4, <2>5, <2>6
         DEF NoEol, Return, LineResult, Abs!EndOfFile, Abs!Unterminated,
             Abs!LineResult, Abs!Bytes
    <2> QED BY <2>7 DEF Abs!Next
  <1> QED BY <1>1, <1>5, <1>6, <1>7 DEF LoadMore

-------------------------------------------------------------------------------
\* For every buffer size, every file and every way in which read(2) returns it:
\* NextLine hands out every line of a text file once, in order, and cuts it only
\* where LineReader lets it be cut (stack_line_reader.c:99-133).
THEOREM ImplementsLineReaderCorrect == Spec => ImplementsLineReader
  <1>1. Init => Abs!Init
    BY DEF Init, Abs!Init, cursorBar
  <1>2. ASSUME RInv, [Next]_vars PROVE [Abs!Next]_(Abs!vars)
    <2>1. CASE UNCHANGED vars
      BY <2>1, SeesNothing DEF vars
    <2>2. CASE Next /\ ~IsText
      <3>1. content' = content
        BY <2>2 DEF Next, Reader, Call, ReadFails, Skip, SkipRead, Scan, Load, LoadMore
      <3>2. Abs!Unspecified
        BY <2>2, <3>1 DEF IsText, Abs!Unspecified
      <3> QED BY <3>2 DEF Abs!Next
    <2>3. CASE Next /\ IsText
      <3>1. CASE Call \/ ReadFails
        BY <3>1, SeesNothing DEF Call, ReadFails
      <3>2. CASE Skip
        BY <1>2, <2>3, <3>2, SkipStutters DEF RInv
      <3>3. CASE Scan
        BY <1>2, <2>3, <3>3, ScanMaps DEF RInv, Abs!Next
      <3>4. CASE Load
        BY <1>2, <2>3, <3>4, LoadMaps
      <3> QED BY <2>3, <3>1, <3>2, <3>3, <3>4 DEF Next, Reader
    <2> QED BY <1>2, <2>1, <2>2, <2>3
  <1> QED BY <1>1, <1>2, RInvariance, PTL DEF Spec, ImplementsLineReader, Abs!Spec
===============================================================================
