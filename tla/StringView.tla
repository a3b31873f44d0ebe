------------------------------- MODULE StringView -------------------------------
(***************************************************************************)
(* src/src/string_view.c.  A view is a sequence of characters; a loop over *)
(* a view is a function of the number of characters already passed.        *)
(***************************************************************************)
EXTENDS Integers, Sequences, SequencesExt

CONSTANTS
  NUL,      \* '\0'
  Spaces,   \* The characters for which isspace() holds.
  INT_MAX   \* The largest int; there are as many negative numbers.

ASSUME IntAssumption == INT_MAX \in Nat
ASSUME CharAssumption == NUL \notin Spaces /\ NUL # ":" /\ NUL # " "

kEmptyStringView == <<>>

PopFront(view, count) ==
  IF count > Len(view) THEN kEmptyStringView
  ELSE SubSeq(view, count + 1, Len(view))

PopBack(view, count) ==
  IF count > Len(view) THEN kEmptyStringView
  ELSE SubSeq(view, 1, Len(view) - count)

KeepFront(view, count) ==
  IF count <= Len(view) THEN SubSeq(view, 1, count) ELSE view

StartsWith(a, b) == b # <<>> /\ IsPrefix(b, a)

\* CpuFeatures_memchr gives up at the first NUL.
IndexOfChar(view, c) ==
  LET stop == SelectInSeq(view, LAMBDA x : x \in {c, NUL})
  IN  IF stop > 0 /\ view[stop] = c THEN stop - 1 ELSE -1

\* Jump to the next place where the first character fits, compare, go on one
\* character later.
IndexOf(view, sub_view) ==
  LET from[s \in Nat] ==
        LET remainder == PopFront(view, s)
            found     == IndexOfChar(remainder, sub_view[1])
        IN  IF Len(remainder) < Len(sub_view) \/ found < 0 THEN -1
            ELSE IF StartsWith(PopFront(remainder, found), sub_view) THEN s + found
            ELSE from[s + found + 1]
  IN  IF sub_view = <<>> THEN -1 ELSE from[0]

\* Mutant: only the front is trimmed.
TrimFrontOnly(view) ==
  LET first == SelectInSeq(view, LAMBDA x : x \notin Spaces)
  IN  IF first = 0 THEN <<>> ELSE SubSeq(view, first, Len(view))

\* Both loops of CpuFeatures_StringView_TrimWhitespace.
TrimWhitespace(view) ==
  LET first == SelectInSeq(view, LAMBDA x : x \notin Spaces)
      last  == SelectLastInSeq(view, LAMBDA x : x \notin Spaces)
  IN  IF first = 0 THEN <<>> ELSE SubSeq(view, first, last)

-------------------------------------------------------------------------------
HexDigits ==
  <<"0", "1", "2", "3", "4", "5", "6", "7", "8", "9",
    "a", "b", "c", "d", "e", "f">>
UpperDigits == <<"A", "B", "C", "D", "E", "F">>

HexValue(c) ==
  CASE Contains(HexDigits, c)   -> SelectInSeq(HexDigits, LAMBDA x : x = c) - 1
    [] Contains(UpperDigits, c) -> SelectInSeq(UpperDigits, LAMBDA x : x = c) + 9
    [] OTHER                    -> -1

\* Signed overflow is undefined; the compilers in use wrap around.
WrapInt(n) == ((n + INT_MAX + 1) % (2 * (INT_MAX + 1))) - INT_MAX - 1

\* The digits of the view, one after the other: parsed[k] is what k of them give.
WrappedNumber(view, base) ==
  LET parsed[k \in 0 .. Len(view)] ==
        IF k = 0 THEN 0 ELSE WrapInt(parsed[k - 1] * base + HexValue(view[k]))
  IN  parsed[Len(view)]

\* Mutant: a digit too large for the base is let through.
ParseAnyDigit(view, base) ==
  IF \E i \in DOMAIN view : HexValue(view[i]) < 0 THEN -1
  ELSE WrappedNumber(view, base)

ParsePositiveNumberWithBase(view, base) ==
  IF \E i \in DOMAIN view : HexValue(view[i]) \notin 0 .. base - 1 THEN -1
  ELSE WrappedNumber(view, base)

ParsePositiveNumber(view) ==
  IF view = <<>> THEN -1
  ELSE IF StartsWith(view, <<"0", "x">>)
       THEN ParsePositiveNumberWithBase(PopFront(view, 2), 16)
       ELSE ParsePositiveNumberWithBase(view, 10)

\* Mutant: the terminator is written after dst_size characters.
CopyStringNoRoom(src, dst) ==
  LET n == IF Len(src) > Len(dst) THEN Len(dst) ELSE Len(src)
  IN  [i \in 1 .. Len(dst) |-> IF i <= n THEN src[i]
                               ELSE IF i = n + 1 THEN NUL ELSE dst[i]]

\* What dst holds after CopyString(src, dst, dst_size), dst_size = Len(dst).
CopyString(src, dst) ==
  LET n == IF Len(src) > Len(dst) - 1 THEN Len(dst) - 1 ELSE Len(src)
  IN  [i \in 1 .. Len(dst) |-> IF i <= n THEN src[i]
                               ELSE IF i = n + 1 THEN NUL ELSE dst[i]]

-------------------------------------------------------------------------------
\* What HasWord should find (string_view.h:97), for the properties: the sequence
\* w is what stands between two separators or ends of str.
IsField(w, str, separator) ==
  \E i, j \in 0 .. Len(str) :
    /\ i <= j /\ w = SubSeq(str, i + 1, j)
    /\ i = 0 \/ str[i] = separator
    /\ j = Len(str) \/ str[j + 1] = separator
    /\ \A k \in i + 1 .. j : str[k] # separator

\* The neighbours of the len characters from offset at are separators.
Bounded(line, at, len, separator) ==
  LET before == KeepFront(line, at)
      after  == PopFront(line, at + len)
  IN  /\ before = <<>> \/ before[Len(before)] = separator
      /\ after = <<>> \/ after[1] = separator

\* Mutant: the neighbours are looked up in what remains of the line (the
\* comment in HasWord tells that this is how it used to be).
HasWordRelative(line, word, separator) ==
  LET try[s \in Nat] ==
        LET at == IndexOf(PopFront(line, s), word)
        IN  at >= 0 /\ \/ Bounded(PopFront(line, s), at, Len(word), separator)
                       \/ try[s + at + Len(word)]
  IN  try[0]

HasWord(line, word, separator) ==
  LET try[s \in Nat] ==
        LET at == IndexOf(PopFront(line, s), word)
        IN  at >= 0 /\ \/ Bounded(line, s + at, Len(word), separator)
                       \/ try[s + at + Len(word)]
  IN  try[0]

\* GetAttributeKeyValue: found, and the key and the value.
KeyValueSeparator == <<":", " ">>
GetAttributeKeyValue(line) ==
  LET at == IndexOf(line, KeyValueSeparator)
  IN  IF at < 0 THEN [found |-> FALSE]
      ELSE [found |-> TRUE,
            key   |-> TrimWhitespace(KeepFront(line, at)),
            value |-> TrimWhitespace(PopFront(line, at + Len(KeyValueSeparator)))]
===============================================================================
