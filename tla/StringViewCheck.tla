---------------------------- MODULE StringViewCheck ----------------------------
(***************************************************************************)
(* The functions of StringView against what string_view.h says of them,    *)
(* and those of CpuMask against what a CPU list means, over every view up  *)
(* to some length: a behaviour takes a word to look for and an alphabet,   *)
(* and appends characters to the view one by one.  The names of its parts  *)
(* leave Init and Next to the modules that use what is proved here.        *)
(***************************************************************************)
EXTENDS StringView, CpuMask, FiniteSetsExt

CONSTANTS
  Tests,      \* Records of a word, the chars of the views and their max length.
  Separator,
  DstSize     \* The size of the buffer strings are copied to.

ASSUME ViewsAssumption ==
  /\ \A t \in Tests : t.word \in Seq({t.word[i] : i \in DOMAIN t.word})
  /\ DstSize \in Nat

VARIABLES view, test

texts == <<view, test>>

AnyTest == view = <<>> /\ test \in Tests

Extend(c) ==
  /\ Len(view) < test.max
  /\ view' = Append(view, c)
  /\ UNCHANGED test

Longer == \E c \in test.chars : Extend(c)

EveryView == AnyTest /\ [][Longer]_texts

word == test.word

-------------------------------------------------------------------------------
\* The offsets at which sub occurs in str, as the header means it.
Occurrences(str, sub) ==
  {i \in 0 .. Len(str) - Len(sub) : SubSeq(str, i + 1, i + Len(sub)) = sub}

BeforeNul(str) ==
  LET nul == SelectInSeq(str, LAMBDA c : c = NUL)
  IN  IF nul = 0 THEN str ELSE KeepFront(str, nul - 1)

\* string_view.h:97: in a text HasWord finds exactly the separated words,
\* although it goes on behind an occurrence that is not one
\* (string_view.c:155-184).
HasWordExact ==
  (Separator \notin ToSet(word) /\ NUL \notin ToSet(view)) =>
    (HasWord(view, word, Separator) <=> word # <<>> /\ IsField(word, view, Separator))

\* string_view.h:102-103: the line is the key, the first ": " and the value,
\* up to white space around the two.
KeyValueSplits ==
  LET kv == GetAttributeKeyValue(view)
      seps == Occurrences(BeforeNul(view), KeyValueSeparator)
      Trimmed(s) == s = <<>> \/ (s[1] \notin Spaces /\ Last(s) \notin Spaces)
  IN  /\ kv.found <=> seps # {}
      /\ kv.found =>
           /\ Trimmed(kv.key) /\ Trimmed(kv.value)
           /\ kv.key = TrimWhitespace(SubSeq(view, 1, Min(seps)))
           /\ kv.value = TrimWhitespace(SubSeq(view, Min(seps) + 3, Len(view)))

\* What the digits of str mean in a base, without a bound.
Number(str, base) ==
  LET value[k \in 0 .. Len(str)] ==
        IF k = 0 THEN 0 ELSE value[k - 1] * base + HexValue(str[k])
  IN  value[Len(str)]

Digits(str, base) == \A i \in DOMAIN str : HexValue(str[i]) \in 0 .. base - 1

\* A digit of the wrong base or a sign gives -1, and a number that an int can
\* hold is parsed right.  A number that no int holds is not refused, although
\* string_view.h:89-90 promises -1 on error: it gives the int that differs from
\* it by a multiple of the number of ints, which may be positive, or -1.
ParseExact ==
  LET hex    == IsPrefix(<<"0", "x">>, view)
      digits == IF hex THEN SubSeq(view, 3, Len(view)) ELSE view
      base   == IF hex THEN 16 ELSE 10
      number == Number(digits, base)
      parsed == ParsePositiveNumber(view)
  IN  IF view # <<>> /\ Digits(digits, base)
      THEN /\ number <= INT_MAX => parsed = number
           /\ parsed \in -(INT_MAX + 1) .. INT_MAX
           /\ (number - parsed) % (2 * (INT_MAX + 1)) = 0
      ELSE parsed = -1

\* What a CPU list means, by its entries between commas.
CpusOf(entry) ==
  {c \in MaskBits :
     \/ entry # <<>> /\ Digits(entry, 10) /\ c = Number(entry, 10)
     \/ \E d \in DOMAIN entry :
          LET first == SubSeq(entry, 1, d - 1)
              last  == SubSeq(entry, d + 1, Len(entry))
          IN  /\ entry[d] = "-" /\ first # <<>> /\ last # <<>>
              /\ Digits(first, 10) /\ Digits(last, 10)
              /\ Number(first, 10) <= c /\ c <= Number(last, 10)}

\* The entries between commas, from their first to their last character.
Entries(list) ==
  {e \in (1 .. Len(list)) \X (1 .. Len(list)) :
     /\ e[1] = 1 \/ list[e[1] - 1] = ","
     /\ e[2] = Len(list) \/ list[e[2] + 1] = ","
     /\ \A k \in e[1] .. e[2] : list[k] # ","}

Listed(list) == UNION {CpusOf(SubSeq(list, e[1], e[2])) : e \in Entries(list)}

\* A list as the kernel writes it, or nearly so: a text without hexadecimal
\* numbers, and with none that an int cannot count up to.
IsCpuList(list) ==
  /\ {NUL, "x"} \cap ToSet(list) = {}
  /\ \A i, j \in DOMAIN list :
       Digits(SubSeq(list, i, j), 10) => Number(SubSeq(list, i, j), 10) < INT_MAX

\* cpu-features.c:31-93: the CPUs below 32 that one of the two lists names are
\* counted once, also behind an entry that is malformed, empty or out of range.
\* A file that is missing, or whose line is not there in full, counts nothing
\* and takes nothing from the other file.
CpuCountExact ==
  ("," \in test.chars /\ IsCpuList(view) /\ IsCpuList(word)) =>
    LET present  == Listed(view)
        possible == Listed(word)
    IN  \A e, f \in Endings :
          get_cpu_count(MaskFile(view, e), MaskFile(word, f)) =
            Cardinality((IF e = "newline" THEN present ELSE {})
                          \cup (IF f = "newline" THEN possible ELSE {}))

\* CopyString stays inside dst and leaves a terminated string there: a prefix
\* of src, the whole of it when it fits with its terminator.
CopyTerminates ==
  LET dst == [i \in 1 .. DstSize |-> "?"]
      out == CopyString(view, dst)
      end == SelectInSeq(out, LAMBDA c : c = NUL)
  IN  DstSize > 0 =>
        /\ Len(out) = DstSize
        /\ end > 0
        /\ NUL \notin ToSet(view) =>
             /\ IsPrefix(SubSeq(out, 1, end - 1), view)
             /\ end - 1 = Min({Len(view), DstSize - 1})
===============================================================================
