------------------------------- MODULE RiscvInfo --------------------------------
(***************************************************************************)
(* GetRiscvInfo (src/src/impl_riscv_linux.c): the loop over the lines of   *)
(* /proc/cpuinfo and, inside it, the loop that looks for the extensions in *)
(* an isa string.  A character of an isa string is a fragment that is      *)
(* either part of the name of a flag or of none.                           *)
(***************************************************************************)
EXTENDS StringView, CpuinfoLines, FiniteSets

CONSTANT Files   \* What /proc/cpuinfo may hold.

\* INTROSPECTION_TABLE: the flags, in the order in which they are looked for.
kCpuInfoFlags ==
  << <<"rv32", "i">>, <<"rv64", "i">>, <<"m">>, <<"a">>, <<"f">>, <<"d">>,
     <<"q">>, <<"c">>, <<"v">>,
     <<"_z", "i", "c", "sr">>, <<"_z", "i", "f", "en", "c", "ei">> >>

Flags == 1 .. Len(kCpuInfoFlags)

\* Where the name of a flag stands in an isa line: a letter is a name of its own
\* only in front of the extensions.
Places(line, f) ==
  {s \in 0 .. Len(line.value) - Len(kCpuInfoFlags[f]) :
     /\ SubSeq(line.value, s + 1, s + Len(kCpuInfoFlags[f])) = kCpuInfoFlags[f]
     /\ Len(kCpuInfoFlags[f]) = 1 => s < line.extensions}

\* A file is a sequence of lines of text, and the empty line is none that is
\* handled.  An isa line carries what it declares, and where its extensions
\* start; it has the form that the source quotes (impl_riscv_linux.c:22-28), in
\* which names stand once and in the order of the table.
ASSUME FileAssumption ==
  /\ \A f \in Files :
       /\ f.lines \in Seq({f.lines[i] : i \in DOMAIN f.lines})
       /\ \A i \in DOMAIN f.lines : f.lines[i].key \in {"isa", "uarch"} =>
            LET value == f.lines[i].value
            IN  value \in Seq({value[j] : j \in DOMAIN value} \ {NUL})
       /\ \A i \in DOMAIN f.lines : f.lines[i].key = "isa" =>
            LET line == f.lines[i]
            IN  /\ line.extensions \in Nat
                /\ line.declared = {g \in Flags : Places(line, g) # {}}
                /\ \A g, h \in Flags :
                     \A s \in Places(line, g), t \in Places(line, h) :
                       /\ g = h => s = t
                       /\ g < h => s + Len(kCpuInfoFlags[g]) <= t
  /\ Blank.key \notin {"isa", "uarch"}

VARIABLES
  file,      \* /proc/cpuinfo
  pc,        \* "open", "read", "handle", "isa" or "done"
  pos,       \* The line the reader is at.
  result,    \* The LineResult being handled.
  rest,      \* HandleRiscVIsaLine: what is left of the isa string,
  flag,      \* and the flag to look for in it.
  features, vendor, uarch   \* The RiscvInfo being filled.

info == <<features, vendor, uarch>>
vars == <<file, pc, pos, result, rest, flag, info>>

\* kEmptyRiscvInfo, and an isa line not started.
Init ==
  /\ file \in Files
  /\ pc = "open"
  /\ pos = 1
  /\ result = NotRead
  /\ rest = <<>> /\ flag = 1
  /\ features = {} /\ vendor = <<>> /\ uarch = <<>>

\* CpuFeatures_OpenFile, which fails in a sandbox.
Open ==
  /\ pc = "open"
  /\ pc' \in {"read", "done"}
  /\ UNCHANGED <<file, pos, result, rest, flag, info>>

NextLine ==
  /\ pc = "read"
  /\ result' \in Results(file, pos, result)
  /\ pos' = result'.pos
  /\ pc' = "handle"
  /\ UNCHANGED <<file, rest, flag, info>>

\* return !result.eof
AfterLine == IF result.eof THEN "done" ELSE "read"

HandleIsa ==
  /\ pc = "handle" /\ result.line.key = "isa"
  /\ pc' = "isa"
  /\ rest' = result.line.value
  /\ flag' = 1
  /\ UNCHANGED <<file, pos, result, info>>

\* Mutant: a flag that is not there is not cleared.
IsaFlagKeepsOld ==
  /\ pc = "isa"
  /\ LET name == kCpuInfoFlags[flag]
         at   == IndexOf(rest, name)
     IN  IF at # -1
         THEN /\ features' = features \cup {flag}
              /\ rest' = PopFront(rest, at + Len(name))
         ELSE UNCHANGED <<features, rest>>
  /\ flag' = flag + 1
  /\ pc' = IF flag = Len(kCpuInfoFlags) THEN AfterLine ELSE "isa"
  /\ UNCHANGED <<file, pos, result, vendor, uarch>>

IsaFlag ==
  /\ pc = "isa"
  /\ LET name == kCpuInfoFlags[flag]
         at   == IndexOf(rest, name)
     IN  IF at # -1
         THEN /\ features' = features \cup {flag}
              /\ rest' = PopFront(rest, at + Len(name))
         ELSE features' = features \ {flag} /\ UNCHANGED rest
  /\ flag' = flag + 1
  /\ pc' = IF flag = Len(kCpuInfoFlags) THEN AfterLine ELSE "isa"
  /\ UNCHANGED <<file, pos, result, vendor, uarch>>

\* Mutant: a uarch without vendor is copied as it is, and the old vendor stays.
HandleUarchNoReturn ==
  /\ pc = "handle" /\ result.line.key = "uarch"
  /\ LET comma == IndexOfChar(result.line.value, ",")
     IN  /\ vendor' = IF comma = -1 THEN vendor
                      ELSE KeepFront(result.line.value, comma)
         /\ uarch' = PopFront(result.line.value, comma + 1)
  /\ pc' = AfterLine
  /\ UNCHANGED <<file, pos, result, rest, flag, features>>

\* A value without comma makes the handler return true, at eof as well.
HandleUarch ==
  /\ pc = "handle" /\ result.line.key = "uarch"
  /\ LET comma == IndexOfChar(result.line.value, ",")
     IN  IF comma = -1
         THEN pc' = "read" /\ UNCHANGED <<vendor, uarch>>
         ELSE /\ vendor' = KeepFront(result.line.value, comma)
              /\ uarch' = PopFront(result.line.value, comma + 1)
              /\ pc' = AfterLine
  /\ UNCHANGED <<file, pos, result, rest, flag, features>>

\* Mutant: the handler always asks for another line.
HandleOtherForever ==
  /\ pc = "handle" /\ result.line.key \notin {"isa", "uarch"}
  /\ pc' = "read"
  /\ UNCHANGED <<file, pos, result, rest, flag, info>>

HandleOther ==
  /\ pc = "handle" /\ result.line.key \notin {"isa", "uarch"}
  /\ pc' = AfterLine
  /\ UNCHANGED <<file, pos, result, rest, flag, info>>

Next == Open \/ NextLine \/ HandleIsa \/ IsaFlag \/ HandleUarch \/ HandleOther

Spec == Init /\ [][Next]_vars

\* GetRiscvInfo is a sequential function: it runs as long as it can.
FairSpec == Spec /\ WF_vars(Next)

-------------------------------------------------------------------------------
Done == pc = "done"
Opened == result # NotRead
IsaLines == LinesWith(file, {"isa"})

\* An isa line is unambiguous when no single-letter flag that it does not declare
\* occurs inside its extensions.
Unambiguous(line) ==
  \A f \in Flags \ line.declared :
    Len(kCpuInfoFlags[f]) = 1 =>
      \A i \in line.extensions + 1 .. Len(line.value) :
        line.value[i] # kCpuInfoFlags[f][1]

\* The features are those that the last isa line declares: nothing is left of
\* the lines of other harts, and consuming the string as the search goes along
\* skips no flag (impl_riscv_linux.c:61-70).
IsaExact ==
  (Done /\ Opened /\ IsaLines # {}) =>
    LET line == file.lines[LastOf(IsaLines)]
    IN  Unambiguous(line) => features = line.declared

\* Vendor and uarch are always the two halves of one line, the last that has
\* both (impl_riscv_linux.c:78-86).
UarchPair ==
  LET pairs == {i \in LinesWith(file, {"uarch"}) :
                  \E k \in DOMAIN file.lines[i].value :
                    file.lines[i].value[k] = ","}
  IN  (Done /\ Opened /\ pairs # {}) =>
        vendor \o <<",">> \o uarch = file.lines[LastOf(pairs)].value

\* GetRiscvInfo returns: eof is "Nothing more to read" (stack_line_reader.h:39).
Terminates == <>Done
===============================================================================
