--------------------------- MODULE NdkArmFlagsProofs ----------------------------
(***************************************************************************)
(* Proofs about GetArmInfo, for every /proc/cpuinfo and all hardware       *)
(* capabilities, and about the flags that android_cpuInit derives from it. *)
(* The loop over the lines keeps the flags of the last Features line that  *)
(* it has handled; the merge adds the hardware capabilities; and what      *)
(* FixErrors does to both can be read off its one step.                    *)
(***************************************************************************)
EXTENDS NdkArmFlags, StringViewProofs

\* The Features lines among the first n, and the flags of the last of them.
FeaturesLines(n) == {i \in 1 .. n : file.lines[i].key = "Features"}
FeaturesUpTo(n) ==
  IF FeaturesLines(n) = {} THEN {}
  ELSE Flags \cap file.lines[LastOf(FeaturesLines(n))].value

\* A Features line replaces the flags, any other line leaves them.
LEMMA NextLineCounts ==
  ASSUME NEW n \in Nat
  PROVE  FeaturesUpTo(n + 1) =
           IF file.lines[n + 1].key = "Features"
           THEN Flags \cap file.lines[n + 1].value ELSE FeaturesUpTo(n)
<1>1. 1 .. n + 1 = (1 .. n) \cup {n + 1}
  OBVIOUS
<1>2. CASE file.lines[n + 1].key = "Features"
  <2>1. FeaturesLines(n + 1) = FeaturesLines(n) \cup {n + 1}
    BY <1>1, <1>2 DEF FeaturesLines
  <2>2. \A j \in FeaturesLines(n + 1) : j \in Int /\ j <= n + 1
    BY DEF FeaturesLines
  <2>3. LastOf(FeaturesLines(n + 1)) = n + 1
    BY <2>1, <2>2 DEF LastOf
  <2>4. QED
    BY <1>2, <2>1, <2>3 DEF FeaturesUpTo
<1>3. CASE file.lines[n + 1].key # "Features"
  <2>1. FeaturesLines(n + 1) = FeaturesLines(n)
    BY <1>1, <1>3 DEF FeaturesLines
  <2>2. QED
    BY <1>3, <2>1 DEF FeaturesUpTo
<1>4. QED
  BY <1>2, <1>3

NumLines == Len(file.lines)

\* Line n is being handled; or, at the end of the file, the empty line is.
HandlesLine(n) ==
  /\ n \in 1 .. NumLines
  /\ result.line = file.lines[n]
  /\ features = FeaturesUpTo(n - 1)
  /\ IF result.eof THEN n = NumLines ELSE pos = n + 1
HandlesBlank ==
  result.line = Blank /\ result.eof /\ features = FeaturesUpTo(NumLines)

\* The inductive invariant of the loop over the lines.
LinesInv ==
  /\ file \in Files /\ hwcaps \in Hwcaps
  /\ pc \in {"open", "read", "handle", "hwcaps", "fix", "done"}
  /\ pos \in 1 .. NumLines + 1
  /\ pc = "open" => pos = 1 /\ result = NotRead /\ features = {}
  /\ pc = "read" => features = FeaturesUpTo(pos - 1) /\ ~result.eof
  /\ pc = "handle" => Opened /\ ((\E n \in 1 .. NumLines : HandlesLine(n)) \/ HandlesBlank)
  /\ pc = "hwcaps" => features = IF Opened THEN FeaturesUpTo(NumLines) ELSE {}
  /\ pc = "fix" => features = Reported
  /\ number \in [NumberKeys -> Int]

\* A file is a sequence.
LEMMA FileLines ==
  ASSUME file \in Files
  PROVE  /\ NumLines \in Nat /\ DOMAIN file.lines = 1 .. NumLines
         /\ Len(file.lines) = NumLines
<1>1. PICK S : file.lines \in Seq(S)
  BY FileAssumption DEF FileAssumption
<1>2. QED
  BY <1>1 DEF NumLines

\* What is read is told apart from nothing read by its position or its eof.
LEMMA ReadLine ==
  ASSUME file \in Files, pos \in 1 .. NumLines + 1, ~result.eof,
         NEW r \in Results(file, pos, result)
  PROVE  /\ r # NotRead
         /\ r.pos \in 1 .. NumLines + 1
         /\ \/ r.line = Blank /\ r.eof /\ pos = NumLines + 1
            \/ /\ pos \in 1 .. NumLines /\ r.line = file.lines[pos]
               /\ IF r.eof THEN pos = NumLines ELSE r.pos = pos + 1
  BY FileLines DEF Results, Result, NotRead

\* The flags that the hardware capabilities report are their bits.
LEMMA HwcapBits ==
  ASSUME hwcaps \in Hwcaps
  PROVE  {f \in Flags : IsHwCapsSet(Mask(f), hwcaps)} = hwcaps.hwcaps \cup hwcaps.hwcaps2
<1>1. hwcaps.hwcaps \subseteq HwcapFlags /\ hwcaps.hwcaps2 \subseteq Hwcap2Flags
  BY ArmAssumption DEF ArmAssumption
<1> HIDE DEF HwcapFlags, Hwcap2Flags
<1>2. \A f : /\ IsSet(Mask(f).hwcaps, hwcaps.hwcaps) <=> f \in hwcaps.hwcaps
             /\ IsSet(Mask(f).hwcaps2, hwcaps.hwcaps2) <=> f \in hwcaps.hwcaps2
  BY <1>1 DEF IsSet, Mask
<1>3. QED
  BY <1>1, <1>2 DEF IsHwCapsSet, Flags

\* The digits at the start of a value are some of it.
LEMMA LeadingDigitsView ==
  ASSUME NEW S, NEW v \in Seq(S)
  PROVE  LeadingDigits(v) \in Seq(S)
<1> DEFINE Ends(n) == /\ \A i \in 1 .. n : HexValue(v[i]) \in 0 .. 9
                      /\ n < Len(v) => HexValue(v[n + 1]) \notin 0 .. 9
           T == {n \in Nat : n < Len(v) /\ HexValue(v[n + 1]) \notin 0 .. 9}
<1>1. \E n \in 0 .. Len(v) : Ends(n)
  <2>1. CASE T = {}
    <3>1. ASSUME NEW i \in 1 .. Len(v) PROVE HexValue(v[i]) \in 0 .. 9
      <4>1. PICK n : n = i - 1
        OBVIOUS
      <4>2. n \in Nat /\ n < Len(v) /\ n + 1 = i
        BY <4>1
      <4>3. QED
        BY <2>1, <4>2
    <3>2. Len(v) \in 0 .. Len(v) /\ ~(Len(v) < Len(v))
      OBVIOUS
    <3>3. Ends(Len(v))
      BY <3>1, <3>2, Zenon
    <3>4. QED
      BY <3>2, <3>3, Zenon
  <2>2. CASE T # {}
    <3>1. PICK n \in T : \A m \in T : n <= m
      <4>1. T \subseteq Nat
        OBVIOUS
      <4> HIDE DEF T
      <4>2. QED
        BY <2>2, <4>1, LeastOf
    <3>2. n \in 0 .. Len(v) /\ HexValue(v[n + 1]) \notin 0 .. 9
      OBVIOUS
    <3>3. ASSUME NEW i \in 1 .. n PROVE HexValue(v[i]) \in 0 .. 9
      <4>1. PICK m : m = i - 1
        OBVIOUS
      <4>2. m \in Nat /\ m < Len(v) /\ m + 1 = i /\ ~(n <= m)
        BY <3>2, <4>1
      <4>3. m \notin T
        BY <3>1, <4>2
      <4>4. QED
        BY <4>2, <4>3
    <3>4. QED
      BY <3>2, <3>3
  <2>3. QED
    BY <2>1, <2>2
<1>2. PICK n : n = CHOOSE m \in 0 .. Len(v) : Ends(m)
  OBVIOUS
<1>3. n \in 0 .. Len(v)
  <2> HIDE DEF Ends
  <2>1. QED
    BY <1>1, <1>2
<1>4. LeadingDigits(v) = KeepFront(v, n)
  BY <1>2 DEF LeadingDigits
<1>5. QED
  BY <1>3, <1>4 DEF KeepFront

\* The number on a line is an int.
LEMMA ParsedLine ==
  ASSUME file \in Files, NEW n \in DOMAIN file.lines, file.lines[n].key \in NumberKeys
  PROVE  LET value == file.lines[n].value
         IN  /\ ParsePositiveNumber(value) \in Int
             /\ ParsePositiveNumber(LeadingDigits(value)) \in Int
<1>1. PICK value : value = file.lines[n].value
  OBVIOUS
<1>2. PICK S : value \in Seq(S)
  BY <1>1, FileAssumption DEF FileAssumption
<1>3. QED
  BY <1>1, <1>2, LeadingDigitsView, Parsed

\* Nothing is read to start with.
LEMMA InitLines == ASSUME Init PROVE LinesInv
<1>1. NumLines \in Nat
  BY FileLines DEF Init
<1>2. QED
  BY <1>1 DEF Init, LinesInv

\* Whatever the key of a line, it is one more line that is handled.
LEMMA LineHandled ==
  ASSUME LinesInv, Handle, number' \in [NumberKeys -> Int],
         features' = IF Key = "Features" THEN Flags \cap result.line.value
                     ELSE features
  PROVE  LinesInv'
<1>1. /\ file \in Files /\ hwcaps \in Hwcaps /\ pos \in 1 .. NumLines + 1 /\ Opened
      /\ UNCHANGED <<file, hwcaps, pos, result>>
      /\ pc' = IF result.eof THEN "hwcaps" ELSE "read"
  BY DEF LinesInv, Handle, machine
<1>2. NumLines \in Nat
  BY <1>1, FileLines
<1>3. (\A n : FeaturesUpTo(n)' = FeaturesUpTo(n)) /\ NumLines' = NumLines /\ Opened'
  BY <1>1 DEF FeaturesUpTo, FeaturesLines, NumLines, Opened
<1>4. features' = IF result.eof THEN FeaturesUpTo(NumLines) ELSE FeaturesUpTo(pos - 1)
  <2>1. CASE HandlesBlank
    BY <2>1, FileAssumption DEF HandlesBlank, FileAssumption, HandledKeys, Key
  <2>2. ASSUME NEW n \in 1 .. NumLines, HandlesLine(n)
        PROVE  features' = IF result.eof THEN FeaturesUpTo(NumLines)
                           ELSE FeaturesUpTo(pos - 1)
    <3>1. n - 1 \in Nat /\ (n - 1) + 1 = n
      BY <1>2
    <3>2. FeaturesUpTo(n) = IF file.lines[n].key = "Features"
                            THEN Flags \cap file.lines[n].value ELSE FeaturesUpTo(n - 1)
      BY <3>1, NextLineCounts
    <3>3. features' = FeaturesUpTo(n)
      BY <2>2, <3>2 DEF HandlesLine, Key
    <3>4. ~result.eof => pos - 1 = n
      BY <1>2, <2>2 DEF HandlesLine
    <3>5. QED
      BY <2>2, <3>3, <3>4 DEF HandlesLine
  <2>3. QED
    BY <2>1, <2>2 DEF LinesInv, Handle
<1>5. QED
  BY <1>1, <1>3, <1>4 DEF LinesInv

\* What the architecture is corrected to is a number.
LEMMA FixedInt == ASSUME number \in [NumberKeys -> Int] PROVE FixedArchitecture \in Int
<1>1. number["CPU architecture"] \in Int
  BY DEF NumberKeys
<1>2. FixedArchitecture = 6 \/ FixedArchitecture = number["CPU architecture"]
  BY Zenon DEF FixedArchitecture
<1>3. 6 \in Int
  OBVIOUS
<1>4. QED
  BY <1>1, <1>2, <1>3, Zenon

\* No step loses a line.
LEMMA StepLines == ASSUME LinesInv, [Next]_vars PROVE LinesInv'
<1>1. /\ file \in Files /\ hwcaps \in Hwcaps /\ pos \in 1 .. NumLines + 1
      /\ number \in [NumberKeys -> Int] /\ NumLines \in Nat
  BY FileLines DEF LinesInv
<1>2. file' = file /\ hwcaps' = hwcaps
  BY DEF Next, Open, NextLine, HandleFeatures, HandleNumber, HandleProcessor,
         HandleHardware, HandleOther, Handle, MergeHwcaps, FixErrors, machine, vars
<1>3. (\A n : FeaturesUpTo(n)' = FeaturesUpTo(n)) /\ NumLines' = NumLines
  BY <1>2 DEF FeaturesUpTo, FeaturesLines, NumLines
<1>4. CASE Open
  <2>1. FeaturesUpTo(0) = {}
    BY DEF FeaturesUpTo, FeaturesLines
  <2>2. /\ pos = 1 /\ result = NotRead /\ features = {}
        /\ pc' \in {"read", "hwcaps"}
        /\ UNCHANGED <<file, hwcaps, pos, result, features, number>>
    BY <1>4 DEF Open, LinesInv, machine
  <2>3. ~Opened' /\ ~result'.eof
    BY <2>2 DEF Opened, NotRead, Result
  <2>4. QED
    BY <1>1, <1>3, <2>1, <2>2, <2>3 DEF LinesInv
<1>5. CASE NextLine
  <2>1. /\ result' \in Results(file, pos, result) /\ pos' = result'.pos /\ pc' = "handle"
        /\ features = FeaturesUpTo(pos - 1) /\ ~result.eof
        /\ UNCHANGED <<file, hwcaps, features, number>>
    BY <1>5 DEF NextLine, LinesInv, machine
  <2>2. /\ Opened' /\ pos' \in 1 .. NumLines + 1
        /\ \/ result'.line = Blank /\ result'.eof /\ pos = NumLines + 1
           \/ /\ pos \in 1 .. NumLines /\ result'.line = file.lines[pos]
              /\ IF result'.eof THEN pos = NumLines ELSE pos' = pos + 1
    BY <1>1, <2>1, ReadLine DEF Opened
  <2>3. CASE result'.line = Blank /\ result'.eof /\ pos = NumLines + 1
    <3>1. features' = FeaturesUpTo(NumLines)
      BY <1>1, <2>1, <2>3, (NumLines + 1) - 1 = NumLines
    <3>2. HandlesBlank'
      BY <1>3, <2>3, <3>1 DEF HandlesBlank
    <3>3. QED
      BY <1>1, <1>3, <2>1, <2>2, <3>2 DEF LinesInv
  <2>4. CASE /\ pos \in 1 .. NumLines /\ result'.line = file.lines[pos]
             /\ IF result'.eof THEN pos = NumLines ELSE pos' = pos + 1
    <3>1. PICK n : n = pos
      OBVIOUS
    <3>2. n \in 1 .. NumLines' /\ HandlesLine(n)'
      BY <1>3, <2>1, <2>4, <3>1 DEF HandlesLine
    <3>3. QED
      BY <1>1, <1>3, <2>1, <2>2, <3>2 DEF LinesInv
  <2>5. QED
    BY <2>2, <2>3, <2>4
<1>6. CASE HandleFeatures
  BY <1>1, <1>6, LineHandled DEF HandleFeatures
<1>7. CASE HandleNumber
  <2>1. Handle /\ Key # "Features" /\ features' = features
    BY <1>7 DEF HandleNumber, NumberKeys
  <2>2. number' \in [NumberKeys -> Int]
    <3>1. Key \in NumberKeys /\ pc = "handle"
      BY <1>7 DEF HandleNumber, Handle
    <3>2. result.line # Blank
      BY <3>1, FileAssumption DEF FileAssumption, Key, HandledKeys
    <3>3. PICK n \in 1 .. NumLines : result.line = file.lines[n]
      BY <3>1, <3>2 DEF LinesInv, HandlesLine, HandlesBlank
    <3>4. n \in DOMAIN file.lines /\ file.lines[n].key \in NumberKeys
      BY <1>1, <3>1, <3>3, FileLines DEF Key
    <3>5. /\ ParsePositiveNumber(result.line.value) \in Int
          /\ ParsePositiveNumber(LeadingDigits(result.line.value)) \in Int
      BY <1>1, <3>3, <3>4, ParsedLine
    <3>6. \E x \in Int : number' = [number EXCEPT ![Key] = x]
      BY <1>7, <3>5, Zenon DEF HandleNumber
    <3>7. QED
      BY <1>1, <3>6
  <2>3. QED
    BY <2>1, <2>2, LineHandled
<1>8. CASE HandleProcessor
  BY <1>1, <1>8, LineHandled DEF HandleProcessor, ProcessorKeys
<1>9. CASE HandleHardware
  BY <1>1, <1>9, LineHandled DEF HandleHardware
<1>10. CASE HandleOther
  BY <1>1, <1>10, LineHandled DEF HandleOther, HandledKeys
<1>11. CASE MergeHwcaps
  <2>1. /\ pc' = "fix" /\ UNCHANGED <<file, hwcaps, pos, result, number>>
        /\ features' = (IF Opened THEN FeaturesUpTo(NumLines) ELSE {})
                         \cup (hwcaps.hwcaps \cup hwcaps.hwcaps2)
    BY <1>1, <1>11, HwcapBits DEF MergeHwcaps, LinesInv, machine
  <2>2. LinesWith(file, {"Features"}) = FeaturesLines(NumLines)
    BY <1>1, FileLines DEF LinesWith, FeaturesLines
  <2>3. Reported = hwcaps.hwcaps \cup hwcaps.hwcaps2
                     \cup (IF Opened THEN FeaturesUpTo(NumLines) ELSE {})
    BY <2>2 DEF Reported, FeaturesUpTo
  <2>4. Reported' = Reported
    BY <1>2, <2>1 DEF Reported, Opened
  <2>5. features' = Reported'
    BY <2>1, <2>3, <2>4
  <2>6. QED
    BY <1>1, <1>3, <2>1, <2>5 DEF LinesInv
<1>12. CASE FixErrors
  <2>1. /\ pc' = "done" /\ UNCHANGED <<file, hwcaps, pos, result>>
        /\ number' = [number EXCEPT !["CPU architecture"] = FixedArchitecture]
    BY <1>12 DEF FixErrors, machine
  <2>3. FixedArchitecture \in Int
    BY <1>1, FixedInt
  <2>4. number' \in [NumberKeys -> Int]
    BY <1>1, <2>1, <2>3
  <2>5. QED
    BY <1>1, <1>3, <2>1, <2>4 DEF LinesInv
<1>13. CASE UNCHANGED vars
  BY <1>13
     DEF vars, machine, LinesInv, NumLines, Opened, HandlesLine, HandlesBlank,
         FeaturesUpTo, FeaturesLines, Reported
<1>14. QED
  BY <1>4, <1>5, <1>6, <1>7, <1>8, <1>9, <1>10, <1>11, <1>12, <1>13 DEF Next

-------------------------------------------------------------------------------
(* What FixErrors makes of the flags that were reported.                   *)

\* It adds to them by four rules, and takes away one flag of one processor.
Fixed(S) ==
  LET kept == S \ {f \in {"neon"} : CpuId = BrokenNeonId}
  IN  Propagate(kept \cup {f \in {"idiva"} : Goldfish \/ Krait}
                     \cup {f \in {"idivt"} : Krait})

\* Only the architecture is corrected.
LEMMA FixStep ==
  ASSUME LinesInv, FixErrors
  PROVE  /\ features' = Fixed(Reported) /\ Reported' = Reported /\ CpuId' = CpuId
         /\ number'["CPU implementer"] = number["CPU implementer"]
         /\ number'["CPU architecture"] = FixedArchitecture
         /\ proc_info' = proc_info
<1>1. /\ features = Reported /\ features' = Fixed(features)
      /\ UNCHANGED <<file, hwcaps, result, proc_info>>
      /\ number' = [number EXCEPT !["CPU architecture"] = FixedArchitecture]
      /\ number \in [NumberKeys -> Int]
  BY DEF LinesInv, FixErrors, Fixed, machine
<1>2. Reported' = Reported
  BY <1>1 DEF Reported, Opened
<1>3. /\ \A k \in NumberKeys \ {"CPU architecture"} : number'[k] = number[k]
      /\ number'["CPU architecture"] = FixedArchitecture
  BY <1>1 DEF NumberKeys
<1>4. CpuId' = CpuId
  <2>1. /\ number'["CPU implementer"] = number["CPU implementer"]
        /\ number'["CPU variant"] = number["CPU variant"]
        /\ number'["CPU part"] = number["CPU part"]
        /\ number'["CPU revision"] = number["CPU revision"]
    BY <1>3 DEF NumberKeys
  <2> DEFINE Id(i, v, p, r) == <<i % 256, v % 16, p % 4096, r % 16>>
  <2>2. CpuId = Id(number["CPU implementer"], number["CPU variant"],
                   number["CPU part"], number["CPU revision"])
    BY Zenon DEF CpuId
  <2>3. CpuId' = Id(number'["CPU implementer"], number'["CPU variant"],
                    number'["CPU part"], number'["CPU revision"])
    BY Zenon DEF CpuId
  <2> HIDE DEF Id
  <2>4. QED
    BY <2>1, <2>2, <2>3, Zenon
<1>5. QED
  BY <1>1, <1>2, <1>3, <1>4 DEF NumberKeys

\* What is taken away and what is added.
LEMMA FixedFlags ==
  ASSUME NEW S
  PROVE  /\ S \ Fixed(S) = {f \in S \cap {"neon"} : CpuId = BrokenNeonId}
         /\ Fixed(S) \ S \subseteq {"idiva", "idivt", "vfpv3", "vfp"}
         /\ "idiva" \in Fixed(S) \ S => Goldfish \/ Krait
         /\ "idivt" \in Fixed(S) \ S => Krait
         /\ "vfpv3" \in Fixed(S) => "vfp" \in Fixed(S)
         /\ "neon" \in Fixed(S) => "vfpv3" \in Fixed(S)
  BY DEF Fixed, Propagate

\* After the last step of GetArmInfo nothing changes.
LEMMA DoneStays == ASSUME Done, [Next]_vars PROVE UNCHANGED vars
  BY DEF Done, Next, Open, NextLine, HandleFeatures, HandleNumber, HandleProcessor,
         HandleHardware, HandleOther, Handle, MergeHwcaps, FixErrors

\* Only FixErrors makes it done.
LEMMA DoneByFix == ASSUME ~Done, [Next]_vars, Done' PROVE FixErrors
  BY DEF Done, Next, Open, NextLine, HandleFeatures, HandleNumber, HandleProcessor,
         HandleHardware, HandleOther, Handle, MergeHwcaps, vars

-------------------------------------------------------------------------------
\* Both sources survive the merge and the corrections (FeaturesAsReported), for
\* every file and all hardware capabilities.
THEOREM FeaturesAsReportedCorrect == Spec => []FeaturesAsReported
<1>1. Init => LinesInv /\ FeaturesAsReported
  BY InitLines DEF Init, FeaturesAsReported, Done
<1>2. LinesInv /\ FeaturesAsReported /\ [Next]_vars => (LinesInv /\ FeaturesAsReported)'
  <2> SUFFICES ASSUME LinesInv, FeaturesAsReported, [Next]_vars
               PROVE  FeaturesAsReported'
    BY StepLines
  <2>1. CASE FixErrors
    <3>1. /\ features' = Fixed(Reported) /\ Reported' = Reported /\ CpuId' = CpuId
          /\ BrokenNeonId' = BrokenNeonId
      BY <2>1, FixStep DEF BrokenNeonId
    <3>2. /\ Reported \ Fixed(Reported)
               = {f \in Reported \cap {"neon"} : CpuId = BrokenNeonId}
          /\ Fixed(Reported) \ Reported \subseteq {"idiva", "idivt", "vfpv3", "vfp"}
      BY FixedFlags
    <3>3. QED
      BY <3>1, <3>2, Zenon DEF FeaturesAsReported, Invented
  <2>2. CASE Done /\ UNCHANGED vars
    <3>1. /\ Done' = Done /\ Reported' = Reported /\ CpuId' = CpuId /\ features' = features
          /\ BrokenNeonId' = BrokenNeonId
      BY <2>2 DEF vars, machine, Done, Reported, Opened, CpuId, BrokenNeonId
    <3>2. QED
      BY <3>1, Zenon DEF FeaturesAsReported, Invented
  <2>3. CASE ~Done'
    BY <2>3 DEF FeaturesAsReported
  <2>4. QED
    BY <2>1, <2>2, <2>3, DoneStays, DoneByFix
<1>3. QED
  BY <1>1, <1>2, PTL DEF Spec

\* IDIV is made up for those processors only (IdivJustified), for every file.
THEOREM IdivJustifiedCorrect == Spec => []IdivJustified
<1>1. Init => LinesInv /\ IdivJustified
  BY InitLines DEF Init, IdivJustified, Done
<1>2. LinesInv /\ IdivJustified /\ [Next]_vars => (LinesInv /\ IdivJustified)'
  <2> SUFFICES ASSUME LinesInv, IdivJustified, [Next]_vars
               PROVE  IdivJustified'
    BY StepLines
  <2>1. CASE FixErrors
    <3>1. /\ Invented' = Fixed(Reported) \ Reported
          /\ number'["CPU implementer"] = number["CPU implementer"]
          /\ number'["CPU architecture"] = FixedArchitecture
      BY <2>1, FixStep DEF Invented
    <3>2. Krait => /\ number["CPU implementer"] = 81 /\ FixedArchitecture = 7
                   /\ FixedArchitecture >= 7
      <4>1. FixedArchitecture = 7 => FixedArchitecture >= 7
        <5>1. 7 >= 7
          OBVIOUS
        <5>2. QED
          BY <5>1, Zenon
      <4>2. QED
        BY <4>1, Zenon DEF Krait
    <3>3. Goldfish => number["CPU implementer"] % 256 = 65 /\ FixedArchitecture >= 7
      <4>1. CpuId = GoldfishId => CpuId[1] = GoldfishId[1]
        BY Zenon
      <4>2. CpuId[1] = number["CPU implementer"] % 256 /\ GoldfishId[1] = 65
        BY DEF CpuId, GoldfishId
      <4>3. QED
        BY <4>1, <4>2, Zenon DEF Goldfish
    <3>4. /\ "idiva" \in Invented' => Goldfish \/ Krait
          /\ "idivt" \in Invented' => Krait
      BY <3>1, FixedFlags
    <3>5. 81 % 256 = 81
      OBVIOUS
    <3>6. QED
      BY <3>1, <3>2, <3>3, <3>4, <3>5, ZenonT(30) DEF IdivJustified
  <2>2. CASE Done /\ UNCHANGED vars
    BY <2>2 DEF vars, machine, IdivJustified, Done, Reported, Invented, Opened
  <2>3. CASE ~Done'
    BY <2>3 DEF IdivJustified
  <2>4. QED
    BY <2>1, <2>2, <2>3, DoneStays, DoneByFix
<1>3. QED
  BY <1>1, <1>2, PTL DEF Spec

\* The flags of the NDK, by the features that set them.
LEMMA AndroidFlags ==
  /\ "VFPv3" \in g_cpuFeatures <=> "vfpv3" \in features
  /\ "VFPv2" \in g_cpuFeatures <=> "vfp" \in features
  /\ "NEON" \in g_cpuFeatures <=> "neon" \in features
  /\ "neon" \in features => "VFP_D32" \in g_cpuFeatures
<1>1. \A f : /\ "VFPv3" \in AndroidFlagsOf(f) <=> f = "vfpv3"
             /\ "VFPv2" \in AndroidFlagsOf(f) <=> f = "vfp"
             /\ "NEON" \in AndroidFlagsOf(f) <=> f = "neon"
             /\ "VFP_D32" \in AndroidFlagsOf(f) <=> f = "neon"
  BY DEF AndroidFlagsOf
<1> HIDE DEF AndroidFlagsOf
<1>2. \A a : a \notin {"ARMv7", "LDREX_STREX"} =>
        (a \in g_cpuFeatures <=> \E f \in features : a \in AndroidFlagsOf(f))
  <2> SUFFICES ASSUME NEW a, a # "ARMv7", a # "LDREX_STREX"
               PROVE  a \in g_cpuFeatures <=> \E f \in features : a \in AndroidFlagsOf(f)
    BY Zenon
  <2>1. /\ a \notin {f \in {"ARMv7"} : number["CPU architecture"] >= 7}
        /\ a \notin {f \in {"LDREX_STREX"} : number["CPU architecture"] >= 6}
    BY Zenon
  <2>2. a \in UNION {AndroidFlagsOf(f) : f \in features}
          <=> \E f \in features : a \in AndroidFlagsOf(f)
    BY Zenon
  <2> DEFINE U == UNION {AndroidFlagsOf(f) : f \in features}
             V7 == {f \in {"ARMv7"} : number["CPU architecture"] >= 7}
             V6 == {f \in {"LDREX_STREX"} : number["CPU architecture"] >= 6}
  <2>3. g_cpuFeatures = (U \cup V7) \cup V6
    BY Zenon DEF g_cpuFeatures
  <2> HIDE DEF U, V7, V6
  <2>4. a \in g_cpuFeatures <=> a \in U
    BY <2>1, <2>3, Zenon DEF V7, V6
  <2>5. QED
    BY <2>2, <2>4, Zenon DEF U
<1>3. QED
  BY <1>1, <1>2

\* The implications of the NDK follow from those between the features.
LEMMA ImpliedByFeatures ==
  (/\ "vfpv3" \in features => "vfp" \in features
   /\ "neon" \in features => "vfpv3" \in features) => NeonAndVfpImplications
BY AndroidFlags DEF NeonAndVfpImplications

\* The flags of the NDK that the architecture sets.
LEMMA VersionFlags ==
  ASSUME number["CPU architecture"] \in Int
  PROVE  /\ "ARMv7" \in g_cpuFeatures <=> number["CPU architecture"] >= 7
         /\ number["CPU architecture"] >= 6 => "LDREX_STREX" \in g_cpuFeatures
<1> DEFINE U == UNION {AndroidFlagsOf(f) : f \in features}
           V7 == {f \in {"ARMv7"} : number["CPU architecture"] >= 7}
           V6 == {f \in {"LDREX_STREX"} : number["CPU architecture"] >= 6}
<1>1. g_cpuFeatures = (U \cup V7) \cup V6
  BY Zenon DEF g_cpuFeatures
<1>2. "ARMv7" \notin U
  <2>1. \A f : "ARMv7" \notin AndroidFlagsOf(f)
    BY DEF AndroidFlagsOf
  <2>2. QED
    BY <2>1, Zenon
<1>3. "ARMv7" \notin V6
  BY "ARMv7" # "LDREX_STREX", Zenon
<1>4. "ARMv7" \in V7 <=> number["CPU architecture"] >= 7
  BY Zenon
<1>5. number["CPU architecture"] >= 6 => "LDREX_STREX" \in V6
  BY Zenon
<1> HIDE DEF U, V7, V6
<1>6. QED
  BY <1>1, <1>2, <1>3, <1>4, <1>5, Zenon

\* What the kernel reports and GetArmInfo corrects keeps the implications that
\* the NDK promises (NeonAndVfpImplications), for every file.
THEOREM NeonAndVfpCorrect == Spec => []NeonAndVfpImplications
<1>1. Init => LinesInv /\ NeonAndVfpImplications
  BY InitLines DEF Init, NeonAndVfpImplications, Done
<1>2. LinesInv /\ NeonAndVfpImplications /\ [Next]_vars
        => (LinesInv /\ NeonAndVfpImplications)'
  <2> SUFFICES ASSUME LinesInv, NeonAndVfpImplications, [Next]_vars
               PROVE  NeonAndVfpImplications'
    BY StepLines
  <2>1. CASE FixErrors
    <3>1. /\ "vfpv3" \in features' => "vfp" \in features'
          /\ "neon" \in features' => "vfpv3" \in features'
      BY <2>1, FixStep, FixedFlags
    <3>2. ((/\ "vfpv3" \in features => "vfp" \in features
            /\ "neon" \in features => "vfpv3" \in features) => NeonAndVfpImplications)'
      BY ImpliedByFeatures, PTL
    <3>3. QED
      BY <3>1, <3>2
  <2>2. CASE Done /\ UNCHANGED vars
    BY <2>2 DEF vars, NeonAndVfpImplications, Done, g_cpuFeatures, AndroidFlagsOf
  <2>3. CASE ~Done'
    BY <2>3 DEF NeonAndVfpImplications
  <2>4. QED
    BY <2>1, <2>2, <2>3, DoneStays, DoneByFix
<1>3. QED
  BY <1>1, <1>2, PTL DEF Spec

\* An ARMv6 whose kernel says 7 is not taken for an ARMv7 (Armv6IsNotArmv7),
\* whatever else its file says.
THEOREM Armv6Correct == Spec => []Armv6IsNotArmv7
<1>1. Init => LinesInv /\ Armv6IsNotArmv7
  BY InitLines DEF Init, Armv6IsNotArmv7, Done
<1>2. LinesInv /\ Armv6IsNotArmv7 /\ [Next]_vars => (LinesInv /\ Armv6IsNotArmv7)'
  <2> SUFFICES ASSUME LinesInv, Armv6IsNotArmv7, [Next]_vars
               PROVE  Armv6IsNotArmv7'
    BY StepLines
  <2>1. CASE FixErrors
    <3>1. /\ number'["CPU architecture"] = FixedArchitecture
          /\ proc_info' = proc_info
      BY <2>1, FixStep
    <3>2. FixedArchitecture \in Int
      BY FixedInt, Zenon DEF LinesInv
    <3>3. proc_info.armv6 => ~(FixedArchitecture >= 7)
      <4>1. ~(6 >= 7)
        OBVIOUS
      <4>2. QED
        BY <4>1, Zenon DEF FixedArchitecture
    <3>4. FixedArchitecture > 5 => FixedArchitecture >= 6
      <4>1. \A n \in Int : n > 5 => n >= 6
        OBVIOUS
      <4>2. QED
        BY <3>2, <4>1, Zenon
    <3>5. (number["CPU architecture"] \in Int
             => /\ "ARMv7" \in g_cpuFeatures <=> number["CPU architecture"] >= 7
                /\ number["CPU architecture"] >= 6 => "LDREX_STREX" \in g_cpuFeatures)'
      <4>1. number["CPU architecture"] \in Int
             => /\ "ARMv7" \in g_cpuFeatures <=> number["CPU architecture"] >= 7
                /\ number["CPU architecture"] >= 6 => "LDREX_STREX" \in g_cpuFeatures
        BY VersionFlags
      <4>2. QED
        BY VersionFlags, PTL
    <3> HIDE DEF g_cpuFeatures
    <3>6. QED
      BY <3>1, <3>2, <3>3, <3>4, <3>5, Zenon DEF Armv6IsNotArmv7
  <2>2. CASE Done /\ UNCHANGED vars
    BY <2>2 DEF vars, machine, Armv6IsNotArmv7, Done, g_cpuFeatures
  <2>3. CASE ~Done'
    BY <2>3 DEF Armv6IsNotArmv7
  <2>4. QED
    BY <2>1, <2>2, <2>3, DoneStays, DoneByFix
<1>3. QED
  BY <1>1, <1>2, PTL DEF Spec

===============================================================================
