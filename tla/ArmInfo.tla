-------------------------------- MODULE ArmInfo ---------------------------------
(***************************************************************************)
(* GetArmInfo (src/src/impl_arm_linux_or_android.c): what /proc/cpuinfo    *)
(* and the ELF hardware capabilities say of a 32-bit ARM, merged and then  *)
(* corrected for kernels known to be wrong.                                *)
(***************************************************************************)
EXTENDS StringView, CpuinfoLines, FiniteSets

CONSTANTS
  Files,    \* What /proc/cpuinfo may hold.
  Hwcaps    \* What CpuFeatures_GetHardwareCapabilities may return.

\* INTROSPECTION_TABLE: the flags with a bit in AT_HWCAP and in AT_HWCAP2.
HwcapFlags ==
  {"swp", "half", "thumb", "26bit", "fastmult", "fpa", "vfp", "edsp", "java",
   "iwmmxt", "crunch", "thumbee", "neon", "vfpv3", "vfpv3d16", "tls", "vfpv4",
   "idiva", "idivt", "vfpd32", "lpae", "evtstrm"}
Hwcap2Flags == {"aes", "pmull", "sha1", "sha2", "crc32"}
Flags == HwcapFlags \cup Hwcap2Flags

ASSUME ArmAssumption ==
  Hwcaps \subseteq [hwcaps : SUBSET HwcapFlags, hwcaps2 : SUBSET Hwcap2Flags]

NumberKeys == {"CPU implementer", "CPU architecture", "CPU variant",
               "CPU part", "CPU revision"}
ProcessorKeys == {"Processor", "model name"}
HandledKeys == NumberKeys \cup ProcessorKeys \cup {"Features", "Hardware"}

\* A file is a sequence of lines, those with numbers have text behind their key,
\* and the empty line has no key to handle.
ASSUME FileAssumption ==
  /\ \A f \in Files :
       /\ f.lines \in Seq({f.lines[i] : i \in DOMAIN f.lines})
       /\ \A i \in DOMAIN f.lines : f.lines[i].key \in NumberKeys =>
            LET value == f.lines[i].value
            IN  value \in Seq({value[j] : j \in DOMAIN value})
  /\ Blank.key \notin HandledKeys

VARIABLES
  file,      \* /proc/cpuinfo
  hwcaps,    \* The capabilities of this machine.
  pc,        \* "open", "read", "handle", "hwcaps", "fix" or "done"
  pos,       \* The line the reader is at.
  result,    \* The LineResult being handled.
  features,  \* info.features: the flags that are set
  number,    \* info.implementer, architecture, variant, part, revision
  proc_info  \* proc_cpu_info_data

machine == <<file, hwcaps>>
vars == <<machine, pc, pos, result, features, number, proc_info>>

\* kEmptyArmInfo and kEmptyProcCpuInfoData
Init ==
  /\ file \in Files /\ hwcaps \in Hwcaps
  /\ pc = "open"
  /\ pos = 1
  /\ result = NotRead
  /\ features = {}
  /\ number = [k \in NumberKeys |-> 0]
  /\ proc_info = [armv6 |-> FALSE, goldfish |-> FALSE]

\* CpuFeatures_OpenFile, which fails in a sandbox.
Open ==
  /\ pc = "open"
  /\ pc' \in {"read", "hwcaps"}
  /\ UNCHANGED <<machine, pos, result, features, number, proc_info>>

NextLine ==
  /\ pc = "read"
  /\ result' \in Results(file, pos, result)
  /\ pos' = result'.pos
  /\ pc' = "handle"
  /\ UNCHANGED <<machine, features, number, proc_info>>

-------------------------------------------------------------------------------
(* HandleArmLine, by the key of the line; all end in return !result.eof.   *)

Key == result.line.key
Handle ==
  /\ pc = "handle"
  /\ pc' = IF result.eof THEN "hwcaps" ELSE "read"
  /\ UNCHANGED <<machine, pos, result>>

\* Mutant: flags are set only, so those of an earlier line stay.
HandleFeaturesAdd ==
  /\ Handle /\ Key = "Features"
  /\ features' = features \cup (Flags \cap result.line.value)
  /\ UNCHANGED <<number, proc_info>>

\* The value of a Features line is the set of its words; every flag is set or
\* cleared.
HandleFeatures ==
  /\ Handle /\ Key = "Features"
  /\ features' = Flags \cap result.line.value
  /\ UNCHANGED <<number, proc_info>>

\* KeepFront(value, IndexOfNonDigit(value))
LeadingDigits(value) ==
  KeepFront(value, CHOOSE n \in 0 .. Len(value) :
                     /\ \A i \in 1 .. n : HexValue(value[i]) \in 0 .. 9
                     /\ n < Len(value) => HexValue(value[n + 1]) \notin 0 .. 9)

\* The architecture may be followed by letters, as in 6TEJ.
HandleNumber ==
  /\ Handle /\ Key \in NumberKeys
  /\ LET value == result.line.value
     IN  number' = [number EXCEPT ![Key] =
           ParsePositiveNumber(IF Key = "CPU architecture"
                               THEN LeadingDigits(value) ELSE value)]
  /\ UNCHANGED <<features, proc_info>>

\* The value of a processor line tells whether it holds "(v6l)".
HandleProcessor ==
  /\ Handle /\ Key \in ProcessorKeys
  /\ proc_info' = [proc_info EXCEPT !.armv6 = result.line.value]
  /\ UNCHANGED <<features, number>>

\* The value of a Hardware line tells whether it is "Goldfish".
HandleHardware ==
  /\ Handle /\ Key = "Hardware"
  /\ proc_info' = [proc_info EXCEPT !.goldfish = result.line.value]
  /\ UNCHANGED <<features, number>>

\* Any other key, or none.
HandleOther ==
  /\ Handle /\ Key \notin HandledKeys
  /\ UNCHANGED <<features, number, proc_info>>

-------------------------------------------------------------------------------
\* kHardwareCapabilities: the bits of a flag in both words.
Mask(f) == [hwcaps |-> {f} \cap HwcapFlags, hwcaps2 |-> {f} \cap Hwcap2Flags]

IsSet(mask, value) == mask # {} /\ mask \subseteq value
IsHwCapsSet(mask, caps) ==
  IsSet(mask.hwcaps, caps.hwcaps) \/ IsSet(mask.hwcaps2, caps.hwcaps2)

\* The loop of GetArmInfo that adds what the hardware capabilities report.
MergeHwcaps ==
  /\ pc = "hwcaps"
  /\ features' = features \cup {f \in Flags : IsHwCapsSet(Mask(f), hwcaps)}
  /\ pc' = "fix"
  /\ UNCHANGED <<machine, pos, result, number, proc_info>>

\* GetArmCpuId, as the tuple of its four bit fields.
CpuId == <<number["CPU implementer"] % 256, number["CPU variant"] % 16,
           number["CPU part"] % 4096, number["CPU revision"] % 16>>

GoldfishId   == <<65, 0, 3080, 0>>   \* 0x4100C080
BrokenNeonId == <<81, 1, 77, 0>>     \* 0x511004D0

\* Mutant: the ARMv6 that claims to be an ARMv7 is missed.
FixedArchitectureOffByOne ==
  IF proc_info.armv6 /\ number["CPU architecture"] > 7 THEN 6
  ELSE number["CPU architecture"]

\* The Samsung kernels that report architecture 7 for an ARMv6.
FixedArchitecture ==
  IF proc_info.armv6 /\ number["CPU architecture"] >= 7 THEN 6
  ELSE number["CPU architecture"]

\* Mutant: the architecture is looked at before it is corrected.
KraitUnfixed ==
  /\ number["CPU implementer"] = 81 /\ number["CPU architecture"] = 7
  /\ number["CPU part"] \in {77, 111}

\* The Qualcomm kernels that forget IDIV.
Krait ==
  /\ number["CPU implementer"] = 81 /\ FixedArchitecture = 7
  /\ number["CPU part"] \in {77, 111}

Goldfish ==
  CpuId = GoldfishId /\ FixedArchitecture >= 7 /\ proc_info.goldfish

\* Mutant: vfp is derived from vfpv3 before vfpv3 from neon and vfpv4.
PropagateEarly(S) ==
  S \cup {f \in {"vfp"} : "vfpv3" \in S}
    \cup {f \in {"vfpv3"} : S \cap {"vfpv4", "neon"} # {}}

\* "Propagate cpu features", in the order of the code.
Propagate(S) ==
  LET v3 == S \cup {f \in {"vfpv3"} : S \cap {"vfpv4", "neon"} # {}}
  IN  v3 \cup {f \in {"vfp"} : "vfpv3" \in v3}

FixErrors ==
  /\ pc = "fix"
  /\ number' = [number EXCEPT !["CPU architecture"] = FixedArchitecture]
  /\ LET kept == features \ {f \in {"neon"} : CpuId = BrokenNeonId}
     IN  features' = Propagate(kept \cup {f \in {"idiva"} : Goldfish \/ Krait}
                                    \cup {f \in {"idivt"} : Krait})
  /\ pc' = "done"
  /\ UNCHANGED <<machine, pos, result, proc_info>>

Next ==
  \/ Open \/ NextLine
  \/ HandleFeatures \/ HandleNumber \/ HandleProcessor \/ HandleHardware
  \/ HandleOther
  \/ MergeHwcaps \/ FixErrors

Spec == Init /\ [][Next]_vars

-------------------------------------------------------------------------------
Done == pc = "done"
Opened == result # NotRead

\* What the machine says of itself: the last Features line, if there is one and
\* /proc/cpuinfo can be read, and the hardware capabilities.
Reported ==
  LET lines == LinesWith(file, {"Features"})
  IN  hwcaps.hwcaps \cup hwcaps.hwcaps2 \cup
        IF Opened /\ lines # {} THEN Flags \cap file.lines[LastOf(lines)].value
        ELSE {}
Invented == features \ Reported

\* Both sources survive the merge and the corrections, also in a sandbox, and
\* nothing is left of the Features lines of other cores
\* (impl_arm_linux_or_android.c:88-92, 192-204).  Only NEON is taken away, from
\* the one processor whose NEON does not work and whichever source reports it
\* (https://crbug.com/341598), and only what the corrections add is new.
FeaturesAsReported ==
  Done =>
    /\ Reported \ features
         = {f \in Reported \cap {"neon"} : CpuId = BrokenNeonId}
    /\ Invented \subseteq {"idiva", "idivt", "vfpv3", "vfp"}

\* IDIV is only made up for an ARMv7 of the vendors named in the comments, where
\* the architecture is the corrected one (lines 133-163 together).
IdivJustified ==
  Done =>
    /\ "idiva" \in Invented => /\ number["CPU architecture"] >= 7
                               /\ number["CPU implementer"] % 256 \in {65, 81}
    /\ "idivt" \in Invented => /\ number["CPU architecture"] = 7
                               /\ number["CPU implementer"] = 81
===============================================================================
