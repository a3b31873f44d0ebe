------------------------------- MODULE HwcapsInfo -------------------------------
(***************************************************************************)
(* The Get...Info and Get...PlatformStrings functions of AArch64, MIPS,    *)
(* PowerPC, s390x and LoongArch (src/src/impl_*.c).  They do the same      *)
(* things in different orders: read the lines of /proc/cpuinfo, ask for    *)
(* values of the auxiliary vector, set features by the capabilities, copy  *)
(* strings.  What a function does is its plan, a sequence of those steps.  *)
(***************************************************************************)
EXTENDS AuxiliaryVector, CpuinfoLines, StringView, FeatureTables, FiniteSetsExt,
        Functions

CONSTANTS
  Calls,       \* The calls: function, architecture, machine, cpuinfo ...
  StringSize   \* The size of a string in the platform strings.

Plan(function) ==
  CASE function \in {"GetAarch64Info", "GetMipsInfo"} ->
         <<"cpuinfo", "AT_HWCAP", "AT_HWCAP2", "merge">>
    [] function \in {"GetPPCInfo", "GetS390XInfo"} ->
         <<"AT_HWCAP", "AT_HWCAP2", "merge">>
    [] function = "GetLoongArchInfo" -> <<"cpuinfo">>
    [] function = "GetPPCPlatformStrings" ->
         <<"AT_PLATFORM", "AT_BASE_PLATFORM", "cpuinfo",
           "copy_platform", "copy_base_platform">>
    [] function = "GetS390XPlatformStrings" ->
         <<"AT_PLATFORM", "cpuinfo", "copy_platform">>
    [] function = "GetAarch64Info_FreeBSD" ->
         <<"AT_HWCAP", "AT_HWCAP2", "merge", "midr">>
    [] function = "GetAarch64Info_macOS" -> <<"sysctl">>
    [] function = "GetAarch64Info_Windows" -> <<"processor_features">>

TypeOf == [AT_HWCAP |-> AT_HWCAP, AT_HWCAP2 |-> AT_HWCAP2,
           AT_PLATFORM |-> AT_PLATFORM, AT_BASE_PLATFORM |-> AT_BASE_PLATFORM]

\* The keys of the lines that are handled, for the word "platform" see below.
FeaturesKey(arch) ==
  IF arch = "mips" THEN <<"ASEs implemented">> ELSE <<"Features">>
NumberKeys(function) ==
  IF function = "GetAarch64Info"
  THEN {<<"CPU implementer">>, <<"CPU variant">>, <<"CPU part">>,
        <<"CPU revision">>}
  ELSE {<<"# processors">>}
StringKeys == {<<"platform">>, <<"model">>, <<"machine">>, <<"cpu">>}
TypeKeys == {<<"type", "platform">>, <<"type", "base_platform">>}

TypeStrings == {"GetPPCPlatformStrings", "GetS390XPlatformStrings"}

\* HandlePPCLine: the first test, for a word, hides those after it.
StringOf(key) ==
  IF HasWord(key, <<"platform">>, " ") THEN <<"platform">> ELSE key

(***************************************************************************)
(* The calls: texts have no NUL in them, the kernel's pointers point at    *)
(* strings, and an empty line has no key that anyone looks for.            *)
(***************************************************************************)
IsText(s) == s \in Seq(ToSet(s)) /\ NUL \notin ToSet(s)

ASSUME CallAssumption ==
  /\ StringSize \in Nat \ {0}
  /\ \A c \in Calls :
       /\ c.arch \in DOMAIN Hwcap
       /\ c.function \in TypeStrings \cup
            {"GetAarch64Info", "GetMipsInfo", "GetPPCInfo", "GetS390XInfo",
             "GetLoongArchInfo", "GetAarch64Info_FreeBSD", "GetAarch64Info_macOS",
             "GetAarch64Info_Windows"}
       /\ c.cpuinfo.lines \in Seq(ToSet(c.cpuinfo.lines))
       /\ \A line \in ToSet(c.cpuinfo.lines) : IsText(line.value)
       /\ \A pointer \in DOMAIN c.memory : IsText(c.memory[pointer])
       /\ \A e \in ToSet(c.machine.vector) :
            e.type \in {AT_PLATFORM, AT_BASE_PLATFORM} =>
              e.value = {} \/ e.value \in DOMAIN c.memory
  /\ \A arch \in DOMAIN Hwcap : Blank.key # FeaturesKey(arch)
  /\ StringOf(Blank.key) \notin StringKeys

VARIABLES
  os,        \* The call, and what it finds besides the machine.
  pc,        \* "next", "read", "handle", "ask", "done" or "crashed"
  todo,      \* What is left of the plan.
  pos,       \* The line the reader is at.
  result,    \* The LineResult being handled.
  features,  \* The features that are set.
  numbers,   \* The numbers of the info by the key of their line.
  strings,   \* The strings, by the key of their line, or the type.
  caps       \* The answers for the values of the auxiliary vector.

info == <<features, numbers, strings>>
reader == <<pos, result>>
vars == <<auxvars, os, pc, todo, reader, info, caps>>

NoString == [i \in 1 .. StringSize |-> NUL]

\* kEmptyAarch64Info ... kEmptyPPCPlatformStrings
Init ==
  /\ os \in Calls
  /\ machine = os.machine
  /\ AuxInit
  /\ pc = "next"
  /\ todo = Plan(os.function)
  /\ pos = 1 /\ result = NotRead
  /\ features = {}
  /\ numbers = [k \in NumberKeys("GetAarch64Info") \cup NumberKeys("") |-> 0]
  /\ strings = [k \in StringKeys \cup TypeKeys |-> NoString]
  /\ caps = [t \in DOMAIN TypeOf |-> {}]

Starts(phase) == pc = "next" /\ todo # <<>> /\ Head(todo) = phase
Finish == pc' = "next" /\ todo' = Tail(todo)

\* FillProcCpuInfoData: the file is not there in a sandbox.
OpenCpuinfo ==
  /\ Starts("cpuinfo")
  /\ IF os.sandboxed THEN Finish ELSE pc' = "read" /\ UNCHANGED todo
  /\ UNCHANGED <<auxvars, os, reader, info, caps>>

NextLine ==
  /\ pc = "read"
  /\ result' \in Results(os.cpuinfo, pos, result)
  /\ pos' = result'.pos
  /\ pc' = "handle"
  /\ UNCHANGED <<auxvars, os, todo, info, caps>>

AfterLine == IF result.eof THEN Finish ELSE pc' = "read" /\ UNCHANGED todo
Handles(keys) == pc = "handle" /\ result.line.key \in keys

HandleFeatures ==
  /\ Handles({FeaturesKey(os.arch)})
  /\ os.function \notin TypeStrings
  /\ features' = {f \in Flags(os.arch) : HasWord(result.line.value, <<f>>, " ")}
  /\ AfterLine
  /\ UNCHANGED <<auxvars, os, reader, numbers, strings, caps>>

NumberFunctions == {"GetAarch64Info", "GetS390XPlatformStrings"}
HandleNumber ==
  /\ os.function \in NumberFunctions
  /\ Handles(NumberKeys(os.function))
  /\ numbers' = [numbers EXCEPT ![result.line.key] =
                   ParsePositiveNumber(result.line.value)]
  /\ AfterLine
  /\ UNCHANGED <<auxvars, os, reader, features, strings, caps>>

HandleString ==
  /\ os.function = "GetPPCPlatformStrings"
  /\ pc = "handle" /\ StringOf(result.line.key) \in StringKeys
  /\ strings' = [strings EXCEPT ![StringOf(result.line.key)] =
                   CopyString(result.line.value, @)]
  /\ AfterLine
  /\ UNCHANGED <<auxvars, os, reader, features, numbers, caps>>

\* The key of the line is none that the function looks for.
Unhandled ==
  LET key == result.line.key
  IN  /\ pc = "handle"
      /\ os.function \in TypeStrings \/ key # FeaturesKey(os.arch)
      /\ os.function \in NumberFunctions => key \notin NumberKeys(os.function)
      /\ os.function = "GetPPCPlatformStrings" => StringOf(key) \notin StringKeys

HandleOther ==
  /\ Unhandled
  /\ AfterLine
  /\ UNCHANGED <<auxvars, os, reader, info, caps>>

\* CpuFeatures_GetHardwareCapabilities, CpuFeatures_GetPlatformPointer and
\* CpuFeatures_GetBasePlatformPointer: one value after the other.
AskFor ==
  /\ pc = "next" /\ todo # <<>> /\ Head(todo) \in DOMAIN TypeOf
  /\ Ask(TypeOf[Head(todo)])
  /\ pc' = "ask"
  /\ UNCHANGED <<os, todo, reader, info, caps>>

Fetch ==
  /\ pc = "ask"
  /\ GetHardwareCapabilitiesFor
  /\ UNCHANGED <<os, pc, todo, reader, info, caps>>

Answered ==
  /\ pc = "ask"
  /\ TakeAnswer
  /\ caps' = [caps EXCEPT ![Head(todo)] = answer]
  /\ Finish
  /\ UNCHANGED <<os, reader, info>>

Merge ==
  /\ Starts("merge")
  /\ LET hwcaps == [hwcaps |-> caps.AT_HWCAP, hwcaps2 |-> caps.AT_HWCAP2]
     IN  features' = features \cup
           {f \in Flags(os.arch) :
              LET mask == kHardwareCapabilities(os.arch, f)
              IN  CpuFeatures_IsHwCapsSet(mask, hwcaps)}
  /\ Finish
  /\ UNCHANGED <<auxvars, os, reader, numbers, strings, caps>>

\* Mutant: a pointer that is 0 is followed.
CopyTypeUnchecked(phase, name, pointer) ==
  /\ Starts(phase)
  /\ IF pointer \notin DOMAIN os.memory
     THEN pc' = "crashed" /\ UNCHANGED <<todo, strings>>
     ELSE /\ strings' = [strings EXCEPT ![name] =
                           CopyString(os.memory[pointer], @)]
          /\ Finish
  /\ UNCHANGED <<auxvars, os, reader, features, numbers, caps>>

\* The kernel put a string at the pointer; elsewhere is none.
CopyType(phase, name, pointer) ==
  /\ Starts(phase)
  /\ IF pointer = {} THEN Finish /\ UNCHANGED strings
     ELSE IF pointer \notin DOMAIN os.memory
     THEN pc' = "crashed" /\ UNCHANGED <<todo, strings>>
     ELSE /\ strings' = [strings EXCEPT ![name] =
                           CopyString(os.memory[pointer], @)]
          /\ Finish
  /\ UNCHANGED <<auxvars, os, reader, features, numbers, caps>>

CopyPlatform ==
  CopyType("copy_platform", <<"type", "platform">>, caps.AT_PLATFORM)
CopyBasePlatform ==
  CopyType("copy_base_platform", <<"type", "base_platform">>,
           caps.AT_BASE_PLATFORM)

\* GetMidrEl1 traps into the kernel, which the capability cpuid stands for.
ExtractBitRange(reg, msb, lsb) ==
  SumSet({2 ^ (b - lsb) : b \in reg \cap (lsb .. msb)})

Midr ==
  /\ Starts("midr")
  /\ IF "cpuid" \notin features THEN UNCHANGED numbers
     ELSE numbers' = [numbers EXCEPT
            ![<<"CPU implementer">>] = ExtractBitRange(os.midr, 31, 24),
            ![<<"CPU variant">>] = ExtractBitRange(os.midr, 23, 20),
            ![<<"CPU part">>] = ExtractBitRange(os.midr, 15, 4),
            ![<<"CPU revision">>] = ExtractBitRange(os.midr, 3, 0)]
  /\ Finish
  /\ UNCHANGED <<auxvars, os, reader, features, strings, caps>>

\* The names under which macOS tells of a feature.
DarwinNames ==
  [fp |-> {"floatingpoint"}, asimd |-> {"AdvSIMD", "arm.AdvSIMD"},
   aes |-> {"FEAT_AES"}, pmull |-> {"FEAT_PMULL"}, sha1 |-> {"FEAT_SHA1"},
   sha2 |-> {"FEAT_SHA256"}, crc32 |-> {"armv8_crc32"},
   atomics |-> {"FEAT_LSE"}, fphp |-> {"FEAT_FP16"},
   asimdhp |-> {"AdvSIMD_HPFPCvt"}, asimdrdm |-> {"FEAT_RDM"},
   jscvt |-> {"FEAT_JSCVT"}, fcma |-> {"FEAT_FCMA"}, lrcpc |-> {"FEAT_LRCPC"},
   dcpop |-> {"FEAT_DPB"}, sha3 |-> {"FEAT_SHA3"}, asimddp |-> {"FEAT_DotProd"},
   sha512 |-> {"FEAT_SHA512"}, asimdfhm |-> {"FEAT_FHM"}, dit |-> {"FEAT_DIT"},
   uscat |-> {"FEAT_LSE2"}, flagm |-> {"FEAT_FlagM"}, ssbs |-> {"FEAT_SSBS"},
   sb |-> {"FEAT_SB"}, flagm2 |-> {"FEAT_FlagM2"}, frint |-> {"FEAT_FRINTTS"},
   i8mm |-> {"FEAT_I8MM"}, bf16 |-> {"FEAT_BF16"}, bti |-> {"FEAT_BTI"}]

\* The processor features of Windows by what they set.
WindowsFeatures ==
  [VFP_32_REGISTERS |-> {"fp"}, NEON |-> {"asimd"}, V8_CRC32 |-> {"crc32"},
   V82_DP |-> {"asimddp"}, V83_JSCVT |-> {"jscvt"}, V83_LRCPC |-> {"lrcpc"},
   V81_ATOMIC |-> {"atomics"}, V8_CRYPTO |-> {"aes", "sha1", "sha2", "pmull"}]

Sysctl ==
  /\ Starts("sysctl")
  /\ features' =
       {f \in DOMAIN DarwinNames : DarwinNames[f] \cap os.present # {}}
  /\ numbers' = [k \in DOMAIN numbers |->
                   IF k \in NumberKeys("GetAarch64Info") THEN os.number ELSE 0]
  /\ Finish
  /\ UNCHANGED <<auxvars, os, reader, strings, caps>>

ProcessorFeatures ==
  /\ Starts("processor_features")
  /\ features' = UNION {WindowsFeatures[p] : p \in os.present}
  /\ numbers' = [numbers EXCEPT ![<<"CPU revision">>] = os.number]
  /\ Finish
  /\ UNCHANGED <<auxvars, os, reader, strings, caps>>

ReturnInfo ==
  /\ pc = "next" /\ todo = <<>>
  /\ pc' = "done"
  /\ UNCHANGED <<auxvars, os, todo, reader, info, caps>>

Lines == OpenCpuinfo \/ NextLine \/ HandleFeatures \/ HandleNumber
           \/ HandleString \/ HandleOther
Capabilities == AskFor \/ Fetch \/ Answered \/ Merge
Next == \/ Lines \/ Capabilities \/ CopyPlatform \/ CopyBasePlatform \/ Midr
        \/ Sysctl \/ ProcessorFeatures \/ ReturnInfo

Spec == Init /\ [][Next]_vars

\* The functions are sequential: they run as long as they can.
FairSpec == Spec /\ WF_vars(Next)

-------------------------------------------------------------------------------
Done == pc = "done"
Steps == Range(Plan(os.function))
Asks == DOMAIN TypeOf \cap Steps
ReadsCpuinfo == ~os.sandboxed /\ "cpuinfo" \in Steps

OtherSource == Plan(os.function)[1] \in {"sysctl", "processor_features"}

\* The features that a source declares: the last Features line, or the bits of
\* the capabilities that this build can see.
DeclaredByFile ==
  LET lines == LinesWith(os.cpuinfo, {FeaturesKey(os.arch)})
  IN  IF ReadsCpuinfo /\ lines # {}
      THEN {f \in Flags(os.arch) :
              IsField(<<f>>, os.cpuinfo.lines[LastOf(lines)].value, " ")}
      ELSE {}
DeclaredByKernel ==
  {f \in Flags(os.arch) :
     LET mask == kHardwareCapabilities(os.arch, f)
     IN  \/ mask.hwcaps \cap Seen(Kernel(AT_HWCAP)) # {}
         \/ mask.hwcaps2 \cap Seen(Kernel(AT_HWCAP2)) # {}}

\* Where no word of /proc/self/auxv is misread (Trusted), a feature is set exactly
\* when a source of the function declares it: merging loses no flag of the last core
\* and no capability, and a flag without capability or a missing source adds none
\* (impl_aarch64_linux_or_android.c:62-78, hwcaps.c:20-29).
FeaturesDeclared ==
  (Done /\ os.function \notin TypeStrings /\ ~OtherSource /\
   \A t \in Asks : Trusted(TypeOf[t])) =>
    LET declared ==
          DeclaredByFile \cup (IF "merge" \in Steps THEN DeclaredByKernel ELSE {})
    IN  /\ features \subseteq declared
        /\ DeclaredByFile \subseteq features
        /\ Complete => features = declared

\* The text in a buffer, which always ends inside of it.
Text(buffer) == SubSeq(buffer, 1, Min({i \in DOMAIN buffer : buffer[i] = NUL}) - 1)
Cut(value) == KeepFront(value, StringSize - 1)
LastValue(key) ==
  LET lines == {i \in DOMAIN os.cpuinfo.lines :
                  StringOf(os.cpuinfo.lines[i].key) = key}
  IN  IF ~ReadsCpuinfo \/ lines = {} THEN <<>>
      ELSE os.cpuinfo.lines[LastOf(lines)].value
PointedTo(t) == IF Kernel(t) = {} THEN <<>> ELSE os.memory[Kernel(t)]

\* Every platform string is the start of the last line with its key, or of the
\* string the kernel points at, cut to fit with its terminator, and no pointer
\* is followed that the kernel did not give; where a build or a file cuts the
\* pointer in halves, nothing is promised (impl_ppc_linux.c:127-171).
PlatformStrings ==
  LET whole == machine.bits = 32 \/ machine.build # "dlopen"
      typeString(name) == Text(strings[<<"type", name>>])
  IN  (os.function \in TypeStrings /\ whole /\ \A t \in Asks : Trusted(TypeOf[t])) =>
        /\ pc # "crashed"
        /\ (Done /\ os.function = "GetPPCPlatformStrings") =>
             \A key \in StringKeys : Text(strings[key]) = Cut(LastValue(key))
        /\ (Done /\ Complete) =>
             /\ typeString("platform") = Cut(PointedTo(AT_PLATFORM))
             /\ "AT_BASE_PLATFORM" \in Asks =>
                  typeString("base_platform") = Cut(PointedTo(AT_BASE_PLATFORM))

\* Every call returns, or dies of a wild pointer: neither the loop over the
\* lines nor that over the auxiliary vector goes on for ever, whatever the
\* files hold and however reads are cut (hwcaps_linux_or_android.c:110-124).
Terminates == <>(Done \/ pc = "crashed")
===============================================================================
