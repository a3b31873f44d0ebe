-------------------------------- MODULE X86Info ---------------------------------
(***************************************************************************)
(* GetX86Info (src/src/impl_x86__base_implementation.inl and the four      *)
(* impl_x86_<os>.c): which features of the CPUID leaves are reported, given *)
(* the leaves that the processor has and the registers that the operating  *)
(* system saves.  A bit of a leaf is named after the feature it stands for. *)
(***************************************************************************)
EXTENDS X86Microarchitecture, Sequences, FiniteSets

CONSTANTS
  Cpus,        \* What CPUID may answer.
  Systems(_)   \* The operating systems on a processor: what they answer.

\* The four systems that the library has an implementation for.
ASSUME SystemAssumption ==
  \A c \in Cpus : \A s \in Systems(c) :
    s.os \in {"linux", "freebsd", "macos", "windows"}

VARIABLES
  cpu,           \* The processor: its vendor, last leaves, and leaves.
  system,        \* The operating system: XCR0, sysctl, text files.
  pc,            \* "read", "parse", "extra" or "done"
  leaves,        \* Leaves
  os_preserves,  \* OsPreserves: the fields that are true.
  features,      \* info.features: the flags that are set.
  signature,     \* EAX of leaf_1.
  brand_string,  \* info.brand_string
  info           \* info.family, info.model, info.stepping

machine == <<cpu, system>>
identity == <<signature, brand_string, info>>
vars == <<machine, pc, leaves, os_preserves, features, identity>>

Basic == {"leaf_1", "leaf_7", "leaf_7_1"}
Extended == {"leaf_80000001", "leaf_80000021"}
Leaves == Basic \cup Extended

\* The number of a leaf; those of extended leaves without 0x80000000.
Number == [leaf_1 |-> 1, leaf_7 |-> 7, leaf_7_1 |-> 7,
           leaf_80000001 |-> 1, leaf_80000021 |-> 33]

-------------------------------------------------------------------------------
(* The features of ParseCpuId and ParseExtraAMDCpuId, by leaf.  One bit,   *)
(* 7.EDX[3], stands for two features, avx512_4vbmi2 and avx512_4fmaps.     *)

AlwaysFeatures ==
  [leaf_1 |-> {"fpu", "tsc", "cx8", "clfsh", "mmx", "ss", "pclmulqdq", "smx",
               "cx16", "dca", "movbe", "popcnt", "aes", "f16c", "rdrnd"},
   leaf_7 |-> {"sgx", "bmi1", "hle", "bmi2", "erms", "rtm", "rdseed",
               "clflushopt", "clwb", "sha", "gfni", "vaes", "vpclmulqdq",
               "movdiri", "movdir64b", "fs_rep_mov", "adx"},
   leaf_7_1 |-> {"fz_rep_movsb", "fs_rep_stosb", "fs_rep_cmpsb_scasb", "lam"},
   leaf_80000001 |-> {"lzcnt"},
   leaf_80000021 |-> {}]

OsSseFeatures == {"sse", "sse2", "sse3", "ssse3", "sse4_1", "sse4_2"}
SseFeatures == [l \in Leaves |-> IF l = "leaf_1" THEN OsSseFeatures ELSE {}]

AvxFeatures ==
  [leaf_1 |-> {"fma3", "avx"}, leaf_7 |-> {"avx2"}, leaf_7_1 |-> {"avx_vnni"},
   leaf_80000001 |-> {}, leaf_80000021 |-> {}]

Avx512Features ==
  [leaf_1 |-> {},
   leaf_7 |-> {"avx512f", "avx512cd", "avx512er", "avx512pf", "avx512bw",
               "avx512dq", "avx512vl", "avx512ifma", "avx512vbmi",
               "avx512vbmi2", "avx512vnni", "avx512bitalg",
               "avx512vpopcntdq", "avx512_4vnniw", "avx512_4vbmi2",
               "avx512_4fmaps", "avx512_vp2intersect", "avx512_fp16"},
   leaf_7_1 |-> {"avx512_bf16"},
   leaf_80000001 |-> {}, leaf_80000021 |-> {}]

AmxFeatures ==
  [leaf_1 |-> {}, leaf_7 |-> {"amx_bf16", "amx_tile", "amx_int8"},
   leaf_7_1 |-> {"amx_fp16"}, leaf_80000001 |-> {}, leaf_80000021 |-> {}]

\* The features that are looked for in a leaf.
NamesIn(l) ==
  AlwaysFeatures[l] \cup SseFeatures[l] \cup AvxFeatures[l] \cup Avx512Features[l]
    \cup AmxFeatures[l]
    \cup (IF l = "leaf_80000001" THEN {"sse4a", "fma4"} ELSE {})
    \cup (IF l = "leaf_80000021" THEN {"uai"} ELSE {})

\* A bit is named after the feature that is looked for in its leaf, so no other
\* leaf has a bit of that name.
ASSUME LeafAssumption ==
  \A c \in Cpus : \A l, m \in Leaves : l # m => c.cpuid[l] \cap NamesIn(m) = {}

\* Of the features of a table, those whose bit is set in the leaves read.
Bits(table) == UNION {table[l] \cap leaves[l] : l \in Leaves}

-------------------------------------------------------------------------------
Init ==
  /\ cpu \in Cpus /\ system \in Systems(cpu)
  /\ pc = "read"
  /\ leaves = [l \in Leaves |-> {}]
  /\ os_preserves = {}
  /\ features = {}
  /\ signature = 0 /\ brand_string = NoBrand /\ info = NoIdentity

\* Mutant: off by one.
SafeCpuIdExOffByOne(max_cpuid_leaf, leaf) ==
  IF Number[leaf] <= max_cpuid_leaf + 1 THEN cpu.cpuid[leaf] ELSE {}

\* CPUID may answer anything for a leaf that the processor does not have.
SafeCpuIdEx(max_cpuid_leaf, leaf) ==
  IF Number[leaf] <= max_cpuid_leaf THEN cpu.cpuid[leaf] ELSE {}

Amd == {"AuthenticAMD", "HygonGenuine"}
KnownVendors == Amd \cup {"GenuineIntel", "CentaurHauls", "  Shanghai  "}

\* ReadLeaves and the dispatch on the vendor.  The brand string is in the leaves
\* 0x80000002 to 0x80000004, 16 characters in each.
ReadLeaves ==
  /\ pc = "read"
  /\ leaves' = [l \in Leaves |->
       SafeCpuIdEx(IF l \in Basic THEN cpu.max_cpuid_leaf
                   ELSE cpu.max_cpuid_leaf_ext, l)]
  /\ signature' = IF cpu.max_cpuid_leaf >= 1 THEN cpu.signature ELSE 0
  /\ brand_string' = [i \in BRAND |->
       IF 2 + i \div 16 <= cpu.max_cpuid_leaf_ext THEN cpu.brand[i] ELSE "NUL"]
  /\ pc' = IF cpu.vendor \in KnownVendors THEN "parse" ELSE "done"
  /\ UNCHANGED <<machine, os_preserves, features, info>>

\* HasXmmOsXSave, HasYmmOsXSave, HasZmmOsXSave, HasTmmOsXSave: the masks.
XmmMask == {"XMM"}
YmmMask == {"XMM", "YMM"}
ZmmMask == YmmMask \cup {"MASKREG", "ZMM0_15", "ZMM16_31"}
TmmMask == ZmmMask \cup {"XTILECFG", "XTILEDATA"}
HasMask(value, mask) == mask \subseteq value

\* Mutant: only the registers that AMX adds are looked at.
SavedByXcr0TileOnly(xcr0) ==
  {r \in {"sse"} : HasMask(xcr0, XmmMask)}
    \cup {r \in {"avx"} : HasMask(xcr0, YmmMask)}
    \cup {r \in {"avx512"} : HasMask(xcr0, ZmmMask)}
    \cup {r \in {"amx"} : HasMask(xcr0, {"XTILECFG", "XTILEDATA"})}

SavedByXcr0(xcr0) ==
  {r \in {"sse"} : HasMask(xcr0, XmmMask)}
    \cup {r \in {"avx"} : HasMask(xcr0, YmmMask)}
    \cup {r \in {"avx512"} : HasMask(xcr0, ZmmMask)}
    \cup {r \in {"amx"} : HasMask(xcr0, TmmMask)}

\* On macOS AVX-512 is on demand: sysctl hw.optional.avx512f tells.
OverrideOsPreserves(saved) ==
  IF system.os # "macos" THEN saved
  ELSE (saved \ {"avx512"}) \cup {r \in {"avx512"} : "avx512f" \in system.sysctl}

\* The SSE features according to the operating system.  Linux stops at the first
\* line of flags of /proc/cpuinfo, FreeBSD adds up all lines of dmesg.boot that
\* start with "  Features"; either file may be missing (no line at all).
DetectFeaturesFromOs ==
  CASE system.os \in {"macos", "windows"} -> OsSseFeatures \cap system.sysctl
    [] system.os = "linux" ->
         IF system.text = <<>> THEN {} ELSE OsSseFeatures \cap system.text[1]
    [] system.os = "freebsd" ->
         OsSseFeatures \cap UNION {system.text[i] : i \in DOMAIN system.text}

\* The features whose registers are saved.
VectorBits(saved) ==
  (IF "sse" \in saved THEN Bits(SseFeatures) ELSE {})
    \cup (IF "avx" \in saved THEN Bits(AvxFeatures) ELSE {})
    \cup (IF "avx512" \in saved
          THEN Bits(Avx512Features)
                 \cup {f \in {"avx512_second_fma"} :
                         HasSecondFMA(Model(signature), brand_string)}
          ELSE {})
    \cup (IF "amx" \in saved THEN Bits(AmxFeatures) ELSE {})

HaveXcr0 == {"xsave", "osxsave"} \subseteq leaves.leaf_1

\* Mutants: the registers that the system saves are not looked at for AVX; SSE
\* as reported by the system does not reach os_preserves.
ParseCpuIdNoAvxGate ==
  /\ pc = "parse"
  /\ IF HaveXcr0
     THEN /\ os_preserves' = OverrideOsPreserves(SavedByXcr0(system.xcr0))
          /\ features' = Bits(AlwaysFeatures) \cup VectorBits(os_preserves' \cup {"avx"})
     ELSE /\ features' = Bits(AlwaysFeatures) \cup DetectFeaturesFromOs
          /\ os_preserves' = {r \in {"sse"} : "sse" \in features'}
  /\ pc' = IF cpu.vendor \in Amd THEN "extra" ELSE "done"
  /\ info' = Identity(signature)
  /\ UNCHANGED <<machine, leaves, signature, brand_string>>

ParseCpuIdSseNotKept ==
  /\ pc = "parse"
  /\ IF HaveXcr0
     THEN /\ os_preserves' = OverrideOsPreserves(SavedByXcr0(system.xcr0))
          /\ features' = Bits(AlwaysFeatures) \cup VectorBits(os_preserves')
     ELSE /\ features' = Bits(AlwaysFeatures) \cup DetectFeaturesFromOs
          /\ UNCHANGED os_preserves
  /\ pc' = IF cpu.vendor \in Amd THEN "extra" ELSE "done"
  /\ info' = Identity(signature)
  /\ UNCHANGED <<machine, leaves, signature, brand_string>>

\* ParseCpuId
ParseCpuId ==
  /\ pc = "parse"
  /\ IF HaveXcr0
     THEN /\ os_preserves' = OverrideOsPreserves(SavedByXcr0(system.xcr0))
          /\ features' = Bits(AlwaysFeatures) \cup VectorBits(os_preserves')
     ELSE /\ features' = Bits(AlwaysFeatures) \cup DetectFeaturesFromOs
          /\ os_preserves' = {r \in {"sse"} : "sse" \in features'}
  /\ pc' = IF cpu.vendor \in Amd THEN "extra" ELSE "done"
  /\ info' = Identity(signature)
  /\ UNCHANGED <<machine, leaves, signature, brand_string>>

\* ParseExtraAMDCpuId
ParseExtraAMDCpuId ==
  /\ pc = "extra"
  /\ features' = features
       \cup {f \in {"sse4a"} : "sse" \in os_preserves /\ f \in leaves.leaf_80000001}
       \cup {f \in {"fma4"} : "avx" \in os_preserves /\ f \in leaves.leaf_80000001}
       \cup ({"uai"} \cap leaves.leaf_80000021)
  /\ pc' = "done"
  /\ UNCHANGED <<machine, leaves, os_preserves, identity>>

Next == ReadLeaves \/ ParseCpuId \/ ParseExtraAMDCpuId

Spec == Init /\ [][Next]_vars

-------------------------------------------------------------------------------
Names(table) == UNION {table[l] : l \in Leaves}
Done == pc = "done"

\* The processor has a leaf, and says there that it has a feature.
HasLeaf(l) == Number[l] <= (IF l \in Basic THEN cpu.max_cpuid_leaf
                            ELSE cpu.max_cpuid_leaf_ext)
CpuHas(f) == \E l \in Leaves : HasLeaf(l) /\ f \in cpu.cpuid[l]

\* The system lets applications use these registers.
HasXgetbv == HasLeaf("leaf_1") /\ {"xsave", "osxsave"} \subseteq cpu.cpuid.leaf_1
Saves(registers) == HasXgetbv /\ registers \subseteq system.xcr0
SaysSse(f) ==
  /\ ~HasXgetbv
  /\ CASE system.os \in {"macos", "windows"} -> f \in system.sysctl
       [] system.os = "linux" -> system.text # <<>> /\ f \in system.text[1]
       [] OTHER -> \E i \in DOMAIN system.text : f \in system.text[i]
UsesAvx512 ==
  IF system.os = "macos" THEN HasXgetbv /\ "avx512f" \in system.sysctl
  ELSE Saves({"XMM", "YMM", "MASKREG", "ZMM0_15", "ZMM16_31"})
SavesTiles ==
  Saves({"XMM", "YMM", "MASKREG", "ZMM0_15", "ZMM16_31", "XTILECFG", "XTILEDATA"})

\* No feature is taken from a leaf that the processor does not have (an Intel
\* processor answers with the data of another leaf there; lines 148-192).
NoFeatureOfMissingLeaf ==
  \A f \in features \ (OsSseFeatures \cup {"avx512_second_fma"}) : CpuHas(f)

\* Conditions 1 and 2 of the note on SIMD availability, lines 16-32, for the
\* features of the vector section: reported only where the system saves the
\* registers, on each of the four systems.
VectorNeedsOs ==
  /\ features \cap (Names(AvxFeatures) \cup {"fma4"}) # {} => Saves({"XMM", "YMM"})
  /\ features \cap (Names(Avx512Features) \cup {"avx512_second_fma"}) # {}
       => UsesAvx512
  /\ features \cap Names(AmxFeatures) # {} => Saves({"XTILECFG", "XTILEDATA"})
  /\ \A f \in features \cap OsSseFeatures : SaysSse(f) \/ (Saves({"XMM"}) /\ CpuHas(f))
  /\ "sse4a" \in features => SaysSse("sse") \/ Saves({"XMM"})

\* Wider registers are never trusted where narrower ones are not: code that tests
\* for a wide extension only is safe to use the narrow ones, too (198-234).
WiderImpliesNarrower ==
  system.os # "macos" =>
    /\ "amx" \in os_preserves => "avx512" \in os_preserves
    /\ "avx512" \in os_preserves => "avx" \in os_preserves
    /\ "avx" \in os_preserves => "sse" \in os_preserves

\* Products of the Skylake server that have one unit, by the comments at 282-296.
SingleFmaProducts == {"Silver", "Bronze", "Gold 5_20 and below", "W 210x", "D 2xxx"}

\* How Intel writes the names of these products and of the others on the same
\* dies: the class after "Intel(R) Xeon(R) ", then the number, of which the first
\* digits tell the generation and the last two the rank.
Reads(brand, at, text) == \A i \in DOMAIN text : brand[at + i - 1] = text[i]
NamedXeon(brand, name) ==
  Reads(brand, 9, <<"X", "e", "o", "n">>) /\ Reads(brand, 17, name)
NamedGold5(brand) == NamedXeon(brand, <<"G", "o", "l", "d", " ", "5">>)
NamedAs(brand, product) ==
  CASE product = "Core" -> Reads(brand, 9, <<"C", "o", "r", "e">>)
    [] product = "Platinum" -> NamedXeon(brand, <<"P", "l", "a", "t">>)
    [] product = "Silver" -> NamedXeon(brand, <<"S", "i", "l", "v">>)
    [] product = "Bronze" -> NamedXeon(brand, <<"B", "r", "o", "n">>)
    [] product = "Gold 6" -> NamedXeon(brand, <<"G", "o", "l", "d", " ", "6">>)
    [] product = "Gold 53" -> NamedGold5(brand) /\ Reads(brand, 23, <<"3">>)
    [] product = "Gold 5_22" ->
         NamedGold5(brand) /\ brand[23] # "3" /\ Reads(brand, 24, <<"2", "2">>)
    [] product = "Gold 5_20 and below" ->
         /\ NamedGold5(brand) /\ brand[23] # "3"
         /\ brand[24] \in {"0", "1"} \/ Reads(brand, 24, <<"2", "0">>)
    [] product = "W 210x" -> NamedXeon(brand, <<"W", "-", "2", "1", "0">>)
    [] product = "other W" -> NamedXeon(brand, <<"W", "-">>) /\ brand[21] # "0"
    [] product = "D 2xxx" -> NamedXeon(brand, <<"D", "-", "2", "1">>)
    [] OTHER -> FALSE

\* A Skylake or Cascade Lake server bears the name of its product; the clients
\* called Skylake are none of the lesser servers.  Leaves have numbers.
ASSUME BrandAssumption ==
  \A c \in Cpus :
    LET id == Identity(c.signature)
    IN  /\ c.signature \in Nat /\ c.max_cpuid_leaf_ext \in Nat
        /\ c.vendor = "GenuineIntel" /\ id.model = \h55 => NamedAs(c.brand, c.product)
        /\ c.vendor = "GenuineIntel" /\ id.model \in {\h4E, \h5E} =>
             c.product \notin SingleFmaProducts

\* The processors from which no comment of HasSecondFMA (278-308) takes the
\* second unit: not those of Cannon Lake and of the Ice Lake clients, and of the
\* model of the Skylake servers Intel's products but for the lesser ones.
KeepsSecondFma ==
  LET model == Model(cpu.signature)
  IN  \/ model \notin {\h55, \h66, \h7D, \h7E}
      \/ /\ model = \h55 /\ cpu.vendor = "GenuineIntel"
         /\ cpu.product \notin SingleFmaProducts

\* Nothing is withheld of what a processor of a known vendor and its system
\* support (310-477): no bit that asks for no registers; no feature of SSE, AVX,
\* AVX-512 or AMX whose registers are saved; no second unit of a processor that
\* keeps it, whatever it tells of its brand; and nothing of AMD, where sse4a
\* without XSAVE needs SSE to come from the system first (459-463, 474-476).
NothingWithheld ==
  (Done /\ cpu.vendor \in KnownVendors) =>
    /\ \A f \in Names(AlwaysFeatures) : CpuHas(f) => f \in features
    /\ \A f \in OsSseFeatures :
         SaysSse(f) \/ (Saves({"XMM"}) /\ CpuHas(f)) => f \in features
    /\ \A f \in Names(AvxFeatures) : Saves({"XMM", "YMM"}) /\ CpuHas(f) => f \in features
    /\ \A f \in Names(Avx512Features) : UsesAvx512 /\ CpuHas(f) => f \in features
    /\ \A f \in Names(AmxFeatures) : SavesTiles /\ CpuHas(f) => f \in features
    /\ UsesAvx512 /\ KeepsSecondFma => "avx512_second_fma" \in features
    /\ cpu.vendor \in Amd =>
         /\ CpuHas("sse4a") /\ (SaysSse("sse") \/ Saves({"XMM"})) => "sse4a" \in features
         /\ CpuHas("fma4") /\ Saves({"XMM", "YMM"}) => "fma4" \in features
         /\ CpuHas("uai") => "uai" \in features

\* What the comments of HasSecondFMA name by product (lines 278-308) and what the
\* table of microarchitectures tells apart by family, model and stepping (517-697)
\* agree: on Intel processors that tell their brand, the second unit is withheld
\* from Cannon Lake, from Ice Lake but for its servers and accelerators, and from
\* the lesser Skylake and Cascade Lake servers, and from no other processor.
SecondFmaByUarch ==
  LET uarch == GetX86Microarchitecture(cpu.vendor, info)
      client == ~(info.model \in {\h6A, \h6C, \h9D})
  IN  (Done /\ cpu.vendor = "GenuineIntel" /\ UsesAvx512
         /\ cpu.max_cpuid_leaf_ext >= 4 /\ uarch # "X86_UNKNOWN") =>
        ("avx512_second_fma" \in features
           <=> ~ \/ uarch = "INTEL_CNL"
                 \/ uarch = "INTEL_ICL" /\ client
                 \/ /\ uarch \in {"INTEL_SKL", "INTEL_CCL"}
                    /\ cpu.product \in SingleFmaProducts)

\* The same note for the features that ParseCpuId reports before it looks at the
\* system: F16C, VAES and VPCLMULQDQ have VEX encodings only, on YMM registers.
VexNeedsOs ==
  features \cap {"f16c", "vaes", "vpclmulqdq"} # {} => Saves({"XMM", "YMM"})
===============================================================================
