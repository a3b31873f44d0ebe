------------------------------ MODULE FeatureTables -----------------------------
(***************************************************************************)
(* INTROSPECTION_TABLE of the architectures with hardware capabilities:    *)
(* the features by their flag in /proc/cpuinfo, with the bit that stands   *)
(* for them in AT_HWCAP or AT_HWCAP2 (src/include/internal/hwcaps.h).  A   *)
(* mask is the set of its bits, and 0 the empty set.                       *)
(***************************************************************************)
EXTENDS Integers, Sequences
LOCAL INSTANCE Functions
LOCAL INSTANCE TLC

\* The features in order of their bits, from bit first up or down.
Rising(first, names) ==
  [f \in Range(names) |-> {first + (CHOOSE i \in DOMAIN names : names[i] = f) - 1}]
Falling(first, names) ==
  [f \in Range(names) |-> {first - (CHOOSE i \in DOMAIN names : names[i] = f) + 1}]

Aarch64Hwcap ==
  Rising(0,
    <<"fp", "asimd", "evtstrm", "aes", "pmull", "sha1", "sha2", "crc32",
      "atomics", "fphp", "asimdhp", "cpuid", "asimdrdm", "jscvt", "fcma",
      "lrcpc", "dcpop", "sha3", "sm3", "sm4", "asimddp", "sha512", "sve",
      "asimdfhm", "dit", "uscat", "ilrcpc", "flagm", "ssbs", "sb", "paca",
      "pacg">>)

Aarch64Hwcap2 ==
  Rising(0,
    <<"dcpodp", "sve2", "sveaes", "svepmull", "svebitperm", "svesha3",
      "svesm4", "flagm2", "frint", "svei8mm", "svef32mm", "svef64mm",
      "svebf16", "i8mm", "bf16", "dgh", "rng", "bti", "mte", "ecv", "afp",
      "rpres", "mte3", "sme", "smei16i64", "smef64f64", "smei8i32",
      "smef16f32", "smeb16f32", "smef32f32", "smefa64", "wfxt", "ebf16",
      "sveebf16", "cssc", "rprfm", "sve2p1", "sme2", "sme2p1", "smei16i32",
      "smebi32i32", "smeb16b16", "smef16f16", "mops", "hbc", "sveb16b16",
      "lrcpc3", "lse128", "fpmr", "lut", "faminmax", "f8cvt", "f8fma",
      "f8dp4", "f8dp2", "f8e4m3", "f8e5m2", "smelutv2", "smef8f16",
      "smef8f32", "smesf8fma", "smesf8dp4", "smesf8dp2", "poe">>)

\* kCpuInfoFlags names eva, which has no capability.
MipsHwcap ==
  [msa |-> {1}, eva |-> {}, r6 |-> {0}, mips16 |-> {3}, mdmx |-> {4},
   mips3d |-> {5}, smartmips |-> {6}, dsp |-> {7}]

PPCHwcap ==
  Falling(31,
    <<"ppc32", "ppc64", "ppc601", "altivec", "fpu", "mmu", "4xxmac",
      "ucache", "spe", "efpsingle", "efpdouble", "notb", "power4", "power5",
      "power5+", "cellbe", "booke", "smt", "ic_snoop", "arch_2_05", "pa6t",
      "dfp", "power6x", "arch_2_06", "vsx", "archpmu">>)
    @@ Falling(1, <<"true_le", "ppcle">>)

PPCHwcap2 ==
  Falling(31,
    <<"arch_2_07", "htm", "dscr", "ebb", "isel", "tar", "vcrypto",
      "htm-nosc", "arch_3_00", "ieee128", "darn", "scv", "htm-no-suspend">>)

S390XHwcap ==
  Rising(0,
    <<"esan3", "zarch", "stfle", "msa", "ldisp", "eimm", "dfp", "edat",
      "etf3eh", "highgprs", "te", "vx", "vxd", "vxe", "gs", "vxe2", "vxp",
      "sort", "dflt", "vxp2", "nnpa", "pcimio", "sie">>)

LoongArchHwcap ==
  Rising(0,
    <<"cfg", "lam", "ual", "fpu", "lsx", "lasx", "crc32", "complex",
      "crypto", "lvz", "lbt_x86", "lbt_arm", "lbt_mips", "ptw">>)

NoHwcap == [f \in {} |-> {}]

\* The flags of an architecture, and kHardwareCapabilities.
Hwcap == [aarch64 |-> Aarch64Hwcap, mips |-> MipsHwcap, ppc |-> PPCHwcap,
          s390x |-> S390XHwcap, loongarch |-> LoongArchHwcap]
Hwcap2 == [aarch64 |-> Aarch64Hwcap2, mips |-> NoHwcap, ppc |-> PPCHwcap2,
           s390x |-> NoHwcap, loongarch |-> NoHwcap]
Flags(arch) == DOMAIN Hwcap[arch] \cup DOMAIN Hwcap2[arch]
kHardwareCapabilities(arch, f) ==
  [hwcaps  |-> IF f \in DOMAIN Hwcap[arch] THEN Hwcap[arch][f] ELSE {},
   hwcaps2 |-> IF f \in DOMAIN Hwcap2[arch] THEN Hwcap2[arch][f] ELSE {}]

\* The tables are well formed: a flag is a word, and stands for one bit at most.
ASSUME TableAssumption ==
  \A arch \in DOMAIN Hwcap :
    /\ " " \notin Flags(arch)
    /\ \A f \in Flags(arch) :
         LET mask == kHardwareCapabilities(arch, f)
         IN  /\ \A b, c \in mask.hwcaps : b = c
             /\ \A b, c \in mask.hwcaps2 : b = c

\* Mutant: no bits are always set.
IsSetEmptyMask(mask, value) == mask \subseteq value

IsSet(mask, value) == mask # {} /\ mask \subseteq value

CpuFeatures_IsHwCapsSet(mask, hwcaps) ==
  IsSet(mask.hwcaps, hwcaps.hwcaps) \/ IsSet(mask.hwcaps2, hwcaps.hwcaps2)
===============================================================================
