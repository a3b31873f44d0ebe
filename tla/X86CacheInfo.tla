----------------------------- MODULE X86CacheInfo ------------------------------
(***************************************************************************)
(* GetX86CacheInfo (src/src/impl_x86__base_implementation.inl): the cache  *)
(* levels from the descriptors of leaf 2, the deterministic parameters of  *)
(* leaf 4 or 0x8000001D, or the registers of older AMD processors.         *)
(* One action per iteration of a loop; a CacheInfo is the sequence of its  *)
(* first info.size levels, since every store is behind the last one.       *)
(***************************************************************************)
EXTENDS CacheDescriptors, Sequences, FiniteSets

CONSTANTS
  CPU_FEATURES_MAX_CACHE_LEVEL,   \* The slots of CacheInfo.levels.
  Processors                      \* What CPUID may answer.

\* cpu_features_cache_info.h:43-46: "On x86 it must be at least 15".
ASSUME MaxLevelAssumption ==
  /\ CPU_FEATURES_MAX_CACHE_LEVEL \in Nat
  /\ CPU_FEATURES_MAX_CACHE_LEVEL >= 15

\* A register has four bytes.
IsRegister(register) == register \in Seq(0 .. 255) /\ Len(register) = 4

ASSUME CpuAssumption ==
  \A c \in Processors :
    /\ IsRegister(c.leaf_2.eax) /\ IsRegister(c.leaf_2.ebx)
    /\ IsRegister(c.leaf_2.ecx) /\ IsRegister(c.leaf_2.edx)
    /\ c.max_cpuid_leaf \in Nat /\ c.max_cpuid_leaf_ext \in Nat
    /\ c.sub_leaves \in Seq({c.sub_leaves[m] : m \in DOMAIN c.sub_leaves})

VARIABLES
  cpuid,   \* What CPUID answers on this processor.
  stage,   \* "dispatch", "leaf2", "deterministic", "legacy" or "done"
  i,       \* The counter of the loop.
  data,    \* The bytes of leaf 2 that ParseLeaf2 looks at.
  found,   \* The local info of ParseCacheInfo.
  levels   \* The CacheInfo that is returned.

cachevars == <<cpuid, stage, i, data, found, levels>>

IntelVendors == {"GenuineIntel", "CentaurHauls", "  Shanghai  "}
AmdVendors == {"AuthenticAMD", "HygonGenuine"}

\* The maximal leaf and the leaf that ParseCacheInfo is called with; numbers
\* of extended leaves without 0x80000000.
MaxLeaf == IF cpuid.vendor \in IntelVendors THEN cpuid.max_cpuid_leaf
           ELSE cpuid.max_cpuid_leaf_ext
LeafId == IF cpuid.vendor \in IntelVendors THEN 4 ELSE 29

NoRegister == <<0, 0, 0, 0>>

\* A register, its bytes from AL up: it is reserved if its bit 31 is set.
ValidBytes(register) == IF register[4] >= 128 THEN NoRegister ELSE register

\* Mutant: AL is taken for a descriptor.
DescriptorsWithAL(leaf) ==
  ValidBytes(leaf.eax) \o ValidBytes(leaf.ebx)
    \o ValidBytes(leaf.ecx) \o ValidBytes(leaf.edx)

\* The descriptors of leaf 2; AL does not hold one.
Descriptors(leaf) ==
  ValidBytes([leaf.eax EXCEPT ![1] = 0]) \o ValidBytes(leaf.ebx)
    \o ValidBytes(leaf.ecx) \o ValidBytes(leaf.edx)

Leaf2 == IF cpuid.max_cpuid_leaf >= 2 THEN cpuid.leaf_2
         ELSE [eax |-> NoRegister, ebx |-> NoRegister,
               ecx |-> NoRegister, edx |-> NoRegister]

TopologyExtensions == cpuid.max_cpuid_leaf_ext >= 1 /\ cpuid.topology_extensions

CacheInit ==
  /\ cpuid \in Processors
  /\ stage = "dispatch"
  /\ i = 0
  /\ data = <<>> /\ found = <<>> /\ levels = <<>>

\* ReadLeaves and the branches on the vendor.
GetX86CacheInfo ==
  /\ stage = "dispatch"
  /\ data' = Descriptors(Leaf2)
  /\ stage' = CASE cpuid.vendor \in IntelVendors -> "leaf2"
             [] cpuid.vendor \in AmdVendors ->
                  IF TopologyExtensions THEN "deterministic" ELSE "legacy"
             [] OTHER -> "done"
  /\ UNCHANGED <<cpuid, i, found, levels>>

\* One byte of leaf 2; there is no check for room.
ParseLeaf2 ==
  /\ stage = "leaf2"
  /\ levels' = IF data[i + 1] = 0 THEN levels
             ELSE Append(levels, GetCacheLevelInfo(data[i + 1]))
  /\ IF i + 1 < Len(data) THEN i' = i + 1 /\ UNCHANGED stage
     ELSE i' = 0 /\ stage' = "deterministic"
  /\ UNCHANGED <<cpuid, data, found>>

NullSubLeaf ==
  [type |-> 0, level |-> 0, line |-> 0, part |-> 0, ways |-> 0, sets |-> 0]

\* Mutant: the maximal leaf is not looked at.
SubLeafUnchecked(index) ==
  IF index < Len(cpuid.sub_leaves) THEN cpuid.sub_leaves[index + 1] ELSE NullSubLeaf

\* What CPUID answers for a sub-leaf; "repeats" is a processor, or a
\* hypervisor, that has no null sub-leaf.
SubLeaf(index) ==
  IF MaxLeaf < LeafId \/ cpuid.sub_leaves = <<>> THEN NullSubLeaf
  ELSE IF index < Len(cpuid.sub_leaves) THEN cpuid.sub_leaves[index + 1]
  ELSE IF cpuid.repeats THEN cpuid.sub_leaves[Len(cpuid.sub_leaves)] ELSE NullSubLeaf

TypeName == <<"DATA", "INSTRUCTION", "UNIFIED">>

\* The fields hold what they stand for minus one; their product is for sizes
\* below 2 GiB, for others the code computes past the largest int.
LevelOf(leaf) ==
  CacheLevelInfo(leaf.level, TypeName[leaf.type],
                 (leaf.ways + 1) * (leaf.part + 1) * (leaf.line + 1) * (leaf.sets + 1),
                 leaf.ways + 1, leaf.line + 1, leaf.sets + 1, leaf.part + 1)

\* Mutants: the levels of leaf 2 are kept; the loop ends with the null sub-leaf only.
ParseCacheInfoAppends ==
  /\ stage = "deterministic"
  /\ LET leaf == SubLeaf(i)
     IN  IF Len(found) < CPU_FEATURES_MAX_CACHE_LEVEL /\ leaf.type \in 1 .. 3
         THEN /\ found' = Append(IF found = <<>> THEN levels ELSE found, LevelOf(leaf))
              /\ i' = i + 1
              /\ UNCHANGED <<stage, levels>>
         ELSE /\ levels' = IF found # <<>> THEN found ELSE levels
              /\ stage' = "done"
              /\ UNCHANGED <<i, found>>
  /\ UNCHANGED <<cpuid, data>>

ParseCacheInfoUnbounded ==
  /\ stage = "deterministic"
  /\ LET leaf == SubLeaf(i)
     IN  IF leaf.type \in 1 .. 3
         THEN /\ found' = IF Len(found) < CPU_FEATURES_MAX_CACHE_LEVEL
                          THEN Append(found, LevelOf(leaf)) ELSE found
              /\ i' = IF i < CPU_FEATURES_MAX_CACHE_LEVEL THEN i + 1 ELSE i
              /\ UNCHANGED <<stage, levels>>
         ELSE /\ levels' = IF found # <<>> THEN found ELSE levels
              /\ stage' = "done"
              /\ UNCHANGED <<i, found>>
  /\ UNCHANGED <<cpuid, data>>

\* One sub-leaf; the last one, or the last slot, ends the loop, and what was
\* found replaces the descriptors, if anything was found.
ParseCacheInfo ==
  /\ stage = "deterministic"
  /\ LET leaf == SubLeaf(i)
     IN  IF Len(found) < CPU_FEATURES_MAX_CACHE_LEVEL /\ leaf.type \in 1 .. 3
         THEN /\ found' = Append(found, LevelOf(leaf))
              /\ i' = i + 1
              /\ UNCHANGED <<stage, levels>>
         ELSE /\ levels' = IF found # <<>> THEN found ELSE levels
              /\ stage' = "done"
              /\ UNCHANGED <<i, found>>
  /\ UNCHANGED <<cpuid, data>>

-------------------------------------------------------------------------------
(* Before deterministic parameters, AMD had four registers, of L1 data, L1 *)
(* instructions, L2 and L3.                                                *)

LegacyType == <<"DATA", "INSTRUCTION", "UNIFIED", "UNIFIED">>
LegacyLevel == <<1, 1, 2, 3>>
LegacyLeaf == <<5, 5, 6, 6>>
LEGACY_AMD_MAX_CACHE_LEVEL == 4

Legacy(index) ==
  IF LegacyLeaf[index + 1] <= cpuid.max_cpuid_leaf_ext THEN cpuid.legacy[index + 1]
  ELSE [size |-> 0, ways |-> 0, line |-> 0]

\* L1 has the associativity itself, the others a code for it.
GetWaysLegacyAMD(level, ways) ==
  CASE level = 1 -> ways
    [] level # 1 /\ ways \in {0, 1, 2, 4} -> ways
    [] level # 1 /\ ways = 6  -> 8
    [] level # 1 /\ ways = 8  -> 16
    [] level # 1 /\ ways = 10 -> 32
    [] level # 1 /\ ways = 11 -> 48
    [] level # 1 /\ ways = 12 -> 64
    [] level # 1 /\ ways = 13 -> 96
    [] level # 1 /\ ways = 14 -> 128
    [] level # 1 /\ ways = 15 -> FULL
    [] OTHER -> -1

\* L3 is counted in units of 512 KiB.
GetCacheSizeLegacyAMD(level, size) == IF level = 3 THEN size * 512 ELSE size

\* One register; the first cache that is not there ends the loop.
ParseCacheInfoLegacyAMD ==
  /\ stage = "legacy"
  /\ LET register == Legacy(i)
         level    == LegacyLevel[i + 1]
         size     == GetCacheSizeLegacyAMD(level, register.size)
     IN  IF size = 0 THEN stage' = "done" /\ UNCHANGED <<i, levels>>
         ELSE /\ levels' = Append(levels,
                   CacheLevelInfo(level, LegacyType[i + 1], size * KiB,
                                  GetWaysLegacyAMD(level, register.ways),
                                  register.line, UNDEF, UNDEF))
              /\ i' = i + 1
              /\ stage' = IF i + 1 < LEGACY_AMD_MAX_CACHE_LEVEL
                           THEN "legacy" ELSE "done"
  /\ UNCHANGED <<cpuid, data, found>>

CacheNext ==
  GetX86CacheInfo \/ ParseLeaf2 \/ ParseCacheInfo \/ ParseCacheInfoLegacyAMD

CacheSpec == CacheInit /\ [][CacheNext]_cachevars

\* GetX86CacheInfo is a sequential function: it runs as long as it can.
CacheFairSpec == CacheSpec /\ WF_cachevars(CacheNext)

-------------------------------------------------------------------------------
Returned == stage = "done"

\* No level is stored behind the last slot of CacheInfo.levels, though
\* ParseLeaf2 does not look: a full leaf 2 has 15 descriptors, and every sub-leaf
\* of a processor that never says "no more" is one level (lines 1855-1923).
LevelsInBounds ==
  /\ Len(levels) <= CPU_FEATURES_MAX_CACHE_LEVEL
  /\ Len(found) <= CPU_FEATURES_MAX_CACHE_LEVEL

\* How many levels the deterministic parameters describe.
EnumeratedBefore(n) == \A k \in 0 .. n - 1 : SubLeaf(k).type \in 1 .. 3
Enumerated ==
  CHOOSE n \in 0 .. CPU_FEATURES_MAX_CACHE_LEVEL :
    /\ EnumeratedBefore(n)
    /\ n = CPU_FEATURES_MAX_CACHE_LEVEL \/ ~EnumeratedBefore(n + 1)

\* The descriptors of leaf 2, by register and byte.
Register == <<Leaf2.eax, Leaf2.ebx, Leaf2.ecx, Leaf2.edx>>
DescriptorPlaces ==
  {p \in (1 .. 4) \X (1 .. 4) :
     p # <<1, 1>> /\ Register[p[1]][4] < 128 /\ Register[p[1]][p[2]] # 0}
DescribedBy(p) == GetCacheLevelInfo(Register[p[1]][p[2]])

\* The levels are never a mixture of what leaf 2 and leaf 4 say: all of the
\* deterministic ones, in order, if there is one, and otherwise every descriptor
\* of leaf 2 once and nothing else (1855-1923).
OneSource ==
  (Returned /\ cpuid.vendor \in IntelVendors) =>
    IF Enumerated > 0
    THEN levels = [k \in 1 .. Enumerated |-> LevelOf(SubLeaf(k - 1))]
    ELSE /\ Len(levels) = Cardinality(DescriptorPlaces)
         /\ {levels[k] : k \in DOMAIN levels} = {DescribedBy(p) : p \in DescriptorPlaces}

\* Level k holds the parameters of sub-leaf k of the processor, or of the last one
\* where that is repeated, and no sub-leaf up to it is a null one.
OfSubLeaf(k) ==
  \E n \in DOMAIN cpuid.sub_leaves :
    /\ n = k \/ (cpuid.repeats /\ n = Len(cpuid.sub_leaves) /\ n < k)
    /\ \A m \in 1 .. n : cpuid.sub_leaves[m].type \in 1 .. 3
    /\ levels[k] = LevelOf(cpuid.sub_leaves[n])

\* What CPUID answers for a leaf that the processor does not have never becomes
\* a level, and neither does a sub-leaf behind the null one: every level is a
\* descriptor of leaf 2 or a sub-leaf of leaf 4 on Intel, a sub-leaf of leaf
\* 0x8000001D or, before it, a register of 0x80000005 and 0x80000006 on AMD, of a
\* leaf that is there (148-158, 1855-1923, 2034-2054).
NoLevelOfMissingLeaf ==
  \A k \in DOMAIN levels :
    \/ /\ cpuid.vendor \in IntelVendors
       /\ cpuid.max_cpuid_leaf >= 2
       /\ \E p \in DescriptorPlaces : levels[k] = DescribedBy(p)
    \/ /\ cpuid.vendor \in IntelVendors
       /\ cpuid.max_cpuid_leaf >= 4
       /\ OfSubLeaf(k)
    \/ /\ cpuid.vendor \in AmdVendors /\ TopologyExtensions
       /\ cpuid.max_cpuid_leaf_ext >= 29
       /\ OfSubLeaf(k)
    \/ /\ cpuid.vendor \in AmdVendors /\ ~TopologyExtensions
       /\ k <= LEGACY_AMD_MAX_CACHE_LEVEL
       /\ LegacyLeaf[k] <= cpuid.max_cpuid_leaf_ext

\* GetX86CacheInfo returns, also where CPUID answers every sub-leaf alike.
Terminates == <>Returned
===============================================================================
