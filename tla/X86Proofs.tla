------------------------------- MODULE X86Proofs --------------------------------
(***************************************************************************)
(* Proofs about GetX86Info and GetX86CacheInfo, for every processor,       *)
(* whatever CPUID answers for the leaves that it does not have, and every  *)
(* answer of the systems.                                                  *)
(***************************************************************************)
EXTENDS X86Info, X86CacheInfo, SequenceTheorems, FiniteSetTheorems,
        FunctionTheorems, TLAPS

-------------------------------------------------------------------------------
(***************************************************************************)
(* GetX86Info: features only of leaves that the processor has and of       *)
(* registers that the system saves, and none of these withheld.            *)
(***************************************************************************)

\* The names in the tables, written out.
LEMMA NamesInTables ==
  /\ Names(AvxFeatures) = {"fma3", "avx", "avx2", "avx_vnni"}
  /\ Names(AmxFeatures) = {"amx_bf16", "amx_tile", "amx_int8", "amx_fp16"}
  /\ Names(SseFeatures) = OsSseFeatures
  BY DEF Names, AvxFeatures, AmxFeatures, SseFeatures, Leaves, Basic, Extended,
         OsSseFeatures

ExtraNames == {"avx512_second_fma", "sse4a", "fma4", "uai"}

\* No name is in two tables: what one of them reports is not vouched for by
\* another.
LEMMA TablesDisjoint ==
  /\ Names(AlwaysFeatures) \cap (OsSseFeatures \cup Names(AvxFeatures)
       \cup Names(Avx512Features) \cup Names(AmxFeatures) \cup ExtraNames) = {}
  /\ OsSseFeatures \cap (Names(AvxFeatures) \cup Names(Avx512Features)
       \cup Names(AmxFeatures) \cup ExtraNames) = {}
  /\ Names(AvxFeatures) \cap (Names(Avx512Features) \cup Names(AmxFeatures)
       \cup ExtraNames) = {}
  /\ Names(Avx512Features) \cap (Names(AmxFeatures) \cup ExtraNames) = {}
  /\ Names(AmxFeatures) \cap ExtraNames = {}
  <1> DEFINE A == {"fma3", "avx", "avx2", "avx_vnni"}
             X == {"amx_bf16", "amx_tile", "amx_int8", "amx_fp16"}
  <1>1. Names(AlwaysFeatures) \cap (OsSseFeatures \cup A \cup X \cup ExtraNames) = {}
    BY DEF Names, AlwaysFeatures, Leaves, Basic, Extended, OsSseFeatures, ExtraNames
  <1>2. Names(Avx512Features) \cap (OsSseFeatures \cup A \cup X \cup ExtraNames) = {}
    BY DEF Names, Avx512Features, Leaves, Basic, Extended, OsSseFeatures, ExtraNames
  <1>3. Names(AlwaysFeatures) \cap Names(Avx512Features) = {}
    BY DEF Names, AlwaysFeatures, Avx512Features, Leaves, Basic, Extended
  <1>4. /\ OsSseFeatures \cap (A \cup X \cup ExtraNames) = {}
        /\ A \cap (X \cup ExtraNames) = {}
        /\ X \cap ExtraNames = {}
    BY DEF OsSseFeatures, ExtraNames
  <1> HIDE DEF A, X
  <1>5. Names(AvxFeatures) = A /\ Names(AmxFeatures) = X
    BY NamesInTables DEF A, X
  <1> QED BY <1>1, <1>2, <1>3, <1>4, <1>5

-------------------------------------------------------------------------------
(***************************************************************************)
(* The inductive invariant: the leaves are those that the processor has,   *)
(* and until the AMD features are parsed os_preserves is true only of      *)
(* registers that the system lets applications use.                        *)
(***************************************************************************)
LeavesExact ==
  leaves = [l \in Leaves |-> IF HasLeaf(l) THEN cpu.cpuid[l] ELSE {}]

Control ==
  /\ pc \in {"read", "parse", "extra", "done"}
  /\ pc \in {"read", "parse"} => features = {} /\ os_preserves = {}
  /\ pc \in {"parse", "extra"} => LeavesExact
  /\ "sse" \in os_preserves => SaysSse("sse") \/ Saves({"XMM"})
  /\ "avx" \in os_preserves => Saves({"XMM", "YMM"})

Machine == cpu \in Cpus /\ system \in Systems(cpu)

IInv ==
  Machine /\ Control /\ NoFeatureOfMissingLeaf /\ VectorNeedsOs /\ WiderImpliesNarrower

\* What Bits takes from the leaves is a name of the table, and the processor has it.
LEMMA BitsAreReal ==
  ASSUME LeavesExact, NEW table, NEW f \in Bits(table)
  PROVE  f \in Names(table) /\ CpuHas(f)
  BY DEF LeavesExact, Bits, Names, CpuHas

\* Where XGETBV may be used, as the code finds it and as the processor says it.
LEMMA HaveXcr0Exact ==
  ASSUME LeavesExact PROVE HaveXcr0 <=> HasXgetbv
  BY DEF LeavesExact, HaveXcr0, HasXgetbv, Leaves, Basic

\* The system reports SSE features only.
LEMMA FromOsIsSse ==
  ASSUME Machine
  PROVE  /\ DetectFeaturesFromOs \subseteq OsSseFeatures
         /\ ~HasXgetbv => \A f \in DetectFeaturesFromOs : SaysSse(f)
  <1>1. system.os \in {"linux", "freebsd", "macos", "windows"}
    BY SystemAssumption DEF SystemAssumption, Machine
  <1> QED BY <1>1 DEF DetectFeaturesFromOs, SaysSse

\* Before the first leaf is read nothing is reported.
LEMMA InitOK == Init => IInv
  BY DEF Init, IInv, Machine, Control, NoFeatureOfMissingLeaf, VectorNeedsOs,
         WiderImpliesNarrower

-------------------------------------------------------------------------------
\* What os_preserves means after XCR0, and the macOS exception, were looked at.
LEMMA SavedMeans ==
  ASSUME HasXgetbv, NEW saved, saved = OverrideOsPreserves(SavedByXcr0(system.xcr0))
  PROVE  /\ "sse" \in saved => Saves({"XMM"})
         /\ "avx" \in saved => Saves({"XMM", "YMM"})
         /\ "avx512" \in saved => UsesAvx512
         /\ "amx" \in saved => Saves({"XTILECFG", "XTILEDATA"})
  BY DEF OverrideOsPreserves, SavedByXcr0, HasMask, XmmMask, YmmMask, ZmmMask,
         TmmMask, Saves, UsesAvx512

\* Outside macOS the masks contain each other.
LEMMA MasksNested ==
  ASSUME system.os # "macos",
         NEW saved, saved = OverrideOsPreserves(SavedByXcr0(system.xcr0))
  PROVE  /\ "amx" \in saved => "avx512" \in saved
         /\ "avx512" \in saved => "avx" \in saved
         /\ "avx" \in saved => "sse" \in saved
  BY DEF OverrideOsPreserves, SavedByXcr0, HasMask, XmmMask, YmmMask, ZmmMask,
         TmmMask

\* Where a vector feature comes from.
LEMMA VectorBitsAreReal ==
  ASSUME LeavesExact, NEW saved, NEW f \in VectorBits(saved)
  PROVE  \/ f \in OsSseFeatures /\ "sse" \in saved /\ CpuHas(f)
         \/ f \in Names(AvxFeatures) /\ "avx" \in saved /\ CpuHas(f)
         \/ f \in Names(Avx512Features) /\ "avx512" \in saved /\ CpuHas(f)
         \/ f = "avx512_second_fma" /\ "avx512" \in saved
         \/ f \in Names(AmxFeatures) /\ "amx" \in saved /\ CpuHas(f)
  BY BitsAreReal, NamesInTables DEF VectorBits

\* ParseCpuId: each feature comes from one table, whose condition holds.
LEMMA ParseCpuIdOK ==
  ASSUME IInv, ParseCpuId PROVE IInv'
  <1>1. /\ LeavesExact /\ LeavesExact' /\ Machine /\ Machine'
        /\ pc' \in {"extra", "done"}
    BY DEF IInv, Machine, Control, ParseCpuId, machine, LeavesExact, HasLeaf
  <1>2. /\ HasXgetbv' = HasXgetbv
        /\ \A registers : Saves(registers)' = Saves(registers)
        /\ UsesAvx512' = UsesAvx512
        /\ \A f : SaysSse(f)' = SaysSse(f)
        /\ \A f : CpuHas(f)' = CpuHas(f)
        /\ system' = system
    BY DEF ParseCpuId, machine, HasXgetbv, Saves, UsesAvx512, SaysSse, CpuHas, HasLeaf
  <1>3. CASE HaveXcr0
    <2> DEFINE saved == os_preserves'
    <2>1. /\ saved = OverrideOsPreserves(SavedByXcr0(system.xcr0))
          /\ features' = Bits(AlwaysFeatures) \cup VectorBits(saved)
      BY <1>3 DEF ParseCpuId
    <2> HIDE DEF saved
    <2>2. HasXgetbv
      BY <1>1, <1>3, HaveXcr0Exact
    <2>3. /\ "sse" \in saved => Saves({"XMM"})
          /\ "avx" \in saved => Saves({"XMM", "YMM"})
          /\ "avx512" \in saved => UsesAvx512
          /\ "amx" \in saved => Saves({"XTILECFG", "XTILEDATA"})
      BY <2>1, <2>2, SavedMeans
    <2>4. ASSUME NEW f \in features'
          PROVE  \/ f \in Names(AlwaysFeatures) /\ CpuHas(f)
                 \/ f \in OsSseFeatures /\ Saves({"XMM"}) /\ CpuHas(f)
                 \/ f \in Names(AvxFeatures) /\ Saves({"XMM", "YMM"}) /\ CpuHas(f)
                 \/ f \in Names(Avx512Features) /\ UsesAvx512 /\ CpuHas(f)
                 \/ f = "avx512_second_fma" /\ UsesAvx512
                 \/ f \in Names(AmxFeatures) /\ CpuHas(f)
                      /\ Saves({"XTILECFG", "XTILEDATA"})
      BY <1>1, <2>1, <2>3, BitsAreReal, VectorBitsAreReal
    <2>5. NoFeatureOfMissingLeaf'
      BY <1>2, <2>4 DEF NoFeatureOfMissingLeaf
    <2>6. VectorNeedsOs'
      BY <1>2, <2>4, TablesDisjoint DEF VectorNeedsOs, ExtraNames
    <2>7. WiderImpliesNarrower'
      BY <1>2, <2>1, MasksNested DEF WiderImpliesNarrower, saved
    <2>8. Control'
      BY <1>1, <1>2, <2>3 DEF Control, saved
    <2> QED BY <1>1, <2>5, <2>6, <2>7, <2>8 DEF IInv
  <1>4. CASE ~HaveXcr0
    <2>1. /\ features' = Bits(AlwaysFeatures) \cup DetectFeaturesFromOs
          /\ os_preserves' = {r \in {"sse"} : "sse" \in features'}
      BY <1>4 DEF ParseCpuId
    <2>2. /\ DetectFeaturesFromOs \subseteq OsSseFeatures
          /\ \A f \in DetectFeaturesFromOs : SaysSse(f)
      BY <1>1, <1>4, HaveXcr0Exact, FromOsIsSse
    <2>3. ASSUME NEW f \in features'
          PROVE  \/ f \in Names(AlwaysFeatures) /\ CpuHas(f)
                 \/ f \in OsSseFeatures /\ SaysSse(f)
      BY <1>1, <2>1, <2>2, BitsAreReal
    <2>4. NoFeatureOfMissingLeaf'
      BY <1>2, <2>3 DEF NoFeatureOfMissingLeaf
    <2>5. VectorNeedsOs'
      BY <1>2, <2>3, TablesDisjoint DEF VectorNeedsOs, ExtraNames
    <2>6. WiderImpliesNarrower'
      BY <2>1 DEF WiderImpliesNarrower
    <2>7. Control'
      <3>1. "sse" \in features' => SaysSse("sse")
        BY <2>3, TablesDisjoint DEF OsSseFeatures
      <3> QED BY <1>1, <1>2, <2>1, <3>1 DEF Control
    <2> QED BY <1>1, <2>4, <2>5, <2>6, <2>7 DEF IInv
  <1> QED BY <1>3, <1>4

\* ParseExtraAMDCpuId adds what os_preserves vouches for.
LEMMA ParseExtraOK ==
  ASSUME IInv, ParseExtraAMDCpuId PROVE IInv'
  <1>1. /\ LeavesExact /\ Machine /\ Machine'
        /\ pc' = "done" /\ os_preserves' = os_preserves
    BY DEF IInv, Machine, Control, ParseExtraAMDCpuId, machine
  <1>2. /\ HasXgetbv' = HasXgetbv
        /\ \A registers : Saves(registers)' = Saves(registers)
        /\ UsesAvx512' = UsesAvx512
        /\ \A f : SaysSse(f)' = SaysSse(f)
        /\ \A f : CpuHas(f)' = CpuHas(f)
        /\ system' = system
    BY DEF ParseExtraAMDCpuId, machine, HasXgetbv, Saves, UsesAvx512, SaysSse, CpuHas, HasLeaf
  <1>3. ASSUME NEW l \in Leaves, NEW f \in leaves[l] PROVE CpuHas(f)
    BY <1>1, <1>3 DEF LeavesExact, CpuHas
  <1>4. ASSUME NEW f \in features'
        PROVE  \/ f \in features
               \/ f = "sse4a" /\ (SaysSse("sse") \/ Saves({"XMM"})) /\ CpuHas(f)
               \/ f = "fma4" /\ Saves({"XMM", "YMM"}) /\ CpuHas(f)
               \/ f = "uai" /\ CpuHas(f)
    BY <1>3 DEF ParseExtraAMDCpuId, IInv, Control, Leaves, Extended
  <1>5. NoFeatureOfMissingLeaf'
    BY <1>2, <1>4 DEF NoFeatureOfMissingLeaf, IInv
  <1>6. VectorNeedsOs'
    BY <1>2, <1>4, TablesDisjoint DEF VectorNeedsOs, IInv, ExtraNames
  <1>7. WiderImpliesNarrower'
    BY <1>1, <1>2 DEF WiderImpliesNarrower, IInv
  <1>8. Control'
    BY <1>1, <1>2 DEF Control, IInv
  <1> QED BY <1>1, <1>5, <1>6, <1>7, <1>8 DEF IInv

-------------------------------------------------------------------------------
\* Reading the leaves reports nothing; the other two actions are above.
LEMMA StepOK == IInv /\ [Next]_vars => IInv'
  <1> SUFFICES ASSUME IInv, [Next]_vars PROVE IInv'
    OBVIOUS
  <1>1. CASE ReadLeaves
    <2>1. LeavesExact'
      BY <1>1 DEF ReadLeaves, LeavesExact, SafeCpuIdEx, HasLeaf, machine
    <2>2. /\ machine' = machine /\ features' = features /\ os_preserves' = os_preserves
          /\ pc = "read" /\ pc' \in {"parse", "done"}
      BY <1>1 DEF ReadLeaves
    <2> QED BY <2>1, <2>2 DEF IInv, Machine, machine, Control, NoFeatureOfMissingLeaf,
                VectorNeedsOs, WiderImpliesNarrower
  <1>2. CASE ParseCpuId
    BY <1>2, ParseCpuIdOK
  <1>3. CASE ParseExtraAMDCpuId
    BY <1>3, ParseExtraOK
  <1>4. CASE UNCHANGED vars
    BY <1>4 DEF vars, machine, IInv, Machine, Control, LeavesExact, HasLeaf, SaysSse,
         HasXgetbv, Saves, UsesAvx512, CpuHas, NoFeatureOfMissingLeaf, VectorNeedsOs,
         WiderImpliesNarrower
  <1> QED BY <1>1, <1>2, <1>3, <1>4 DEF Next

\* What the invariant says holds in every reachable state.
LEMMA Invariance == Spec => []IInv
  BY InitOK, StepOK, PTL DEF Spec

\* For every processor, whatever its vendor, leaves and bits: no feature is taken
\* from a leaf that it does not have (SafeCpuIdEx, lines 148-158).
THEOREM MissingLeafCorrect == Spec => []NoFeatureOfMissingLeaf
  BY Invariance, PTL DEF IInv

\* On each of the four systems, for every value of XCR0, every sysctl and every
\* text file: a vector feature is reported only where its registers are saved.
THEOREM VectorNeedsOsCorrect == Spec => []VectorNeedsOs
  BY Invariance, PTL DEF IInv

\* For every value of XCR0 the registers trusted are closed downwards.
THEOREM WiderCorrect == Spec => []WiderImpliesNarrower
  BY Invariance, PTL DEF IInv

-------------------------------------------------------------------------------
(***************************************************************************)
(* The other direction, that nothing is withheld.  What the vector section *)
(* owes is there when ParseCpuId is over, and os_preserves then has what   *)
(* ParseExtraAMDCpuId will ask it for.                                     *)
(***************************************************************************)
VectorGiven ==
  /\ \A f \in Names(AlwaysFeatures) : CpuHas(f) => f \in features
  /\ \A f \in OsSseFeatures :
       SaysSse(f) \/ (Saves({"XMM"}) /\ CpuHas(f)) => f \in features
  /\ \A f \in Names(AvxFeatures) : Saves({"XMM", "YMM"}) /\ CpuHas(f) => f \in features
  /\ \A f \in Names(Avx512Features) : UsesAvx512 /\ CpuHas(f) => f \in features
  /\ \A f \in Names(AmxFeatures) : SavesTiles /\ CpuHas(f) => f \in features

ExtraReady ==
  /\ SaysSse("sse") \/ Saves({"XMM"}) => "sse" \in os_preserves
  /\ Saves({"XMM", "YMM"}) => "avx" \in os_preserves

\* NothingWithheld for all that is a bit of a leaf; the second FMA unit, which is
\* none, comes below.
BitsGiven ==
  (Done /\ cpu.vendor \in KnownVendors) =>
    /\ VectorGiven
    /\ cpu.vendor \in Amd =>
         /\ CpuHas("sse4a") /\ (SaysSse("sse") \/ Saves({"XMM"})) => "sse4a" \in features
         /\ CpuHas("fma4") /\ Saves({"XMM", "YMM"}) => "fma4" \in features
         /\ CpuHas("uai") => "uai" \in features

GivenInv ==
  /\ pc = "parse" => cpu.vendor \in KnownVendors
  /\ pc = "extra" => cpu.vendor \in Amd /\ VectorGiven /\ ExtraReady
  /\ BitsGiven

\* A name that the processor has, and a table lists, is among the bits of the table.
LEMMA BitsAreAll ==
  ASSUME LeavesExact, Machine, NEW f, CpuHas(f),
         NEW table \in {AlwaysFeatures, SseFeatures, AvxFeatures, Avx512Features,
                        AmxFeatures},
         f \in Names(table)
  PROVE  f \in Bits(table)
  <1>1. PICK l \in Leaves : HasLeaf(l) /\ f \in cpu.cpuid[l]
    BY DEF CpuHas
  <1>2. PICK m \in Leaves : f \in table[m]
    BY DEF Names
  <1>3. f \in NamesIn(m)
    BY <1>2 DEF NamesIn
  <1>4. l = m
    BY <1>1, <1>3, LeafAssumption DEF LeafAssumption, Machine
  <1>5. f \in leaves[m]
    BY <1>1, <1>4 DEF LeavesExact
  <1> QED BY <1>2, <1>5 DEF Bits

\* The same for the features of AMD.
LEMMA ExtraBitsAreAll ==
  ASSUME LeavesExact, Machine, NEW f, CpuHas(f), NEW m \in Leaves,
         \/ f \in {"sse4a", "fma4"} /\ m = "leaf_80000001"
         \/ f = "uai" /\ m = "leaf_80000021"
  PROVE  f \in leaves[m]
  <1>1. PICK l \in Leaves : HasLeaf(l) /\ f \in cpu.cpuid[l]
    BY DEF CpuHas
  <1>2. f \in NamesIn(m)
    BY DEF NamesIn
  <1>3. l = m
    BY <1>1, <1>2, LeafAssumption DEF LeafAssumption, Machine
  <1> QED BY <1>1, <1>3 DEF LeavesExact

\* XCR0 lets through all that it allows.
LEMMA SavedIsAll ==
  ASSUME HasXgetbv, NEW saved, saved = OverrideOsPreserves(SavedByXcr0(system.xcr0))
  PROVE  /\ Saves({"XMM"}) => "sse" \in saved
         /\ Saves({"XMM", "YMM"}) => "avx" \in saved
         /\ UsesAvx512 => "avx512" \in saved
         /\ SavesTiles => "amx" \in saved
  BY DEF OverrideOsPreserves, SavedByXcr0, HasMask, XmmMask, YmmMask, ZmmMask,
         TmmMask, Saves, UsesAvx512, SavesTiles

\* What the system says of SSE is all taken over.
LEMMA FromOsIsAll ==
  ASSUME Machine, NEW f \in OsSseFeatures, SaysSse(f)
  PROVE  f \in DetectFeaturesFromOs
  <1>1. system.os \in {"linux", "freebsd", "macos", "windows"}
    BY SystemAssumption DEF SystemAssumption, Machine
  <1> QED BY <1>1 DEF DetectFeaturesFromOs, SaysSse

\* ParseCpuId reports all that the vector section owes.
LEMMA ParseCpuIdGives ==
  ASSUME IInv, ParseCpuId
  PROVE  VectorGiven' /\ ExtraReady'
  <1>1. LeavesExact /\ Machine
    BY DEF IInv, Control, ParseCpuId
  <1>2. /\ HasXgetbv' = HasXgetbv
        /\ \A registers : Saves(registers)' = Saves(registers)
        /\ UsesAvx512' = UsesAvx512 /\ SavesTiles' = SavesTiles
        /\ \A f : SaysSse(f)' = SaysSse(f)
        /\ \A f : CpuHas(f)' = CpuHas(f)
    BY DEF ParseCpuId, machine, HasXgetbv, Saves, UsesAvx512, SavesTiles, SaysSse, CpuHas, HasLeaf
  <1>3. CASE HaveXcr0
    <2> DEFINE saved == os_preserves'
    <2>1. /\ saved = OverrideOsPreserves(SavedByXcr0(system.xcr0))
          /\ features' = Bits(AlwaysFeatures) \cup VectorBits(saved)
      BY <1>3 DEF ParseCpuId
    <2> HIDE DEF saved
    <2>2. HasXgetbv /\ \A f : ~SaysSse(f)
      BY <1>1, <1>3, HaveXcr0Exact DEF SaysSse
    <2>3. /\ Saves({"XMM"}) => "sse" \in saved
          /\ Saves({"XMM", "YMM"}) => "avx" \in saved
          /\ UsesAvx512 => "avx512" \in saved
          /\ SavesTiles => "amx" \in saved
      BY <2>1, <2>2, SavedIsAll
    <2>4. ASSUME NEW f \in OsSseFeatures, Saves({"XMM"}), CpuHas(f)
          PROVE  f \in features'
      BY <1>1, <2>1, <2>3, <2>4, BitsAreAll, NamesInTables DEF VectorBits
    <2>5. ASSUME NEW f \in Names(AvxFeatures), Saves({"XMM", "YMM"}), CpuHas(f)
          PROVE  f \in features'
      BY <1>1, <2>1, <2>3, <2>5, BitsAreAll DEF VectorBits
    <2>6. ASSUME NEW f \in Names(Avx512Features), UsesAvx512, CpuHas(f)
          PROVE  f \in features'
      BY <1>1, <2>1, <2>3, <2>6, BitsAreAll DEF VectorBits
    <2>7. ASSUME NEW f \in Names(AmxFeatures), SavesTiles, CpuHas(f)
          PROVE  f \in features'
      BY <1>1, <2>1, <2>3, <2>7, BitsAreAll DEF VectorBits
    <2>8. ASSUME NEW f \in Names(AlwaysFeatures), CpuHas(f)
          PROVE  f \in features'
      BY <1>1, <2>1, <2>8, BitsAreAll
    <2>9. VectorGiven'
      BY <1>2, <2>2, <2>4, <2>5, <2>6, <2>7, <2>8 DEF VectorGiven
    <2>10. ExtraReady'
      BY <1>2, <2>2, <2>3 DEF ExtraReady, saved
    <2> QED BY <2>9, <2>10
  <1>4. CASE ~HaveXcr0
    <2>1. /\ features' = Bits(AlwaysFeatures) \cup DetectFeaturesFromOs
          /\ os_preserves' = {r \in {"sse"} : "sse" \in features'}
      BY <1>4 DEF ParseCpuId
    <2>2. /\ ~HasXgetbv /\ ~UsesAvx512 /\ ~SavesTiles
          /\ \A registers : ~Saves(registers)
      BY <1>1, <1>4, HaveXcr0Exact DEF Saves, UsesAvx512, SavesTiles
    <2>3. \A f \in OsSseFeatures : SaysSse(f) => f \in features'
      BY <1>1, <2>1, FromOsIsAll
    <2>4. ASSUME NEW f \in Names(AlwaysFeatures), CpuHas(f)
          PROVE  f \in features'
      BY <1>1, <2>1, <2>4, BitsAreAll
    <2>5. VectorGiven'
      BY <1>2, <2>2, <2>3, <2>4 DEF VectorGiven
    <2>6. ExtraReady'
      BY <1>2, <2>1, <2>2, <2>3 DEF ExtraReady, OsSseFeatures
    <2> QED BY <2>5, <2>6
  <1> QED BY <1>3, <1>4

LEMMA GivenInit == Init => GivenInv
  BY DEF Init, GivenInv, BitsGiven, Done

LEMMA GivenStep == IInv /\ GivenInv /\ [Next]_vars => GivenInv'
  <1> SUFFICES ASSUME IInv, GivenInv, [Next]_vars PROVE GivenInv'
    OBVIOUS
  <1>1. CASE ReadLeaves
    BY <1>1 DEF ReadLeaves, machine, GivenInv, BitsGiven, Done
  <1>2. CASE ParseCpuId
    <2>1. VectorGiven' /\ ExtraReady'
      BY <1>2, ParseCpuIdGives
    <2>2. /\ pc' = IF cpu.vendor \in Amd THEN "extra" ELSE "done"
          /\ cpu' = cpu
      BY <1>2 DEF ParseCpuId, machine
    <2>3. BitsGiven'
      BY <2>1, <2>2 DEF BitsGiven, Done
    <2> QED BY <2>1, <2>2, <2>3 DEF GivenInv
  <1>3. CASE ParseExtraAMDCpuId
    <2>1. /\ LeavesExact /\ Machine /\ VectorGiven /\ ExtraReady
          /\ pc' = "done" /\ features \subseteq features'
      BY <1>3 DEF ParseExtraAMDCpuId, IInv, Control, GivenInv
    <2>2. /\ \A registers : Saves(registers)' = Saves(registers)
          /\ UsesAvx512' = UsesAvx512 /\ SavesTiles' = SavesTiles
          /\ \A f : SaysSse(f)' = SaysSse(f)
          /\ \A f : CpuHas(f)' = CpuHas(f)
          /\ cpu' = cpu
      BY <1>3 DEF ParseExtraAMDCpuId, machine, HasXgetbv, Saves, UsesAvx512, SavesTiles,
                  SaysSse, CpuHas, HasLeaf
    <2>3. VectorGiven'
      BY <2>1, <2>2 DEF VectorGiven
    <2>4. "leaf_80000001" \in Leaves /\ "leaf_80000021" \in Leaves
      BY DEF Leaves, Extended
    <2>5. CpuHas("sse4a") /\ (SaysSse("sse") \/ Saves({"XMM"})) => "sse4a" \in features'
      BY <1>3, <2>1, <2>4, ExtraBitsAreAll DEF ParseExtraAMDCpuId, ExtraReady
    <2>6. CpuHas("fma4") /\ Saves({"XMM", "YMM"}) => "fma4" \in features'
      BY <1>3, <2>1, <2>4, ExtraBitsAreAll DEF ParseExtraAMDCpuId, ExtraReady
    <2>7. CpuHas("uai") => "uai" \in features'
      BY <1>3, <2>1, <2>4, ExtraBitsAreAll DEF ParseExtraAMDCpuId
    <2>8. BitsGiven'
      BY <2>2, <2>3, <2>5, <2>6, <2>7 DEF BitsGiven
    <2> QED BY <2>1, <2>8 DEF GivenInv
  <1>4. CASE UNCHANGED vars
    BY <1>4 DEF vars, machine, GivenInv, VectorGiven, ExtraReady, BitsGiven, Done,
         HasLeaf, SaysSse, HasXgetbv, Saves, UsesAvx512, SavesTiles, CpuHas
  <1> QED BY <1>1, <1>2, <1>3, <1>4 DEF Next

-------------------------------------------------------------------------------
(***************************************************************************)
(* The second FMA unit, which no bit of a leaf tells: it is found by model *)
(* and brand string.  The invariant says what was read and what became of  *)
(* it; that the models are those of the table and the places those of the  *)
(* names is about operators only.                                          *)
(***************************************************************************)

\* A name that starts with Xeon is that of a Xeon, and what follows stands at 17.
LEMMA XeonLetter ==
  ASSUME NEW brand, NEW name, NamedXeon(brand, name)
  PROVE  Xeon(brand) /\ Reads(brand, 17, name)
  BY DEF NamedXeon, Reads, Xeon

\* Where the code looks for a Gold of the series 5.
LEMMA Gold5Letters ==
  ASSUME NEW brand, NamedGold5(brand)
  PROVE  Xeon(brand) /\ brand[17] = "G" /\ brand[22] = "5"
  <1> DEFINE name == <<"G", "o", "l", "d", " ", "5">>
  <1>1. Xeon(brand) /\ Reads(brand, 17, name)
    BY XeonLetter DEF NamedGold5
  <1>2. 1 \in DOMAIN name /\ 6 \in DOMAIN name /\ name[1] = "G" /\ name[6] = "5"
    OBVIOUS
  <1> HIDE DEF name
  <1>3. brand[17 + 1 - 1] = "G" /\ brand[17 + 6 - 1] = "5"
    BY <1>1, <1>2 DEF Reads
  <1> QED BY <1>1, <1>3

\* At model 55 (hex) the places that HasSecondFMA looks at tell the products with
\* one unit from the others by their names.
LEMMA NamesTell ==
  ASSUME NEW brand, NEW product, NamedAs(brand, product)
  PROVE  HasSecondFMA(\h55, brand) <=> product \notin SingleFmaProducts
  <1> DEFINE second == Xeon(brand) => /\ ~SilverOrBronze(brand)
                                      /\ Gold5(brand) => BigGold5(brand)
                                      /\ ~W210x(brand) /\ ~D21xx(brand)
             single == product \in SingleFmaProducts
  <1>0. HasSecondFMA(\h55, brand) <=> second
    BY DEF HasSecondFMA
  <1> SUFFICES second <=> ~single
    BY <1>0
  <1>1. CASE product = "Core"
    <2>1. brand[9] = "C"
      BY <1>1 DEF NamedAs, Reads
    <2> QED BY <1>1, <2>1 DEF Xeon, SingleFmaProducts
  <1>2. CASE product = "Platinum"
    <2>1. Reads(brand, 17, <<"P", "l", "a", "t">>)
      BY <1>2, XeonLetter DEF NamedAs
    <2>2. brand[17] = "P"
      BY <2>1 DEF Reads
    <2> QED BY <1>2, <2>2 DEF SilverOrBronze, Gold5, W210x, D21xx, SingleFmaProducts
  <1>3. CASE product \in {"Silver", "Bronze"}
    <2>1. /\ Xeon(brand)
          /\ \/ Reads(brand, 17, <<"S", "i", "l", "v">>)
             \/ Reads(brand, 17, <<"B", "r", "o", "n">>)
      BY <1>3, XeonLetter DEF NamedAs
    <2>2. brand[17] \in {"S", "B"}
      BY <2>1 DEF Reads
    <2> QED BY <1>3, <2>1, <2>2 DEF SilverOrBronze, SingleFmaProducts
  <1>4. CASE product = "Gold 6"
    <2> DEFINE name == <<"G", "o", "l", "d", " ", "6">>
    <2>1. Reads(brand, 17, name)
      BY <1>4, XeonLetter DEF NamedAs
    <2>2. 1 \in DOMAIN name /\ 6 \in DOMAIN name /\ name[1] = "G" /\ name[6] = "6"
      OBVIOUS
    <2> HIDE DEF name
    <2>3. brand[17 + 1 - 1] = "G" /\ brand[17 + 6 - 1] = "6"
      BY <2>1, <2>2 DEF Reads
    <2>4. brand[17] = "G" /\ brand[22] = "6"
      BY <2>3
    <2> QED BY <1>4, <2>4 DEF SilverOrBronze, Gold5, W210x, D21xx, SingleFmaProducts
  <1>5. CASE product \in {"Gold 53", "Gold 5_22", "Gold 5_20 and below"}
    <2>1. NamedGold5(brand)
      BY <1>5 DEF NamedAs
    <2>2. Xeon(brand) /\ brand[17] = "G" /\ brand[22] = "5"
      BY <2>1, Gold5Letters
    <2>3. second <=> BigGold5(brand)
      BY <2>2 DEF SilverOrBronze, Gold5, W210x, D21xx
    <2>4. CASE product = "Gold 53"
      <3>1. Reads(brand, 23, <<"3">>)
        BY <2>4 DEF NamedAs
      <3>2. brand[23] = "3"
        BY <3>1 DEF Reads
      <3> QED BY <2>3, <2>4, <3>2 DEF BigGold5, SingleFmaProducts
    <2>5. CASE product = "Gold 5_22"
      <3>1. Reads(brand, 24, <<"2", "2">>)
        BY <2>5 DEF NamedAs
      <3>2. brand[24] = "2" /\ brand[25] = "2"
        BY <3>1 DEF Reads
      <3> QED BY <2>3, <2>5, <3>2 DEF BigGold5, SingleFmaProducts
    <2>6. CASE product = "Gold 5_20 and below"
      <3>1. /\ brand[23] # "3"
            /\ brand[24] \in {"0", "1"} \/ Reads(brand, 24, <<"2", "0">>)
        BY <2>6 DEF NamedAs
      <3>2. Reads(brand, 24, <<"2", "0">>) => brand[25] = "0"
        BY DEF Reads
      <3> QED BY <2>3, <2>6, <3>1, <3>2 DEF BigGold5, SingleFmaProducts
    <2> QED BY <1>5, <2>4, <2>5, <2>6
  <1>6. CASE product = "other W"
    <2>1. Reads(brand, 17, <<"W", "-">>) /\ brand[21] # "0"
      BY <1>6, XeonLetter DEF NamedAs
    <2>2. brand[17] = "W"
      BY <2>1 DEF Reads
    <2> QED BY <1>6, <2>1, <2>2 DEF SilverOrBronze, Gold5, W210x, D21xx,
                SingleFmaProducts
  <1>7. CASE product = "W 210x"
    <2>1. Xeon(brand) /\ Reads(brand, 17, <<"W", "-", "2", "1", "0">>)
      BY <1>7, XeonLetter DEF NamedAs
    <2>2. brand[17] = "W" /\ brand[21] = "0"
      BY <2>1 DEF Reads
    <2> QED BY <1>7, <2>1, <2>2 DEF W210x, SingleFmaProducts
  <1>8. CASE product = "D 2xxx"
    <2>1. Xeon(brand) /\ Reads(brand, 17, <<"D", "-", "2", "1">>)
      BY <1>8, XeonLetter DEF NamedAs
    <2>2. brand[17] = "D" /\ brand[19] = "2" /\ brand[20] = "1"
      BY <2>1 DEF Reads
    <2> QED BY <1>8, <2>1, <2>2 DEF D21xx, SingleFmaProducts
  <1> QED BY <1>1, <1>2, <1>3, <1>4, <1>5, <1>6, <1>7, <1>8 DEF NamedAs

\* What the table says of the processors that HasSecondFMA looks for: each of the
\* models stands in rows of its own.
LEMMA UarchOfModel ==
  ASSUME NEW id, id.model \in 0 .. 255,
         NEW uarch, uarch = GetX86Microarchitecture("GenuineIntel", id),
         uarch # "X86_UNKNOWN"
  PROVE  /\ uarch = "INTEL_CNL" <=> id.model = 102
         /\ uarch = "INTEL_ICL" <=> id.model \in {\h7D, \h7E, \h9D, \h6A, \h6C}
         /\ uarch \in {"INTEL_SKL", "INTEL_CCL"} <=> id.model \in {\h4E, \h5E, \h55}
  <1> DEFINE rows == RowsOf("GenuineIntel", id.stepping)
             fits == {r \in rows : r.family = id.family % 256 /\ id.model % 256 \in r.models}
  <1>1. fits # {} /\ uarch = (CHOOSE r \in fits : TRUE).uarch
    BY DEF GetX86Microarchitecture
  <1> HIDE DEF fits
  <1>2. PICK r \in fits : uarch = r.uarch
    BY <1>1
  <1>3. r \in rows /\ id.model \in r.models
    BY <1>2 DEF fits
  <1>4. r \in IntelRows \cup LaterIntelRows \cup IntelSteppings(id.stepping)
    BY <1>3 DEF RowsOf
  <1>5. CASE r \in IntelRows
    BY <1>2, <1>3, <1>5, SMTT(30) DEF IntelRows, Row
  <1>6. CASE r \in LaterIntelRows
    BY <1>2, <1>3, <1>6, SMTT(30) DEF LaterIntelRows, Row
  <1>7. CASE r \in IntelSteppings(id.stepping)
    BY <1>2, <1>3, <1>7, SMTT(30) DEF IntelSteppings, Row
  <1> QED BY <1>4, <1>5, <1>6, <1>7

\* What ReadLeaves leaves of the signature and of the brand string.
IdentityRead ==
  /\ signature = IF cpu.max_cpuid_leaf >= 1 THEN cpu.signature ELSE 0
  /\ brand_string = [n \in BRAND |->
       IF 2 + n \div 16 <= cpu.max_cpuid_leaf_ext THEN cpu.brand[n] ELSE "NUL"]

SecondUnitFound ==
  /\ info = Identity(signature)
  /\ "avx512_second_fma" \in features
       <=> UsesAvx512 /\ HasSecondFMA(info.model, brand_string)

FmaInv ==
  /\ pc # "read" => IdentityRead
  /\ pc = "extra" \/ (pc = "done" /\ cpu.vendor \in KnownVendors) => SecondUnitFound

\* The second unit is in the vector section only.
LEMMA SecondUnitNotABit ==
  ASSUME LeavesExact, Machine
  PROVE  /\ \A saved : "avx512_second_fma" \in VectorBits(saved)
               <=> "avx512" \in saved /\ HasSecondFMA(Model(signature), brand_string)
         /\ "avx512_second_fma" \notin Bits(AlwaysFeatures)
         /\ "avx512_second_fma" \notin DetectFeaturesFromOs
  <1> DEFINE f == "avx512_second_fma"
  <1>1. f \in ExtraNames
    BY DEF ExtraNames
  <1>2. /\ f \notin Names(AlwaysFeatures) /\ f \notin OsSseFeatures
        /\ f \notin Names(AvxFeatures) /\ f \notin Names(Avx512Features)
        /\ f \notin Names(AmxFeatures)
    BY <1>1, TablesDisjoint
  <1>3. /\ f \notin Bits(AlwaysFeatures) /\ f \notin Bits(SseFeatures)
        /\ f \notin Bits(AvxFeatures) /\ f \notin Bits(Avx512Features)
        /\ f \notin Bits(AmxFeatures)
    BY <1>2, BitsAreReal, NamesInTables
  <1>4. f \notin DetectFeaturesFromOs
    BY <1>2, FromOsIsSse
  <1> HIDE DEF f
  <1>5. ASSUME NEW saved
        PROVE  f \in VectorBits(saved)
                 <=> /\ "avx512" \in saved
                     /\ f \in {g \in {"avx512_second_fma"} :
                                 HasSecondFMA(Model(signature), brand_string)}
    BY <1>3 DEF VectorBits
  <1> QED BY <1>3, <1>4, <1>5 DEF f

\* ParseCpuId looks for the second unit where AVX-512 may be used.
LEMMA ParseCpuIdFindsUnit ==
  ASSUME IInv, ParseCpuId
  PROVE  SecondUnitFound'
  <1> DEFINE f == "avx512_second_fma"
  <1>1. LeavesExact /\ Machine
    BY DEF IInv, Control, ParseCpuId
  <1>2. /\ UsesAvx512' = UsesAvx512
        /\ info' = Identity(signature) /\ signature' = signature
        /\ brand_string' = brand_string
    BY DEF ParseCpuId, machine, HasXgetbv, Saves, UsesAvx512, HasLeaf
  <1>3. info'.model = Model(signature)
    BY <1>2 DEF Identity
  <1>4. CASE HaveXcr0
    <2> DEFINE saved == os_preserves'
    <2>1. /\ saved = OverrideOsPreserves(SavedByXcr0(system.xcr0))
          /\ features' = Bits(AlwaysFeatures) \cup VectorBits(saved)
      BY <1>4 DEF ParseCpuId
    <2> HIDE DEF saved
    <2>2. HasXgetbv
      BY <1>1, <1>4, HaveXcr0Exact
    <2>3. "avx512" \in saved <=> UsesAvx512
      BY <2>1, <2>2, SavedMeans, SavedIsAll
    <2>4. f \in features' <=> UsesAvx512 /\ HasSecondFMA(Model(signature), brand_string)
      BY <1>1, <2>1, <2>3, SecondUnitNotABit
    <2> QED BY <1>2, <1>3, <2>4 DEF SecondUnitFound
  <1>5. CASE ~HaveXcr0
    <2>1. features' = Bits(AlwaysFeatures) \cup DetectFeaturesFromOs
      BY <1>5 DEF ParseCpuId
    <2>2. ~UsesAvx512
      BY <1>1, <1>5, HaveXcr0Exact DEF Saves, UsesAvx512
    <2>3. f \notin features'
      BY <1>1, <2>1, SecondUnitNotABit
    <2> QED BY <1>2, <2>2, <2>3 DEF SecondUnitFound
  <1> QED BY <1>4, <1>5

LEMMA FmaInit == Init => FmaInv
  BY DEF Init, FmaInv

LEMMA FmaStep == IInv /\ FmaInv /\ [Next]_vars => FmaInv'
  <1> SUFFICES ASSUME IInv, FmaInv, [Next]_vars PROVE FmaInv'
    OBVIOUS
  <1>1. CASE ReadLeaves
    <2>1. IdentityRead'
      BY <1>1 DEF ReadLeaves, machine, IdentityRead
    <2>2. pc' # "extra" /\ ~(pc' = "done" /\ cpu'.vendor \in KnownVendors)
      BY <1>1 DEF ReadLeaves, machine
    <2> QED BY <2>1, <2>2 DEF FmaInv
  <1>2. CASE ParseCpuId
    <2>1. SecondUnitFound'
      BY <1>2, ParseCpuIdFindsUnit
    <2>2. IdentityRead'
      BY <1>2 DEF ParseCpuId, machine, FmaInv, IdentityRead
    <2> QED BY <2>1, <2>2 DEF FmaInv
  <1>3. CASE ParseExtraAMDCpuId
    <2>1. "avx512_second_fma" \in features' <=> "avx512_second_fma" \in features
      BY <1>3 DEF ParseExtraAMDCpuId
    <2>2. SecondUnitFound /\ IdentityRead
      BY <1>3 DEF ParseExtraAMDCpuId, FmaInv
    <2>3. /\ UsesAvx512' = UsesAvx512 /\ cpu' = cpu
          /\ signature' = signature /\ brand_string' = brand_string /\ info' = info
      BY <1>3 DEF ParseExtraAMDCpuId, machine, identity, HasXgetbv, Saves, UsesAvx512,
                  HasLeaf
    <2>4. SecondUnitFound'
      BY <2>1, <2>2, <2>3 DEF SecondUnitFound
    <2>5. IdentityRead'
      BY <2>2, <2>3 DEF IdentityRead
    <2> QED BY <2>4, <2>5 DEF FmaInv
  <1>4. CASE UNCHANGED vars
    BY <1>4 DEF vars, machine, identity, FmaInv, SecondUnitFound, IdentityRead,
         HasLeaf, HasXgetbv, Saves, UsesAvx512
  <1> QED BY <1>1, <1>2, <1>3, <1>4 DEF Next

\* A signature is a register: the model has eight bits.
LEMMA ModelIsByte ==
  ASSUME NEW eax \in Nat
  PROVE  Identity(eax).model = Model(eax) /\ Model(eax) \in 0 .. 255
  BY DEF Identity, Model, ExtractBitRange

LEMMA SecondFmaOK ==
  ASSUME IInv, FmaInv
  PROVE  SecondFmaByUarch
  <1> DEFINE uarch == GetX86Microarchitecture(cpu.vendor, info)
             told == "avx512_second_fma" \in features
             single == cpu.product \in SingleFmaProducts
  <1> SUFFICES ASSUME Done, cpu.vendor = "GenuineIntel", UsesAvx512,
                      cpu.max_cpuid_leaf_ext >= 4, uarch # "X86_UNKNOWN"
               PROVE  told <=> ~ \/ uarch = "INTEL_CNL"
                                 \/ /\ uarch = "INTEL_ICL"
                                    /\ ~(info.model \in {\h6A, \h6C, \h9D})
                                 \/ uarch \in {"INTEL_SKL", "INTEL_CCL"} /\ single
    BY DEF SecondFmaByUarch
  <1>1. Machine /\ IdentityRead /\ SecondUnitFound
    BY DEF IInv, FmaInv, Done, KnownVendors
  <1>2. HasXgetbv
    BY DEF UsesAvx512, Saves
  <1>3. cpu.max_cpuid_leaf >= 1
    BY <1>2 DEF HasXgetbv, HasLeaf, Number, Basic
  <1>4. info = Identity(cpu.signature)
    BY <1>1, <1>3 DEF IdentityRead, SecondUnitFound
  <1>5. /\ cpu.signature \in Nat /\ cpu.max_cpuid_leaf_ext \in Nat
        /\ info.model = \h55 => NamedAs(cpu.brand, cpu.product)
        /\ info.model \in {\h4E, \h5E} => ~single
    BY <1>1, <1>4, BrandAssumption DEF BrandAssumption, Machine
  <1>6. info.model \in 0 .. 255
    BY <1>4, <1>5, ModelIsByte
  <1>7. /\ uarch = "INTEL_CNL" <=> info.model = 102
        /\ uarch = "INTEL_ICL" <=> info.model \in {\h7D, \h7E, \h9D, \h6A, \h6C}
        /\ uarch \in {"INTEL_SKL", "INTEL_CCL"} <=> info.model \in {\h4E, \h5E, \h55}
    BY <1>6, UarchOfModel
  <1>8. \A n \in BRAND : brand_string[n] = cpu.brand[n]
    <2>1. \A n \in BRAND : 2 + n \div 16 \in 0 .. 4
      BY DEF BRAND
    <2>2. \A n \in BRAND : 2 + n \div 16 <= cpu.max_cpuid_leaf_ext
      BY <1>5, <2>1
    <2> QED BY <1>1, <2>2 DEF IdentityRead
  <1>9. HasSecondFMA(\h55, brand_string) <=> HasSecondFMA(\h55, cpu.brand)
    <2>1. /\ 9 \in BRAND /\ 17 \in BRAND /\ 19 \in BRAND /\ 20 \in BRAND
          /\ 21 \in BRAND /\ 22 \in BRAND /\ 23 \in BRAND /\ 24 \in BRAND
          /\ 25 \in BRAND
      BY DEF BRAND
    <2> QED BY <1>8, <2>1 DEF HasSecondFMA, Xeon, SilverOrBronze, Gold5, BigGold5,
                W210x, D21xx
  <1>10. told <=> HasSecondFMA(info.model, brand_string)
    BY <1>1 DEF SecondUnitFound
  <1> HIDE DEF uarch, told, single
  <1>11. CASE info.model = \h55
    <2>1. HasSecondFMA(\h55, cpu.brand) <=> ~single
      BY <1>5, <1>11, NamesTell DEF single
    <2> QED BY <1>7, <1>9, <1>10, <1>11, <2>1
  <1>12. CASE info.model # \h55
    <2>1. HasSecondFMA(info.model, brand_string)
            <=> info.model # 102 /\ info.model \notin {125, 126}
      BY <1>12 DEF HasSecondFMA
    <2> QED BY <1>5, <1>7, <1>10, <1>12, <2>1
  <1> QED BY <1>11, <1>12

\* For every Intel processor that CPUID and the table know, every stepping and
\* every number of the products named: the second FMA unit is reported but for
\* Cannon Lake, Ice Lake clients and the lesser Skylake and Cascade Lake servers.
THEOREM SecondFmaCorrect == Spec => []SecondFmaByUarch
  <1>1. IInv /\ FmaInv => SecondFmaByUarch
    BY SecondFmaOK
  <1> QED BY Invariance, FmaInit, FmaStep, <1>1, PTL DEF Spec

\* A processor that keeps its second unit is one that HasSecondFMA finds, also
\* where some or all of the brand string is missing.
LEMMA UnitKept ==
  ASSUME IInv, FmaInv, Done, cpu.vendor \in KnownVendors, UsesAvx512, KeepsSecondFma
  PROVE  "avx512_second_fma" \in features
  <1>1. Machine /\ IdentityRead /\ SecondUnitFound
    BY DEF IInv, FmaInv, Done
  <1>2. cpu.max_cpuid_leaf >= 1
    BY DEF UsesAvx512, Saves, HasXgetbv, HasLeaf, Number, Basic
  <1>3. /\ info = Identity(cpu.signature) /\ info.model = Model(cpu.signature)
        /\ cpu.signature \in Nat /\ cpu.max_cpuid_leaf_ext \in Nat
    BY <1>1, <1>2, BrandAssumption DEF IdentityRead, SecondUnitFound, Identity,
       BrandAssumption, Machine
  <1>4. PICK model : model = info.model
    OBVIOUS
  <1>5. model \in 0 .. 255
    BY <1>3, <1>4, ModelIsByte
  <1>6. CASE model \notin {\h55, \h66, \h7D, \h7E}
    <2>1. HasSecondFMA(model, brand_string)
      BY <1>5, <1>6 DEF HasSecondFMA
    <2> QED BY <1>1, <1>4, <2>1 DEF SecondUnitFound
  <1>7. CASE model = \h55 /\ cpu.vendor = "GenuineIntel" /\ cpu.product \notin SingleFmaProducts
    <2>1. HasSecondFMA(\h55, cpu.brand)
      BY <1>1, <1>3, <1>4, <1>7, BrandAssumption, NamesTell DEF BrandAssumption, Machine
    <2>2. /\ 9 \in BRAND /\ 17 \in BRAND /\ 19 \in BRAND /\ 20 \in BRAND
          /\ 21 \in BRAND /\ 22 \in BRAND /\ 23 \in BRAND /\ 24 \in BRAND
          /\ 25 \in BRAND
      BY DEF BRAND
    <2>3. /\ 9 \div 16 = 0
          /\ \A n \in 17 .. 25 : n \div 16 = 1
      OBVIOUS
    <2>4. ASSUME cpu.max_cpuid_leaf_ext >= 3
          PROVE  HasSecondFMA(\h55, brand_string)
      <3>1. /\ \A n \in 17 .. 25 : brand_string[n] = cpu.brand[n]
            /\ brand_string[9] = cpu.brand[9]
        <4>1. \A n \in 17 .. 25 : n \in BRAND /\ 2 + n \div 16 = 3
          BY <2>3 DEF BRAND
        <4>2. 2 + 9 \div 16 = 2
          BY <2>3
        <4> QED BY <1>1, <1>3, <2>2, <2>4, <4>1, <4>2 DEF IdentityRead
      <3>2. HasSecondFMA(\h55, brand_string) <=> HasSecondFMA(\h55, cpu.brand)
        BY <3>1 DEF HasSecondFMA, Xeon, SilverOrBronze, Gold5, BigGold5, W210x, D21xx
      <3> QED BY <2>1, <3>2
    <2>5. ASSUME ~(cpu.max_cpuid_leaf_ext >= 3)
          PROVE  HasSecondFMA(\h55, brand_string)
      <3>1. brand_string[17] = "NUL"
        <4>1. 2 + 17 \div 16 = 3
          BY <2>3
        <4> QED BY <1>1, <1>3, <2>2, <2>5, <4>1 DEF IdentityRead
      <3>2. /\ ~SilverOrBronze(brand_string) /\ ~Gold5(brand_string)
            /\ ~W210x(brand_string) /\ ~D21xx(brand_string)
        BY <3>1 DEF SilverOrBronze, Gold5, W210x, D21xx
      <3> QED BY <3>2 DEF HasSecondFMA
    <2>6. HasSecondFMA(\h55, brand_string)
      BY <2>4, <2>5, Zenon
    <2> QED BY <1>1, <1>4, <1>7, <2>6 DEF SecondUnitFound
  <1> QED BY <1>3, <1>4, <1>6, <1>7 DEF KeepsSecondFma

\* For every processor of a known vendor and each of the four systems: every bit
\* that needs no registers, every vector feature of SSE, AVX, AVX-512, AMX and AMD
\* whose registers are saved, and the second FMA unit of every processor that the
\* comments do not take it from, is reported (310-477).
THEOREM NothingWithheldCorrect == Spec => []NothingWithheld
  <1>1. IInv /\ GivenInv /\ FmaInv => NothingWithheld
    <2> SUFFICES ASSUME IInv, GivenInv, FmaInv, Done, cpu.vendor \in KnownVendors
                 PROVE  NothingWithheld
      BY DEF NothingWithheld
    <2>1. UsesAvx512 /\ KeepsSecondFma => "avx512_second_fma" \in features
      BY UnitKept
    <2>2. BitsGiven
      BY DEF GivenInv
    <2> QED BY <2>1, <2>2 DEF NothingWithheld, BitsGiven, VectorGiven
  <1> QED BY Invariance, GivenInit, GivenStep, FmaInit, FmaStep, <1>1, PTL DEF Spec

-------------------------------------------------------------------------------
(***************************************************************************)
(* GetX86CacheInfo never stores behind the last slot of CacheInfo.levels,  *)
(* for any number of slots from 15 on, never a level of a leaf that the    *)
(* processor does not have, and never levels of leaf 2 next to levels of   *)
(* leaf 4.  ParseLeaf2 has no check for room: the argument is that AL is   *)
(* the first of the 16 bytes and never a descriptor, so at byte i there    *)
(* are at most i - 1 levels.                                               *)
(***************************************************************************)

\* What the levels are is of no interest here, only how many there are.
ASequence(s) == \E S : s \in Seq(S)

\* Append makes a sequence one longer, whatever it appends.
LEMMA AppendIsLonger ==
  ASSUME NEW s, ASequence(s), NEW x
  PROVE  /\ ASequence(Append(s, x))
         /\ Len(s) \in Nat
         /\ Len(Append(s, x)) = Len(s) + 1
<1>1. PICK S : s \in Seq(S)
  BY DEF ASequence
<1> DEFINE T == S \cup {x}
<1>2. s \in Seq(T)
  BY <1>1
<1>3. Append(s, x) \in Seq(T) /\ Len(Append(s, x)) = Len(s) + 1 /\ Len(s) \in Nat
  BY <1>2
<1>4. QED
  BY <1>3 DEF ASequence

\* Masking a register leaves four bytes, and a first byte of 0 stays 0.
LEMMA ValidBytesOK ==
  ASSUME NEW r, IsRegister(r)
  PROVE  IsRegister(ValidBytes(r)) /\ (r[1] = 0 => ValidBytes(r)[1] = 0)
<1>1. IsRegister(NoRegister) /\ NoRegister[1] = 0
  BY DEF IsRegister, NoRegister
<1>2. QED
  BY <1>1 DEF ValidBytes

\* Leaf 2 is four registers, also where the processor does not have it.
LEMMA LeafRegisters ==
  ASSUME cpuid \in Processors
  PROVE  /\ IsRegister(Leaf2.eax) /\ IsRegister(Leaf2.ebx)
         /\ IsRegister(Leaf2.ecx) /\ IsRegister(Leaf2.edx)
<1>1. IsRegister(NoRegister)
  BY DEF IsRegister, NoRegister
<1>2. /\ IsRegister(cpuid.leaf_2.eax) /\ IsRegister(cpuid.leaf_2.ebx)
      /\ IsRegister(cpuid.leaf_2.ecx) /\ IsRegister(cpuid.leaf_2.edx)
  BY CpuAssumption DEF CpuAssumption
<1>3. QED
  BY <1>1, <1>2 DEF Leaf2

HasBytes(s, n) == s \in Seq(0 .. 255) /\ Len(s) = n

\* Another register makes a sequence of bytes four longer; the first byte stays.
LEMMA RegisterAppended ==
  ASSUME NEW s, NEW n \in Nat, n >= 1, HasBytes(s, n),
         NEW r, IsRegister(r)
  PROVE  HasBytes(s \o r, n + 4) /\ (s \o r)[1] = s[1]
<1>1. /\ s \in Seq(0 .. 255) /\ Len(s) = n
      /\ r \in Seq(0 .. 255) /\ Len(r) = 4
  BY DEF HasBytes, IsRegister
<1>2. /\ s \o r \in Seq(0 .. 255)
      /\ Len(s \o r) = Len(s) + Len(r)
      /\ \A k \in 1 .. Len(s) + Len(r) :
           (s \o r)[k] = IF k <= Len(s) THEN s[k] ELSE r[k - Len(s)]
  BY <1>1, ConcatProperties
<1>3. 1 \in 1 .. Len(s) + Len(r) /\ 1 <= Len(s)
  BY <1>1
<1>4. QED
  BY <1>1, <1>2, <1>3 DEF HasBytes

\* There are 16 bytes in leaf 2, and AL, the first, is 0.
LEMMA DescriptorsOK ==
  ASSUME NEW leaf, IsRegister(leaf.eax), IsRegister(leaf.ebx),
         IsRegister(leaf.ecx), IsRegister(leaf.edx)
  PROVE  Len(Descriptors(leaf)) = 16 /\ Descriptors(leaf)[1] = 0
<1> DEFINE eax == [leaf.eax EXCEPT ![1] = 0]
           A == ValidBytes(eax)
           B == ValidBytes(leaf.ebx)
           C == ValidBytes(leaf.ecx)
           D == ValidBytes(leaf.edx)
<1>1. IsRegister(eax) /\ eax[1] = 0
  <2>1. leaf.eax \in Seq(0 .. 255) /\ Len(leaf.eax) = 4 /\ 1 \in 1 .. Len(leaf.eax)
          /\ 0 \in 0 .. 255
    BY DEF IsRegister
  <2>2. eax \in Seq(0 .. 255) /\ Len(eax) = Len(leaf.eax) /\ eax[1] = 0
    BY <2>1, ExceptSeq
  <2>3. QED
    BY <2>1, <2>2 DEF IsRegister
<1>2. IsRegister(A) /\ A[1] = 0
  BY <1>1, ValidBytesOK
<1>3. IsRegister(B) /\ IsRegister(C) /\ IsRegister(D)
  BY ValidBytesOK
<1> HIDE DEF A, B, C, D
<1>4. HasBytes(A, 4)
  BY <1>2 DEF HasBytes, IsRegister
<1>5. HasBytes(A \o B, 8) /\ (A \o B)[1] = 0
  BY <1>2, <1>3, <1>4, RegisterAppended, 4 \in Nat, 4 + 4 = 8, 4 >= 1
<1>6. HasBytes((A \o B) \o C, 12) /\ ((A \o B) \o C)[1] = 0
  BY <1>3, <1>5, RegisterAppended, 8 \in Nat, 8 + 4 = 12, 8 >= 1
<1>7. HasBytes(((A \o B) \o C) \o D, 16) /\ (((A \o B) \o C) \o D)[1] = 0
  BY <1>3, <1>6, RegisterAppended, 12 \in Nat, 12 + 4 = 16, 12 >= 1
<1>8. QED
  BY <1>7 DEF Descriptors, A, B, C, D, HasBytes

-------------------------------------------------------------------------------
\* The loop over leaf 2: AL adds no level, every other byte one at most.
Leaf2Inv ==
  stage = "leaf2" =>
    /\ i \in 0 .. 15
    /\ Len(data) = 16 /\ data[1] = 0
    /\ IF i = 0 THEN Len(levels) = 0 ELSE Len(levels) <= i - 1

\* The loop over the registers of older AMD processors: all four fit.
LegacyInv == stage = "legacy" => i \in 0 .. 3 /\ Len(levels) = i

\* The inductive invariant.
CacheInv ==
  /\ cpuid \in Processors
  /\ ASequence(levels) /\ ASequence(found)
  /\ stage = "dispatch" => i = 0 /\ levels = <<>>
  /\ Leaf2Inv
  /\ LegacyInv
  /\ LevelsInBounds

\* There are no levels to start with.
LEMMA InitInv == ASSUME CacheInit PROVE CacheInv
<1>1. ASequence(<<>>) /\ Len(<<>>) = 0
  BY DEF ASequence
<1>2. QED
  BY <1>1, MaxLevelAssumption
     DEF CacheInit, CacheInv, Leaf2Inv, LegacyInv, LevelsInBounds, MaxLevelAssumption

\* No step breaks the invariant.
LEMMA StepInv == ASSUME CacheInv, [CacheNext]_cachevars PROVE CacheInv'
<1> USE DEF CacheInv, Leaf2Inv, LegacyInv, LevelsInBounds
<1>0. CPU_FEATURES_MAX_CACHE_LEVEL \in Nat /\ CPU_FEATURES_MAX_CACHE_LEVEL >= 15
  BY MaxLevelAssumption DEF MaxLevelAssumption
<1>1. CASE GetX86CacheInfo
  <2>1. IsRegister(Leaf2.eax) /\ IsRegister(Leaf2.ebx)
          /\ IsRegister(Leaf2.ecx) /\ IsRegister(Leaf2.edx)
    BY LeafRegisters
  <2>2. Len(data') = 16 /\ data'[1] = 0
    BY <1>1, <2>1, DescriptorsOK DEF GetX86CacheInfo
  <2>3. stage' \in {"leaf2", "deterministic", "legacy", "done"} /\ i' = 0
          /\ levels' = levels /\ found' = found /\ cpuid' = cpuid
    BY <1>1 DEF GetX86CacheInfo
  <2>4. Len(levels') = 0
    <3>1. levels' = <<>>
      BY <1>1 DEF GetX86CacheInfo
    <3>2. QED
      BY <3>1
  <2>5. QED
    BY <1>0, <2>2, <2>3, <2>4
<1>2. CASE ParseLeaf2
  <2>1. /\ i \in 0 .. 15 /\ Len(data) = 16 /\ data[1] = 0
        /\ IF i = 0 THEN Len(levels) = 0 ELSE Len(levels) <= i - 1
        /\ cpuid' = cpuid /\ data' = data /\ found' = found
    BY <1>2 DEF ParseLeaf2
  <2>2. ASequence(levels') /\ Len(levels') \in Nat /\ Len(levels') <= i
    <3>1. CASE data[i + 1] = 0
      BY <1>2, <2>1, <3>1, AppendIsLonger DEF ParseLeaf2
    <3>2. CASE data[i + 1] # 0
      <4>1. i # 0
        BY <2>1, <3>2
      <4>2. levels' = Append(levels, GetCacheLevelInfo(data[i + 1]))
        BY <1>2, <3>2 DEF ParseLeaf2
      <4>3. ASequence(levels') /\ Len(levels') = Len(levels) + 1 /\ Len(levels) \in Nat
        BY <4>2, AppendIsLonger
      <4>4. QED
        BY <2>1, <4>1, <4>3
    <3>3. QED
      BY <3>1, <3>2
  <2>3. CASE i + 1 < Len(data)
    BY <1>0, <1>2, <2>1, <2>2, <2>3 DEF ParseLeaf2
  <2>4. CASE ~(i + 1 < Len(data))
    BY <1>0, <1>2, <2>1, <2>2, <2>4 DEF ParseLeaf2
  <2>5. QED
    BY <2>3, <2>4
<1>3. CASE ParseCacheInfo
  <2> DEFINE more == /\ Len(found) < CPU_FEATURES_MAX_CACHE_LEVEL
                     /\ SubLeaf(i).type \in 1 .. 3
  <2>1. CASE more
    <3>1. /\ found' = Append(found, LevelOf(SubLeaf(i)))
          /\ UNCHANGED <<cpuid, stage, levels>> /\ stage = "deterministic"
      BY <1>3, <2>1 DEF ParseCacheInfo
    <3>2. /\ ASequence(found') /\ Len(found) \in Nat
          /\ Len(found') = Len(found) + 1
      BY <3>1, AppendIsLonger
    <3>3. QED
      BY <1>0, <2>1, <3>1, <3>2
  <2>2. CASE ~more
    <3>1. /\ levels' \in {levels, found} /\ stage' = "done"
          /\ UNCHANGED <<cpuid, found>>
      BY <1>3, <2>2 DEF ParseCacheInfo
    <3>2. QED
      BY <3>1
  <2>3. QED
    BY <2>1, <2>2
<1>4. CASE ParseCacheInfoLegacyAMD
  <2>1. i \in 0 .. 3 /\ Len(levels) = i /\ UNCHANGED <<cpuid, data, found>>
    BY <1>4 DEF ParseCacheInfoLegacyAMD
  <2>2. CASE UNCHANGED <<i, levels>> /\ stage' = "done"
    BY <1>0, <2>1, <2>2
  <2>3. CASE /\ \E level : levels' = Append(levels, level)
             /\ i' = i + 1
             /\ stage' = IF i + 1 < LEGACY_AMD_MAX_CACHE_LEVEL THEN "legacy" ELSE "done"
    <3>1. ASequence(levels') /\ Len(levels') = i + 1
      BY <2>1, <2>3, AppendIsLonger
    <3>2. QED
      BY <1>0, <2>1, <2>3, <3>1 DEF LEGACY_AMD_MAX_CACHE_LEVEL
  <2>4. QED
    BY <1>4, <2>2, <2>3 DEF ParseCacheInfoLegacyAMD
<1>5. CASE UNCHANGED cachevars
  BY <1>5 DEF cachevars
<1>6. QED
  BY <1>1, <1>2, <1>3, <1>4, <1>5 DEF CacheNext

\* cpu_features_cache_info.h:43-46, the promise that 15 slots are enough: for
\* every processor and every number of slots from 15 on, no level of leaf 2,
\* of a sub-leaf or of a legacy register is stored behind the last slot.
THEOREM LevelsInBoundsCorrect == CacheSpec => []LevelsInBounds
<1>1. CacheInit => CacheInv
  BY InitInv
<1>2. CacheInv /\ [CacheNext]_cachevars => CacheInv'
  BY StepInv
<1>3. CacheInv => LevelsInBounds
  BY DEF CacheInv
<1>4. QED
  BY <1>1, <1>2, <1>3, PTL DEF CacheSpec

-------------------------------------------------------------------------------
\* Where the function is tells the vendor.
VendorInv ==
  /\ stage \in {"dispatch", "leaf2", "deterministic", "legacy", "done"}
  /\ stage = "leaf2" => cpuid.vendor \in IntelVendors
  /\ stage = "deterministic" =>
       cpuid.vendor \in IntelVendors \/ (cpuid.vendor \in AmdVendors /\ TopologyExtensions)
  /\ stage = "legacy" => cpuid.vendor \in AmdVendors /\ ~TopologyExtensions

\* No vendor is both.
LEMMA VendorsApart == ~(cpuid.vendor \in IntelVendors /\ cpuid.vendor \in AmdVendors)
  BY DEF IntelVendors, AmdVendors

\* The leaves are told apart by their numbers.
LEMMA LeavesAreNumbers ==
  ASSUME cpuid \in Processors
  PROVE  /\ cpuid.max_cpuid_leaf \in Nat /\ cpuid.max_cpuid_leaf_ext \in Nat
         /\ MaxLeaf \in Nat /\ LeafId \in Nat
  BY CpuAssumption DEF CpuAssumption, MaxLeaf, LeafId

\* Which leaves there are depends on the processor only.
LEMMA SameLeaves ==
  ASSUME cpuid' = cpuid
  PROVE  /\ MaxLeaf' = MaxLeaf /\ LeafId' = LeafId
         /\ TopologyExtensions' = TopologyExtensions
  BY DEF MaxLeaf, LeafId, TopologyExtensions

\* Where the function is tells the vendor, after every step.
LEMMA VendorStep == ASSUME VendorInv, [CacheNext]_cachevars PROVE VendorInv'
<1>1. cpuid' = cpuid
  BY DEF CacheNext, GetX86CacheInfo, ParseLeaf2, ParseCacheInfo, ParseCacheInfoLegacyAMD, cachevars
<1>2. CASE GetX86CacheInfo
  <2>1. stage' = CASE cpuid.vendor \in IntelVendors -> "leaf2"
                [] cpuid.vendor \in AmdVendors ->
                     IF TopologyExtensions THEN "deterministic" ELSE "legacy"
                [] OTHER -> "done"
    BY <1>2 DEF GetX86CacheInfo
  <2>2. ~(cpuid.vendor \in IntelVendors /\ cpuid.vendor \in AmdVendors)
    BY DEF IntelVendors, AmdVendors
  <2>3. QED
    BY <1>1, <2>1, <2>2, SameLeaves DEF VendorInv
<1>3. CASE ParseLeaf2
  BY <1>1, <1>3, SameLeaves DEF ParseLeaf2, VendorInv
<1>4. CASE ParseCacheInfo
  BY <1>1, <1>4, SameLeaves DEF ParseCacheInfo, VendorInv
<1>5. CASE ParseCacheInfoLegacyAMD
  <2>1. stage = "legacy" /\ stage' \in {"legacy", "done"}
    BY <1>5 DEF ParseCacheInfoLegacyAMD, VendorInv
  <2>2. QED
    BY <1>1, <2>1, SameLeaves DEF VendorInv
<1>6. CASE UNCHANGED cachevars
  BY <1>1, <1>6, SameLeaves DEF cachevars, VendorInv
<1>7. QED
  BY <1>2, <1>3, <1>4, <1>5, <1>6 DEF CacheNext

-------------------------------------------------------------------------------
(***************************************************************************)
(* The levels have one source.  Byte k of the 16 bytes of leaf 2 stands at *)
(* one place of the four registers; the loop over them has stored a level  *)
(* for every byte passed that is not 0, and the loop over the sub-leaves   *)
(* one for every sub-leaf passed.                                          *)
(***************************************************************************)
Places == (1 .. 4) \X (1 .. 4)
Byte(p) == 4 * (p[1] - 1) + p[2]

Joined(s, r) == s \o r

\* A register behind n bytes leaves them where they were; its own stand behind them.
LEMMA BytesJoined ==
  ASSUME NEW s, NEW n \in Nat, HasBytes(s, n), NEW r, IsRegister(r)
  PROVE  /\ HasBytes(Joined(s, r), n + 4)
         /\ \A k \in 1 .. n : Joined(s, r)[k] = s[k]
         /\ \A k \in 1 .. 4 : Joined(s, r)[n + k] = r[k]
<1>1. /\ s \in Seq(0 .. 255) /\ Len(s) = n
      /\ r \in Seq(0 .. 255) /\ Len(r) = 4
  BY DEF HasBytes, IsRegister
<1>2. /\ s \o r \in Seq(0 .. 255)
      /\ Len(s \o r) = Len(s) + Len(r)
      /\ \A k \in 1 .. Len(s) + Len(r) :
           (s \o r)[k] = IF k <= Len(s) THEN s[k] ELSE r[k - Len(s)]
  BY <1>1, ConcatProperties
<1>3. ASSUME NEW k \in 1 .. n PROVE (s \o r)[k] = s[k]
  <2>1. k \in 1 .. n + 4 /\ k <= n
    OBVIOUS
  <2>2. QED
    BY <1>1, <1>2, <2>1
<1>4. ASSUME NEW k \in 1 .. 4 PROVE (s \o r)[n + k] = r[k]
  <2>1. n + k \in 1 .. n + 4 /\ ~(n + k <= n) /\ (n + k) - n = k
    OBVIOUS
  <2>2. QED
    BY <1>1, <1>2, <2>1
<1>5. QED
  BY <1>1, <1>2, <1>3, <1>4 DEF HasBytes, Joined

\* What ValidBytes leaves of a byte.
LEMMA ValidByte ==
  ASSUME NEW r, IsRegister(r), NEW k \in 1 .. 4
  PROVE  ValidBytes(r)[k] = IF r[4] < 128 THEN r[k] ELSE 0
<1>1. r \in Seq(0 .. 255) /\ Len(r) = 4
  BY DEF IsRegister
<1>2. r[4] \in 0 .. 255
  BY <1>1, ElementOfSeq, 4 \in 1 .. Len(r), ZenonT(30)
<1>3. NoRegister[k] = 0
  BY k = 1 \/ k = 2 \/ k = 3 \/ k = 4 DEF NoRegister
<1>4. QED
  BY <1>2, <1>3 DEF ValidBytes

\* The 16 bytes are those of the registers, but AL, and but for reserved registers.
LEMMA DescriptorBytes ==
  ASSUME NEW leaf, IsRegister(leaf.eax), IsRegister(leaf.ebx),
         IsRegister(leaf.ecx), IsRegister(leaf.edx),
         NEW regs, regs = <<leaf.eax, leaf.ebx, leaf.ecx, leaf.edx>>
  PROVE  /\ HasBytes(Descriptors(leaf), 16)
         /\ \A p \in Places :
              Descriptors(leaf)[Byte(p)] =
                IF p # <<1, 1>> /\ regs[p[1]][4] < 128 THEN regs[p[1]][p[2]] ELSE 0
<1> DEFINE eax == [leaf.eax EXCEPT ![1] = 0]
           A == ValidBytes(eax)
           B == ValidBytes(leaf.ebx)
           C == ValidBytes(leaf.ecx)
           D == ValidBytes(leaf.edx)
           AB == Joined(A, B)
           ABC == Joined(AB, C)
           all == Joined(ABC, D)
<1>1. IsRegister(eax) /\ \A k \in 1 .. 4 : eax[k] = IF k = 1 THEN 0 ELSE leaf.eax[k]
  <2>1. leaf.eax \in Seq(0 .. 255) /\ Len(leaf.eax) = 4 /\ 1 \in 1 .. Len(leaf.eax)
          /\ 0 \in 0 .. 255
    BY DEF IsRegister
  <2>2. /\ eax \in Seq(0 .. 255) /\ Len(eax) = Len(leaf.eax)
        /\ \A j \in 1 .. Len(leaf.eax) : eax[j] = IF j = 1 THEN 0 ELSE leaf.eax[j]
    BY <2>1, ExceptSeq
  <2>3. QED
    BY <2>1, <2>2 DEF IsRegister
<1>2. /\ IsRegister(A) /\ IsRegister(B) /\ IsRegister(C) /\ IsRegister(D)
  BY <1>1, ValidBytesOK
<1>3. \A k \in 1 .. 4 :
        /\ A[k] = IF k # 1 /\ leaf.eax[4] < 128 THEN leaf.eax[k] ELSE 0
        /\ B[k] = IF leaf.ebx[4] < 128 THEN leaf.ebx[k] ELSE 0
        /\ C[k] = IF leaf.ecx[4] < 128 THEN leaf.ecx[k] ELSE 0
        /\ D[k] = IF leaf.edx[4] < 128 THEN leaf.edx[k] ELSE 0
  <2> HIDE DEF eax
  <2>1. eax[4] = leaf.eax[4]
    BY <1>1
  <2>2. TAKE k \in 1 .. 4
  <2>3. A[k] = IF eax[4] < 128 THEN eax[k] ELSE 0
    BY <1>1, ValidByte
  <2>4. eax[k] = IF k = 1 THEN 0 ELSE leaf.eax[k]
    BY <1>1
  <2>5. QED
    BY <2>1, <2>3, <2>4, ValidByte
<1> HIDE DEF A, B, C, D
<1>4. HasBytes(A, 4)
  BY <1>2 DEF HasBytes, IsRegister
<1>5. /\ HasBytes(AB, 8)
      /\ \A k \in 1 .. 4 : AB[k] = A[k] /\ AB[4 + k] = B[k]
  <2>1. /\ HasBytes(AB, 4 + 4)
        /\ \A k \in 1 .. 4 : AB[k] = A[k]
        /\ \A k \in 1 .. 4 : AB[4 + k] = B[k]
    <3>1. ASSUME NEW n \in Nat, HasBytes(A, n)
          PROVE  /\ HasBytes(AB, n + 4)
                 /\ \A k \in 1 .. n : AB[k] = A[k]
                 /\ \A k \in 1 .. 4 : AB[n + k] = B[k]
      BY <1>2, <3>1, BytesJoined
    <3>2. QED
      BY <1>4, <3>1
  <2>2. 4 + 4 = 8
    OBVIOUS
  <2>3. QED
    BY <2>1, <2>2
<1>6. /\ HasBytes(ABC, 12)
      /\ \A k \in 1 .. 8 : ABC[k] = AB[k]
      /\ \A k \in 1 .. 4 : ABC[8 + k] = C[k]
  BY <1>2, <1>5, BytesJoined, 8 \in Nat, 8 + 4 = 12
<1>7. /\ HasBytes(all, 16)
      /\ \A k \in 1 .. 12 : all[k] = ABC[k]
      /\ \A k \in 1 .. 4 : all[12 + k] = D[k]
  BY <1>2, <1>6, BytesJoined, 12 \in Nat, 12 + 4 = 16
<1>8. Descriptors(leaf) = all
  BY DEF Descriptors, A, B, C, D, Joined
<1> HIDE DEF AB, ABC, all
<1>9. ASSUME NEW k \in 1 .. 4
      PROVE  /\ all[k] = A[k] /\ all[4 + k] = B[k]
             /\ all[8 + k] = C[k] /\ all[12 + k] = D[k]
  <2>1. /\ k \in 1 .. 8 /\ 4 + k \in 1 .. 8
        /\ k \in 1 .. 12 /\ 4 + k \in 1 .. 12 /\ 8 + k \in 1 .. 12
    OBVIOUS
  <2>2. QED
    BY <1>5, <1>6, <1>7, <2>1
<1>10. ASSUME NEW r \in 1 .. 4, NEW k \in 1 .. 4
       PROVE  all[4 * (r - 1) + k] =
                IF ~(r = 1 /\ k = 1) /\ regs[r][4] < 128 THEN regs[r][k] ELSE 0
  <2>1. /\ regs[1] = leaf.eax /\ regs[2] = leaf.ebx
        /\ regs[3] = leaf.ecx /\ regs[4] = leaf.edx
    OBVIOUS
  <2>2. r = 1 \/ r = 2 \/ r = 3 \/ r = 4
    OBVIOUS
  <2>3. QED
    BY <1>3, <1>9, <2>1, <2>2
<1>11. ASSUME NEW p \in Places
       PROVE  all[Byte(p)] =
                IF p # <<1, 1>> /\ regs[p[1]][4] < 128 THEN regs[p[1]][p[2]] ELSE 0
  <2>1. p[1] \in 1 .. 4 /\ p[2] \in 1 .. 4 /\ p = <<p[1], p[2]>>
    BY DEF Places
  <2>2. p # <<1, 1>> <=> ~(p[1] = 1 /\ p[2] = 1)
    BY <2>1
  <2>3. QED
    BY <1>10, <2>1, <2>2 DEF Byte
<1>12. QED
  BY <1>7, <1>8, <1>11

\* Every byte stands at one place.
LEMMA ByteIsBijection ==
  /\ \A p \in Places : Byte(p) \in 1 .. 16
  /\ \A p, q \in Places : Byte(p) = Byte(q) => p = q
  /\ \A k \in 1 .. 16 : \E p \in Places : Byte(p) = k
<1>1. ASSUME NEW p \in Places
      PROVE  /\ p[1] \in 1 .. 4 /\ p[2] \in 1 .. 4 /\ p = <<p[1], p[2]>>
             /\ Byte(p) \in 1 .. 16
  BY DEF Places, Byte
<1>2. ASSUME NEW p \in Places, NEW q \in Places, Byte(p) = Byte(q) PROVE p = q
  <2>1. p[1] = q[1] /\ p[2] = q[2]
    BY <1>1, <1>2 DEF Byte
  <2>2. QED
    BY <1>1, <2>1
<1>3. ASSUME NEW k \in 1 .. 16 PROVE \E p \in Places : Byte(p) = k
  <2> DEFINE p == <<(k - 1) \div 4 + 1, ((k - 1) % 4) + 1>>
  <2>1. (k - 1) \div 4 \in 0 .. 3 /\ (k - 1) % 4 \in 0 .. 3
        /\ 4 * ((k - 1) \div 4) + ((k - 1) % 4) = k - 1
    OBVIOUS
  <2>2. p \in Places /\ Byte(p) = k
    BY <2>1 DEF Places, Byte
  <2>3. QED
    BY <2>2
<1>4. QED
  BY <1>1, <1>2, <1>3

\* The bytes of data up to the n-th that hold a descriptor.
Bytes(n) == {k \in 1 .. n : data[k] # 0}

\* The places that a reader of leaf 2 looks at are the bytes that the loop looks at.
LEMMA PlacesAreBytes ==
  ASSUME cpuid \in Processors, data = Descriptors(Leaf2)
  PROVE  /\ Cardinality(DescriptorPlaces) = Cardinality(Bytes(16))
         /\ {DescribedBy(p) : p \in DescriptorPlaces} =
              {GetCacheLevelInfo(data[k]) : k \in Bytes(16)}
<1>1. IsRegister(Leaf2.eax) /\ IsRegister(Leaf2.ebx)
        /\ IsRegister(Leaf2.ecx) /\ IsRegister(Leaf2.edx)
  BY LeafRegisters
<1>2. \A p \in Places :
        data[Byte(p)] =
          IF p # <<1, 1>> /\ Register[p[1]][4] < 128 THEN Register[p[1]][p[2]] ELSE 0
  <2>1. Register = <<Leaf2.eax, Leaf2.ebx, Leaf2.ecx, Leaf2.edx>>
    BY DEF Register
  <2>2. QED
    BY <1>1, <2>1, DescriptorBytes
<1>3. DescriptorPlaces = {p \in Places : data[Byte(p)] # 0}
  BY <1>2 DEF DescriptorPlaces, Places
<1>4. \A p \in DescriptorPlaces : DescribedBy(p) = GetCacheLevelInfo(data[Byte(p)])
  BY <1>2, <1>3 DEF DescribedBy
<1>5. \A p \in DescriptorPlaces : Byte(p) \in Bytes(16)
  BY <1>3, ByteIsBijection DEF Bytes
<1>6. \A k \in Bytes(16) : \E p \in DescriptorPlaces : Byte(p) = k
  BY <1>3, ByteIsBijection DEF Bytes
<1>7. Cardinality(DescriptorPlaces) = Cardinality(Bytes(16))
  <2> DEFINE f == [p \in DescriptorPlaces |-> Byte(p)]
  <2>1. f \in Bijection(DescriptorPlaces, Bytes(16))
    <3>1. f \in [DescriptorPlaces -> Bytes(16)]
      BY <1>5
    <3>2. \A p, q \in DescriptorPlaces : f[p] = f[q] => p = q
      BY <1>3, ByteIsBijection
    <3>3. \A k \in Bytes(16) : \E p \in DescriptorPlaces : f[p] = k
      BY <1>6
    <3> HIDE DEF f
    <3>4. QED
      BY <3>1, <3>2, <3>3, Fun_IsBij
  <2>2. ExistsBijection(DescriptorPlaces, Bytes(16))
    BY <2>1 DEF ExistsBijection
  <2>3. IsFiniteSet(Bytes(16))
    BY FS_Interval, FS_Subset, 1 \in Int, 16 \in Int DEF Bytes
  <2>4. QED
    BY <2>2, <2>3, FS_Bijection, Fun_ExistsBijSymmetric
<1>8. {DescribedBy(p) : p \in DescriptorPlaces} =
        {GetCacheLevelInfo(data[k]) : k \in Bytes(16)}
  BY <1>4, <1>5, <1>6
<1>9. QED
  BY <1>7, <1>8

\* Of the next byte, Bytes has one more if it is a descriptor.
LEMMA NextByte ==
  ASSUME NEW n \in Nat
  PROVE  /\ IsFiniteSet(Bytes(n)) /\ n + 1 \notin Bytes(n)
         /\ data[n + 1] = 0 => Bytes(n + 1) = Bytes(n)
         /\ data[n + 1] # 0 => /\ Bytes(n + 1) = Bytes(n) \cup {n + 1}
                               /\ Cardinality(Bytes(n + 1)) = Cardinality(Bytes(n)) + 1
<1>1. IsFiniteSet(Bytes(n))
  <2>1. IsFiniteSet(1 .. n)
    BY FS_Interval, 1 \in Int, n \in Int
  <2>2. Bytes(n) \in SUBSET (1 .. n)
    BY DEF Bytes
  <2>3. QED
    BY <2>1, <2>2, FS_Subset
<1>2. n + 1 \notin Bytes(n)
  BY n + 1 \notin 1 .. n DEF Bytes
<1>3. /\ data[n + 1] = 0 => Bytes(n + 1) = Bytes(n)
      /\ data[n + 1] # 0 => Bytes(n + 1) = Bytes(n) \cup {n + 1}
  <2>1. 1 .. n + 1 = (1 .. n) \cup {n + 1}
    OBVIOUS
  <2>2. QED
    BY <2>1 DEF Bytes
<1>4. QED
  BY <1>1, <1>2, <1>3, FS_AddElement

\* Append adds what it appends to the elements.
LEMMA AppendAddsElement ==
  ASSUME NEW s, ASequence(s), NEW x
  PROVE  {Append(s, x)[k] : k \in DOMAIN Append(s, x)}
           = {s[k] : k \in DOMAIN s} \cup {x}
<1>1. PICK S : s \in Seq(S)
  BY DEF ASequence
<1> DEFINE T == S \cup {x}
           t == Append(s, x)
<1>2. s \in Seq(T) /\ x \in T
  BY <1>1
<1>3. /\ DOMAIN s = 1 .. Len(s) /\ DOMAIN t = 1 .. Len(s) + 1 /\ Len(s) \in Nat
      /\ \A k \in 1 .. Len(s) : t[k] = s[k]
      /\ t[Len(s) + 1] = x
  BY <1>2, AppendProperties
<1> HIDE DEF t
<1>4. {t[k] : k \in DOMAIN t} = {s[k] : k \in DOMAIN s} \cup {x}
  BY <1>3
<1>5. QED
  BY <1>4 DEF t

\* The sub-leaves are counted by the first that is not a cache.
LEMMA EnumeratedIs ==
  ASSUME NEW n \in 0 .. CPU_FEATURES_MAX_CACHE_LEVEL, EnumeratedBefore(n),
         n = CPU_FEATURES_MAX_CACHE_LEVEL \/ SubLeaf(n).type \notin 1 .. 3
  PROVE  Enumerated = n
<1> DEFINE Last(m) == /\ EnumeratedBefore(m)
                      /\ m = CPU_FEATURES_MAX_CACHE_LEVEL \/ ~EnumeratedBefore(m + 1)
<1>1. CPU_FEATURES_MAX_CACHE_LEVEL \in Nat
  BY MaxLevelAssumption DEF MaxLevelAssumption
<1>2. Last(n)
  BY <1>1 DEF EnumeratedBefore
<1>3. ASSUME NEW m \in 0 .. CPU_FEATURES_MAX_CACHE_LEVEL, Last(m) PROVE m = n
  <2>1. ~(m < n)
    <3>1. SUFFICES ASSUME m < n PROVE FALSE
      OBVIOUS
    <3>2. ~EnumeratedBefore(m + 1)
      BY <1>1, <1>3, <3>1
    <3>3. QED
      BY <1>1, <3>1, <3>2 DEF EnumeratedBefore
  <2>2. ~(n < m)
    <3>1. SUFFICES ASSUME n < m PROVE FALSE
      OBVIOUS
    <3>2. SubLeaf(n).type \notin 1 .. 3 /\ n \in 0 .. m - 1
      BY <1>1, <3>1
    <3>3. QED
      BY <1>3, <3>2 DEF EnumeratedBefore
  <2>3. QED
    BY <1>1, <2>1, <2>2
<1>4. Enumerated = CHOOSE m \in 0 .. CPU_FEATURES_MAX_CACHE_LEVEL : Last(m)
  BY DEF Enumerated
<1> HIDE DEF Last
<1>5. QED
  BY <1>2, <1>3, <1>4

\* What is promised depends on the processor and the levels only.
LEMMA SamePromise ==
  ASSUME cpuid' = cpuid
  PROVE  /\ Leaf2' = Leaf2
         /\ \A k : SubLeaf(k)' = SubLeaf(k)
         /\ Enumerated' = Enumerated
         /\ DescriptorPlaces' = DescriptorPlaces
         /\ \A p : DescribedBy(p)' = DescribedBy(p)
<1>1. Leaf2' = Leaf2 /\ Register' = Register
  BY DEF Leaf2, Register
<1>2. MaxLeaf' = MaxLeaf /\ LeafId' = LeafId
  BY SameLeaves
<1>3. \A k : SubLeaf(k)' = SubLeaf(k)
  BY <1>2 DEF SubLeaf
<1>4. DescriptorPlaces' = DescriptorPlaces /\ \A p : DescribedBy(p)' = DescribedBy(p)
  BY <1>1 DEF DescriptorPlaces, DescribedBy
<1>5. Enumerated' = Enumerated
  BY <1>3 DEF Enumerated, EnumeratedBefore
<1>6. QED
  BY <1>1, <1>3, <1>4, <1>5

\* One level for every descriptor among the first n bytes.
DescribedUpTo(n) ==
  /\ Len(levels) = Cardinality(Bytes(n))
  /\ {levels[k] : k \in DOMAIN levels} = {GetCacheLevelInfo(data[k]) : k \in Bytes(n)}

\* One level for each of the first n sub-leaves, all of which are caches.
FoundUpTo(n) ==
  /\ n \in 0 .. CPU_FEATURES_MAX_CACHE_LEVEL
  /\ EnumeratedBefore(n)
  /\ found = [k \in 1 .. n |-> LevelOf(SubLeaf(k - 1))]

SourceInv ==
  /\ stage # "dispatch" => data = Descriptors(Leaf2)
  /\ stage \in {"dispatch", "leaf2"} => found = <<>>
  /\ stage = "leaf2" => DescribedUpTo(i)
  /\ stage = "deterministic" =>
       /\ FoundUpTo(i)
       /\ cpuid.vendor \in IntelVendors => DescribedUpTo(16)

OneSourceInv == CacheInv /\ VendorInv /\ SourceInv /\ OneSource


\* Before the first byte nothing is described, before the first sub-leaf nothing found.
LEMMA NothingYetNext ==
  /\ levels' = <<>> => DescribedUpTo(0)'
  /\ found' = <<>> => FoundUpTo(0)'
<1>1. Bytes(0)' = {} /\ Cardinality({}) = 0
  BY FS_EmptySet DEF Bytes
<1>2. levels' = <<>> => Len(levels') = 0 /\ DOMAIN levels' = {}
  OBVIOUS
<1>3. levels' = <<>> => DescribedUpTo(0)'
  BY <1>1, <1>2 DEF DescribedUpTo
<1>4. 0 \in 0 .. CPU_FEATURES_MAX_CACHE_LEVEL
  BY MaxLevelAssumption DEF MaxLevelAssumption
<1>5. QED
  BY <1>3, <1>4 DEF FoundUpTo, EnumeratedBefore

\* A byte of leaf 2 adds its level, or none if it is 0.
LEMMA ByteParsed ==
  ASSUME NEW n \in Nat, DescribedUpTo(n), ASequence(levels), data' = data,
         levels' = IF data[n + 1] = 0 THEN levels
                 ELSE Append(levels, GetCacheLevelInfo(data[n + 1]))
  PROVE  DescribedUpTo(n + 1)'
<1>1. \A m : Bytes(m)' = Bytes(m)
  BY DEF Bytes
<1>2. CASE data[n + 1] = 0
  <2>1. Bytes(n + 1) = Bytes(n) /\ levels' = levels
    BY <1>2, NextByte
  <2>2. QED
    BY <1>1, <2>1 DEF DescribedUpTo
<1>3. CASE data[n + 1] # 0
  <2> DEFINE level == GetCacheLevelInfo(data[n + 1])
  <2>1. /\ Bytes(n + 1) = Bytes(n) \cup {n + 1}
        /\ Cardinality(Bytes(n + 1)) = Cardinality(Bytes(n)) + 1
    BY <1>3, NextByte
  <2>2. levels' = Append(levels, level)
    BY <1>3
  <2>3. Len(levels') = Len(levels) + 1
    BY <2>2, AppendIsLonger
  <2>4. {levels'[k] : k \in DOMAIN levels'} = {levels[k] : k \in DOMAIN levels} \cup {level}
    BY <2>2, AppendAddsElement
  <2> DEFINE described(S) == {GetCacheLevelInfo(data[k]) : k \in S}
  <2>5. described(Bytes(n) \cup {n + 1}) = described(Bytes(n)) \cup {level}
    OBVIOUS
  <2>6. /\ Len(levels') = Cardinality(Bytes(n + 1))
        /\ {levels'[k] : k \in DOMAIN levels'} = described(Bytes(n + 1))
    BY <2>1, <2>3, <2>4, <2>5 DEF DescribedUpTo
  <2>7. QED
    BY <1>1, <2>6 DEF DescribedUpTo
<1>4. QED
  BY <1>2, <1>3

\* A sequence that is one longer and otherwise the same is an Append.
LEMMA LongerIsAppend ==
  ASSUME NEW S, NEW f \in Seq(S), NEW g \in Seq(S), NEW n \in Nat,
         Len(f) = n, Len(g) = n + 1, \A k \in 1 .. n : g[k] = f[k]
  PROVE  g = Append(f, g[n + 1])
<1> DEFINE x == g[n + 1]
           a == Append(f, x)
<1>1. x \in S
  BY ElementOfSeq, n + 1 \in 1 .. Len(g)
<1> HIDE DEF x
<1>2. /\ a \in Seq(S) /\ Len(a) = n + 1
      /\ \A k \in 1 .. n : a[k] = f[k]
      /\ a[n + 1] = x
  BY <1>1, AppendProperties
<1> HIDE DEF a
<1>3. ASSUME NEW k \in 1 .. n + 1 PROVE a[k] = g[k]
  <2>1. k \in 1 .. n \/ k = n + 1
    OBVIOUS
  <2>2. QED
    BY <1>2, <2>1 DEF x
<1>4. a = g
  BY <1>2, <1>3, SeqEqual
<1>5. QED
  BY <1>4 DEF a, x

\* A sub-leaf that is a cache adds its level.
LEMMA SubLeafParsed ==
  ASSUME NEW n, FoundUpTo(n), Len(found) < CPU_FEATURES_MAX_CACHE_LEVEL,
         SubLeaf(n).type \in 1 .. 3, cpuid' = cpuid,
         found' = Append(found, LevelOf(SubLeaf(n)))
  PROVE  FoundUpTo(n + 1)'
<1> DEFINE level(k) == LevelOf(SubLeaf(k - 1))
           S == {level(k) : k \in 1 .. n + 1}
           g == [k \in 1 .. n + 1 |-> level(k)]
<1>1. CPU_FEATURES_MAX_CACHE_LEVEL \in Nat /\ n \in Nat
        /\ n <= CPU_FEATURES_MAX_CACHE_LEVEL /\ EnumeratedBefore(n)
        /\ found = [k \in 1 .. n |-> level(k)]
  BY MaxLevelAssumption DEF MaxLevelAssumption, FoundUpTo
<1>2. g[n + 1] = LevelOf(SubLeaf(n))
  BY <1>1, (n + 1) - 1 = n, n + 1 \in 1 .. n + 1
<1> HIDE DEF level
<1>3. \A k \in 1 .. n + 1 : level(k) \in S
  OBVIOUS
<1> HIDE DEF S
<1>4. /\ found \in Seq(S) /\ Len(found) = n
      /\ g \in Seq(S) /\ Len(g) = n + 1
  <2>1. found \in [1 .. n -> S] /\ g \in [1 .. n + 1 -> S]
    BY <1>1, <1>3
  <2>2. QED
    BY <1>1, <2>1
<1>5. \A k \in 1 .. n : g[k] = found[k]
  BY <1>1
<1> HIDE DEF g
<1>6. found' = g
  BY <1>1, <1>2, <1>4, <1>5, LongerIsAppend
<1>7. n + 1 \in 0 .. CPU_FEATURES_MAX_CACHE_LEVEL /\ EnumeratedBefore(n + 1)
  BY <1>1, <1>4 DEF EnumeratedBefore
<1>8. EnumeratedBefore(n + 1)'
  <2>1. \A k \in 0 .. (n + 1) - 1 : SubLeaf(k).type \in 1 .. 3
    BY <1>7 DEF EnumeratedBefore
  <2>2. QED
    BY <2>1, SamePromise DEF EnumeratedBefore
<1>9. found' = [k \in 1 .. n + 1 |-> LevelOf(SubLeaf(k - 1)')]
  BY <1>6, SamePromise DEF g, level
<1>10. QED
  BY <1>7, <1>8, <1>9 DEF FoundUpTo


\* Where ParseCacheInfo ends, the levels have one source.
LEMMA LastSubLeaf ==
  ASSUME OneSourceInv, stage = "deterministic", cpuid.vendor \in IntelVendors, cpuid' = cpuid,
         ~(Len(found) < CPU_FEATURES_MAX_CACHE_LEVEL /\ SubLeaf(i).type \in 1 .. 3),
         levels' = IF found # <<>> THEN found ELSE levels
  PROVE  OneSource'
<1> DEFINE level(k) == LevelOf(SubLeaf(k - 1))
           described == {GetCacheLevelInfo(data[k]) : k \in Bytes(16)}
<1>1. /\ CPU_FEATURES_MAX_CACHE_LEVEL \in Nat
      /\ i \in 0 .. CPU_FEATURES_MAX_CACHE_LEVEL
      /\ EnumeratedBefore(i) /\ found = [k \in 1 .. i |-> level(k)]
      /\ DescribedUpTo(16) /\ cpuid \in Processors /\ data = Descriptors(Leaf2)
  BY MaxLevelAssumption
     DEF MaxLevelAssumption, OneSourceInv, CacheInv, SourceInv, FoundUpTo
<1> HIDE DEF level
<1>2. Len(found) = i /\ (found = <<>> <=> i = 0)
  BY <1>1
<1>3. Enumerated = i
  BY <1>1, <1>2, EnumeratedIs
<1>4. /\ Enumerated' = Enumerated /\ DescriptorPlaces' = DescriptorPlaces
      /\ \A k : SubLeaf(k)' = SubLeaf(k)
      /\ \A p : DescribedBy(p)' = DescribedBy(p)
  BY SamePromise
<1>5. CASE i > 0
  <2>1. levels' = [k \in 1 .. Enumerated |-> LevelOf(SubLeaf(k - 1))]
    BY <1>1, <1>2, <1>3, <1>5, SMTT(30) DEF level
  <2>2. QED
    BY <1>3, <1>4, <1>5, <2>1 DEF OneSource
<1>6. CASE ~(i > 0)
  <2>1. levels' = levels /\ ~(Enumerated > 0)
    BY <1>1, <1>2, <1>3, <1>6
  <2>2. /\ Len(levels) = Cardinality(DescriptorPlaces)
        /\ {levels[k] : k \in DOMAIN levels} = {DescribedBy(p) : p \in DescriptorPlaces}
    BY <1>1, PlacesAreBytes DEF DescribedUpTo
  <2>3. QED
    BY <1>4, <2>1, <2>2 DEF OneSource
<1>7. QED
  BY <1>5, <1>6

\* No step mixes the sources.
LEMMA StepSource == ASSUME OneSourceInv, [CacheNext]_cachevars PROVE OneSourceInv'
<1>1. CacheInv' /\ VendorInv'
  BY StepInv, VendorStep DEF OneSourceInv
<1>2. CacheInv /\ VendorInv /\ SourceInv /\ OneSource
  BY DEF OneSourceInv
<1>3. cpuid' = cpuid /\ Leaf2' = Leaf2
  BY SamePromise
     DEF CacheNext, GetX86CacheInfo, ParseLeaf2, ParseCacheInfo, ParseCacheInfoLegacyAMD, cachevars
<1>4. ~(cpuid.vendor \in IntelVendors /\ cpuid.vendor \in AmdVendors)
  BY DEF IntelVendors, AmdVendors
<1>5. CASE GetX86CacheInfo
  <2>1. /\ stage = "dispatch" /\ i' = 0 /\ levels' = <<>> /\ found' = <<>>
        /\ data' = Descriptors(Leaf2)
        /\ stage' = "leaf2" \/ cpuid'.vendor \notin IntelVendors
    BY <1>2, <1>3, <1>4, <1>5 DEF GetX86CacheInfo, CacheInv, SourceInv
  <2>2. DescribedUpTo(0)' /\ FoundUpTo(0)'
    BY <2>1, NothingYetNext
  <2>3. SourceInv'
    BY <1>3, <2>1, <2>2 DEF SourceInv
  <2>4. OneSource'
    BY <2>1 DEF OneSource, Returned
  <2>5. QED
    BY <1>1, <2>3, <2>4 DEF OneSourceInv
<1>6. CASE ParseLeaf2
  <2>1. /\ stage = "leaf2" /\ data' = data /\ found' = <<>> /\ i \in 0 .. 15
        /\ DescribedUpTo(i) /\ ASequence(levels) /\ data = Descriptors(Leaf2)
        /\ IF i + 1 < 16 THEN stage' = "leaf2" /\ i' = i + 1
           ELSE stage' = "deterministic" /\ i' = 0
    BY <1>2, <1>6 DEF ParseLeaf2, CacheInv, Leaf2Inv, SourceInv
  <2>2. ASSUME NEW n, n = i PROVE DescribedUpTo(n + 1)'
    BY <1>6, <2>1, <2>2, ByteParsed DEF ParseLeaf2
  <2>3. FoundUpTo(0)'
    BY <2>1, NothingYetNext
  <2>4. SourceInv'
    <3>1. PICK n : n = i
      OBVIOUS
    <3>2. DescribedUpTo(n + 1)' /\ n \in 0 .. 15
      BY <2>1, <2>2, <3>1
    <3>3. CASE i + 1 < 16
      BY <1>3, <2>1, <3>1, <3>2, <3>3 DEF SourceInv
    <3>4. CASE ~(i + 1 < 16)
      <4>1. n + 1 = 16
        BY <3>1, <3>2, <3>4
      <4>2. QED
        BY <1>3, <2>1, <2>3, <3>2, <3>4, <4>1 DEF SourceInv
    <3>5. QED
      BY <3>3, <3>4
  <2>5. OneSource'
    BY <2>1 DEF OneSource, Returned
  <2>6. QED
    BY <1>1, <2>4, <2>5 DEF OneSourceInv
<1>7. CASE ParseCacheInfo
  <2> DEFINE more == /\ Len(found) < CPU_FEATURES_MAX_CACHE_LEVEL
                     /\ SubLeaf(i).type \in 1 .. 3
  <2>1. /\ stage = "deterministic" /\ data' = data /\ FoundUpTo(i)
        /\ cpuid.vendor \in IntelVendors => DescribedUpTo(16)
        /\ data = Descriptors(Leaf2)
    BY <1>2, <1>7 DEF ParseCacheInfo, SourceInv
  <2>2. CASE more
    <3>1. /\ found' = Append(found, LevelOf(SubLeaf(i))) /\ i' = i + 1
          /\ stage' = stage /\ levels' = levels
      BY <1>7, <2>2 DEF ParseCacheInfo
    <3>2. PICK n : n = i
      OBVIOUS
    <3>3. FoundUpTo(n + 1)' /\ i' = n + 1
      BY <1>3, <2>1, <2>2, <3>1, <3>2, SubLeafParsed
    <3>4. DescribedUpTo(16)' <=> DescribedUpTo(16)
      BY <2>1, <3>1 DEF DescribedUpTo, Bytes
    <3>5. SourceInv'
      BY <1>3, <2>1, <3>1, <3>3, <3>4 DEF SourceInv
    <3>6. OneSource'
      BY <2>1, <3>1 DEF OneSource, Returned
    <3>7. QED
      BY <1>1, <3>5, <3>6 DEF OneSourceInv
  <2>3. CASE ~more
    <3>1. levels' = (IF found # <<>> THEN found ELSE levels) /\ stage' = "done"
      BY <1>7, <2>3 DEF ParseCacheInfo
    <3>2. OneSource'
      <4>1. CASE cpuid.vendor \in IntelVendors
        BY <1>3, <2>1, <2>3, <3>1, <4>1, LastSubLeaf
      <4>2. CASE cpuid.vendor \notin IntelVendors
        BY <1>3, <4>2 DEF OneSource
      <4>3. QED
        BY <4>1, <4>2
    <3>3. SourceInv'
      BY <1>3, <2>1, <3>1 DEF SourceInv
    <3>4. QED
      BY <1>1, <3>2, <3>3 DEF OneSourceInv
  <2>4. QED
    BY <2>2, <2>3
<1>8. CASE ParseCacheInfoLegacyAMD
  <2>1. /\ stage = "legacy" /\ data' = data /\ stage' \in {"legacy", "done"}
        /\ cpuid.vendor \notin IntelVendors
    BY <1>2, <1>8, VendorsApart DEF ParseCacheInfoLegacyAMD, VendorInv
  <2>2. SourceInv' /\ OneSource'
    BY <1>2, <1>3, <2>1 DEF SourceInv, OneSource
  <2>3. QED
    BY <1>1, <2>2 DEF OneSourceInv
<1>9. CASE UNCHANGED cachevars
  <2>1. UNCHANGED <<cpuid, stage, i, data, found, levels>>
    BY <1>9 DEF cachevars
  <2>2. OneSource' <=> OneSource
    BY <2>1, SamePromise DEF OneSource, Returned
  <2>3. \A n : DescribedUpTo(n)' <=> DescribedUpTo(n)
    BY <2>1 DEF DescribedUpTo, Bytes
  <2>4. \A n : FoundUpTo(n)' <=> FoundUpTo(n)
    BY <2>1, SamePromise DEF FoundUpTo, EnumeratedBefore
  <2>5. SourceInv'
    BY <1>2, <1>3, <2>1, <2>3, <2>4 DEF SourceInv
  <2>6. QED
    BY <1>1, <1>2, <2>2, <2>5 DEF OneSourceInv
<1>10. QED
  BY <1>5, <1>6, <1>7, <1>8, <1>9 DEF CacheNext

\* Before the vendor is looked at, nothing is promised.
LEMMA InitSource == ASSUME CacheInit PROVE OneSourceInv
<1>1. CacheInv
  BY InitInv
<1>2. VendorInv /\ SourceInv /\ OneSource
  BY DEF CacheInit, VendorInv, SourceInv, OneSource, Returned
<1>3. QED
  BY <1>1, <1>2 DEF OneSourceInv

\* ParseCacheInfo after ParseLeaf2 (lines 1855-1923), for every processor: the
\* levels are those of leaf 4, or all that leaf 2 describes, and never a mixture.
THEOREM OneSourceCorrect == CacheSpec => []OneSource
<1>1. CacheInit => OneSourceInv
  BY InitSource
<1>2. OneSourceInv /\ [CacheNext]_cachevars => OneSourceInv'
  BY StepSource
<1>3. OneSourceInv => OneSource
  BY DEF OneSourceInv
<1>4. QED
  BY <1>1, <1>2, <1>3, PTL DEF CacheSpec

-------------------------------------------------------------------------------
(***************************************************************************)
(* No level comes from a leaf that the processor does not have, nor from a *)
(* sub-leaf behind the null one.  Without leaf 2 its registers are zeros   *)
(* and hold no descriptor; a sub-leaf of a missing leaf is the null one,   *)
(* and the loop over the sub-leaves has not passed a null one; a legacy    *)
(* register of a missing leaf is an absent cache, which ends the loop.     *)
(***************************************************************************)

\* The numbers of the leaves and the sub-leaves depend on the processor only.
LEMMA SameSubLeaves ==
  ASSUME cpuid' = cpuid, levels' = levels
  PROVE  /\ \A k : OfSubLeaf(k)' <=> OfSubLeaf(k)
         /\ NoLevelOfMissingLeaf' <=> NoLevelOfMissingLeaf
<1>1. \A k : OfSubLeaf(k)' <=> OfSubLeaf(k)
  BY DEF OfSubLeaf
<1>2. /\ TopologyExtensions' = TopologyExtensions
      /\ DescriptorPlaces' = DescriptorPlaces /\ \A p : DescribedBy(p)' = DescribedBy(p)
  BY SameLeaves, SamePromise
<1>3. QED
  BY <1>1, <1>2 DEF NoLevelOfMissingLeaf

\* A descriptor is found only where there is a leaf 2.
LEMMA PlaceOfLeaf2 ==
  ASSUME NEW p \in DescriptorPlaces PROVE cpuid.max_cpuid_leaf >= 2
<1>1. SUFFICES ASSUME ~(cpuid.max_cpuid_leaf >= 2) PROVE FALSE
  OBVIOUS
<1>2. /\ Leaf2.eax = NoRegister /\ Leaf2.ebx = NoRegister
      /\ Leaf2.ecx = NoRegister /\ Leaf2.edx = NoRegister
  BY <1>1 DEF Leaf2
<1>3. p[1] \in 1 .. 4 /\ p[2] \in 1 .. 4 /\ Register[p[1]][p[2]] # 0
  BY DEF DescriptorPlaces
<1>4. Register[p[1]] = NoRegister
  <2>1. p[1] = 1 \/ p[1] = 2 \/ p[1] = 3 \/ p[1] = 4
    BY <1>3
  <2>2. QED
    BY <1>2, <2>1 DEF Register
<1>5. \A k \in 1 .. 4 : NoRegister[k] = 0
  BY \A k \in 1 .. 4 : k = 1 \/ k = 2 \/ k = 3 \/ k = 4 DEF NoRegister
<1>6. QED
  BY <1>3, <1>4, <1>5

\* The sub-leaves that the processor has are a sequence.
LEMMA SubLeavesAreSequence ==
  ASSUME cpuid \in Processors
  PROVE  /\ Len(cpuid.sub_leaves) \in Nat
         /\ DOMAIN cpuid.sub_leaves = 1 .. Len(cpuid.sub_leaves)
<1> DEFINE s == cpuid.sub_leaves
           S == {s[m] : m \in DOMAIN s}
<1>1. s \in Seq(S)
  BY CpuAssumption DEF CpuAssumption
<1> HIDE DEF s, S
<1>2. Len(s) \in Nat /\ DOMAIN s = 1 .. Len(s)
  BY <1>1
<1>3. QED
  BY <1>2 DEF s

\* What CPUID answers for a sub-leaf is a cache only if the leaf is there, and is
\* then one of the sub-leaves of the processor.
LEMMA SubLeafThere ==
  ASSUME cpuid \in Processors, NEW j \in Nat, SubLeaf(j).type \in 1 .. 3
  PROVE  /\ MaxLeaf >= LeafId
         /\ j + 1 \in DOMAIN cpuid.sub_leaves => SubLeaf(j) = cpuid.sub_leaves[j + 1]
         /\ j + 1 \notin DOMAIN cpuid.sub_leaves =>
              /\ cpuid.repeats
              /\ Len(cpuid.sub_leaves) \in DOMAIN cpuid.sub_leaves
              /\ Len(cpuid.sub_leaves) < j + 1
              /\ SubLeaf(j) = cpuid.sub_leaves[Len(cpuid.sub_leaves)]
<1> DEFINE s == cpuid.sub_leaves
<1>1. Len(s) \in Nat /\ DOMAIN s = 1 .. Len(s)
  BY SubLeavesAreSequence
<1>2. NullSubLeaf.type \notin 1 .. 3
  BY DEF NullSubLeaf
<1>3. ~(MaxLeaf < LeafId) /\ s # <<>>
  BY <1>2 DEF SubLeaf
<1>4. MaxLeaf >= LeafId
  BY <1>3, LeavesAreNumbers
<1>5. SubLeaf(j) = IF j < Len(s) THEN s[j + 1] ELSE IF cpuid.repeats THEN s[Len(s)] ELSE NullSubLeaf
  BY <1>3 DEF SubLeaf
<1>6. j + 1 \in DOMAIN s <=> j < Len(s)
  BY <1>1
<1>7. Len(s) # 0
  <2>1. SUFFICES ASSUME Len(s) = 0 PROVE FALSE
    OBVIOUS
  <2>2. s \in Seq({s[m] : m \in DOMAIN s})
    BY CpuAssumption DEF CpuAssumption
  <2>3. s = <<>>
    BY <2>1, <2>2, EmptySeq
  <2>4. QED
    BY <1>3, <2>3
<1>8. Len(s) \in DOMAIN s
  BY <1>1, <1>7
<1> HIDE DEF s
<1>9. j + 1 \notin DOMAIN s => cpuid.repeats /\ Len(s) < j + 1 /\ SubLeaf(j) = s[Len(s)]
  BY <1>1, <1>2, <1>5, <1>6
<1>10. QED
  BY <1>4, <1>5, <1>6, <1>8, <1>9 DEF s

\* The loop takes the sub-leaves in order and stops at the first null one.
LEMMA FoundOfSubLeaf ==
  ASSUME cpuid \in Processors, cpuid' = cpuid, FoundUpTo(i), levels' = found,
         NEW k \in DOMAIN levels'
  PROVE  MaxLeaf >= LeafId /\ OfSubLeaf(k)'
<1> DEFINE s == cpuid.sub_leaves
           n == IF k \in DOMAIN s THEN k ELSE Len(s)
<1>1. /\ i \in Nat /\ k \in 1 .. i
      /\ \A j \in 0 .. i - 1 : SubLeaf(j).type \in 1 .. 3
      /\ levels'[k] = LevelOf(SubLeaf(k - 1))
  BY MaxLevelAssumption DEF MaxLevelAssumption, FoundUpTo, EnumeratedBefore
<1>2. Len(s) \in Nat /\ DOMAIN s = 1 .. Len(s)
  BY SubLeavesAreSequence
<1>3. /\ MaxLeaf >= LeafId
      /\ k \in DOMAIN s => SubLeaf(k - 1) = s[k]
      /\ k \notin DOMAIN s => /\ cpuid.repeats /\ Len(s) \in DOMAIN s
                              /\ Len(s) < k /\ SubLeaf(k - 1) = s[Len(s)]
  BY <1>1, SubLeafThere, k - 1 \in Nat, (k - 1) + 1 = k
<1>4. /\ n \in DOMAIN s
      /\ n = k \/ (cpuid.repeats /\ n = Len(s) /\ n < k)
      /\ levels'[k] = LevelOf(s[n])
  BY <1>1, <1>3
<1>5. ASSUME NEW m \in 1 .. n PROVE s[m].type \in 1 .. 3
  <2>1. m \in DOMAIN s /\ m - 1 \in 0 .. i - 1
    BY <1>1, <1>2, <1>3
  <2>2. SubLeaf(m - 1).type \in 1 .. 3
    BY <1>1, <2>1
  <2>3. SubLeaf(m - 1) = s[m]
    BY <2>1, <2>2, SubLeafThere, m - 1 \in Nat, (m - 1) + 1 = m
  <2>4. QED
    BY <2>2, <2>3
<1> HIDE DEF n
<1>6. OfSubLeaf(k)'
  BY <1>4, <1>5 DEF OfSubLeaf, LevelOf
<1>7. QED
  BY <1>3, <1>6

\* A level that ParseLeaf2 has stored is a descriptor of leaf 2.
LEMMA DescribedIsPlace ==
  ASSUME cpuid \in Processors, data = Descriptors(Leaf2), NEW n \in 0 .. 16,
         NEW S, S = {GetCacheLevelInfo(data[j]) : j \in Bytes(n)}, NEW level \in S
  PROVE  \E p \in DescriptorPlaces : level = DescribedBy(p)
<1>1. Bytes(n) \subseteq Bytes(16)
  BY DEF Bytes
<1>2. level \in {GetCacheLevelInfo(data[j]) : j \in Bytes(16)}
  BY <1>1
<1>3. level \in {DescribedBy(p) : p \in DescriptorPlaces}
  BY <1>2, PlacesAreBytes
<1>4. QED
  BY <1>3

\* What stands in a sequence after Append.
LEMMA AppendElements ==
  ASSUME NEW s, ASequence(s), NEW x, NEW k \in DOMAIN Append(s, x)
  PROVE  \/ k \in DOMAIN s /\ Append(s, x)[k] = s[k]
         \/ k = Len(s) + 1
<1>1. PICK S : s \in Seq(S)
  BY DEF ASequence
<1> DEFINE T == S \cup {x}
           t == Append(s, x)
<1>2. s \in Seq(T) /\ x \in T
  BY <1>1
<1>3. /\ DOMAIN s = 1 .. Len(s) /\ DOMAIN t = 1 .. Len(s) + 1 /\ Len(s) \in Nat
      /\ \A j \in 1 .. Len(s) : t[j] = s[j]
  BY <1>2, AppendProperties
<1>4. k \in DOMAIN t
  OBVIOUS
<1> HIDE DEF t
<1>5. QED
  BY <1>3, <1>4 DEF t

MissingInv == OneSourceInv /\ NoLevelOfMissingLeaf

\* No step stores a level of a missing leaf.
LEMMA StepMissing == ASSUME MissingInv, [CacheNext]_cachevars PROVE MissingInv'
<1>1. OneSourceInv'
  BY StepSource DEF MissingInv
<1>2. /\ CacheInv /\ VendorInv /\ SourceInv /\ NoLevelOfMissingLeaf /\ cpuid \in Processors
      /\ SourceInv'
  BY <1>1 DEF MissingInv, OneSourceInv, CacheInv
<1>3. /\ cpuid' = cpuid /\ TopologyExtensions' = TopologyExtensions
      /\ DescriptorPlaces' = DescriptorPlaces /\ \A p : DescribedBy(p)' = DescribedBy(p)
  <2>1. cpuid' = cpuid
    BY DEF CacheNext, GetX86CacheInfo, ParseLeaf2, ParseCacheInfo, ParseCacheInfoLegacyAMD, cachevars
  <2>2. QED
    BY <2>1, SameLeaves, SamePromise
<1>4. ASSUME UNCHANGED levels PROVE MissingInv'
  BY <1>1, <1>2, <1>3, <1>4, SameSubLeaves DEF MissingInv
<1>5. CASE GetX86CacheInfo
  BY <1>4, <1>5 DEF GetX86CacheInfo
<1>6. CASE ParseLeaf2
  <2>1. /\ cpuid.vendor \in IntelVendors /\ data' = data /\ data = Descriptors(Leaf2)
        /\ stage' \in {"leaf2", "deterministic"} /\ i \in 0 .. 15
        /\ stage' = "leaf2" => i' \in 0 .. 16
    BY <1>2, <1>6 DEF ParseLeaf2, VendorInv, SourceInv, CacheInv, Leaf2Inv
  <2>2. \E n \in 0 .. 16 : DescribedUpTo(n)'
    <3>1. CASE stage' = "leaf2"
      BY <1>2, <2>1, <3>1 DEF SourceInv
    <3>2. CASE stage' = "deterministic"
      BY <1>2, <1>3, <2>1, <3>2, 16 \in 0 .. 16 DEF SourceInv
    <3>3. QED
      BY <2>1, <3>1, <3>2
  <2>3. PICK n \in 0 .. 16 : DescribedUpTo(n)'
    BY <2>2
  <2> DEFINE S == {GetCacheLevelInfo(data[j]) : j \in Bytes(n)}
  <2>4. {levels'[k] : k \in DOMAIN levels'} = S
    BY <2>1, <2>3 DEF DescribedUpTo, Bytes
  <2>5. ASSUME NEW k \in DOMAIN levels'
        PROVE  /\ cpuid.max_cpuid_leaf >= 2
               /\ \E p \in DescriptorPlaces : levels'[k] = DescribedBy(p)
    <3>1. levels'[k] \in S
      BY <2>4
    <3> HIDE DEF S
    <3>2. \E p \in DescriptorPlaces : levels'[k] = DescribedBy(p)
      BY <1>2, <2>1, <3>1, DescribedIsPlace DEF S
    <3>3. QED
      BY <3>2, PlaceOfLeaf2
  <2>6. NoLevelOfMissingLeaf'
    BY <1>3, <2>1, <2>5 DEF NoLevelOfMissingLeaf
  <2>7. QED
    BY <1>1, <2>6 DEF MissingInv
<1>7. CASE ParseCacheInfo
  <2>1. /\ \/ cpuid.vendor \in IntelVendors
           \/ cpuid.vendor \in AmdVendors /\ TopologyExtensions
        /\ FoundUpTo(i)
        /\ levels' = levels \/ levels' = found
    BY <1>2, <1>7 DEF ParseCacheInfo, VendorInv, SourceInv
  <2>2. CASE levels' = levels
    BY <1>4, <2>2
  <2>3. CASE levels' = found
    <3>1. ASSUME NEW k \in DOMAIN levels'
          PROVE  /\ IF cpuid.vendor \in IntelVendors THEN cpuid.max_cpuid_leaf >= 4
                    ELSE cpuid.max_cpuid_leaf_ext >= 29
                 /\ OfSubLeaf(k)'
      <4>1. MaxLeaf >= LeafId /\ OfSubLeaf(k)'
        BY <1>2, <1>3, <2>1, <2>3, FoundOfSubLeaf
      <4>2. QED
        BY <4>1 DEF MaxLeaf, LeafId
    <3>2. NoLevelOfMissingLeaf'
      BY <1>3, <2>1, <3>1, VendorsApart DEF NoLevelOfMissingLeaf
    <3>3. QED
      BY <1>1, <3>2 DEF MissingInv
  <2>4. QED
    BY <2>1, <2>2, <2>3
<1>8. CASE ParseCacheInfoLegacyAMD
  <2>1. /\ cpuid.vendor \in AmdVendors /\ ~TopologyExtensions
        /\ i \in 0 .. 3 /\ Len(levels) = i /\ ASequence(levels)
    BY <1>2, <1>8 DEF ParseCacheInfoLegacyAMD, VendorInv, CacheInv, LegacyInv
  <2>2. \/ UNCHANGED levels
        \/ Legacy(i).size # 0 /\ \E level : levels' = Append(levels, level)
    <3>1. Legacy(i).size = 0 => GetCacheSizeLegacyAMD(LegacyLevel[i + 1], Legacy(i).size) = 0
      BY DEF GetCacheSizeLegacyAMD
    <3>2. QED
      BY <1>8, <3>1 DEF ParseCacheInfoLegacyAMD
  <2>3. ASSUME NEW level, levels' = Append(levels, level), Legacy(i).size # 0
        PROVE  MissingInv'
    <3>1. LegacyLeaf[i + 1] <= cpuid.max_cpuid_leaf_ext
      BY <2>3 DEF Legacy
    <3>2. ASSUME NEW k \in DOMAIN levels'
          PROVE  k <= LEGACY_AMD_MAX_CACHE_LEVEL /\ LegacyLeaf[k] <= cpuid.max_cpuid_leaf_ext
      <4>1. k \in DOMAIN levels \/ k = i + 1
        BY <2>1, <2>3, AppendElements
      <4>2. CASE k = i + 1
        BY <2>1, <3>1, <4>2 DEF LEGACY_AMD_MAX_CACHE_LEVEL
      <4>3. CASE k \in DOMAIN levels
        BY <1>2, <2>1, <4>3, VendorsApart DEF NoLevelOfMissingLeaf
      <4>4. QED
        BY <4>1, <4>2, <4>3
    <3>3. NoLevelOfMissingLeaf'
      BY <1>3, <2>1, <3>2 DEF NoLevelOfMissingLeaf
    <3>4. QED
      BY <1>1, <3>3 DEF MissingInv
  <2>4. QED
    BY <1>4, <2>2, <2>3
<1>9. CASE UNCHANGED cachevars
  BY <1>4, <1>9 DEF cachevars
<1>10. QED
  BY <1>5, <1>6, <1>7, <1>8, <1>9 DEF CacheNext

\* SafeCpuIdEx (lines 148-158) and the loops that use it, for every processor:
\* every level is a descriptor, a sub-leaf or a register of a leaf that the
\* processor has, and no sub-leaf behind the null one is among them.
THEOREM MissingLevelCorrect == CacheSpec => []NoLevelOfMissingLeaf
<1>1. CacheInit => MissingInv
  <2>1. SUFFICES ASSUME CacheInit PROVE MissingInv
    OBVIOUS
  <2>2. OneSourceInv
    BY <2>1, InitSource
  <2>3. NoLevelOfMissingLeaf
    BY <2>1 DEF CacheInit, NoLevelOfMissingLeaf
  <2>4. QED
    BY <2>2, <2>3 DEF MissingInv
<1>2. MissingInv /\ [CacheNext]_cachevars => MissingInv'
  BY StepMissing
<1>3. MissingInv => NoLevelOfMissingLeaf
  BY DEF MissingInv
<1>4. QED
  BY <1>1, <1>2, <1>3, PTL DEF CacheSpec
===============================================================================
