------------------------- MODULE X86Microarchitecture --------------------------
(***************************************************************************)
(* Which x86 processor this is (src/src/impl_x86__base_implementation.inl): *)
(* family, model and stepping from the signature in leaf 1, the brand      *)
(* string, the microarchitecture, and the processors that have one AVX-512 *)
(* unit for fused multiply-add only.  The brand string is a function from  *)
(* the places of its characters.                                           *)
(***************************************************************************)
EXTENDS Integers

ExtractBitRange(reg, msb, lsb) == (reg \div 2^lsb) % 2^(msb - lsb + 1)

\* The assignments to info: the extended family and model always count.
Family(eax) == ExtractBitRange(eax, 27, 20) + ExtractBitRange(eax, 11, 8)
Model(eax) == ExtractBitRange(eax, 19, 16) * 16 + ExtractBitRange(eax, 7, 4)
Identity(eax) ==
  [family |-> Family(eax), model |-> Model(eax),
   stepping |-> ExtractBitRange(eax, 3, 0)]
NoIdentity == [family |-> 0, model |-> 0, stepping |-> 0]

BRAND == 0 .. 47
NoBrand == [i \in BRAND |-> "NUL"]

-------------------------------------------------------------------------------
\* What is looked for in the brand of a Skylake server.
Xeon(brand) == brand[9] = "X"
SilverOrBronze(brand) == brand[17] \in {"S", "B"}
Gold5(brand) == brand[17] = "G" /\ brand[22] = "5"
BigGold5(brand) == brand[23] = "3" \/ (brand[24] = "2" /\ brand[25] = "2")
W210x(brand) == brand[17] = "W" /\ brand[21] = "0"
D21xx(brand) == brand[17] = "D" /\ brand[19] = "2" /\ brand[20] = "1"

\* Mutant: every Gold of the series 5xx2 is taken for a 5_22.
HasSecondFMALooseGold(model, brand) ==
  CASE model = 85 -> (Xeon(brand) => /\ ~SilverOrBronze(brand)
                                     /\ Gold5(brand) => brand[24] = "2"
                                     /\ ~W210x(brand) /\ ~D21xx(brand))
    [] model = 102 -> FALSE
    [] model \in {125, 126} -> FALSE
    [] OTHER -> TRUE

\* Skylake server, Cannon Lake client, Ice Lake client; neither the vendor nor
\* the family is looked at.
HasSecondFMA(model, brand) ==
  CASE model = 85 -> (Xeon(brand) => /\ ~SilverOrBronze(brand)
                                     /\ Gold5(brand) => BigGold5(brand)
                                     /\ ~W210x(brand) /\ ~D21xx(brand))
    [] model = 102 -> FALSE
    [] model \in {125, 126} -> FALSE
    [] OTHER -> TRUE

-------------------------------------------------------------------------------
Row(family, models, uarch) ==
  [family |-> family, models |-> models, uarch |-> uarch]

IntelRows ==
  {Row(4, {1, 2, 3, 4, 5, 7, 8, 9}, "INTEL_80486"),
   Row(5, {1, 2, 4, 7, 8}, "INTEL_P5"),
   Row(5, {9, 10}, "INTEL_LAKEMONT"),
   Row(6, {\h1C, \h35, \h36, \h70}, "INTEL_ATOM_BNL"),
   Row(6, {\h37, \h4C}, "INTEL_ATOM_SMT"),
   Row(6, {\h5C}, "INTEL_ATOM_GMT"),
   Row(6, {\h7A}, "INTEL_ATOM_GMT_PLUS"),
   Row(6, {\h8A, \h96, \h9C}, "INTEL_ATOM_TMT"),
   Row(6, {\h0E, \h0F, \h16}, "INTEL_CORE"),
   Row(6, {\h17, \h1D}, "INTEL_PNR"),
   Row(6, {\h1A, \h1E, \h1F, \h2E}, "INTEL_NHM"),
   Row(6, {\h25, \h2C, \h2F}, "INTEL_WSM"),
   Row(6, {\h2A, \h2D}, "INTEL_SNB"),
   Row(6, {\h3A, \h3E}, "INTEL_IVB"),
   Row(6, {\h3C, \h3F, \h45, \h46}, "INTEL_HSW"),
   Row(6, {\h3D, \h47, \h4F, \h56}, "INTEL_BDW"),
   Row(6, {\h4E, \h5E}, "INTEL_SKL"),
   Row(6, {\h66}, "INTEL_CNL"),
   Row(6, {\h7D, \h7E, \h9D, \h6A, \h6C}, "INTEL_ICL"),
   Row(6, {\h8C, \h8D}, "INTEL_TGL"),
   Row(6, {\h8F}, "INTEL_SPR")}

LaterIntelRows ==
  {Row(6, {\h97, \h9A, \hBE}, "INTEL_ADL"),
   Row(6, {\hA5, \hA6}, "INTEL_CML"),
   Row(6, {\hA7}, "INTEL_RCL"),
   Row(6, {\hB7, \hBA, \hBF}, "INTEL_RPL"),
   Row(6, {\hBD}, "INTEL_LNL"),
   Row(6, {\hC5, \hC6, \hB5}, "INTEL_ARL"),
   Row(6, {\h85}, "INTEL_KNIGHTS_M"),
   Row(6, {\h57}, "INTEL_KNIGHTS_L"),
   Row(11, {0}, "INTEL_KNIGHTS_F"),
   Row(11, {1}, "INTEL_KNIGHTS_C"),
   Row(15, {1, 2, 3, 4, 6}, "INTEL_NETBURST")}

\* Three models of family 6 are told apart by their steppings.
IntelSteppings(stepping) ==
  {Row(6, {\h55}, IF stepping \in 6 .. 7 THEN "INTEL_CCL" ELSE "INTEL_SKL"),
   Row(6, {\h8E}, CASE stepping = 9 -> "INTEL_KBL"
                    [] stepping = 10 -> "INTEL_CFL"
                    [] stepping = 11 -> "INTEL_WHL"
                    [] stepping = 12 -> "INTEL_CML"
                    [] OTHER -> "X86_UNKNOWN"),
   Row(6, {\h9E}, IF stepping > 9 THEN "INTEL_CFL" ELSE "INTEL_KBL")}

ZhaoxinRows ==
  {Row(6, {\h0F, \h19}, "ZHAOXIN_ZHANGJIANG"),
   Row(7, {\h1B}, "ZHAOXIN_WUDAOKOU"),
   Row(7, {\h3B}, "ZHAOXIN_LUJIAZUI"),
   Row(7, {\h5B}, "ZHAOXIN_YONGFENG")}

AmdRows ==
  {Row(\hF, {\h04, \h05, \h07, \h08, \h0C, \h0E, \h0F, \h14, \h15, \h17, \h18,
             \h1B, \h1C, \h1F, \h21, \h23, \h24, \h25, \h27, \h2B, \h2C, \h2F,
             \h41, \h43, \h48, \h4B, \h4C, \h4F, \h5D, \h5F, \h68, \h6B, \h6F,
             \h7F, \hC1}, "AMD_HAMMER"),
   Row(\h10, {2, 4, 5, 6, 8, 9, 10}, "AMD_K10"),
   Row(\h11, {3}, "AMD_K11"),
   Row(\h12, {0, 1}, "AMD_K12"),
   Row(\h14, {0, 1, 2}, "AMD_BOBCAT"),
   Row(\h15, {1}, "AMD_BULLDOZER"),
   Row(\h15, {\h02, \h10, \h11, \h13}, "AMD_PILEDRIVER"),
   Row(\h15, {\h30, \h38}, "AMD_STREAMROLLER"),
   Row(\h15, {\h60, \h65, \h70}, "AMD_EXCAVATOR"),
   Row(\h16, {\h00, \h26}, "AMD_JAGUAR"),
   Row(\h16, {\h30}, "AMD_PUMA"),
   Row(\h17, {\h01, \h11, \h18, \h20}, "AMD_ZEN"),
   Row(\h17, {\h08}, "AMD_ZEN_PLUS"),
   Row(\h17, {\h31, \h47, \h60, \h68, \h71, \h84, \h90, \h98, \hA0},
       "AMD_ZEN2"),
   Row(\h19, {\h00, \h01, \h08, \h21, \h30, \h40, \h44, \h50}, "AMD_ZEN3"),
   Row(\h19, {\h10, \h11, \h61, \h74}, "AMD_ZEN4")}

Zen5Rows ==
  {Row(\h1A, \h00 .. \h4F \cup \h60 .. \h77 \cup \hD0 .. \hD7, "AMD_ZEN5")}

RowsOf(vendor, stepping) ==
  CASE vendor = "GenuineIntel" ->
         IntelRows \cup LaterIntelRows \cup IntelSteppings(stepping)
    [] vendor \in {"CentaurHauls", "  Shanghai  "} -> ZhaoxinRows
    [] vendor = "AuthenticAMD" -> AmdRows \cup Zen5Rows
    [] vendor = "HygonGenuine" -> {Row(\h18, {0, 1}, "AMD_ZEN")}
    [] OTHER -> {}

\* The macro CPUID takes a byte of each number.
GetX86Microarchitecture(vendor, info) ==
  LET fits == {r \in RowsOf(vendor, info.stepping) :
                 r.family = info.family % 256 /\ info.model % 256 \in r.models}
  IN  IF fits = {} THEN "X86_UNKNOWN" ELSE (CHOOSE r \in fits : TRUE).uarch
===============================================================================
