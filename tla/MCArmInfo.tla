-------------------------------- MODULE MCArmInfo -------------------------------
(***************************************************************************)
(* cpuinfo files for ArmInfo: the processors for which FixErrors makes an  *)
(* exception and one for which it does not, described in full; and short   *)
(* files of few lines in any order, of several cores.                      *)
(***************************************************************************)
EXTENDS ArmInfo

File(lines, terminated) == [lines |-> lines, terminated |-> terminated]
Line(key, value) == [key |-> key, value |-> value]
NoKey == Line("", <<>>)

CONSTANT FlagSets   \* The sets of flags on a Features line.

Hex4D == <<"0", "x", "0", "4", "d">>
\* implementer, variant, part, revision: the emulator, the Krait without NEON,
\* the Krait of Nexus 4, a Cortex-A15.
Processors ==
  { << <<"0", "x", "4", "1">>, <<"0">>, <<"0", "x", "c", "0", "8">>, <<"0">> >>,
    << <<"0", "x", "5", "1">>, <<"1">>, Hex4D, <<"0">> >>,
    << <<"0", "x", "5", "1">>, <<"0">>, <<"0", "x", "6", "f">>, <<"2">> >>,
    << <<"0", "x", "4", "1">>, <<"2">>, <<"0", "x", "c", "0", "f">>, <<"3">> >> }

Architectures == { <<"6", "T", "E", "J">>, <<"7">>, <<"8">>, <<"A", "A">> }

Described(armv6, flags, cpu, architecture, goldfish) ==
  << Line("Processor", armv6), Line("Features", flags),
     Line("CPU implementer", cpu[1]), Line("CPU architecture", architecture),
     Line("CPU variant", cpu[2]), Line("CPU part", cpu[3]),
     Line("CPU revision", cpu[4]), Line("Hardware", goldfish) >>

FullFiles ==
  {File(Described(armv6, flags, cpu, architecture, goldfish), TRUE) :
     armv6 \in BOOLEAN, goldfish \in BOOLEAN, flags \in FlagSets,
     cpu \in Processors, architecture \in Architectures}

FewLines ==
  { Line("Features", {"neon", "swp", "unknown"}), Line("Features", {"vfpv4", "lpae"}),
    Line("CPU implementer", <<"0", "x", "5", "1">>), Line("CPU part", Hex4D),
    Line("CPU architecture", <<"7">>), Line("model name", TRUE), NoKey }

ShortFiles ==
  {File(s, t) : s \in UNION {[1 .. k -> FewLines] : k \in 0 .. 3}, t \in BOOLEAN}

MCFiles == FullFiles \cup ShortFiles

MCFlagSets == SUBSET {"neon", "vfpv4", "idiva"}
\* Nothing (no AT_HWCAP at all), both words, and a bit that cpuinfo lacks.
MCHwcaps ==
  { [hwcaps |-> {}, hwcaps2 |-> {}], [hwcaps |-> {"neon"}, hwcaps2 |-> {"aes"}],
    [hwcaps |-> {"vfpv3d16", "vfpv3"}, hwcaps2 |-> {}] }
===============================================================================
