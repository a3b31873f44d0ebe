------------------------------ MODULE MCHwcapsInfo ------------------------------
(***************************************************************************)
(* Calls for HwcapsInfo: every feature alone in every source, and few      *)
(* capabilities and files on every machine: 32 and 64 bits, both byte      *)
(* orders, every build, C library and state of /proc/self/auxv.            *)
(***************************************************************************)
EXTENDS HwcapsInfo

E(t, v) == [type |-> t, value |-> v]
AT_PHDR == {0, 1}
AT_UID == {0, 1, 3}
AT_FLAGS == {3}

\* A vector with a value that looks like a type, and one that is 0 half way.
Vector(bits, hwcap, hwcap2, pointers) ==
  <<E(AT_PHDR, {5, 17}), E(AT_UID, AT_HWCAP2), E(AT_HWCAP, hwcap),
    E(AT_FLAGS, {}), E(AT_HWCAP2, hwcap2)>> \o pointers

\* A 64-bit value whose low half is a type, and whose high half is not 0.
Unlucky == <<E(AT_PHDR, AT_HWCAP2 \cup {40, 41}), E(AT_HWCAP, {0})>>

Pointer(bits, n) == IF bits = 32 THEN {n, 9} ELSE {n, 9, 42}
Pointers(bits) ==
  <<E(AT_PLATFORM, Pointer(bits, 5)), E(AT_BASE_PLATFORM, Pointer(bits, 6))>>
Memory(bits) ==
  [p \in {Pointer(bits, 5), Pointer(bits, 6)} |->
     IF p = Pointer(bits, 5) THEN <<"p", "8">> ELSE <<"p", "w", "r", "9">>]

Machine(bits, big_endian, vector, build, libc, file) ==
  [bits |-> bits, big_endian |-> big_endian, vector |-> vector,
   build |-> build, libc |-> libc, file |-> file]
Good(bits, big_endian, vector) ==
  Machine(bits, big_endian, vector, "strong", "getauxval", "whole")
Builds == ({"strong"} \X {"getauxval"})
            \cup ({"dlopen"} \X {"missing", "no getauxval", "getauxval"})
OnEvery(bits, vectors) ==
  {Machine(bits, be, v, b[1], b[2], f) :
     be \in BOOLEAN, v \in vectors, b \in Builds,
     f \in {"missing", "failing", "short", "whole"}}
ElfAuxInfo(vectors) ==
  {Machine(64, FALSE, v, "elf_aux_info", "getauxval", "whole") : v \in vectors}

NoKey == [key |-> <<>>, value |-> <<>>]
Line(key, value) == [key |-> key, value |-> value]
File(lines, terminated) == [lines |-> lines, terminated |-> terminated]
Empty == File(<<>>, TRUE)

Call(function, arch, m, cpuinfo, sandboxed) ==
  [function |-> function, arch |-> arch, machine |-> m, cpuinfo |-> cpuinfo,
   sandboxed |-> sandboxed, memory |-> Memory(m.bits),
   midr |-> {24, 30, 16, 4, 6, 0}, present |-> {}, number |-> 0]

-------------------------------------------------------------------------------
Merging == {<<"GetAarch64Info", "aarch64", 64>>, <<"GetMipsInfo", "mips", 32>>,
            <<"GetPPCInfo", "ppc", 64>>, <<"GetPPCInfo", "ppc", 32>>,
            <<"GetS390XInfo", "s390x", 64>>}
Parsing == {<<"GetAarch64Info", "aarch64", 64>>, <<"GetMipsInfo", "mips", 32>>,
            <<"GetLoongArchInfo", "loongarch", 64>>}

MaskOf(arch, f) == kHardwareCapabilities(arch, f)
SingleBits ==
  UNION {{Call(m[1], m[2],
               Good(m[3], TRUE, Vector(m[3], MaskOf(m[2], f).hwcaps,
                                       MaskOf(m[2], f).hwcaps2, <<>>)),
               Empty, FALSE) : f \in Flags(m[2])} : m \in Merging}
SingleWords ==
  UNION {{Call(p[1], p[2], Good(p[3], FALSE, <<>>),
               File(<<Line(FeaturesKey(p[2]), <<f>>)>>, FALSE), FALSE) :
            f \in Flags(p[2])} : p \in Parsing}

\* Lines of two cores that differ, and a word that is no flag.
Core(n) ==
  IF n = 1 THEN <<"fp", " ", "cpuid", " ", "msa", " ", "cfg">>
  ELSE <<"cpuid", " ", "fpx", " ", "dsp", " ", "eva", " ", "lam">>
FilesOf(lines, n) ==
  {File(s, t) : s \in UNION {[1 .. k -> lines] : k \in 0 .. n}, t \in BOOLEAN}
CoreFiles(p) ==
  FilesOf({Line(FeaturesKey(p[2]), Core(1)), Line(FeaturesKey(p[2]), Core(2)),
           Line(<<"CPU part">>, <<"0", "x", "d", "1">>), NoKey}, 2)
Cores ==
  UNION {{Call(p[1], p[2], Good(p[3], FALSE, Vector(p[3], {0, 30}, {}, <<>>)),
               file, s) : file \in CoreFiles(p), s \in BOOLEAN} : p \in Parsing}

Vectors(bits) ==
  {Vector(bits, h, h2, <<>>) : h \in {{}, {4}}, h2 \in {{}, {19, bits - 1}}}
EveryMachine ==
  UNION {{Call(m[1], m[2], mach, Empty, TRUE) :
            mach \in OnEvery(m[3], Vectors(m[3]))} : m \in Merging}
    \cup {Call("GetAarch64Info", "aarch64", mach, Empty, TRUE) :
            mach \in OnEvery(64, {Unlucky})}
FreeBSD ==
  {Call("GetAarch64Info_FreeBSD", "aarch64", mach, Empty, TRUE) :
     mach \in ElfAuxInfo({Vector(64, {11, 0}, {63}, <<>>), Vector(64, {}, {}, <<>>),
                          <<>>})}

-------------------------------------------------------------------------------
StringLines ==
  {Line(<<"platform">>, <<"P", "S">>), Line(<<"the", " ", "platform">>, <<>>),
   Line(<<"model">>, <<"I", "B", "M", "9">>), Line(<<"cpu">>, <<"P", "8">>),
   Line(<<"# processors">>, <<"1", "2">>), NoKey}
StringFunctions == {<<"GetPPCPlatformStrings", "ppc">>, <<"GetS390XPlatformStrings", "s390x">>}
StringVectors(bits) ==
  {Vector(bits, {4}, {}, Pointers(bits)), Vector(bits, {4}, {}, <<>>),
   <<Pointers(bits)[2]>>}
StringCalls ==
  UNION {{Call(s[1], s[2], mach, Empty, TRUE) :
            mach \in UNION {OnEvery(b, StringVectors(b)) : b \in {32, 64}}}
         \cup {Call(s[1], s[2], Good(64, TRUE, Vector(64, {4}, {}, Pointers(64))),
                    file, FALSE) : file \in FilesOf(StringLines, 2)}
           : s \in StringFunctions}

Elsewhere(function, names) ==
  {[Call(function, "aarch64", Good(64, FALSE, <<>>), Empty, TRUE)
      EXCEPT !.present = p, !.number = 7] :
     p \in {{n} : n \in names} \cup {{}, names}}
Other == Elsewhere("GetAarch64Info_macOS", UNION {DarwinNames[f] : f \in DOMAIN DarwinNames})
           \cup Elsewhere("GetAarch64Info_Windows", DOMAIN WindowsFeatures)

MCCalls == SingleBits \cup SingleWords \cup Cores \cup EveryMachine \cup FreeBSD
             \cup StringCalls \cup Other
MCMachines == {c.machine : c \in MCCalls}
MCStale == {{}, AT_HWCAP}
===============================================================================
