------------------------------- MODULE MCX86Info --------------------------------
(***************************************************************************)
(* Machines for X86Info: every leaf with and without the bits of one or    *)
(* two features of each kind, maximal leaves that cut some of them off     *)
(* (what CPUID answers there remains), the values that XCR0 may have, the  *)
(* four operating systems, and the products with AVX-512.                  *)
(***************************************************************************)
EXTENDS X86Info

Ymm == {"XMM", "YMM"}
Zmm == Ymm \cup {"MASKREG", "ZMM0_15", "ZMM16_31"}
Tiles == {"XTILECFG", "XTILEDATA"}
XCR0s == {{}, {"XMM"}, Ymm, Zmm, Ymm \cup Tiles, Zmm \cup Tiles}

Xsave == {"xsave", "osxsave"}
Leaf1s == {{"sse", "ssse3", "f16c"}, {"avx", "aes"}, {"sse", "avx"}}

Leaf7s == {{}, {"avx2", "vaes"}, {"avx2", "avx512f", "amx_tile"}}

Cpuids ==
  {[leaf_1 |-> l1 \cup x, leaf_7 |-> l7, leaf_7_1 |-> l71,
    leaf_80000001 |-> l81, leaf_80000021 |-> {"uai"}] :
     l1 \in Leaf1s, x \in {{}, {"xsave"}, Xsave}, l7 \in Leaf7s,
     l71 \in {{}, {"avx512_bf16", "amx_fp16"}},
     l81 \in {{}, {"sse4a", "fma4", "lzcnt"}}}

\* The brand string of a product; the rest of the 48 characters is NUL.
Brand(text) == [i \in BRAND |-> IF i < Len(text) THEN text[i + 1] ELSE "NUL"]
Intel == <<"I", "n", "t", "e", "l", "(", "R", ")", " ">>
IntelXeon == Intel \o <<"X", "e", "o", "n", "(", "R", ")", " ">>
Gold(number) == IntelXeon \o <<"G", "o", "l", "d", " ">> \o number
Products ==
  {[product |-> "Core", text |-> Intel \o <<"C", "o", "r", "e">>],
   [product |-> "Platinum", text |-> IntelXeon \o <<"P", "l", "a", "t">>],
   [product |-> "Silver", text |-> IntelXeon \o <<"S", "i", "l", "v">>],
   [product |-> "Bronze", text |-> IntelXeon \o <<"B", "r", "o", "n">>],
   [product |-> "Gold 6", text |-> Gold(<<"6", "1", "3", "0">>)],
   [product |-> "Gold 53", text |-> Gold(<<"5", "3", "1", "8">>)],
   [product |-> "Gold 5_22", text |-> Gold(<<"5", "1", "2", "2">>)],
   [product |-> "Gold 5_20 and below", text |-> Gold(<<"5", "1", "2", "0">>)],
   [product |-> "Gold 5_20 and below", text |-> Gold(<<"5", "1", "1", "8">>)],
   [product |-> "other W",
    text |-> IntelXeon \o <<"W", "-", "2", "1", "4", "5">>],
   [product |-> "W 210x",
    text |-> IntelXeon \o <<"W", "-", "2", "1", "0", "4">>],
   [product |-> "D 2xxx",
    text |-> IntelXeon \o <<"D", "-", "2", "1", "4", "6">>]}

Signature(family, model, stepping) ==
  (model \div 16) * 65536 + family * 256 + (model % 16) * 16 + stepping

Cpu(vendor, max, ext, bits, eax, p) ==
  [vendor |-> vendor, max_cpuid_leaf |-> max, max_cpuid_leaf_ext |-> ext,
   cpuid |-> bits, signature |-> eax, product |-> p.product,
   brand |-> Brand(p.text)]
NoProduct == [product |-> "none", text |-> <<>>]

\* Processors with AVX-512: the models with and without a second unit for FMA,
\* steppings on both sides of the borders, and what a hypervisor may leave of
\* the brand string.
Avx512Cpuid ==
  [leaf_1 |-> {"xsave", "osxsave", "avx"}, leaf_7 |-> {"avx2", "avx512f"},
   leaf_7_1 |-> {}, leaf_80000001 |-> {}, leaf_80000021 |-> {}]
Models(product) ==
  {\h55} \cup IF product = "Core"
             THEN {\h4E, \h66, \h6A, \h7D, \h7E, \h8C, \h8F, \h9D} ELSE {}
Avx512Cpus ==
  UNION {{Cpu("GenuineIntel", 7, ext, Avx512Cpuid,
              Signature(6, model, stepping), p) :
            model \in Models(p.product), stepping \in {4, 5, 6, 7, 8},
            ext \in {0, 3, 4}} : p \in Products}

MCCpus ==
  {Cpu(v, m, e, c, Signature(6, \h3A, 9), NoProduct) :
     v \in {"GenuineIntel", "AuthenticAMD", "unknown"},
     m \in {0, 6, 7}, e \in {0, 1, 33}, c \in Cpuids}
    \cup Avx512Cpus

\* XCR0 is there only with OSXSAVE; otherwise the system is asked.
MCSystems(c) ==
  IF Xsave \subseteq c.cpuid.leaf_1 /\ c.max_cpuid_leaf > 0
  THEN [os : {"linux"}, xcr0 : XCR0s, text : {<<>>}, sysctl : {{}}]
         \cup [os : {"macos"}, xcr0 : {Ymm, Zmm}, text : {<<>>},
               sysctl : {{}, {"avx512f"}}]
  ELSE [os : {"linux", "freebsd"}, xcr0 : {{}}, sysctl : {{}},
        text : {<<>>, <<{"sse"}>>, <<{"sse2"}, {"sse", "apic"}>>}]
         \cup [os : {"macos", "windows"}, xcr0 : {{}}, text : {<<>>},
               sysctl : {{}, {"sse", "sse2"}}]

\* An Ivy Bridge whose system does not save the YMM registers, or not with XSAVE.
OldSystemCpus ==
  {Cpu("GenuineIntel", 7, 1,
       [leaf_1 |-> {"sse", "avx", "f16c"} \cup x, leaf_7 |-> {},
        leaf_7_1 |-> {}, leaf_80000001 |-> {"lzcnt"}, leaf_80000021 |-> {}],
       Signature(6, \h3A, 9), NoProduct) :
     x \in {{"xsave"}, Xsave}}
===============================================================================
