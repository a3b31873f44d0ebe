---------------------------- MODULE MCX86CacheInfo -----------------------------
(***************************************************************************)
(* Processors for X86CacheInfo: every descriptor alone; registers that are *)
(* empty, full or reserved, with and without deterministic parameters; and *)
(* AMD processors, old and new.                                            *)
(***************************************************************************)
EXTENDS X86CacheInfo

Cpu(vendor, max, ext, leaf, topology, sub_leaves, repeats, legacy) ==
  [vendor |-> vendor, max_cpuid_leaf |-> max, max_cpuid_leaf_ext |-> ext,
   leaf_2 |-> leaf, topology_extensions |-> topology,
   sub_leaves |-> sub_leaves, repeats |-> repeats, legacy |-> legacy]

Leaf(a, b, c, d) == [eax |-> a, ebx |-> b, ecx |-> c, edx |-> d]

Sub(type, level, sets) ==
  [type |-> type, level |-> level, line |-> 63, part |-> 0, ways |-> 7, sets |-> sets]

L1 == <<Sub(1, 1, 63), Sub(2, 1, 63)>>
SubLeaves == {<<>>, L1, L1 \o <<Sub(3, 2, 1023), Sub(3, 3, 4095)>>,
              L1 \o <<Sub(4, 2, 0), Sub(3, 3, 0)>>, <<Sub(31, 7, 0)>>,
              <<Sub(1, 1, 63), Sub(0, 0, 0), Sub(3, 3, 4095)>>}

Reg(size, ways, line) == [size |-> size, ways |-> ways, line |-> line]
NoLegacy == << Reg(0, 0, 0), Reg(0, 0, 0), Reg(0, 0, 0), Reg(0, 0, 0) >>
Legacies ==
  {<< Reg(d, 2, 64), Reg(c, 2, 64), Reg(l2, w, 64), Reg(l3, 6, 64) >> :
     d \in {0, 64}, c \in {0, 64}, l2 \in {0, 512}, w \in 0 .. 15, l3 \in {0, 12}}

Registers == { <<0, 0, 0, 0>>, <<\h5B, 0, \h7A, \h70>>, <<\h2C, \h40, \hFF, \h41>>,
               <<\h5B, 0, \h7A, \hF0>> }
Eaxs == { <<1, \h50, \h51, \h52>>, <<1, 0, 0, \hEC>>, <<3, 0, 0, \h60>>, <<0, 0, 0, 0>> }

OneDescriptor ==
  {Cpu("GenuineIntel", 2, 0, Leaf(<<1, d, 0, 0>>, NoRegister, NoRegister, NoRegister),
       FALSE, <<>>, FALSE, NoLegacy) : d \in 1 .. 255}

Intels ==
  {Cpu(v, max, 0, Leaf(a, b, c, d), FALSE, s, r, NoLegacy) :
     v \in {"GenuineIntel"}, max \in {1, 2, 3, 4}, a \in Eaxs, b \in Registers,
     c \in Registers, d \in {<<0, 0, 0, 0>>, <<\h2C, \h40, \hFF, \h41>>},
     s \in SubLeaves, r \in BOOLEAN}

Amds ==
  {Cpu(v, 1, ext, Leaf(NoRegister, NoRegister, NoRegister, NoRegister), t, s, FALSE, l) :
     v \in {"AuthenticAMD", "unknown"}, ext \in {0, 1, 5, 6, 29}, t \in BOOLEAN,
     s \in SubLeaves, l \in Legacies}

MCCpus == OneDescriptor \cup Intels \cup Amds
===============================================================================
