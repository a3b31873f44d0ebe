-------------------------- MODULE MCListCpuFeatures ----------------------------
(***************************************************************************)
(* Runs of list_cpu_features: a small tree in buffers of every alignment   *)
(* and of every size up to more than it needs, small trees with awkward    *)
(* strings, every list of two arguments, and the largest tree of every     *)
(* architecture in the buffer of 64 kB.                                    *)
(***************************************************************************)
EXTENDS ListCpuFeatures, TLC
LOCAL INSTANCE Functions

\* Names of features: the enumeration is not in the order of the names.
Named(n) == [i \in 1 .. n |-> ToString((i * 37) % 101)]
MCRank == [s \in {ToString(i) : i \in 0 .. 100} |->
             CHOOSE i \in 0 .. 100 : ToString(i) = s]

AllStrings == Strings \cup {"model"}
Numbers(n) ==
  [k \in {"family", "model", "stepping", "implementer", "architecture", "variant",
          "part", "revision", "# processors"} |-> n]
Info(arch, text, flags, levels) ==
  [arch |-> arch, name |-> IF arch = "x86" THEN <<"x", "8", "6">> ELSE <<arch>>,
   string |-> [k \in AllStrings |-> text], number |-> Numbers(12),
   flags |-> flags, levels |-> levels]

L(n) == [level |-> n, cache_type |-> "data", cache_size |-> 32768, ways |-> 8,
         line_size |-> 64, tlb_entries |-> 0, partitioning |-> 1]
Levels(n) == [i \in 1 .. n |-> L(i)]

Awkward == <<"a", "\"", "\\", "/", "\\">>
Texts == {<<>>, Awkward, [i \in 1 .. 8 |-> "b"], <<"\\">>}
Small ==
  {Info(arch, t, Named(n), Levels(l)) :
     arch \in {"x86", "riscv"}, t \in Texts, n \in 0 .. 3, l \in 0 .. 2}

\* The most flags, levels and characters that an architecture has.
Most == [x86 |-> 75, ARM |-> 28, aarch64 |-> 96, mips |-> 8, ppc |-> 41,
         s390x |-> 23, riscv |-> 11, loongarch |-> 14]
Large == {Info(arch, [i \in 1 .. 63 |-> "c"], Named(Most[arch]), Levels(16)) :
            arch \in DOMAIN Most}

One == Info("riscv", <<"b", "b", "b">>, Named(1), <<>>)

Full(at) == [at |-> at, capacity |-> 65536]
Tight == {[at |-> 4096 + offset, capacity |-> c] :
            offset \in 0 .. 7, c \in 0 .. 390}

MCInfos == Small \cup Large \cup {One}
MCBuffers == Tight \cup {Full(4096), Full(4099)}
MCArguments ==
  UNION {[1 .. n -> Json \cup Help \cup {"other"}] : n \in 0 .. 2}
MCWords ==
  UNION {UNION {Range(i.string[k]) : k \in AllStrings} \cup Range(i.name)
           : i \in MCInfos}
    \cup DOMAIN MCRank \cup {"data", "arch", "flags", "cache_info"}
    \cup DOMAIN L(1) \cup AllStrings \cup DOMAIN Numbers(0)

\* A small tree in every buffer, all small trees with at most one argument, one
\* tree with every list of arguments, and the largest trees.
Tried(buffers, infos, arguments) ==
  buffer \in buffers /\ info \in infos /\ argv \in arguments
AtMostOne == {a \in MCArguments : Len(a) < 2}
Chosen ==
  \/ Tried(Tight, {One}, {<<>>})
  \/ Tried({Full(4096)}, Small, AtMostOne)
  \/ Tried({Full(4096)}, {One}, MCArguments \ AtMostOne)
  \/ Tried({Full(4099)}, Large, {<<>>, <<"-j">>})
MCInit == Chosen /\ Init
MCSpec == MCInit /\ [][Next]_vars
===============================================================================
