------------------------------ MODULE MCRiscvInfo -------------------------------
(***************************************************************************)
(* cpuinfo files for RiscvInfo: isa strings of the form quoted in          *)
(* impl_riscv_linux.c:25, with m and a and any of f d q c v, followed by   *)
(* multi-letter extensions that hold letters of flags.                     *)
(***************************************************************************)
EXTENDS RiscvInfo, SequencesExt

Zicsr == kCpuInfoFlags[10]
Zifencei == kCpuInfoFlags[11]

\* A file: lines, and whether the last one is terminated.
File(lines, terminated) == [lines |-> lines, terminated |-> terminated]

Letters(S) == SetToSortSeq(S, <)
IsaLine(base, letters, exts) ==
  LET short == FoldLeft(LAMBDA s, f : s \o kCpuInfoFlags[f], <<>>,
                        <<base, 3, 4>> \o Letters(letters))
  IN  [key |-> "isa",
       value |-> FoldLeft(LAMBDA s, e : s \o e, short, exts),
       extensions |-> Len(short),
       declared |-> {base, 3, 4} \cup letters
                      \cup {f \in {10, 11} : Contains(exts, kCpuInfoFlags[f])}]

\* _zba holds an a; _sstc a c; h is no flag.
Extensions == {<<>>, <<Zicsr>>, <<Zifencei>>, <<Zicsr, Zifencei>>,
               << <<"h">>, <<"_zb", "a">> >>, << <<"_sst", "c">>, Zicsr >>}

AllIsaLines == {IsaLine(base, letters, exts) :
               base \in {1, 2}, letters \in SUBSET (5 .. 9), exts \in Extensions}

Uarch(value) == [key |-> "uarch", value |-> value]
NoKey == [key |-> "", value |-> <<>>]
Other == [key |-> "mmu", value |-> <<"sv39">>]

FewLines == {IsaLine(2, {5, 6, 8}, <<>>), IsaLine(2, {8}, <<>>),
             IsaLine(1, 5 .. 9, <<Zicsr, Zifencei>>), Other,
             Uarch(<<"thead", ",", "c906">>), Uarch(<<"sifive", ",", "u54">>)}

FilesOf(lines, n) ==
  {File(s, t) : s \in UNION {[1 .. k -> lines] : k \in 0 .. n}, t \in BOOLEAN}

NoVendor == Uarch(<<"x">>)

\* Every isa string alone, and files of up to three of the few lines; without
\* those of several lines that end with a uarch that has neither vendor nor
\* newline.
MCFiles ==
  {f \in FilesOf(AllIsaLines, 1) \cup FilesOf(FewLines \cup {NoVendor}, 3) :
     f.terminated \/ Len(f.lines) <= 1 \/ Last(f.lines) # NoVendor}

NoVendorFiles == FilesOf({Other, NoVendor}, 2)
===============================================================================
