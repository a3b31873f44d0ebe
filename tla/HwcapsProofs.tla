------------------------------- MODULE HwcapsProofs -----------------------------
(***************************************************************************)
(* AnswerOrMisread for every machine: any vector, 32 or 64 bits, both byte *)
(* orders, every build and state of the C library and of /proc/self/auxv,  *)
(* for AuxiliaryVector on its own and as the functions of HwcapsInfo use   *)
(* it.  Then FeaturesDeclared and PlatformStrings, for every function, on  *)
(* every machine, with every /proc/cpuinfo: what a function has done of    *)
(* its plan tells what its features and its strings are (PlanInv), after   *)
(* every line of the file (LinesInv) and every copy (TypesInv).            *)
(***************************************************************************)
EXTENDS HwcapsInfo, StringViewProofs

AuxTypeOK ==
  /\ machine \in MachineType(32) \cup MachineType(64)
  /\ step \in {"idle", "libc", "open", "read", "answered"}
  /\ step # "idle" => type \in Types
  /\ at \in Nat

\* /proc/self/auxv is read only where the C library gave nothing.
LibcSilent ==
  step \in {"open", "read"} => FromLibc(type) = {} /\ machine.build # "elf_aux_info"

\* The loop has passed k pairs of words; in a 32-bit process, k entries of
\* other types, the AT_NULL at the end not among them.
Passed(k) ==
  /\ at = 2 * k /\ k <= Pairs
  /\ machine.bits = 32 =>
       /\ k <= Len(machine.vector)
       /\ \A i \in 1 .. k : machine.vector[i].type # type

\* Where reads are short, the value in the entry is as the stack had it, or one of
\* the words read.
PassedWords ==
  /\ at <= 2 * Pairs
  /\ entry.value \in Stale \/ \E j \in 1 .. at : entry.value = Word(j)

Scan ==
  step = "read" =>
    /\ machine.file # "missing"
    /\ IF machine.file = "short" THEN PassedWords ELSE \E k \in Nat : Passed(k)

AuxInv == AuxTypeOK /\ LibcSilent /\ Scan /\ AnswerOrMisread

-------------------------------------------------------------------------------
LEMMA TypesNotEmpty == \A t \in Types : t # {} /\ t \subseteq Bits(32)
  BY DEF Types, AT_PLATFORM, AT_HWCAP, AT_BASE_PLATFORM, AT_HWCAP2, Bits

\* A machine of either width, with what its entries are.
LEMMA MachineFields ==
  ASSUME AuxTypeOK
  PROVE  /\ machine.bits \in {32, 64}
         /\ machine.vector \in Seq(Entry(machine.bits))
         /\ Len(machine.vector) \in Nat
         /\ machine.file \in {"missing", "failing", "short", "whole"}
         /\ machine.build \in {"strong", "dlopen", "elf_aux_info"}
         /\ \A i \in 1 .. Len(machine.vector) :
              /\ machine.vector[i].type # {}
              /\ machine.vector[i].type \subseteq Bits(32)
              /\ machine.vector[i].value \subseteq Bits(machine.bits)
  <1>1. PICK b \in {32, 64} : machine \in MachineType(b)
    BY DEF AuxTypeOK
  <1>2. /\ machine.bits = b
        /\ machine.vector \in Seq(Entry(b))
        /\ machine.file \in {"missing", "failing", "short", "whole"}
        /\ machine.build \in {"strong", "dlopen", "elf_aux_info"}
    BY <1>1 DEF MachineType
  <1>3. /\ Len(machine.vector) \in Nat
        /\ \A i \in 1 .. Len(machine.vector) : machine.vector[i] \in Entry(b)
    BY <1>2
  <1> QED BY <1>2, <1>3 DEF Entry

\* The low half of a word is the word, and its high half is 0.
LEMMA HalvesOfWord ==
  ASSUME NEW v \in SUBSET Bits(32)
  PROVE  Half(v, 0) = v /\ Half(v, 1) = {}
  <1>1. \A b \in Bits(32) : b + 32 * 0 = b /\ b + 32 * 1 \notin Bits(32)
    BY DEF Bits
  <1> QED BY <1>1 DEF Half

LEMMA HalvesOfNothing == \A h : Half({}, h) = {}
  BY DEF Half

\* When the C library gave nothing, 0 is an answer that AnswerOrMisread allows,
\* unless the file of a 32-bit process has another.
LEMMA NothingIsTrue ==
  ASSUME AuxTypeOK, FromLibc(type) = {}, machine.build # "elf_aux_info",
         Kernel(type) = {} \/ machine.bits # 32 \/ machine.file # "whole"
  PROVE  {} = Seen(Kernel(type)) \/ ~Complete
  BY MachineFields, HalvesOfNothing DEF FromLibc, Seen, Complete

\* The first entry of the type gives what the kernel says of it.
LEMMA FirstEntry ==
  ASSUME NEW k \in Nat, k + 1 \in DOMAIN machine.vector,
         \A i \in 1 .. k : machine.vector[i].type # type,
         machine.vector[k + 1].type = type, AuxTypeOK
  PROVE  Kernel(type) = machine.vector[k + 1].value
  <1>0. DOMAIN machine.vector = 1 .. Len(machine.vector) /\ Len(machine.vector) \in Nat
    BY MachineFields
  <1>1. k + 1 \in Having(type)
    BY DEF Having
  <1>2. \A j \in Having(type) : j \in Nat /\ k + 1 <= j
    BY <1>0 DEF Having
  <1>3. (CHOOSE i \in Having(type) : \A j \in Having(type) : i <= j) = k + 1
    <2>1. \A i \in Having(type) : (\A j \in Having(type) : i <= j) => i = k + 1
      BY <1>1, <1>2
    <2> QED BY <1>1, <1>2, <2>1
  <1> QED BY <1>1, <1>3 DEF Kernel

LEMMA NoEntry ==
  ASSUME \A i \in 1 .. Len(machine.vector) : machine.vector[i].type # type, AuxTypeOK
  PROVE  Kernel(type) = {}
  <1>1. DOMAIN machine.vector = 1 .. Len(machine.vector)
    BY MachineFields
  <1> QED BY <1>1 DEF Kernel, Having

-------------------------------------------------------------------------------
\* The next two words of the file, k pairs having been read.
LEMMA WordsOfPair ==
  ASSUME NEW k \in Nat, at = 2 * k
  PROVE  Word(at + 1) = Pair(k + 1)[1] /\ Word(at + 2) = Pair(k + 1)[2]
  <1>1. /\ (at + 1) % 2 = 1 /\ (at + 1 + 1) \div 2 = k + 1
        /\ (at + 2) % 2 = 0 /\ (at + 2 + 1) \div 2 = k + 1
    OBVIOUS
  <1> QED BY <1>1 DEF Word

\* In a 32-bit process a pair is an entry, and AT_NULL is at the end only.
LEMMA Pair32 ==
  ASSUME AuxTypeOK, machine.bits = 32, NEW k \in Nat, k <= Len(machine.vector)
  PROVE  \/ /\ k + 1 \in 1 .. Len(machine.vector)
            /\ Pair(k + 1)[1] = machine.vector[k + 1].type
            /\ Pair(k + 1)[2] = machine.vector[k + 1].value
            /\ machine.vector[k + 1].type # {}
         \/ /\ k = Len(machine.vector)
            /\ Pair(k + 1)[1] = {} /\ Pair(k + 1)[2] = {}
  <1>1. Len(machine.vector) \in Nat
    BY MachineFields
  <1>2. CASE k < Len(machine.vector)
    BY <1>1, <1>2, MachineFields DEF Pair, EntryAt
  <1>3. CASE k = Len(machine.vector)
    BY <1>1, <1>3 DEF Pair, EntryAt
  <1> QED BY <1>1, <1>2, <1>3

\* In a 64-bit process a pair whose first word is the type asked for is
\* followed by 0, or the pair is a value, however the words of an entry are ordered.
LEMMA Pair64 ==
  ASSUME AuxTypeOK, machine.bits # 32, type \in Types,
         NEW p \in Nat \ {0}, Pair(p)[1] = type
  PROVE  \/ Pair(p)[2] = {}
         \/ \E i \in DOMAIN machine.vector :
              Split(machine.vector[i].value) = <<type, Pair(p)[2]>>
  <1>0. machine.bits = 64 /\ Len(machine.vector) \in Nat
    BY MachineFields
  <1>n. type # {}
    BY TypesNotEmpty
  <1>1. CASE p % 2 = 1
    <2> DEFINE t == EntryAt((p + 1) \div 2).type
    <2>1. (p + 1) \div 2 \in Nat \ {0}
      OBVIOUS
    <2>2. t \in SUBSET Bits(32)
      BY <1>0, <2>1, MachineFields DEF EntryAt
    <2>3. Pair(p) = Split(t)
      BY <1>0, <1>1 DEF Pair
    <2>4. Half(t, 0) = t /\ Half(t, 1) = {}
      BY <2>2, HalvesOfWord
    <2> QED BY <1>n, <2>3, <2>4 DEF Split
  <1>2. CASE p % 2 # 1
    <2> DEFINE i == p \div 2
    <2>1. i \in Nat \ {0}
      BY <1>2
    <2>2. Pair(p) = Split(EntryAt(i).value)
      BY <1>0, <1>2 DEF Pair
    <2>3. CASE i <= Len(machine.vector)
      <3>1. i \in DOMAIN machine.vector
        BY <1>0, <2>1, <2>3, MachineFields
      <3>2. EntryAt(i) = machine.vector[i]
        BY <2>3 DEF EntryAt
      <3>3. Split(machine.vector[i].value) = <<type, Pair(p)[2]>>
        BY <2>2, <3>2 DEF Split
      <3> QED BY <3>1, <3>3
    <2>4. CASE ~(i <= Len(machine.vector))
      <3>1. EntryAt(i).value = {}
        BY <2>4 DEF EntryAt
      <3>2. Pair(p)[1] = {}
        BY <2>2, <3>1, HalvesOfNothing DEF Split
      <3> QED BY <1>n, <3>2
    <2> QED BY <2>3, <2>4
  <1> QED BY <1>1, <1>2

-------------------------------------------------------------------------------
\* The words of the file do not change.
LEMMA SameFile ==
  ASSUME machine' = machine
  PROVE  /\ Pairs' = Pairs /\ \A k : Word(k)' = Word(k)
         /\ Complete' = Complete
         /\ \A t : /\ Seen(Kernel(t))' = Seen(Kernel(t))
                   /\ FromLibc(t)' = FromLibc(t)
                   /\ \A v : Misread(t, v)' <=> Misread(t, v)
  <1>1. Pairs' = Pairs /\ \A k : Word(k)' = Word(k)
    BY DEF Pairs, Word, Pair, EntryAt, Split
  <1>2. \A t : /\ Seen(Kernel(t))' = Seen(Kernel(t))
               /\ FromLibc(t)' = FromLibc(t)
    BY DEF Seen, Kernel, Having, FromLibc
  <1>3. \A v : Split(v)' = Split(v)
    BY DEF Split
  <1>4. \A t, v : Misread(t, v)' <=> Misread(t, v)
    BY <1>1, <1>2, <1>3 DEF Misread
  <1> QED BY <1>1, <1>2, <1>4 DEF Complete

\* A read of a part of an entry, or of a whole one where reads may be short.
LEMMA ShortReadKeeps ==
  ASSUME AuxInv, ReadEntry, machine.file = "short"
  PROVE  (Scan /\ AnswerOrMisread)'
  <1>0. /\ AuxTypeOK /\ step = "read" /\ at \in Nat
        /\ FromLibc(type) = {} /\ machine.build # "elf_aux_info"
        /\ machine' = machine /\ type' = type /\ PassedWords
    BY DEF AuxInv, ReadEntry, AuxTypeOK, LibcSilent, Scan
  <1>1. PICK n \in WordsRead :
          /\ at' = at + n
          /\ entry' = [tag   |-> IF n > 0 THEN Word(at + 1) ELSE entry.tag,
                       value |-> IF n > 1 THEN Word(at + 2) ELSE entry.value]
          /\ IF n = 0 \/ (entry'.tag = {} /\ entry'.value = {}) THEN Return({})
             ELSE IF entry'.tag = type THEN Return(entry'.value)
             ELSE UNCHANGED <<step, answer>>
    BY DEF ReadEntry
  <1>2. Pairs \in Nat
    <2>1. machine.bits \div 32 \in Nat /\ Len(machine.vector) + 1 \in Nat
      BY <1>0, MachineFields
    <2> QED BY <2>1 DEF Pairs
  <1>3. n \in Nat /\ n <= 2 /\ at + n <= 2 * Pairs
    BY <1>0, <1>2 DEF WordsRead, PassedWords
  <1>4. entry'.value \in Stale \/ \E j \in 1 .. at + n : entry'.value = Word(j)
    <2>1. CASE n > 1
      BY <1>0, <1>1, <1>3, <2>1, at + 2 \in 1 .. at + n
    <2>2. CASE ~(n > 1)
      <3>1. entry'.value = entry.value
        BY <1>1, <2>2
      <3>2. \A j \in 1 .. at : j \in 1 .. at + n
        BY <1>0, <1>3
      <3> QED BY <1>0, <3>1, <3>2 DEF PassedWords
    <2> QED BY <2>1, <2>2
  <1>5. PassedWords'
    <2>1. Pairs' = Pairs /\ \A j : Word(j)' = Word(j)
      BY <1>0, SameFile
    <2> QED BY <1>1, <1>3, <1>4, <2>1 DEF PassedWords
  <1>6. Scan'
    BY <1>0, <1>5 DEF Scan
  <1>7. CASE n = 0 \/ (entry'.tag = {} /\ entry'.value = {})
    <2>1. step' = "answered" /\ answer' = {}
      BY <1>1, <1>7 DEF Return
    <2>2. {} = Seen(Kernel(type)) \/ ~Complete
      BY <1>0, NothingIsTrue
    <2> QED BY <1>0, <1>6, <2>1, <2>2, SameFile DEF AnswerOrMisread
  <1>8. CASE n # 0 /\ ~(entry'.tag = {} /\ entry'.value = {}) /\ entry'.tag = type
    <2>1. answer' = entry'.value /\ Word(at + 1) = type
      BY <1>1, <1>3, <1>8 DEF Return
    <2>2. at + 1 \in 1 .. 2 * Pairs /\ \A j \in 1 .. at + n : j \in 1 .. (at + 1) + 1
      BY <1>0, <1>2, <1>3, <1>8
    <2>3. Misread(type, answer')
      BY <1>0, <1>4, <2>1, <2>2 DEF Misread
    <2> QED BY <1>0, <1>6, <2>3, SameFile DEF AnswerOrMisread
  <1>9. CASE n # 0 /\ ~(entry'.tag = {} /\ entry'.value = {}) /\ entry'.tag # type
    BY <1>0, <1>1, <1>6, <1>9 DEF AnswerOrMisread
  <1> QED BY <1>7, <1>8, <1>9

\* One read of the loop.
LEMMA ReadEntryKeeps ==
  ASSUME AuxInv, ReadEntry
  PROVE  (LibcSilent /\ Scan /\ AnswerOrMisread)'
  <1>0. /\ AuxTypeOK /\ step = "read" /\ type \in Types
        /\ FromLibc(type) = {} /\ machine.build # "elf_aux_info"
        /\ machine' = machine /\ type' = type
    BY DEF AuxInv, ReadEntry, AuxTypeOK, LibcSilent
  <1>1. PICK n \in WordsRead :
          /\ at' = at + n
          /\ entry' = [tag   |-> IF n > 0 THEN Word(at + 1) ELSE entry.tag,
                       value |-> IF n > 1 THEN Word(at + 2) ELSE entry.value]
          /\ IF n = 0 \/ (entry'.tag = {} /\ entry'.value = {}) THEN Return({})
             ELSE IF entry'.tag = type THEN Return(entry'.value)
             ELSE UNCHANGED <<step, answer>>
    BY DEF ReadEntry
  <1>2. LibcSilent'
    BY <1>0 DEF LibcSilent, FromLibc, Kernel, Having
  <1>s. /\ Seen(Kernel(type))' = Seen(Kernel(type))
        /\ Complete' = Complete
        /\ \A v : Misread(type, v)' <=> Misread(type, v)
    BY <1>0, SameFile
  <1>3. CASE machine.file = "short"
    BY <1>2, <1>3, ShortReadKeeps
  <1>4. CASE machine.file # "short"
    <2>1. PICK k \in Nat : Passed(k)
      BY <1>0, <1>4 DEF AuxInv, Scan
    <2>2. Pairs \in Nat /\ n = IF k < Pairs THEN 2 ELSE 0
      <3>1. machine.bits \div 32 \in Nat /\ Len(machine.vector) + 1 \in Nat
        BY <1>0, MachineFields
      <3>2. Pairs \in Nat
        BY <3>1 DEF Pairs
      <3>3. at = 2 * k /\ k <= Pairs
        BY <2>1 DEF Passed
      <3>4. CASE k < Pairs
        BY <1>1, <1>4, <3>2, <3>3, <3>4 DEF WordsRead
      <3>5. CASE k = Pairs
        BY <1>1, <1>4, <3>2, <3>3, <3>5 DEF WordsRead
      <3> QED BY <3>2, <3>3, <3>4, <3>5
    <2>3. n = 2 => entry'.tag = Pair(k + 1)[1] /\ entry'.value = Pair(k + 1)[2]
      BY <1>1, <2>1, WordsOfPair DEF Passed
    <2>4. CASE n = 0 \/ (entry'.tag = {} /\ entry'.value = {})
      <3>1. step' = "answered" /\ answer' = {}
        BY <1>1, <2>4 DEF Return
      <3>2. CASE machine.bits # 32
        BY <1>0, <1>2, <1>s, <3>1, <3>2, NothingIsTrue DEF AnswerOrMisread, Scan
      <3>3. CASE machine.bits = 32
        <4>1. Pairs = Len(machine.vector) + 1 /\ Len(machine.vector) \in Nat
          BY <1>0, <3>3, MachineFields DEF Pairs
        <4>p. k <= Len(machine.vector) /\ k < Pairs
          BY <2>1, <3>3, <4>1 DEF Passed
        <4>q. entry'.tag = {} /\ Pair(k + 1)[1] = {}
          BY <2>2, <2>3, <2>4, <4>p
        <4>2. k = Len(machine.vector)
          BY <1>0, <3>3, <4>p, <4>q, Pair32
        <4>3. Kernel(type) = {}
          BY <1>0, <2>1, <3>3, <4>2, NoEntry DEF Passed
        <4>4. {} = Seen(Kernel(type))
          BY <4>3, HalvesOfNothing DEF Seen
        <4> QED BY <1>0, <1>2, <1>s, <3>1, <4>4 DEF AnswerOrMisread, Scan
      <3> QED BY <3>2, <3>3
    <2>5. CASE n # 0 /\ ~(entry'.tag = {} /\ entry'.value = {}) /\ entry'.tag = type
      <3>1. step' = "answered" /\ answer' = Pair(k + 1)[2] /\ Pair(k + 1)[1] = type
        BY <1>1, <2>2, <2>3, <2>5 DEF Return
      <3>2. CASE machine.bits # 32
        <4>0. /\ machine.bits = 64 /\ machine.file \in {"failing", "whole"}
              /\ k + 1 \in Nat \ {0}
          BY <1>0, <1>4, <3>2, MachineFields DEF AuxInv, Scan
        <4>1. CASE answer' = {}
          BY <1>0, <1>2, <1>s, <3>1, <3>2, <4>1, NothingIsTrue DEF AnswerOrMisread, Scan
        <4>2. CASE \E i \in DOMAIN machine.vector :
                     Split(machine.vector[i].value) = <<type, answer'>>
          <5>1. Misread(type, answer')
            BY <1>0, <4>0, <4>2 DEF Misread
          <5> QED BY <1>0, <1>2, <1>s, <3>1, <5>1 DEF AnswerOrMisread, Scan
        <4> QED BY <1>0, <3>1, <3>2, <4>0, <4>1, <4>2, Pair64
      <3>3. CASE machine.bits = 32
        <4>1. k <= Len(machine.vector) /\ type # {}
          BY <1>0, <2>1, <3>3, TypesNotEmpty DEF Passed
        <4>2. /\ k + 1 \in 1 .. Len(machine.vector)
              /\ machine.vector[k + 1].type = type
              /\ answer' = machine.vector[k + 1].value
          BY <1>0, <3>1, <3>3, <4>1, Pair32
        <4>3. /\ k + 1 \in DOMAIN machine.vector
              /\ answer' \in SUBSET Bits(32)
          BY <1>0, <3>3, <4>2, MachineFields
        <4>4. Kernel(type) = answer'
          BY <1>0, <2>1, <3>3, <4>2, <4>3, FirstEntry DEF Passed
        <4>5. answer' = Seen(Kernel(type))
          BY <4>3, <4>4, HalvesOfWord DEF Seen
        <4> QED BY <1>0, <1>2, <1>s, <3>1, <4>5 DEF AnswerOrMisread, Scan
      <3> QED BY <3>2, <3>3
    <2>6. CASE n # 0 /\ ~(entry'.tag = {} /\ entry'.value = {}) /\ entry'.tag # type
      <3>1. step' = step /\ n = 2 /\ k + 1 <= Pairs /\ at' = 2 * (k + 1)
        BY <1>1, <2>1, <2>2, <2>6 DEF Passed
      <3>2. machine.bits = 32 =>
              /\ k + 1 <= Len(machine.vector)
              /\ \A i \in 1 .. k + 1 : machine.vector[i].type # type
        <4>1. SUFFICES ASSUME machine.bits = 32
                       PROVE  /\ k + 1 <= Len(machine.vector)
                              /\ \A i \in 1 .. k + 1 : machine.vector[i].type # type
          OBVIOUS
        <4>2. /\ k + 1 \in 1 .. Len(machine.vector)
              /\ machine.vector[k + 1].type # type
          BY <1>0, <2>1, <2>3, <2>6, <3>1, <4>1, Pair32 DEF Passed
        <4> QED BY <2>1, <4>1, <4>2 DEF Passed
      <3>3. Passed(k + 1)'
        BY <1>0, <3>1, <3>2 DEF Passed, Pairs
      <3> QED BY <1>0, <1>2, <1>4, <3>1, <3>3 DEF AuxInv, Scan, AnswerOrMisread
    <2> QED BY <2>4, <2>5, <2>6
  <1> QED BY <1>2, <1>3, <1>4

\* Asking, and the steps that do not read, leave or give a true answer.
LEMMA OtherStepsKeep ==
  ASSUME AuxInv, AuxTypeOK',
         \/ \E t \in Types : Ask(t)
         \/ GetElfHwcapFromGetauxval \/ GetElfHwcapFromElfAuxInfo
         \/ OpenAuxv \/ ReadError \/ TakeAnswer
  PROVE  (LibcSilent /\ Scan /\ AnswerOrMisread)'
  <1>0. machine' = machine /\ AuxTypeOK
    BY DEF Ask, GetElfHwcapFromGetauxval, GetElfHwcapFromElfAuxInfo, OpenAuxv,
           ReadError, TakeAnswer, AuxInv
  <1>s. ASSUME type' = type
        PROVE  /\ Seen(Kernel(type))' = Seen(Kernel(type))
               /\ Complete' = Complete
               /\ FromLibc(type)' = FromLibc(type)
    BY <1>0, <1>s, SameFile
  <1>1. ASSUME NEW t \in Types, Ask(t) PROVE (LibcSilent /\ Scan /\ AnswerOrMisread)'
    BY <1>1 DEF Ask, LibcSilent, Scan, AnswerOrMisread
  <1>2. CASE GetElfHwcapFromGetauxval
    <2>1. type' = type /\ machine.build # "elf_aux_info"
      BY <1>2 DEF GetElfHwcapFromGetauxval
    <2>2. CASE FromLibc(type) # {}
      <3>1. step' = "answered" /\ answer' = FromLibc(type)
        BY <1>2, <2>2 DEF GetElfHwcapFromGetauxval, Return
      <3>2. FromLibc(type) = Seen(Kernel(type))
        BY <2>2 DEF FromLibc, Seen
      <3> QED BY <1>s, <2>1, <3>1, <3>2 DEF LibcSilent, Scan, AnswerOrMisread
    <2>3. CASE FromLibc(type) = {}
      BY <1>0, <1>2, <1>s, <2>1, <2>3
         DEF GetElfHwcapFromGetauxval, LibcSilent, Scan, AnswerOrMisread
    <2> QED BY <2>2, <2>3
  <1>3. CASE GetElfHwcapFromElfAuxInfo
    <2>1. /\ type' = type /\ machine.build = "elf_aux_info"
          /\ step' = "answered" /\ answer' = FromLibc(type)
      BY <1>3 DEF GetElfHwcapFromElfAuxInfo, Return
    <2>2. FromLibc(type) = Seen(Kernel(type))
      BY <2>1 DEF FromLibc, Seen
    <2> QED BY <1>s, <2>1, <2>2 DEF LibcSilent, Scan, AnswerOrMisread
  <1>4. CASE OpenAuxv
    <2>1. /\ type' = type /\ step = "open"
          /\ FromLibc(type) = {} /\ machine.build # "elf_aux_info"
      BY <1>4 DEF OpenAuxv, AuxInv, LibcSilent
    <2>2. CASE machine.file = "missing"
      <3>1. step' = "answered" /\ answer' = {}
        BY <1>4, <2>2 DEF OpenAuxv, Return
      <3>2. {} = Seen(Kernel(type)) \/ ~Complete
        BY <1>0, <2>1, <2>2, NothingIsTrue
      <3> QED BY <1>s, <2>1, <3>1, <3>2 DEF LibcSilent, Scan, AnswerOrMisread
    <2>3. CASE machine.file # "missing"
      <3>1. step' = "read" /\ at' = 0
        BY <1>4, <2>3 DEF OpenAuxv
      <3>2. Pairs \in Nat /\ Len(machine.vector) \in Nat
        <4>1. machine.bits \div 32 \in Nat /\ Len(machine.vector) + 1 \in Nat
          BY <1>0, MachineFields
        <4> QED BY <1>0, <4>1, MachineFields DEF Pairs
      <3>3. Passed(0)'
        BY <1>0, <3>1, <3>2 DEF Passed, Pairs
      <3>4. PassedWords'
        <4>1. entry'.value \in Stale /\ 0 <= 2 * Pairs /\ Pairs' = Pairs
          BY <1>0, <1>4, <2>3, <3>2, SameFile DEF OpenAuxv
        <4> QED BY <3>1, <4>1 DEF PassedWords
      <3> QED BY <1>0, <1>s, <2>1, <2>3, <3>1, <3>3, <3>4 DEF LibcSilent, Scan, AnswerOrMisread
    <2> QED BY <2>2, <2>3
  <1>5. CASE ReadError
    <2>1. /\ type' = type /\ step = "read" /\ machine.file = "failing"
          /\ step' = "answered" /\ answer' = {}
          /\ FromLibc(type) = {} /\ machine.build # "elf_aux_info"
      BY <1>5 DEF ReadError, Return, AuxInv, LibcSilent
    <2>2. {} = Seen(Kernel(type)) \/ ~Complete
      BY <1>0, <2>1, NothingIsTrue
    <2> QED BY <1>s, <2>1, <2>2 DEF LibcSilent, Scan, AnswerOrMisread
  <1>6. CASE TakeAnswer
    BY <1>6 DEF TakeAnswer, LibcSilent, Scan, AnswerOrMisread
  <1> QED BY <1>1, <1>2, <1>3, <1>4, <1>5, <1>6

LEMMA AuxTypes ==
  ASSUME AuxTypeOK, AuxNext
  PROVE  AuxTypeOK'
  <1>1. ASSUME ReadEntry PROVE AuxTypeOK'
    <2>1. Pairs \in Nat
      <3>1. machine.bits \div 32 \in Nat /\ Len(machine.vector) + 1 \in Nat
        BY MachineFields
      <3> QED BY <3>1 DEF Pairs
    <2>2. \A n \in WordsRead : n \in Int /\ at + n \in Nat
      BY <2>1 DEF WordsRead, AuxTypeOK
    <2> QED BY <1>1, <2>2 DEF ReadEntry, AuxTypeOK, Return
  <1>2. ASSUME AuxNext, ~ReadEntry PROVE AuxTypeOK'
    BY <1>2 DEF AuxNext, AuxTypeOK, GetHardwareCapabilitiesFor, Ask, Return,
      GetElfHwcapFromGetauxval, GetElfHwcapFromElfAuxInfo, OpenAuxv, ReadError,
      TakeAnswer, call
  <1> QED BY <1>1, <1>2

LEMMA AuxInvStep ==
  ASSUME AuxInv, [AuxNext]_auxvars
  PROVE  AuxInv'
  <1>1. CASE AuxNext
    <2>1. AuxTypeOK'
      BY <1>1, AuxTypes DEF AuxInv
    <2>2. CASE ReadEntry
      BY <2>1, <2>2, ReadEntryKeeps DEF AuxInv
    <2>3. CASE ~ReadEntry
      BY <1>1, <2>1, <2>3, OtherStepsKeep DEF AuxInv, AuxNext, GetHardwareCapabilitiesFor
    <2> QED BY <2>2, <2>3
  <1>2. CASE UNCHANGED auxvars
    <2>1. AuxTypeOK'
      BY <1>2 DEF auxvars, call, AuxInv, AuxTypeOK
    <2>2. LibcSilent'
      BY <1>2 DEF auxvars, call, AuxInv, LibcSilent, FromLibc, Kernel, Having
    <2>s. UNCHANGED <<machine, step, type, at, entry, answer>>
      BY <1>2 DEF auxvars, call
    <2>3. Scan'
      BY <2>s, SameFile DEF AuxInv, Scan, Passed, PassedWords
    <2>4. AnswerOrMisread'
      BY <2>s, SameFile DEF AuxInv, AnswerOrMisread
    <2> QED BY <2>1, <2>2, <2>3, <2>4 DEF AuxInv
  <1> QED BY <1>1, <1>2

LEMMA AuxInvInit == AuxInit => AuxInv
  BY AuxAssumption DEF AuxAssumption, AuxInit, AuxInv, AuxTypeOK, LibcSilent, Scan,
     AnswerOrMisread

\* Whatever the machine and however its file is read, a value of the auxiliary
\* vector is what the kernel gave, 0 where a source is missing, or misread: a half of
\* another 64-bit value, or a word behind a read that was short.
THEOREM AuxAnswerOrMisread == AuxSpec => []AnswerOrMisread
  <1>1. AuxInv => AnswerOrMisread
    BY DEF AuxInv
  <1> QED BY AuxInvInit, AuxInvStep, <1>1, PTL DEF AuxSpec

-------------------------------------------------------------------------------
\* Every step of the functions is a step of AuxiliaryVector or leaves it alone.
LEMMA FunctionsUseAux == [Next]_vars => [AuxNext]_auxvars
  <1>1. ASSUME Lines PROVE UNCHANGED auxvars
    BY <1>1 DEF Lines, OpenCpuinfo, NextLine, HandleFeatures, HandleNumber,
                HandleString, HandleOther
  <1>2. ASSUME Capabilities PROVE [AuxNext]_auxvars
    <2>1. \A phase \in DOMAIN TypeOf : TypeOf[phase] \in Types
      BY DEF TypeOf, Types
    <2> QED BY <1>2, <2>1 DEF Capabilities, AskFor, Fetch, Answered, Merge, AuxNext
  <1>3. ASSUME CopyPlatform \/ CopyBasePlatform \/ Midr \/ Sysctl
               \/ ProcessorFeatures \/ ReturnInfo
        PROVE  UNCHANGED auxvars
    BY <1>3 DEF CopyPlatform, CopyBasePlatform, CopyType, Midr, Sysctl,
                ProcessorFeatures, ReturnInfo
  <1>4. ASSUME UNCHANGED vars PROVE UNCHANGED auxvars
    BY <1>4 DEF vars
  <1> QED BY <1>1, <1>2, <1>3, <1>4 DEF Next

\* Where nothing can be misread, the answer is the kernel's, or 0.
LEMMA TrustedAnswers ==
  ASSUME AuxInv, step = "answered", Trusted(type)
  PROVE  answer = Seen(Kernel(type)) \/ (answer = {} /\ ~Complete)
  <1>1. SUFFICES ASSUME Misread(type, answer)
                 PROVE  answer = Seen(Kernel(type)) \/ (answer = {} /\ ~Complete)
    BY DEF AuxInv, AnswerOrMisread
  <1>2. PICK i \in DOMAIN machine.vector :
          Split(machine.vector[i].value) = <<type, answer>>
    BY <1>1 DEF Misread, Trusted
  <1>3. answer = {} /\ machine.bits # 32
    BY <1>1, <1>2 DEF Misread, Trusted
  <1>4. AuxTypeOK /\ FromLibc(type) = {} /\ machine.build # "elf_aux_info"
    BY <1>1 DEF AuxInv, Misread
  <1> QED BY <1>3, <1>4, NothingIsTrue

\* The same within the functions of every architecture, whatever they ask for.
THEOREM FunctionsAnswerOrMisread == Spec => []AnswerOrMisread
  <1>1. Init => AuxInv
    BY AuxInvInit DEF Init
  <1>2. AuxInv /\ [Next]_vars => AuxInv'
    BY FunctionsUseAux, AuxInvStep
  <1>3. AuxInv => AnswerOrMisread
    BY DEF AuxInv
  <1> QED BY <1>1, <1>2, <1>3, PTL DEF Spec

-------------------------------------------------------------------------------
(* The plans.  What a function has done of its plan is what is not left.   *)

plan == Plan(os.function)
now == Len(plan) - Len(todo) + 1
Did(s) == \E j \in 1 .. now - 1 : plan[j] = s

Phases == {"cpuinfo", "AT_HWCAP", "AT_HWCAP2", "AT_PLATFORM", "AT_BASE_PLATFORM",
           "merge", "midr", "copy_platform", "copy_base_platform", "sysctl",
           "processor_features"}

\* No step comes twice, and merging and copying come after what they need.
Ordered(p) ==
  /\ \A i, j \in 1 .. Len(p) : i < j =>
       /\ p[i] # p[j]
       /\ p[i] = "merge" => p[j] \notin {"cpuinfo"} \cup DOMAIN TypeOf
  /\ \A j \in 1 .. Len(p) :
       /\ p[j] = "merge" => /\ \E i \in 1 .. j - 1 : p[i] = "AT_HWCAP"
                            /\ \E i \in 1 .. j - 1 : p[i] = "AT_HWCAP2"
       /\ p[j] = "copy_platform" => \E i \in 1 .. j - 1 : p[i] = "AT_PLATFORM"
       /\ p[j] = "copy_base_platform" =>
            \E i \in 1 .. j - 1 : p[i] = "AT_BASE_PLATFORM"
       /\ p[j] \in {"sysctl", "processor_features"} => j = 1

Copies == {"copy_platform", "copy_base_platform"}

LEMMA AskedTypes ==
  DOMAIN TypeOf = {"AT_HWCAP", "AT_HWCAP2", "AT_PLATFORM", "AT_BASE_PLATFORM"}
BY DEF TypeOf

\* The strings of a kind are copied where they were asked for, and nowhere else.
Copying(p, f) ==
  IF f \notin TypeStrings THEN \A j \in 1 .. Len(p) : p[j] \notin Copies
  ELSE /\ \A s \in {"AT_PLATFORM", "copy_platform", "cpuinfo"} :
            \E j \in 1 .. Len(p) : p[j] = s
       /\ (\E j \in 1 .. Len(p) : p[j] = "AT_BASE_PLATFORM")
            => (\E j \in 1 .. Len(p) : p[j] = "copy_base_platform")
WellPlanned(f) == Plan(f) \in Seq(Phases) /\ Ordered(Plan(f)) /\ Copying(Plan(f), f)

LEMMA Plans == ASSUME os \in Calls PROVE WellPlanned(os.function)
<1> USE AskedTypes DEF WellPlanned, Plan, Ordered, Copying, Phases, TypeStrings, Copies
<1>1. WellPlanned("GetAarch64Info")
  OBVIOUS
<1>2. WellPlanned("GetMipsInfo")
  OBVIOUS
<1>3. WellPlanned("GetPPCInfo")
  OBVIOUS
<1>4. WellPlanned("GetS390XInfo")
  OBVIOUS
<1>5. WellPlanned("GetLoongArchInfo")
  OBVIOUS
<1>6. WellPlanned("GetAarch64Info_FreeBSD")
  OBVIOUS
<1>7. WellPlanned("GetAarch64Info_macOS")
  OBVIOUS
<1>8. WellPlanned("GetAarch64Info_Windows")
  OBVIOUS
<1>9. WellPlanned("GetPPCPlatformStrings")
  OBVIOUS
<1>10. WellPlanned("GetS390XPlatformStrings")
  OBVIOUS
<1> HIDE DEF WellPlanned
<1>11. QED
  BY <1>1, <1>2, <1>3, <1>4, <1>5, <1>6, <1>7, <1>8, <1>9, <1>10, CallAssumption
     DEF CallAssumption

\* Where a call is: what it does next, what it waits for, and what it has asked.
CapTrue(t) ==
  \/ caps[t] = Seen(Kernel(TypeOf[t]))
  \/ caps[t] = {} /\ ~Complete
Doing(S) == todo # <<>> /\ Head(todo) \in S

PlanInv ==
  /\ os \in Calls /\ machine = os.machine
  /\ now \in 1 .. Len(plan) + 1 /\ todo = SubSeq(plan, now, Len(plan))
  /\ pc \in {"next", "read", "handle", "ask", "done", "crashed"}
  /\ pc \in {"read", "handle"} => ~os.sandboxed /\ Doing({"cpuinfo"})
  /\ pc = "ask" => Doing(DOMAIN TypeOf) /\ type = TypeOf[Head(todo)]
  /\ pc = "done" => todo = <<>>
  /\ DOMAIN caps = DOMAIN TypeOf
  /\ \A t \in DOMAIN TypeOf : Did(t) /\ Trusted(TypeOf[t]) => CapTrue(t)

LEMMA PlanLength ==
  ASSUME os \in Calls
  PROVE  Len(plan) \in Nat /\ \A j \in 1 .. Len(plan) : plan[j] \in Phases
<1>1. plan \in Seq(Phases)
  BY Plans DEF WellPlanned, plan
<1> HIDE DEF plan, Phases
<1>2. QED
  BY <1>1

\* The step at hand is the one at now.
LEMMA AtNow ==
  ASSUME PlanInv, todo # <<>>
  PROVE  /\ now \in 1 .. Len(plan) /\ Head(todo) = plan[now]
         /\ Tail(todo) = SubSeq(plan, now + 1, Len(plan))
         /\ Len(todo) \in Nat /\ Len(Tail(todo)) = Len(todo) - 1
<1>1. /\ plan \in Seq(Phases)
      /\ now \in 1 .. Len(plan) + 1 /\ todo = SubSeq(plan, now, Len(plan))
  BY Plans DEF PlanInv, WellPlanned, plan
<1>2. PICK n, p : n = now /\ p = plan
  OBVIOUS
<1> HIDE DEF now, plan, Phases
<1>3. p \in Seq(Phases) /\ n \in 1 .. Len(p) + 1 /\ todo = SubSeq(p, n, Len(p))
  BY <1>1, <1>2
<1>4. n # Len(p) + 1
  BY <1>3
<1>5. n \in 1 .. Len(p) /\ Head(todo) = p[n] /\ Tail(todo) = SubSeq(p, n + 1, Len(p))
      /\ Len(todo) \in Nat /\ Len(Tail(todo)) = Len(todo) - 1
  BY <1>3, <1>4
<1>6. QED
  BY <1>2, <1>5

LEMMA StepsOfPlan ==
  ASSUME os \in Calls
  PROVE  \A s : s \in Steps <=> \E j \in 1 .. Len(plan) : plan[j] = s
<1>1. plan \in Seq(Phases)
  BY Plans DEF WellPlanned, plan
<1>2. DOMAIN plan = 1 .. Len(plan)
  BY <1>1
<1>3. QED
  BY <1>2, Zenon DEF Steps, Range, plan

\* What is done is a step of the plan, and at the end every step is.
LEMMA AllDone ==
  ASSUME PlanInv
  PROVE  /\ \A s : Did(s) => s \in Steps
         /\ todo = <<>> => \A s \in Steps : Did(s)
<1>1. /\ Len(plan) \in Nat /\ now \in 1 .. Len(plan) + 1
      /\ todo = <<>> => now - 1 = Len(plan)
  BY PlanLength DEF PlanInv, now
<1>2. \A s : s \in Steps <=> \E j \in 1 .. Len(plan) : plan[j] = s
  BY StepsOfPlan DEF PlanInv
<1> HIDE DEF plan, now
<1>3. \A j \in 1 .. now - 1 : j \in 1 .. Len(plan)
  BY <1>1
<1>4. QED
  BY <1>1, <1>2, <1>3 DEF Did

\* What has been done when a step is at hand.
LEMMA Order ==
  ASSUME PlanInv, todo # <<>>, NEW s, s = Head(todo)
  PROVE  /\ s \in Phases /\ ~Did(s)
         /\ s \in {"cpuinfo"} \cup DOMAIN TypeOf => ~Did("merge")
         /\ s = "merge" => Did("AT_HWCAP") /\ Did("AT_HWCAP2")
         /\ s = "copy_platform" => Did("AT_PLATFORM")
         /\ s = "copy_base_platform" => Did("AT_BASE_PLATFORM")
         /\ s \in {"sysctl", "processor_features"} => OtherSource
         /\ s \in Copies => os.function \in TypeStrings
<1>1. now \in 1 .. Len(plan) /\ s = plan[now] /\ Len(plan) \in Nat
  BY AtNow, PlanLength DEF PlanInv
<1>2. s \in Phases /\ Ordered(plan) /\ Copying(plan, os.function)
  BY <1>1, PlanLength, Plans DEF PlanInv, WellPlanned, plan
<1> HIDE DEF now, plan, Phases
<1>3. \A j \in 1 .. now - 1 : j \in 1 .. Len(plan) /\ j < now
  BY <1>1
<1>4. ~Did(s)
  BY <1>1, <1>2, <1>3 DEF Did, Ordered
<1>5. s \in {"cpuinfo"} \cup DOMAIN TypeOf => ~Did("merge")
  BY <1>1, <1>2, <1>3 DEF Did, Ordered
<1>6. /\ s = "merge" => Did("AT_HWCAP") /\ Did("AT_HWCAP2")
      /\ s = "copy_platform" => Did("AT_PLATFORM")
      /\ s = "copy_base_platform" => Did("AT_BASE_PLATFORM")
  BY <1>1, <1>2 DEF Did, Ordered
<1>7. s \in {"sysctl", "processor_features"} => OtherSource
  BY <1>1, <1>2 DEF Ordered, OtherSource, plan
<1>8. s \in Copies => os.function \in TypeStrings
  BY <1>1, <1>2 DEF Copying
<1>9. QED
  BY <1>2, <1>4, <1>5, <1>6, <1>7, <1>8

\* A step that is finished is done, and what was done stays so.
LEMMA Finished ==
  ASSUME PlanInv, todo # <<>>, todo' = Tail(todo), os' = os
  PROVE  /\ now' \in 1 .. Len(plan)' + 1 /\ todo' = SubSeq(plan', now', Len(plan'))
         /\ \A s : Did(s)' <=> Did(s) \/ s = Head(todo)
<1>1. /\ now \in 1 .. Len(plan) /\ Head(todo) = plan[now] /\ Len(plan) \in Nat
      /\ Tail(todo) = SubSeq(plan, now + 1, Len(plan))
      /\ Len(todo) \in Nat /\ Len(Tail(todo)) = Len(todo) - 1
  BY AtNow, PlanLength DEF PlanInv
<1>2. plan' = plan
  BY DEF plan
<1>3. now' = now + 1
  BY <1>1, <1>2 DEF now
<1>4. \A s : (\E j \in 1 .. (now + 1) - 1 : plan[j] = s)
               <=> (\E j \in 1 .. now - 1 : plan[j] = s) \/ s = Head(todo)
  <2> HIDE DEF now, plan
  <2>1. \A j : j \in 1 .. (now + 1) - 1 <=> j \in 1 .. now - 1 \/ j = now
    BY <1>1
  <2>2. QED
    BY <1>1, <2>1, Zenon
<1>5. QED
  BY <1>1, <1>2, <1>3, <1>4 DEF Did

LEMMA Stayed ==
  ASSUME todo' = todo, os' = os
  PROVE  plan' = plan /\ now' = now /\ \A s : Did(s)' <=> Did(s)
BY DEF plan, now, Did

\* What the machine says does not change.
LEMMA SameMachine ==
  ASSUME machine' = machine
  PROVE  /\ Complete' = Complete
         /\ \A t : /\ Kernel(t)' = Kernel(t) /\ Seen(Kernel(t))' = Seen(Kernel(t))
                   /\ Trusted(t)' = Trusted(t)
BY DEF Complete, Kernel, Having, Seen, Trusted, Split

LEMMA SameCaps ==
  ASSUME machine' = machine, NEW t, caps'[t] = caps[t]
  PROVE  CapTrue(t)' = CapTrue(t)
BY SameMachine DEF CapTrue

\* A step that neither asks nor ends.
LEMMA PlanStay ==
  ASSUME PlanInv, UNCHANGED <<os, machine, todo, caps>>,
         pc' \in {"next", "read", "handle", "ask", "done", "crashed"},
         pc' \in {"read", "handle"} => ~os.sandboxed /\ Doing({"cpuinfo"}),
         pc' = "ask" => Doing(DOMAIN TypeOf) /\ type' = TypeOf[Head(todo)],
         pc' = "done" => todo = <<>>
  PROVE  PlanInv'
<1>1. plan' = plan /\ now' = now /\ \A s : Did(s)' <=> Did(s)
  BY Stayed
<1>2. \A t \in DOMAIN TypeOf : Did(t)' /\ Trusted(TypeOf[t])' => CapTrue(t)'
  BY <1>1, SameMachine, SameCaps DEF PlanInv
<1> HIDE DEF now, plan
<1>3. /\ Doing({"cpuinfo"})' = Doing({"cpuinfo"})
      /\ Doing(DOMAIN TypeOf)' = Doing(DOMAIN TypeOf)
  BY DEF Doing
<1>4. QED
  BY <1>1, <1>2, <1>3 DEF PlanInv

\* A step other than asking that is finished.
LEMMA PlanFinish ==
  ASSUME PlanInv, UNCHANGED <<os, machine, caps>>, todo # <<>>, Finish,
         Head(todo) \notin DOMAIN TypeOf
  PROVE  PlanInv'
<1>1. /\ now' \in 1 .. Len(plan)' + 1 /\ todo' = SubSeq(plan', now', Len(plan'))
      /\ \A s : Did(s)' <=> Did(s) \/ s = Head(todo)
  BY Finished DEF Finish
<1>2. \A t \in DOMAIN TypeOf : Did(t)' /\ Trusted(TypeOf[t])' => CapTrue(t)'
  BY <1>1, SameMachine, SameCaps DEF PlanInv
<1> HIDE DEF now, plan
<1>3. QED
  BY <1>1, <1>2 DEF PlanInv, Finish

\* An answer is a true one.
LEMMA PlanAnswered ==
  ASSUME PlanInv, AuxInv, Answered
  PROVE  /\ PlanInv' /\ todo # <<>> /\ Head(todo) \in DOMAIN TypeOf
         /\ \A t : Did(t) => caps'[t] = caps[t]
<1>1. /\ pc = "ask" /\ todo # <<>> /\ Head(todo) \in DOMAIN TypeOf
      /\ type = TypeOf[Head(todo)]
      /\ UNCHANGED <<os, machine>> /\ Finish
      /\ caps' = [caps EXCEPT ![Head(todo)] = answer] /\ step = "answered"
      /\ DOMAIN caps = DOMAIN TypeOf
  BY DEF PlanInv, Answered, TakeAnswer, Doing
<1>2. PICK h : h = Head(todo)
  OBVIOUS
<1>3. /\ now' \in 1 .. Len(plan)' + 1 /\ todo' = SubSeq(plan', now', Len(plan'))
      /\ (\A s : Did(s)' <=> Did(s) \/ s = h) /\ ~Did(h)
  BY <1>1, <1>2, Finished, Order DEF Finish
<1> HIDE DEF now, plan
<1>4. /\ caps'[h] = answer /\ DOMAIN caps' = DOMAIN TypeOf
      /\ \A t : t # h => caps'[t] = caps[t]
  BY <1>1, <1>2
<1>5. Trusted(TypeOf[h]) => CapTrue(h)'
  <2>1. Trusted(TypeOf[h]) =>
          answer = Seen(Kernel(TypeOf[h])) \/ (answer = {} /\ ~Complete)
    BY <1>1, <1>2, TrustedAnswers
  <2>2. QED
    BY <1>1, <1>4, <2>1, SameMachine DEF CapTrue
<1>6. \A t \in DOMAIN TypeOf : Did(t)' /\ Trusted(TypeOf[t])' => CapTrue(t)'
  BY <1>1, <1>3, <1>4, <1>5, SameMachine, SameCaps DEF PlanInv
<1>7. PlanInv'
  BY <1>1, <1>3, <1>4, <1>6 DEF PlanInv, Finish
<1>8. QED
  BY <1>1, <1>2, <1>3, <1>4, <1>7

\* The steps of the loop over the lines, and of the other sources.
LEMMA PlanStep == ASSUME PlanInv, AuxInv, [Next]_vars PROVE PlanInv'
<1>1. CASE OpenCpuinfo
  <2>1. /\ UNCHANGED <<os, machine, caps>> /\ todo # <<>> /\ Head(todo) = "cpuinfo"
        /\ pc = "next"
        /\ IF os.sandboxed THEN Finish ELSE pc' = "read" /\ UNCHANGED todo
    BY <1>1 DEF OpenCpuinfo, Starts, auxvars
  <2>2. CASE os.sandboxed
    BY <2>1, <2>2, PlanFinish, AskedTypes
  <2>3. CASE ~os.sandboxed
    BY <2>1, <2>3, PlanStay DEF Doing
  <2>4. QED
    BY <2>2, <2>3
<1>2. CASE NextLine
  <2>1. UNCHANGED <<os, machine, caps, todo>> /\ pc = "read" /\ pc' = "handle"
    BY <1>2 DEF NextLine, auxvars
  <2>2. QED
    BY <2>1, PlanStay DEF PlanInv
<1>3. CASE HandleFeatures \/ HandleNumber \/ HandleString \/ HandleOther
  <2>1. /\ UNCHANGED <<os, machine, caps>> /\ pc = "handle" /\ AfterLine
    BY <1>3 DEF HandleFeatures, HandleNumber, HandleString, HandleOther, Handles,
                Unhandled, auxvars
  <2>2. todo # <<>> /\ Head(todo) = "cpuinfo" /\ ~os.sandboxed /\ Doing({"cpuinfo"})
    BY <2>1 DEF PlanInv, Doing
  <2>3. CASE result.eof
    BY <2>1, <2>2, <2>3, PlanFinish, AskedTypes DEF AfterLine
  <2>4. CASE ~result.eof
    BY <2>1, <2>2, <2>4, PlanStay DEF AfterLine
  <2>5. QED
    BY <2>3, <2>4
<1>4. CASE AskFor
  <2>1. /\ UNCHANGED <<os, machine, caps, todo>> /\ pc' = "ask" /\ Doing(DOMAIN TypeOf)
        /\ type' = TypeOf[Head(todo)]
    BY <1>4 DEF AskFor, Ask, Doing
  <2>2. QED
    BY <2>1, PlanStay
<1>5. CASE Fetch
  <2>1. UNCHANGED <<os, machine, caps, todo, pc>> /\ type' = type /\ pc = "ask"
    BY <1>5 DEF Fetch, GetHardwareCapabilitiesFor, GetElfHwcapFromGetauxval,
                GetElfHwcapFromElfAuxInfo, OpenAuxv, ReadEntry, ReadError
  <2>2. QED
    BY <2>1, PlanStay DEF PlanInv
<1>6. CASE Answered
  BY <1>6, PlanAnswered
<1>7. CASE Merge \/ Midr \/ Sysctl \/ ProcessorFeatures
  <2>1. /\ UNCHANGED <<os, machine, caps>> /\ todo # <<>> /\ Finish
        /\ Head(todo) \in {"merge", "midr", "sysctl", "processor_features"}
    BY <1>7 DEF Merge, Midr, Sysctl, ProcessorFeatures, Starts, auxvars
  <2>2. QED
    BY <2>1, PlanFinish, AskedTypes
<1>8. CASE CopyPlatform \/ CopyBasePlatform
  <2>1. /\ UNCHANGED <<os, machine, caps>> /\ todo # <<>>
        /\ Head(todo) \in {"copy_platform", "copy_base_platform"}
        /\ \/ Finish
           \/ pc' = "crashed" /\ UNCHANGED todo
    BY <1>8 DEF CopyPlatform, CopyBasePlatform, CopyType, Starts, auxvars
  <2>2. QED
    BY <2>1, PlanFinish, PlanStay, AskedTypes
<1>9. CASE ReturnInfo
  <2>1. UNCHANGED <<os, machine, caps, todo>> /\ todo = <<>> /\ pc' = "done"
    BY <1>9 DEF ReturnInfo, auxvars
  <2>2. QED
    BY <2>1, PlanStay
<1>10. CASE UNCHANGED vars
  <2>1. UNCHANGED <<os, machine, caps, todo, pc>> /\ type' = type
    BY <1>10 DEF vars, auxvars, call
  <2>2. QED
    BY <2>1, PlanStay DEF PlanInv
<1>11. QED
  BY <1>1, <1>2, <1>3, <1>4, <1>5, <1>6, <1>7, <1>8, <1>9, <1>10
     DEF Next, Lines, Capabilities

LEMMA PlanInit == ASSUME Init PROVE PlanInv
<1>1. /\ os \in Calls /\ machine = os.machine /\ pc = "next" /\ todo = plan
      /\ caps = [t \in DOMAIN TypeOf |-> {}]
  BY DEF Init, plan
<1>2. plan \in Seq(Phases) /\ Len(plan) \in Nat
  BY <1>1, Plans, PlanLength DEF WellPlanned, plan
<1> HIDE DEF plan, Phases
<1>3. now = 1 /\ todo = SubSeq(plan, 1, Len(plan))
  BY <1>1, <1>2 DEF now
<1>4. \A s : ~Did(s)
  BY <1>3 DEF Did
<1> HIDE DEF now, Did
<1>5. QED
  BY <1>1, <1>2, <1>3, <1>4 DEF PlanInv

-------------------------------------------------------------------------------
(* The loop over the lines of /proc/cpuinfo.                               *)

NumLines == Len(os.cpuinfo.lines)
LineKey(i) == os.cpuinfo.lines[i].key
LineValue(i) == os.cpuinfo.lines[i].value

\* What the first n lines leave: the flags of the last Features line, and the
\* value of the last line with the key of a string.
FlagsIn(value) == {f \in Flags(os.arch) : HasWord(value, <<f>>, " ")}
FeaturesLines(n) == {i \in 1 .. n : LineKey(i) = FeaturesKey(os.arch)}
FeaturesUpTo(n) ==
  IF FeaturesLines(n) = {} THEN {} ELSE FlagsIn(LineValue(LastOf(FeaturesLines(n))))
StringLines(key, n) == {i \in 1 .. n : StringOf(LineKey(i)) = key}
ValueUpTo(key, n) ==
  IF StringLines(key, n) = {} THEN <<>> ELSE LineValue(LastOf(StringLines(key, n)))

\* A buffer of a string holds a copy of it.
Holds(key, value) ==
  /\ \E D : strings[key] \in Seq(D)
  /\ Len(strings[key]) = StringSize
  /\ IsCopy(strings[key], value, StringSize)

FromFile == os.function \notin TypeStrings /\ ~OtherSource
HandledUpTo(n) ==
  /\ FromFile => features = FeaturesUpTo(n)
  /\ os.function = "GetPPCPlatformStrings" =>
       \A key \in StringKeys : Holds(key, ValueUpTo(key, n))

\* The last of some lines up to n + 1.
LEMMA LastLine ==
  ASSUME NEW n \in Nat, NEW T, T \subseteq 1 .. n
  PROVE  LastOf(T \cup {n + 1}) = n + 1
<1> DEFINE U == T \cup {n + 1}
<1>1. n + 1 \in U /\ \A j \in U : j \in Int /\ j <= n + 1
  OBVIOUS
<1> HIDE DEF U
<1>2. \A i \in U : (\A j \in U : j <= i) => i = n + 1
  BY <1>1
<1>3. LastOf(U) = n + 1
  BY <1>1, <1>2 DEF LastOf
<1>4. QED
  BY <1>3 DEF U

LEMMA NextLineCounts ==
  ASSUME NEW n \in Nat
  PROVE  /\ FeaturesUpTo(n + 1) = IF LineKey(n + 1) = FeaturesKey(os.arch)
                                  THEN FlagsIn(LineValue(n + 1)) ELSE FeaturesUpTo(n)
         /\ \A key : ValueUpTo(key, n + 1) = IF StringOf(LineKey(n + 1)) = key
                                             THEN LineValue(n + 1) ELSE ValueUpTo(key, n)
<1>1. 1 .. n + 1 = (1 .. n) \cup {n + 1}
  OBVIOUS
<1>2. FeaturesLines(n + 1) = FeaturesLines(n)
        \cup IF LineKey(n + 1) = FeaturesKey(os.arch) THEN {n + 1} ELSE {}
  BY <1>1, Zenon DEF FeaturesLines
<1>3. LastOf(FeaturesLines(n) \cup {n + 1}) = n + 1
  BY LastLine DEF FeaturesLines
<1>4. FeaturesUpTo(n + 1) = IF LineKey(n + 1) = FeaturesKey(os.arch)
                            THEN FlagsIn(LineValue(n + 1)) ELSE FeaturesUpTo(n)
  <2> HIDE DEF FeaturesLines
  <2>1. n + 1 \in FeaturesLines(n) \cup {n + 1}
        /\ FeaturesLines(n) \cup {} = FeaturesLines(n)
    OBVIOUS
  <2>2. CASE LineKey(n + 1) = FeaturesKey(os.arch)
    BY <1>2, <1>3, <2>1, <2>2, Zenon DEF FeaturesUpTo
  <2>3. CASE LineKey(n + 1) # FeaturesKey(os.arch)
    BY <1>2, <2>1, <2>3, Zenon DEF FeaturesUpTo
  <2>4. QED
    BY <2>2, <2>3
<1>5. ASSUME NEW key
      PROVE  ValueUpTo(key, n + 1) = IF StringOf(LineKey(n + 1)) = key
                                     THEN LineValue(n + 1) ELSE ValueUpTo(key, n)
  <2>1. StringLines(key, n + 1) = StringLines(key, n)
          \cup IF StringOf(LineKey(n + 1)) = key THEN {n + 1} ELSE {}
    BY <1>1, Zenon DEF StringLines
  <2>2. LastOf(StringLines(key, n) \cup {n + 1}) = n + 1
    BY LastLine DEF StringLines
  <2> HIDE DEF StringLines
  <2>3. n + 1 \in StringLines(key, n) \cup {n + 1}
        /\ StringLines(key, n) \cup {} = StringLines(key, n)
    OBVIOUS
  <2>4. CASE StringOf(LineKey(n + 1)) = key
    BY <2>1, <2>2, <2>3, <2>4, Zenon DEF ValueUpTo
  <2>5. CASE StringOf(LineKey(n + 1)) # key
    BY <2>1, <2>3, <2>5, Zenon DEF ValueUpTo
  <2>6. QED
    BY <2>4, <2>5
<1>6. QED
  BY <1>4, <1>5

\* The lines are a sequence, and their values are texts.
LEMMA CallLines ==
  ASSUME os \in Calls
  PROVE  /\ NumLines \in Nat /\ DOMAIN os.cpuinfo.lines = 1 .. NumLines
         /\ Len(os.cpuinfo.lines) = NumLines
         /\ \A i \in 1 .. NumLines : IsText(LineValue(i))
<1>1. /\ os.cpuinfo.lines \in Seq(ToSet(os.cpuinfo.lines))
      /\ \A line \in ToSet(os.cpuinfo.lines) : IsText(line.value)
  BY CallAssumption DEF CallAssumption
<1>2. PICK lines : lines = os.cpuinfo.lines
  OBVIOUS
<1>3. Len(lines) \in Nat /\ DOMAIN lines = 1 .. Len(lines)
  BY <1>1, <1>2
<1>4. \A i \in 1 .. Len(lines) : lines[i] \in ToSet(lines)
  BY <1>3 DEF ToSet
<1>5. QED
  BY <1>1, <1>2, <1>3, <1>4, Zenon DEF NumLines, LineValue

LEMMA ReadLine ==
  ASSUME os \in Calls, pos \in 1 .. NumLines + 1, ~result.eof,
         NEW r \in Results(os.cpuinfo, pos, result)
  PROVE  /\ r.pos \in 1 .. NumLines + 1
         /\ \/ r.line = Blank /\ r.eof /\ pos = NumLines + 1
            \/ /\ pos \in 1 .. NumLines /\ r.line = os.cpuinfo.lines[pos]
               /\ IF r.eof THEN pos = NumLines ELSE r.pos = pos + 1
BY CallLines DEF Results, Result

\* Line n is being handled; or, at the end of the file, the empty line is.
HandlesLine(n) ==
  /\ n \in 1 .. NumLines
  /\ result.line = os.cpuinfo.lines[n]
  /\ HandledUpTo(n - 1)
  /\ IF result.eof THEN n = NumLines ELSE pos = n + 1
HandlesBlank ==
  result.line = Blank /\ result.eof /\ HandledUpTo(NumLines)

\* Once the capabilities are merged the features have them too.
Merged ==
  LET hwcaps == [hwcaps |-> caps.AT_HWCAP, hwcaps2 |-> caps.AT_HWCAP2]
  IN  {f \in Flags(os.arch) :
         CpuFeatures_IsHwCapsSet(kHardwareCapabilities(os.arch, f), hwcaps)}
FileFeatures ==
  IF ~os.sandboxed /\ Did("cpuinfo") THEN FeaturesUpTo(NumLines) ELSE {}
FileValue(key) ==
  IF ~os.sandboxed /\ Did("cpuinfo") THEN ValueUpTo(key, NumLines) ELSE <<>>

\* Outside of the loop.
OutsideInv ==
  /\ FromFile => features = FileFeatures \cup (IF Did("merge") THEN Merged ELSE {})
  /\ os.function = "GetPPCPlatformStrings" =>
       \A key \in StringKeys : Holds(key, FileValue(key))

\* The inductive invariant of the loop and of what is made of its features.
LinesInv ==
  /\ pos \in 1 .. NumLines + 1 /\ DOMAIN strings = StringKeys \cup TypeKeys
  /\ pc \notin {"read", "handle"} /\ ~Did("cpuinfo") => pos = 1 /\ ~result.eof
  /\ pc \notin {"read", "handle"} => OutsideInv
  /\ pc = "read" => HandledUpTo(pos - 1) /\ ~result.eof
  /\ pc = "handle" => (\E n \in 1 .. NumLines : HandlesLine(n)) \/ HandlesBlank

\* Nothing has been handled at the start.
LEMMA NothingHandled == FeaturesUpTo(0) = {} /\ \A key : ValueUpTo(key, 0) = <<>>
BY DEF FeaturesUpTo, FeaturesLines, ValueUpTo, StringLines

\* What the call is does not change.
LEMMA SameCall ==
  ASSUME os' = os
  PROVE  /\ NumLines' = NumLines /\ FromFile' = FromFile
         /\ \A n : FeaturesUpTo(n)' = FeaturesUpTo(n)
         /\ \A key, n : ValueUpTo(key, n)' = ValueUpTo(key, n)
BY DEF NumLines, FromFile, OtherSource, FeaturesUpTo, FeaturesLines, ValueUpTo,
       StringLines, FlagsIn, LineKey, LineValue

LEMMA SameHandled ==
  ASSUME UNCHANGED <<os, features, strings>>, NEW n
  PROVE  HandledUpTo(n)' = HandledUpTo(n)
BY SameCall DEF HandledUpTo, Holds

\* The step that leaves the loop, or goes on to the next line.
LEMMA AfterLineKeeps ==
  ASSUME PlanInv, os' = os, caps' = caps, UNCHANGED reader, pc = "handle", AfterLine,
         pos \in 1 .. NumLines + 1, DOMAIN strings' = StringKeys \cup TypeKeys,
         result.eof => HandledUpTo(NumLines)', ~result.eof => HandledUpTo(pos - 1)'
  PROVE  LinesInv'
<1>1. /\ todo # <<>> /\ Head(todo) = "cpuinfo" /\ ~os.sandboxed /\ NumLines' = NumLines
      /\ pos' = pos /\ result' = result
  BY SameCall DEF PlanInv, Doing, reader
<1>2. CASE ~result.eof
  BY <1>1, <1>2 DEF AfterLine, LinesInv
<1>3. CASE result.eof
  <2>1. Finish /\ pc' = "next"
    BY <1>3 DEF AfterLine, Finish
  <2>2. Did("cpuinfo")' /\ ~Did("merge")'
    <3>1. Did("cpuinfo")' /\ (Did("merge")' <=> Did("merge") \/ "merge" = Head(todo))
      BY <1>1, <2>1, Finished DEF Finish
    <3>2. ~Did("merge")
      BY <1>1, Order
    <3>3. QED
      BY <1>1, <3>1, <3>2
  <2>3. /\ FileFeatures' = FeaturesUpTo(NumLines)'
        /\ \A key : FileValue(key)' = ValueUpTo(key, NumLines)'
    BY <1>1, <2>2 DEF FileFeatures, FileValue
  <2>4. OutsideInv'
    BY <1>3, <2>2, <2>3 DEF OutsideInv, HandledUpTo
  <2>5. QED
    BY <1>1, <2>1, <2>2, <2>4 DEF LinesInv
<1>4. QED
  BY <1>2, <1>3

\* A line is handled by what its key is of the function's.
LEMMA LineHandled ==
  ASSUME PlanInv, LinesInv, UNCHANGED <<os, caps, reader>>, pc = "handle", AfterLine,
         DOMAIN strings' = StringKeys \cup TypeKeys,
         FromFile => features' = IF result.line.key = FeaturesKey(os.arch)
                                 THEN FlagsIn(result.line.value) ELSE features,
         os.function = "GetPPCPlatformStrings" =>
           \A key \in StringKeys : \A v, w :
             Holds(key, v) /\ (w = IF StringOf(result.line.key) = key
                                   THEN result.line.value ELSE v) => Holds(key, w)'
  PROVE  LinesInv'
<1>1. NumLines \in Nat /\ pos \in 1 .. NumLines + 1 /\ os \in Calls
  BY CallLines DEF PlanInv, LinesInv
<1>2. CASE HandlesBlank
  <2>1. /\ result.line = Blank /\ result.eof /\ HandledUpTo(NumLines)
        /\ Blank.key # FeaturesKey(os.arch) /\ StringOf(Blank.key) \notin StringKeys
    BY <1>1, <1>2, CallAssumption DEF HandlesBlank, CallAssumption
  <2>2. HandledUpTo(NumLines)'
    BY <2>1, SameCall DEF HandledUpTo
  <2>3. QED
    BY <1>1, <2>1, <2>2, AfterLineKeeps
<1>3. ASSUME NEW n \in 1 .. NumLines, HandlesLine(n)
      PROVE  LinesInv'
  <2>1. PICK m : m = n - 1
    OBVIOUS
  <2>2. m \in Nat /\ n = m + 1
    BY <1>1, <2>1
  <2>3. /\ HandledUpTo(m) /\ result.line.key = LineKey(m + 1)
        /\ result.line.value = LineValue(m + 1)
        /\ IF result.eof THEN m + 1 = NumLines ELSE pos - 1 = m + 1
    BY <1>1, <1>3, <2>1, <2>2 DEF HandlesLine, LineKey, LineValue
  <2>4. /\ FeaturesUpTo(m + 1) = IF result.line.key = FeaturesKey(os.arch)
                                 THEN FlagsIn(result.line.value) ELSE FeaturesUpTo(m)
        /\ \A key : ValueUpTo(key, m + 1) = IF StringOf(result.line.key) = key
                                            THEN result.line.value ELSE ValueUpTo(key, m)
    BY <2>2, <2>3, NextLineCounts
  <2>5. PICK k : k = m + 1
    OBVIOUS
  <2>6. FromFile' => features' = FeaturesUpTo(k)'
    BY <2>3, <2>4, <2>5, SameCall DEF HandledUpTo
  <2>7. os.function = "GetPPCPlatformStrings" =>
          \A key \in StringKeys : Holds(key, ValueUpTo(key, k))'
    <3>1. SUFFICES ASSUME os.function = "GetPPCPlatformStrings", NEW key \in StringKeys
                   PROVE  Holds(key, ValueUpTo(key, k))'
      OBVIOUS
    <3>2. PICK v, w : v = ValueUpTo(key, m) /\ w = ValueUpTo(key, k)
      OBVIOUS
    <3>3. /\ Holds(key, v)
          /\ w = IF StringOf(result.line.key) = key THEN result.line.value ELSE v
      BY <2>3, <2>4, <2>5, <3>1, <3>2 DEF HandledUpTo
    <3>4. Holds(key, w)'
      BY <3>1, <3>3
    <3>5. ValueUpTo(key, k)' = w
      BY <3>2, SameCall
    <3>6. QED
      BY <3>4, <3>5 DEF Holds
  <2>8. HandledUpTo(k)'
    BY <2>6, <2>7 DEF HandledUpTo
  <2>9. /\ result.eof => k = NumLines'
        /\ ~result.eof => k = pos' - 1
    BY <2>3, <2>5, SameCall DEF reader
  <2>10. /\ result.eof => HandledUpTo(NumLines)'
         /\ ~result.eof => HandledUpTo(pos - 1)'
    BY <2>8, <2>9 DEF HandledUpTo
  <2>11. QED
    BY <1>1, <2>10, AfterLineKeeps
<1>4. QED
  BY <1>2, <1>3 DEF LinesInv

\* The steps outside of the loop, except for merging.
LEMMA OutsideKeeps ==
  ASSUME PlanInv, LinesInv, os' = os, UNCHANGED reader,
         pc \notin {"read", "handle"}, pc' \notin {"read", "handle"},
         DOMAIN strings' = DOMAIN strings,
         FromFile => features' = features,
         \A key \in StringKeys : strings'[key] = strings[key],
         caps' = caps \/ ~Did("merge"), Did("merge")' <=> Did("merge"),
         os.sandboxed \/ (Did("cpuinfo")' <=> Did("cpuinfo")),
         Did("cpuinfo") => Did("cpuinfo")'
  PROVE  LinesInv'
<1>1. FileFeatures' = FileFeatures /\ \A key : FileValue(key)' = FileValue(key)
  BY SameCall DEF FileFeatures, FileValue
<1>2. Did("merge") => Merged' = Merged
  BY DEF Merged
<1>3. \A key \in StringKeys : \A v : Holds(key, v) => Holds(key, v)'
  BY DEF Holds
<1>4. OutsideInv'
  <2>1. FromFile' =>
          features' = FileFeatures' \cup (IF Did("merge")' THEN Merged' ELSE {})
    BY <1>1, <1>2, SameCall DEF LinesInv, OutsideInv
  <2>2. ASSUME os.function = "GetPPCPlatformStrings", NEW key \in StringKeys
        PROVE  Holds(key, FileValue(key))'
    <3>1. PICK v : v = FileValue(key)
      OBVIOUS
    <3>2. Holds(key, v)'
      BY <1>3, <2>2, <3>1 DEF LinesInv, OutsideInv
    <3>3. FileValue(key)' = v
      BY <1>1, <3>1
    <3>4. QED
      BY <3>2, <3>3 DEF Holds
  <2>3. QED
    BY <2>1, <2>2 DEF OutsideInv
<1>5. NumLines' = NumLines
  BY SameCall
<1>6. QED
  BY <1>4, <1>5 DEF LinesInv, reader

\* A buffer after CopyString.
LEMMA BufferCopied ==
  ASSUME NEW name, name \in DOMAIN strings, NEW value, IsText(value),
         \E D : strings[name] \in Seq(D), Len(strings[name]) = StringSize,
         strings' = [strings EXCEPT ![name] = CopyString(value, @)]
  PROVE  Holds(name, value)'
<1>1. PICK D : strings[name] \in Seq(D)
  OBVIOUS
<1>2. PICK dst : dst = strings[name]
  OBVIOUS
<1>3. strings'[name] = CopyString(value, dst)
  BY <1>2
<1>4. /\ value \in Seq(ToSet(value)) /\ dst \in Seq(D)
      /\ Len(dst) = StringSize /\ Len(dst) > 0
  BY <1>1, <1>2, CallAssumption DEF IsText, CallAssumption
<1>5. /\ CopyString(value, dst) \in Seq(ToSet(value) \cup D \cup {NUL})
      /\ IsCopy(CopyString(value, dst), value, Len(dst))
  BY <1>4, Copied
<1>6. Len(CopyString(value, dst)) = StringSize
  BY <1>4, <1>5 DEF IsCopy
<1>7. QED
  BY <1>3, <1>4, <1>5, <1>6, Zenon DEF Holds

\* The keys of numbers are not those of features.
LEMMA OtherKeys == \A f, arch : FeaturesKey(arch) \notin NumberKeys(f)
<1>1. \A a, b : <<a>> = <<b>> => a = b
  OBVIOUS
<1>2. QED
  BY <1>1, Zenon DEF FeaturesKey, NumberKeys

\* No step loses a line.
LEMMA LinesStep ==
  ASSUME PlanInv, AuxInv, LinesInv, [Next]_vars
  PROVE  LinesInv'
<1>1. CASE OpenCpuinfo
  <2>1. /\ UNCHANGED <<os, caps, features, strings, pos, result>> /\ pc = "next"
        /\ todo # <<>> /\ Head(todo) = "cpuinfo"
        /\ IF os.sandboxed THEN Finish ELSE pc' = "read" /\ UNCHANGED todo
    BY <1>1 DEF OpenCpuinfo, Starts, reader, info
  <2>2. ~Did("cpuinfo") /\ ~Did("merge")
    BY <2>1, Order
  <2>3. CASE os.sandboxed
    <3>1. ~Did("merge")'
      BY <2>1, <2>2, <2>3, Finished DEF Finish
    <3>2. QED
      BY <2>1, <2>2, <2>3, <3>1, OutsideKeeps DEF Finish, reader
  <2>4. CASE ~os.sandboxed
    <3>1. OutsideInv /\ pos = 1 /\ ~result.eof
      BY <2>1, <2>2 DEF LinesInv
    <3>2. HandledUpTo(0)
      BY <2>2, <3>1, NothingHandled DEF OutsideInv, HandledUpTo, FileFeatures, FileValue
    <3>3. HandledUpTo(0)'
      BY <2>1, <3>2, SameHandled
    <3>4. HandledUpTo(pos - 1)'
      BY <2>1, <3>1, <3>3 DEF HandledUpTo
    <3>5. QED
      BY <2>1, <2>4, <3>1, <3>4, SameCall DEF LinesInv
  <2>5. QED
    BY <2>3, <2>4
<1>2. CASE NextLine
  <2>1. /\ result' \in Results(os.cpuinfo, pos, result) /\ pos' = result'.pos
        /\ ~result.eof /\ pc = "read" /\ pc' = "handle" /\ UNCHANGED <<os, features, strings>>
        /\ pos \in 1 .. NumLines + 1 /\ HandledUpTo(pos - 1) /\ os \in Calls
    BY <1>2 DEF NextLine, info, LinesInv, PlanInv
  <2>2. /\ pos' \in 1 .. NumLines + 1
        /\ \/ result'.line = Blank /\ result'.eof /\ pos = NumLines + 1
           \/ /\ pos \in 1 .. NumLines /\ result'.line = os.cpuinfo.lines[pos]
              /\ IF result'.eof THEN pos = NumLines ELSE pos' = pos + 1
    BY <2>1, ReadLine
  <2>3. PICK n : n = pos - 1
    OBVIOUS
  <2>4. HandledUpTo(n)' /\ NumLines' = NumLines /\ NumLines \in Nat
    BY <2>1, <2>3, SameHandled, SameCall, CallLines
  <2>5. CASE result'.line = Blank /\ result'.eof /\ pos = NumLines + 1
    <3>1. HandledUpTo(NumLines)'
      BY <2>3, <2>4, <2>5 DEF HandledUpTo
    <3>2. HandlesBlank'
      BY <2>5, <3>1 DEF HandlesBlank
    <3>3. QED
      BY <2>1, <2>2, <2>4, <3>2 DEF LinesInv
  <2>6. CASE /\ pos \in 1 .. NumLines /\ result'.line = os.cpuinfo.lines[pos]
             /\ IF result'.eof THEN pos = NumLines ELSE pos' = pos + 1
    <3>1. PICK l : l = pos
      OBVIOUS
    <3>2. HandledUpTo(l - 1)'
      BY <2>3, <2>4, <3>1 DEF HandledUpTo
    <3>3. l \in 1 .. NumLines' /\ HandlesLine(l)'
      BY <2>1, <2>4, <2>6, <3>1, <3>2 DEF HandlesLine
    <3>4. QED
      BY <2>1, <2>2, <2>4, <3>3 DEF LinesInv
  <2>7. QED
    BY <2>2, <2>5, <2>6
<1>3. CASE HandleFeatures
  <2>1. /\ UNCHANGED <<os, caps, reader, strings>> /\ pc = "handle" /\ AfterLine
        /\ os.function \notin TypeStrings /\ result.line.key = FeaturesKey(os.arch)
        /\ features' = FlagsIn(result.line.value)
    BY <1>3 DEF HandleFeatures, Handles, FlagsIn
  <2>2. os.function # "GetPPCPlatformStrings"
    BY <2>1 DEF TypeStrings
  <2>3. QED
    BY <2>1, <2>2, LineHandled DEF LinesInv
<1>4. CASE HandleNumber
  <2>1. /\ UNCHANGED <<os, caps, reader, strings, features>>
        /\ pc = "handle" /\ AfterLine
        /\ os.function \in NumberFunctions
        /\ result.line.key \in NumberKeys(os.function)
    BY <1>4 DEF HandleNumber, Handles
  <2>2. os.function # "GetPPCPlatformStrings"
    BY <2>1 DEF NumberFunctions
  <2>3. result.line.key # FeaturesKey(os.arch)
    BY <2>1, OtherKeys
  <2>4. QED
    BY <2>1, <2>2, <2>3, LineHandled DEF LinesInv
<1>5. CASE HandleString
  <2>1. /\ UNCHANGED <<os, caps, reader, features>> /\ pc = "handle" /\ AfterLine
        /\ os.function = "GetPPCPlatformStrings"
        /\ StringOf(result.line.key) \in StringKeys
        /\ strings' = [strings EXCEPT ![StringOf(result.line.key)] =
                         CopyString(result.line.value, @)]
    BY <1>5 DEF HandleString
  <2>2. ~FromFile
    BY <2>1 DEF FromFile, TypeStrings
  <2>3. DOMAIN strings' = DOMAIN strings /\ DOMAIN strings = StringKeys \cup TypeKeys
    BY <2>1 DEF LinesInv
  <2>4. ASSUME NEW key \in StringKeys, NEW v, NEW w, Holds(key, v),
               w = IF StringOf(result.line.key) = key THEN result.line.value ELSE v
        PROVE  Holds(key, w)'
    <3>1. CASE StringOf(result.line.key) # key
      <4>1. strings'[key] = strings[key] /\ w = v
        BY <2>1, <2>4, <3>1
      <4>2. QED
        BY <2>4, <4>1 DEF Holds
    <3>2. CASE StringOf(result.line.key) = key
      <4>1. IsText(result.line.value)
        <5>1. result.line # Blank
          BY <2>1, CallAssumption DEF CallAssumption
        <5>2. PICK n \in 1 .. NumLines : result.line = os.cpuinfo.lines[n]
          BY <2>1, <5>1 DEF LinesInv, HandlesLine, HandlesBlank
        <5>3. QED
          BY <5>2, CallLines DEF PlanInv, LineValue
      <4>2. IsText(w) /\ strings' = [strings EXCEPT ![key] = CopyString(w, @)]
        BY <2>1, <2>4, <3>2, <4>1, Zenon
      <4>3. /\ key \in DOMAIN strings /\ Len(strings[key]) = StringSize
            /\ \E D : strings[key] \in Seq(D)
        BY <2>3, <2>4 DEF Holds
      <4>4. QED
        BY <4>2, <4>3, BufferCopied
    <3>3. QED
      BY <3>1, <3>2
  <2>5. QED
    BY <2>1, <2>2, <2>3, <2>4, LineHandled
<1>6. CASE HandleOther
  <2>1. /\ UNCHANGED <<os, caps, reader, features, strings>>
        /\ pc = "handle" /\ AfterLine
        /\ os.function \in TypeStrings \/ result.line.key # FeaturesKey(os.arch)
        /\ os.function = "GetPPCPlatformStrings"
             => StringOf(result.line.key) \notin StringKeys
    BY <1>6 DEF HandleOther, Unhandled, info
  <2>2. \A key, v : Holds(key, v) => Holds(key, v)'
    BY <2>1 DEF Holds
  <2>3. QED
    BY <2>1, <2>2, LineHandled DEF LinesInv, FromFile
<1>7. CASE AskFor \/ Fetch \/ ReturnInfo \/ UNCHANGED vars
  <2>1. UNCHANGED <<os, todo, caps, features, strings, pos, result>>
    BY <1>7 DEF AskFor, Fetch, ReturnInfo, vars, reader, info
  <2>2. pc' = pc \/ (pc \notin {"read", "handle"} /\ pc' \notin {"read", "handle"})
    BY <1>7 DEF AskFor, Fetch, ReturnInfo, vars
  <2>3. CASE pc \notin {"read", "handle"}
    BY <2>1, <2>2, <2>3, Stayed, OutsideKeeps DEF reader
  <2>4. CASE pc \in {"read", "handle"}
    <3>1. pc' = pc /\ NumLines' = NumLines /\ \A n : HandledUpTo(n)' <=> HandledUpTo(n)
      BY <2>1, <2>2, <2>4, SameCall, SameHandled
    <3>2. pc = "read" => HandledUpTo(pos - 1)'
      BY <2>1, <3>1 DEF LinesInv, HandledUpTo
    <3>3. \A n : HandlesLine(n) => HandlesLine(n)'
      BY <2>1, <3>1 DEF HandlesLine
    <3>4. HandlesBlank => HandlesBlank'
      <4>1. PICK n : n = NumLines
        OBVIOUS
      <4>2. HandledUpTo(n)' => HandledUpTo(NumLines)'
        BY <3>1, <4>1 DEF HandledUpTo
      <4>3. QED
        BY <2>1, <3>1, <4>1, <4>2 DEF HandlesBlank
    <3>5. QED
      BY <2>1, <2>4, <3>1, <3>2, <3>3, <3>4 DEF LinesInv
  <2>5. QED
    BY <2>3, <2>4
<1>8. CASE Answered
  <2>1. /\ UNCHANGED <<os, features, strings, reader>> /\ pc = "ask" /\ Finish
        /\ todo # <<>> /\ Head(todo) \in DOMAIN TypeOf
    BY <1>8, PlanAnswered DEF Answered, reader, info
  <2>2. /\ ~Did("merge") /\ ~Did("merge")'
        /\ Did("cpuinfo")' <=> Did("cpuinfo")
    BY <2>1, Order, Finished, AskedTypes DEF Finish
  <2>3. QED
    BY <2>1, <2>2, OutsideKeeps DEF Finish
<1>9. CASE Merge
  <2>1. /\ UNCHANGED <<os, caps, strings, pos, result>> /\ pc = "next" /\ Finish
        /\ todo # <<>> /\ Head(todo) = "merge" /\ features' = features \cup Merged
    BY <1>9 DEF Merge, Starts, reader, Merged
  <2>2. /\ ~Did("merge") /\ Did("merge")'
        /\ Did("cpuinfo")' <=> Did("cpuinfo")
    BY <2>1, Order, Finished DEF Finish
  <2>3. /\ FileFeatures' = FileFeatures /\ Merged' = Merged /\ NumLines' = NumLines
        /\ \A key : FileValue(key)' = FileValue(key)
    BY <2>1, <2>2, SameCall DEF FileFeatures, FileValue, Merged
  <2>4. FromFile' =>
          features' = FileFeatures' \cup (IF Did("merge")' THEN Merged' ELSE {})
    BY <2>1, <2>2, <2>3, SameCall DEF LinesInv, OutsideInv
  <2>5. \A key, v : Holds(key, v) => Holds(key, v)'
    BY <2>1 DEF Holds
  <2>6. os.function = "GetPPCPlatformStrings" =>
          \A key \in StringKeys : Holds(key, FileValue(key))'
    <3>1. SUFFICES ASSUME os.function = "GetPPCPlatformStrings", NEW key \in StringKeys
                   PROVE  Holds(key, FileValue(key))'
      OBVIOUS
    <3>2. PICK v : v = FileValue(key)
      OBVIOUS
    <3>3. Holds(key, v)' /\ FileValue(key)' = v
      BY <2>1, <2>3, <2>5, <3>1, <3>2 DEF LinesInv, OutsideInv
    <3>4. QED
      BY <3>3 DEF Holds
  <2>7. OutsideInv'
    BY <2>1, <2>4, <2>6 DEF OutsideInv
  <2>8. QED
    BY <2>1, <2>2, <2>3, <2>7 DEF LinesInv, Finish
<1>10. CASE CopyPlatform \/ CopyBasePlatform
  <2>1. /\ UNCHANGED <<os, caps, features, reader>> /\ pc = "next" /\ todo # <<>>
        /\ Head(todo) \in Copies
        /\ \/ Finish
           \/ pc' = "crashed" /\ UNCHANGED todo
        /\ \/ strings' = strings
           \/ \E name \in TypeKeys : \E s : strings' = [strings EXCEPT ![name] = s]
    BY <1>10 DEF CopyPlatform, CopyBasePlatform, CopyType, Starts, reader, Copies, TypeKeys
  <2>2. \A key \in StringKeys : key \notin TypeKeys
    BY DEF StringKeys, TypeKeys
  <2>3. /\ DOMAIN strings' = DOMAIN strings
        /\ \A key \in StringKeys : strings'[key] = strings[key]
    <3>1. CASE strings' = strings
      BY <3>1
    <3>2. ASSUME NEW name \in TypeKeys, NEW s, strings' = [strings EXCEPT ![name] = s]
          PROVE  /\ DOMAIN strings' = DOMAIN strings
                 /\ \A key \in StringKeys : strings'[key] = strings[key]
      <4>1. DOMAIN strings = StringKeys \cup TypeKeys /\ \A key \in StringKeys : key # name
        BY <2>2 DEF LinesInv
      <4> HIDE DEF StringKeys, TypeKeys
      <4>2. QED
        BY <3>2, <4>1
    <3>3. QED
      BY <2>1, <3>1, <3>2
  <2>4. /\ Did("merge")' <=> Did("merge")
        /\ Did("cpuinfo")' <=> Did("cpuinfo")
    BY <2>1, Finished, Stayed DEF Copies, Finish
  <2>5. QED
    BY <2>1, <2>3, <2>4, OutsideKeeps DEF Finish
<1>11. CASE Midr
  <2>1. /\ UNCHANGED <<os, caps, features, strings, reader>> /\ pc = "next" /\ Finish
        /\ todo # <<>> /\ Head(todo) = "midr"
    BY <1>11 DEF Midr, Starts, reader
  <2>2. /\ Did("merge")' <=> Did("merge")
        /\ Did("cpuinfo")' <=> Did("cpuinfo")
    BY <2>1, Finished DEF Finish
  <2>3. QED
    BY <2>1, <2>2, OutsideKeeps DEF Finish
<1>12. CASE Sysctl \/ ProcessorFeatures
  <2>1. /\ UNCHANGED <<os, caps, strings, reader>> /\ pc = "next" /\ Finish
        /\ todo # <<>> /\ Head(todo) \in {"sysctl", "processor_features"}
    BY <1>12 DEF Sysctl, ProcessorFeatures, Starts, reader
  <2>2. /\ Did("merge")' <=> Did("merge")
        /\ Did("cpuinfo")' <=> Did("cpuinfo")
        /\ ~FromFile
    BY <2>1, Finished, Order DEF Finish, FromFile
  <2>3. QED
    BY <2>1, <2>2, OutsideKeeps DEF Finish
<1>13. QED
  BY <1>1, <1>2, <1>3, <1>4, <1>5, <1>6, <1>7, <1>8, <1>9, <1>10, <1>11, <1>12
     DEF Next, Lines, Capabilities

-------------------------------------------------------------------------------
LEMMA NothingDone == ASSUME Init PROVE \A s : ~Did(s)
<1>1. todo = plan /\ Len(plan) \in Nat
  BY PlanLength DEF Init, plan
<1> HIDE DEF plan, Phases
<1>2. now = 1
  BY <1>1 DEF now
<1>3. QED
  BY <1>2 DEF Did

\* At the start a buffer has nothing but NULs.
LEMMA EmptyBuffers ==
  ASSUME NEW key, strings[key] = NoString
  PROVE  Holds(key, <<>>)
<1>1. /\ NoString \in Seq({NUL}) /\ Len(NoString) = StringSize
      /\ IsCopy(NoString, <<>>, StringSize)
  BY CallAssumption DEF NoString, IsCopy, Fitting, CallAssumption
<1> HIDE DEF NoString
<1>2. QED
  BY <1>1 DEF Holds

LEMMA LinesInit == ASSUME Init PROVE LinesInv
<1>1. /\ os \in Calls /\ pos = 1 /\ ~result.eof /\ features = {} /\ pc = "next"
      /\ strings = [k \in StringKeys \cup TypeKeys |-> NoString]
  BY DEF Init, NotRead, Result
<1>2. \A s : ~Did(s)
  BY NothingDone
<1>3. \A key \in StringKeys : Holds(key, <<>>)
  BY <1>1, EmptyBuffers
<1>4. NumLines \in Nat
  BY <1>1, CallLines
<1>5. OutsideInv
  BY <1>1, <1>2, <1>3 DEF OutsideInv, FileFeatures, FileValue
<1>6. QED
  BY <1>1, <1>4, <1>5 DEF LinesInv

\* The last line of some.
LEMMA LastIn ==
  ASSUME NEW n \in Nat, NEW T, T \subseteq 1 .. n, T # {}
  PROVE  LastOf(T) \in T
<1>1. T \subseteq 0 .. n
  OBVIOUS
<1>2. Max(T) \in T /\ \A j \in T : j <= Max(T)
  BY <1>1, MaxOf
<1>3. QED
  BY <1>2, Zenon DEF LastOf

\* Merging came after both capabilities.
LEMMA MergedAfter ==
  ASSUME PlanInv, Did("merge")
  PROVE  Did("AT_HWCAP") /\ Did("AT_HWCAP2")
<1>1. PICK j \in 1 .. now - 1 : plan[j] = "merge"
  BY DEF Did
<1>2. /\ Ordered(plan) /\ Len(plan) \in Nat /\ now \in 1 .. Len(plan) + 1
  BY Plans, PlanLength DEF PlanInv, WellPlanned, plan
<1> HIDE DEF now, plan
<1>3. /\ \E i \in 1 .. j - 1 : plan[i] = "AT_HWCAP"
      /\ \E i \in 1 .. j - 1 : plan[i] = "AT_HWCAP2"
  BY <1>1, <1>2 DEF Ordered
<1>4. \A i \in 1 .. j - 1 : i \in 1 .. now - 1
  BY <1>1, <1>2
<1>5. QED
  BY <1>3, <1>4 DEF Did

\* A flag is set by the file where it is a word of the last Features line.
LEMMA FileDeclares ==
  ASSUME PlanInv, todo = <<>>
  PROVE  FileFeatures = DeclaredByFile
<1>1. os \in Calls /\ \A s : Did(s) <=> s \in Steps
  <2>1. \A s : Did(s) <=> s \in Steps
    BY AllDone
  <2>2. QED
    BY <2>1 DEF PlanInv
<1>2. NumLines \in Nat /\ \A i \in 1 .. NumLines : IsText(LineValue(i))
  BY <1>1, CallLines
<1>3. LinesWith(os.cpuinfo, {FeaturesKey(os.arch)}) = FeaturesLines(NumLines)
  <2>1. DOMAIN os.cpuinfo.lines = 1 .. NumLines
    BY <1>1, CallLines
  <2>2. \A i : os.cpuinfo.lines[i].key \in {FeaturesKey(os.arch)}
                 <=> LineKey(i) = FeaturesKey(os.arch)
    BY Zenon DEF LineKey
  <2>3. QED
    BY <2>1, <2>2, Zenon DEF LinesWith, FeaturesLines
<1>4. CASE ReadsCpuinfo /\ FeaturesLines(NumLines) # {}
  <2>1. LastOf(FeaturesLines(NumLines)) \in 1 .. NumLines
    BY <1>2, <1>4, LastIn DEF FeaturesLines
  <2>2. PICK value : value = LineValue(LastOf(FeaturesLines(NumLines)))
    OBVIOUS
  <2>3. value \in Seq(ToSet(value)) /\ NUL \notin ToSet(value)
    BY <1>2, <2>1, <2>2 DEF IsText
  <2>4. \A f \in Flags(os.arch) : HasWord(value, <<f>>, " ") <=> IsField(<<f>>, value, " ")
    <3>1. SUFFICES ASSUME NEW f \in Flags(os.arch)
                   PROVE  HasWord(value, <<f>>, " ") <=> IsField(<<f>>, value, " ")
      OBVIOUS
    <3>2. f # " "
      BY <1>1, CallAssumption, TableAssumption, Zenon DEF CallAssumption, TableAssumption
    <3>3. PICK S : S = ToSet(value) \cup {f}
      OBVIOUS
    <3>4. value \in Seq(S) /\ <<f>> \in Seq(S) /\ <<f>> # <<>>
      BY <2>3, <3>3
    <3>5. " " \notin ToSet(<<f>>)
      <4>1. ToSet(<<f>>) = {f}
        BY DEF ToSet
      <4>2. QED
        BY <3>2, <4>1, Zenon
    <3>6. QED
      BY <2>3, <3>4, <3>5, HasWordField
  <2>5. FlagsIn(value) = {f \in Flags(os.arch) : IsField(<<f>>, value, " ")}
    BY <2>4, Zenon DEF FlagsIn
  <2>6. FileFeatures = FlagsIn(value)
    BY <1>1, <1>4, <2>2 DEF FileFeatures, ReadsCpuinfo, FeaturesUpTo
  <2>7. QED
    BY <1>3, <1>4, <2>2, <2>5, <2>6, Zenon DEF DeclaredByFile, LineValue
<1>5. CASE ~(ReadsCpuinfo /\ FeaturesLines(NumLines) # {})
  BY <1>1, <1>3, <1>5, Zenon DEF FileFeatures, ReadsCpuinfo, FeaturesUpTo, DeclaredByFile
<1>6. QED
  BY <1>4, <1>5

\* A mask of one bit is set where it meets the value.
LEMMA OneBit ==
  ASSUME NEW mask, NEW v, \A b, c \in mask : b = c
  PROVE  IsSet(mask, v) <=> mask \cap v # {}
BY DEF IsSet

\* The bits that were merged are those the kernel gave, or fewer where a source
\* is missing.
LEMMA KernelDeclares ==
  ASSUME PlanInv, Did("merge"), \A t \in Asks : Trusted(TypeOf[t])
  PROVE  /\ Merged \subseteq DeclaredByKernel
         /\ Complete => Merged = DeclaredByKernel
<1>1. Did("AT_HWCAP") /\ Did("AT_HWCAP2")
  BY MergedAfter
<1>2. \A s : Did(s) => s \in Steps
  BY AllDone
<1>3. CapTrue("AT_HWCAP") /\ CapTrue("AT_HWCAP2")
  BY <1>1, <1>2, AskedTypes DEF PlanInv, Asks
<1>4. PICK h, h2 : h = caps.AT_HWCAP /\ h2 = caps.AT_HWCAP2
  OBVIOUS
<1>5. PICK k, k2 : k = Seen(Kernel(AT_HWCAP)) /\ k2 = Seen(Kernel(AT_HWCAP2))
  OBVIOUS
<1>6. /\ h = k \/ (h = {} /\ ~Complete)
      /\ h2 = k2 \/ (h2 = {} /\ ~Complete)
  BY <1>3, <1>4, <1>5 DEF CapTrue, TypeOf
<1>7. \A f \in Flags(os.arch) :
        LET mask == kHardwareCapabilities(os.arch, f)
        IN  /\ \A v : IsSet(mask.hwcaps, v) <=> mask.hwcaps \cap v # {}
            /\ \A v : IsSet(mask.hwcaps2, v) <=> mask.hwcaps2 \cap v # {}
  <2>1. os.arch \in DOMAIN Hwcap
    BY CallAssumption DEF CallAssumption, PlanInv
  <2> HIDE DEF Flags, kHardwareCapabilities, IsSet
  <2>2. QED
    BY <2>1, TableAssumption, OneBit DEF TableAssumption
<1>8. ASSUME NEW f \in Flags(os.arch)
      PROVE  /\ f \in Merged => f \in DeclaredByKernel
             /\ Complete => (f \in Merged <=> f \in DeclaredByKernel)
  <2>1. PICK m : m = kHardwareCapabilities(os.arch, f)
    OBVIOUS
  <2>2. f \in Merged <=> m.hwcaps \cap h # {} \/ m.hwcaps2 \cap h2 # {}
    BY <1>4, <1>7, <2>1 DEF Merged, CpuFeatures_IsHwCapsSet
  <2>3. f \in DeclaredByKernel <=> m.hwcaps \cap k # {} \/ m.hwcaps2 \cap k2 # {}
    BY <1>5, <2>1 DEF DeclaredByKernel
  <2>4. QED
    BY <1>6, <2>2, <2>3
<1>9. Merged \subseteq Flags(os.arch) /\ DeclaredByKernel \subseteq Flags(os.arch)
  BY DEF Merged, DeclaredByKernel
<1>10. QED
  BY <1>8, <1>9

\* A feature is set exactly when a source declares it (FeaturesDeclared), for
\* every machine, every /proc/cpuinfo and every function.
THEOREM FeaturesDeclaredCorrect == Spec => []FeaturesDeclared
<1>1. Init => AuxInv /\ PlanInv /\ LinesInv
  BY AuxInvInit, PlanInit, LinesInit DEF Init
<1>2. AuxInv /\ PlanInv /\ LinesInv /\ [Next]_vars => (AuxInv /\ PlanInv /\ LinesInv)'
  BY FunctionsUseAux, AuxInvStep, PlanStep, LinesStep
<1>3. PlanInv /\ LinesInv => FeaturesDeclared
  <2>1. SUFFICES ASSUME PlanInv, LinesInv, Done,
                        os.function \notin TypeStrings, ~OtherSource,
                        \A t \in Asks : Trusted(TypeOf[t])
                 PROVE  LET declared ==
                              DeclaredByFile
                                \cup (IF "merge" \in Steps THEN DeclaredByKernel ELSE {})
                        IN  /\ features \subseteq declared
                            /\ DeclaredByFile \subseteq features
                            /\ Complete => features = declared
    BY DEF FeaturesDeclared
  <2>2. pc = "done" /\ todo = <<>>
    BY <2>1 DEF Done, PlanInv
  <2>3. Did("merge") <=> "merge" \in Steps
    BY <2>1, <2>2, AllDone
  <2>4. features = DeclaredByFile \cup (IF Did("merge") THEN Merged ELSE {})
    BY <2>1, <2>2, FileDeclares DEF LinesInv, OutsideInv, FromFile
  <2>5. Did("merge") => /\ Merged \subseteq DeclaredByKernel
                        /\ Complete => Merged = DeclaredByKernel
    BY <2>1, <2>2, KernelDeclares
  <2>6. QED
    BY <2>3, <2>4, <2>5
<1>4. QED
  BY <1>1, <1>2, <1>3, PTL DEF Spec

-------------------------------------------------------------------------------
(* The strings of the auxiliary vector.                                    *)

\* What a step copies, and where to.
AskedFor(copy) == IF copy = "copy_platform" THEN "AT_PLATFORM" ELSE "AT_BASE_PLATFORM"
NameOf(copy) == <<"type", IF copy = "copy_platform" THEN "platform" ELSE "base_platform">>

\* The calls that PlatformStrings promises something about.
Promised ==
  /\ os.function \in TypeStrings
  /\ machine.bits = 32 \/ machine.build # "dlopen"
  /\ \A t \in Asks : Trusted(TypeOf[t])

TypeValue(copy) ==
  IF Did(copy) /\ caps[AskedFor(copy)] # {} THEN os.memory[caps[AskedFor(copy)]]
  ELSE <<>>
TypesInv ==
  Promised => pc # "crashed" /\ \A copy \in Copies : Holds(NameOf(copy), TypeValue(copy))

\* Copying came after asking.
LEMMA AskedBefore ==
  ASSUME PlanInv, NEW copy \in Copies, Did(copy)
  PROVE  Did(AskedFor(copy))
<1>1. PICK j \in 1 .. now - 1 : plan[j] = copy
  BY DEF Did
<1>2. /\ Ordered(plan) /\ Len(plan) \in Nat /\ now \in 1 .. Len(plan) + 1
  BY Plans, PlanLength DEF PlanInv, WellPlanned, plan
<1> HIDE DEF now, plan
<1>3. \E i \in 1 .. j - 1 : plan[i] = AskedFor(copy)
  BY <1>1, <1>2 DEF Ordered, Copies, AskedFor
<1>4. \A i \in 1 .. j - 1 : i \in 1 .. now - 1
  BY <1>1, <1>2
<1>5. QED
  BY <1>3, <1>4 DEF Did

\* What the kernel says is the value of an entry.
LEMMA KernelEntry ==
  ASSUME AuxTypeOK, NEW t, Kernel(t) # {}
  PROVE  \E m \in 1 .. Len(machine.vector) :
           machine.vector[m].type = t /\ Kernel(t) = machine.vector[m].value
<1>1. DOMAIN machine.vector = 1 .. Len(machine.vector) /\ Len(machine.vector) \in Nat
  BY MachineFields
<1>2. Having(t) # {} /\ Having(t) \subseteq Nat
  BY <1>1 DEF Kernel, Having
<1>3. PICK m : m = CHOOSE i \in Having(t) : \A j \in Having(t) : i <= j
  OBVIOUS
<1>4. m \in Having(t)
  BY <1>2, <1>3, LeastOf, Zenon
<1>5. m \in 1 .. Len(machine.vector) /\ machine.vector[m].type = t
  BY <1>1, <1>4 DEF Having
<1>6. Kernel(t) = machine.vector[m].value
  BY <1>2, <1>3 DEF Kernel
<1>7. QED
  BY <1>5, <1>6

\* The kernel's pointers point at strings.
LEMMA KernelPoints ==
  ASSUME PlanInv, AuxInv, NEW t \in {AT_PLATFORM, AT_BASE_PLATFORM}, Kernel(t) # {}
  PROVE  Kernel(t) \in DOMAIN os.memory /\ IsText(os.memory[Kernel(t)])
<1>1. PICK m \in 1 .. Len(machine.vector) :
        machine.vector[m].type = t /\ Kernel(t) = machine.vector[m].value
  BY KernelEntry DEF AuxInv
<1>2. DOMAIN machine.vector = 1 .. Len(machine.vector)
  BY MachineFields DEF AuxInv
<1>3. machine.vector[m] \in ToSet(machine.vector)
  BY <1>2 DEF ToSet
<1>4. QED
  BY <1>1, <1>3, CallAssumption DEF CallAssumption, PlanInv

\* An answer that was asked for is the kernel's pointer, or 0.
LEMMA PointerTrue ==
  ASSUME PlanInv, AuxInv, Promised, NEW copy \in Copies, Did(AskedFor(copy))
  PROVE  LET pointer == caps[AskedFor(copy)]
             kernel  == Kernel(TypeOf[AskedFor(copy)])
         IN  /\ pointer = kernel \/ (pointer = {} /\ ~Complete)
             /\ pointer # {} => pointer \in DOMAIN os.memory /\ IsText(os.memory[pointer])
<1>1. PICK t : t = AskedFor(copy)
  OBVIOUS
<1>2. t \in DOMAIN TypeOf /\ TypeOf[t] \in {AT_PLATFORM, AT_BASE_PLATFORM}
  BY <1>1, AskedTypes DEF AskedFor, TypeOf
<1>3. CapTrue(t)
  BY <1>1, <1>2, AllDone DEF Promised, Asks, PlanInv
<1>4. Seen(Kernel(TypeOf[t])) = Kernel(TypeOf[t])
  <2>1. CASE machine.build # "dlopen"
    BY <2>1 DEF Seen
  <2>2. CASE machine.bits = 32
    <3>1. Kernel(TypeOf[t]) \subseteq Bits(32)
      BY <2>2, KernelEntry, MachineFields DEF AuxInv
    <3>2. QED
      BY <3>1, HalvesOfWord DEF Seen
  <2>3. QED
    BY <2>1, <2>2 DEF Promised
<1>5. caps[t] = Kernel(TypeOf[t]) \/ (caps[t] = {} /\ ~Complete)
  BY <1>3, <1>4 DEF CapTrue
<1>6. caps[t] # {} => caps[t] \in DOMAIN os.memory /\ IsText(os.memory[caps[t]])
  BY <1>2, <1>5, KernelPoints
<1>7. QED
  BY <1>1, <1>5, <1>6

LEMMA SamePromise ==
  ASSUME os' = os, machine' = machine
  PROVE  Promised' = Promised
BY SameMachine DEF Promised, Asks, Steps

\* A step that copies no string of the auxiliary vector.
LEMMA TypesKeep ==
  ASSUME PlanInv, TypesInv, UNCHANGED <<os, machine>>, pc' # "crashed",
         \A copy \in Copies : /\ strings'[NameOf(copy)] = strings[NameOf(copy)]
                              /\ Did(copy)' <=> Did(copy)
                              /\ Did(copy) => caps'[AskedFor(copy)] = caps[AskedFor(copy)]
  PROVE  TypesInv'
<1> SUFFICES ASSUME Promised, NEW copy \in Copies
             PROVE  Holds(NameOf(copy), TypeValue(copy))'
  BY SamePromise DEF TypesInv
<1>1. PICK v, name : v = TypeValue(copy) /\ name = NameOf(copy)
  OBVIOUS
<1>2. Holds(name, v) /\ strings'[name] = strings[name]
  BY <1>1 DEF TypesInv
<1>3. Holds(name, v)'
  BY <1>2 DEF Holds
<1>4. TypeValue(copy)' = v
  BY <1>1 DEF TypeValue
<1>5. NameOf(copy)' = name
  BY <1>1
<1>6. QED
  BY <1>3, <1>4, <1>5 DEF Holds

\* Copying follows a pointer of the kernel, or none, into the buffer of its own.
LEMMA TypeCopied ==
  ASSUME PlanInv, AuxInv, LinesInv, TypesInv, NEW copy \in Copies,
         CopyType(copy, NameOf(copy), caps[AskedFor(copy)])
  PROVE  TypesInv'
<1>1. /\ UNCHANGED <<os, machine, caps>> /\ todo # <<>> /\ Head(todo) = copy /\ pc = "next"
  BY DEF CopyType, Starts, auxvars
<1>2. ~Did(copy) /\ Did(AskedFor(copy))
  BY <1>1, Order DEF Copies, AskedFor
<1> SUFFICES ASSUME Promised
             PROVE  /\ pc' # "crashed"
                    /\ \A c \in Copies : Holds(NameOf(c), TypeValue(c))'
  BY <1>1, SamePromise DEF TypesInv
<1>3. PICK pointer, name : pointer = caps[AskedFor(copy)] /\ name = NameOf(copy)
  OBVIOUS
<1>4. pointer # {} => pointer \in DOMAIN os.memory /\ IsText(os.memory[pointer])
  BY <1>2, <1>3, PointerTrue
<1>5. /\ Finish
      /\ strings' = IF pointer = {} THEN strings
                    ELSE [strings EXCEPT ![name] = CopyString(os.memory[pointer], @)]
  BY <1>3, <1>4 DEF CopyType
<1>6. \A s : Did(s)' <=> Did(s) \/ s = copy
  BY <1>1, <1>5, Finished DEF Finish
<1>7. name \in DOMAIN strings /\ Holds(name, <<>>)
  <2>1. name \in TypeKeys /\ DOMAIN strings = StringKeys \cup TypeKeys
    BY <1>3 DEF LinesInv, NameOf, TypeKeys
  <2>2. TypeValue(copy) = <<>>
    BY <1>2 DEF TypeValue
  <2>3. QED
    BY <1>3, <2>1, <2>2 DEF TypesInv
<1>8. Holds(name, TypeValue(copy))'
  <2>1. TypeValue(copy)' = IF pointer = {} THEN <<>> ELSE os.memory[pointer]
    BY <1>1, <1>3, <1>6 DEF TypeValue
  <2>2. CASE pointer = {}
    BY <1>5, <1>7, <2>1, <2>2 DEF Holds
  <2>3. CASE pointer # {}
    <3>1. PICK value : value = os.memory[pointer]
      OBVIOUS
    <3>2. Holds(name, value)'
      BY <1>4, <1>5, <1>7, <2>3, <3>1, BufferCopied DEF Holds
    <3>3. QED
      BY <2>1, <2>3, <3>1, <3>2 DEF Holds
  <2>4. QED
    BY <2>2, <2>3
<1>9. ASSUME NEW c \in Copies, c # copy
      PROVE  Holds(NameOf(c), TypeValue(c))'
  <2>1. PICK v, other : v = TypeValue(c) /\ other = NameOf(c)
    OBVIOUS
  <2>2. other # name
    BY <1>3, <1>9, <2>1 DEF NameOf, Copies
  <2>3. Holds(other, v) /\ strings'[other] = strings[other]
    <3>1. Holds(other, v)
      BY <2>1 DEF TypesInv
    <3>2. QED
      BY <1>5, <2>2, <3>1
  <2>4. Holds(other, v)'
    BY <2>3 DEF Holds
  <2>5. TypeValue(c)' = v /\ NameOf(c)' = other
    BY <1>1, <1>6, <1>9, <2>1 DEF TypeValue
  <2>6. QED
    BY <2>4, <2>5 DEF Holds
<1>10. QED
  BY <1>3, <1>5, <1>8, <1>9 DEF Finish, Holds

\* No step loses a string of the auxiliary vector.
LEMMA TypesStep ==
  ASSUME PlanInv, AuxInv, LinesInv, TypesInv, [Next]_vars
  PROVE  TypesInv'
<1>k. \A copy \in Copies : NameOf(copy) \in TypeKeys /\ NameOf(copy) \notin StringKeys
  BY DEF NameOf, TypeKeys, StringKeys
<1>1. CASE CopyPlatform
  BY <1>1, TypeCopied DEF CopyPlatform, Copies, NameOf, AskedFor
<1>2. CASE CopyBasePlatform
  BY <1>2, TypeCopied DEF CopyBasePlatform, Copies, NameOf, AskedFor
<1>3. CASE Answered
  <2>1. /\ UNCHANGED <<os, machine, strings>> /\ Finish /\ todo # <<>>
        /\ Head(todo) \in DOMAIN TypeOf /\ \A t : Did(t) => caps'[t] = caps[t]
    BY <1>3, PlanAnswered DEF Answered, TakeAnswer, info
  <2>2. \A copy \in Copies : Did(copy)' <=> Did(copy)
    BY <2>1, Finished, AskedTypes DEF Copies, Finish
  <2>3. QED
    BY <2>1, <2>2, AskedBefore, TypesKeep DEF Finish
<1>4. CASE Lines \/ Merge \/ Midr \/ Sysctl \/ ProcessorFeatures
  <2>1. /\ UNCHANGED <<os, machine, caps>> /\ pc' # "crashed"
        /\ UNCHANGED todo \/ (Finish /\ todo # <<>> /\ Head(todo) \notin Copies)
    <3>1. CASE Lines
      <4>1. /\ UNCHANGED <<os, machine, caps>> /\ pc' # "crashed"
            /\ \/ UNCHANGED todo
               \/ Finish /\ (Starts("cpuinfo") \/ pc = "handle")
        BY <3>1 DEF Lines, OpenCpuinfo, NextLine, HandleFeatures, HandleNumber,
             HandleString, HandleOther, Unhandled, Handles, AfterLine, auxvars, Finish
      <4>2. QED
        BY <4>1 DEF PlanInv, Doing, Copies, Starts
    <3>2. CASE Merge \/ Midr \/ Sysctl \/ ProcessorFeatures
      BY <3>2 DEF Merge, Midr, Sysctl, ProcessorFeatures, Starts, Finish, Copies, auxvars
    <3>3. QED
      BY <1>4, <3>1, <3>2
  <2>2. \/ UNCHANGED strings
        \/ \E key \in StringKeys : \E s : strings' = [strings EXCEPT ![key] = s]
    BY <1>4 DEF Lines, OpenCpuinfo, NextLine, HandleFeatures, HandleNumber,
         HandleString, HandleOther, Merge, Midr, Sysctl, ProcessorFeatures, info
  <2>3. \A copy \in Copies : strings'[NameOf(copy)] = strings[NameOf(copy)]
    BY <1>k, <2>2 DEF LinesInv
  <2>4. \A copy \in Copies : Did(copy)' <=> Did(copy)
    BY <2>1, Finished, Stayed DEF Finish
  <2>5. QED
    BY <2>1, <2>3, <2>4, TypesKeep
<1>5. CASE AskFor \/ Fetch \/ ReturnInfo \/ UNCHANGED vars
  <2>1. UNCHANGED <<os, todo, caps, strings, machine>>
    BY <1>5 DEF AskFor, Fetch, ReturnInfo, vars, reader, info, auxvars, Ask,
         GetHardwareCapabilitiesFor, GetElfHwcapFromGetauxval,
         GetElfHwcapFromElfAuxInfo, OpenAuxv, ReadEntry, ReadError
  <2>2. pc' = pc \/ pc' \in {"ask", "done"}
    BY <1>5 DEF AskFor, Fetch, ReturnInfo, vars
  <2>3. QED
    <3>1. CASE Promised
      <4>1. pc' # "crashed"
        BY <2>2, <3>1 DEF TypesInv
      <4>2. QED
        BY <2>1, <4>1, Stayed, TypesKeep
    <3>2. CASE ~Promised
      BY <2>1, <3>2, SamePromise DEF TypesInv
    <3>3. QED
      BY <3>1, <3>2
<1>6. QED
  BY <1>1, <1>2, <1>3, <1>4, <1>5 DEF Next, Capabilities

LEMMA TypesInit == ASSUME Init PROVE TypesInv
<1>1. /\ pc = "next" /\ strings = [k \in StringKeys \cup TypeKeys |-> NoString]
      /\ PlanInv /\ LinesInv
  BY PlanInit, LinesInit DEF Init
<1>2. \A s : ~Did(s)
  BY NothingDone
<1>3. \A key \in TypeKeys : Holds(key, <<>>)
  BY <1>1, EmptyBuffers
<1>4. \A copy \in Copies : NameOf(copy) \in TypeKeys /\ TypeValue(copy) = <<>>
  BY <1>2 DEF NameOf, TypeKeys, TypeValue
<1>5. QED
  BY <1>1, <1>3, <1>4 DEF TypesInv

\* The text in a buffer is what the value begins with.
LEMMA TextHeld ==
  ASSUME NEW name, NEW value, IsText(value), Holds(name, value)
  PROVE  Text(strings[name]) = Cut(value)
<1>1. PICK D : strings[name] \in Seq(D)
  BY DEF Holds
<1>2. PICK buffer, n : buffer = strings[name] /\ n = Fitting(value, StringSize)
  OBVIOUS
<1>3. /\ value \in Seq(ToSet(value)) /\ NUL \notin ToSet(value)
      /\ IsCopy(buffer, value, StringSize)
      /\ buffer \in Seq(D) /\ Len(buffer) = StringSize /\ StringSize \in Nat \ {0}
  BY <1>1, <1>2, CallAssumption DEF IsText, Holds, CallAssumption
<1>4. Min({i \in 1 .. StringSize : buffer[i] = NUL}) = n + 1
  BY <1>2, <1>3, CopyEnds
<1>5. Text(buffer) = SubSeq(buffer, 1, n)
  <2>1. DOMAIN buffer = 1 .. StringSize
    BY <1>3
  <2>2. n \in Nat
    BY <1>2, <1>3 DEF Fitting
  <2>3. Text(buffer) = SubSeq(buffer, 1, (n + 1) - 1)
    BY <1>4, <2>1, Zenon DEF Text
  <2>4. (n + 1) - 1 = n
    BY <2>2
  <2>5. QED
    BY <2>3, <2>4
<1>6. /\ n \in 0 .. StringSize - 1 /\ n <= Len(value)
      /\ \A i \in 1 .. n : buffer[i] = value[i]
  BY <1>2, <1>3 DEF IsCopy
<1>7. Cut(value) = SubSeq(value, 1, n)
  <2>1. CASE Len(value) > StringSize - 1
    BY <1>2, <1>3, <2>1 DEF Cut, KeepFront, Fitting
  <2>2. CASE Len(value) <= StringSize - 1
    <3>1. n = Len(value) /\ SubSeq(value, 1, Len(value)) = value
      BY <1>2, <1>3, <2>2 DEF Fitting
    <3>2. KeepFront(value, StringSize - 1) = SubSeq(value, 1, n)
      BY <1>3, <2>2, <3>1 DEF KeepFront
    <3>3. QED
      BY <3>2 DEF Cut
  <2>3. QED
    BY <1>3, <2>1, <2>2
<1>8. SubSeq(buffer, 1, n) = SubSeq(value, 1, n)
  BY <1>3, <1>6
<1>9. QED
  BY <1>2, <1>5, <1>7, <1>8

\* At the end the value of a string is that of the last line with its key.
LEMMA LastOfKey ==
  ASSUME PlanInv, todo = <<>>, NEW key
  PROVE  FileValue(key) = LastValue(key) /\ IsText(LastValue(key))
<1>1. os \in Calls /\ (ReadsCpuinfo <=> ~os.sandboxed /\ Did("cpuinfo"))
  BY AllDone DEF PlanInv, ReadsCpuinfo
<1>2. NumLines \in Nat /\ \A i \in 1 .. NumLines : IsText(LineValue(i))
  BY <1>1, CallLines
<1>3. {i \in DOMAIN os.cpuinfo.lines : StringOf(os.cpuinfo.lines[i].key) = key}
        = StringLines(key, NumLines)
  BY <1>1, CallLines, Zenon DEF StringLines, LineKey
<1>4. LastValue(key) = IF ~ReadsCpuinfo \/ StringLines(key, NumLines) = {} THEN <<>>
                       ELSE LineValue(LastOf(StringLines(key, NumLines)))
  BY <1>3, Zenon DEF LastValue, LineValue
<1>5. FileValue(key) = LastValue(key)
  BY <1>1, <1>4, Zenon DEF FileValue, ValueUpTo
<1>6. StringLines(key, NumLines) # {} =>
        LastOf(StringLines(key, NumLines)) \in 1 .. NumLines
  BY <1>2, LastIn DEF StringLines
<1>7. IsText(<<>>)
  BY DEF IsText, ToSet
<1>8. QED
  BY <1>2, <1>4, <1>5, <1>6, <1>7, Zenon

\* The string that a copied pointer gives.
LEMMA TypeHeld ==
  ASSUME PlanInv, AuxInv, TypesInv, Promised, Complete, NEW copy \in Copies, Did(copy)
  PROVE  Text(strings[NameOf(copy)]) = Cut(PointedTo(TypeOf[AskedFor(copy)]))
<1>1. PICK pointer, t : pointer = caps[AskedFor(copy)] /\ t = TypeOf[AskedFor(copy)]
  OBVIOUS
<1>2. /\ pointer = Kernel(t)
      /\ pointer # {} => IsText(os.memory[pointer])
  BY <1>1, AskedBefore, PointerTrue
<1>3. TypeValue(copy) = PointedTo(t)
  BY <1>1, <1>2 DEF TypeValue, PointedTo
<1>4. IsText(PointedTo(t))
  <2>1. IsText(<<>>)
    BY DEF IsText, ToSet
  <2>2. QED
    BY <1>2, <2>1 DEF PointedTo
<1>5. Holds(NameOf(copy), PointedTo(t))
  BY <1>3 DEF TypesInv
<1>6. QED
  BY <1>1, <1>4, <1>5, TextHeld

\* Every platform string is the start of the right text, and no wild pointer is
\* followed (PlatformStrings), for every machine, file, memory and buffer size.
THEOREM PlatformStringsCorrect == Spec => []PlatformStrings
<1>1. Init => AuxInv /\ PlanInv /\ LinesInv /\ TypesInv
  BY AuxInvInit, PlanInit, LinesInit, TypesInit DEF Init
<1>2. AuxInv /\ PlanInv /\ LinesInv /\ TypesInv /\ [Next]_vars
        => (AuxInv /\ PlanInv /\ LinesInv /\ TypesInv)'
  BY FunctionsUseAux, AuxInvStep, PlanStep, LinesStep, TypesStep
<1>3. AuxInv /\ PlanInv /\ LinesInv /\ TypesInv => PlatformStrings
  <2> SUFFICES ASSUME AuxInv, PlanInv, LinesInv, TypesInv, Promised
               PROVE  PlatformStrings
    BY DEF PlatformStrings, Promised
  <2>1. pc # "crashed"
    BY DEF TypesInv
  <2>2. Done => todo = <<>> /\ pc = "done"
    BY DEF PlanInv, Done
  <2>3. ASSUME Done, os.function = "GetPPCPlatformStrings", NEW key \in StringKeys
        PROVE  Text(strings[key]) = Cut(LastValue(key))
    <3>1. Holds(key, FileValue(key))
      BY <2>2, <2>3 DEF LinesInv, OutsideInv
    <3>2. QED
      BY <2>2, <2>3, <3>1, LastOfKey, TextHeld
  <2>4. Done => /\ Did("copy_platform")
                /\ "AT_BASE_PLATFORM" \in Asks => Did("copy_base_platform")
    <3>1. Copying(plan, os.function) /\ os.function \in TypeStrings
      BY Plans DEF PlanInv, WellPlanned, plan, Promised
    <3>2. \A s : s \in Steps <=> \E j \in 1 .. Len(plan) : plan[j] = s
      BY StepsOfPlan DEF PlanInv
    <3> HIDE DEF plan
    <3>3. /\ "copy_platform" \in Steps
          /\ "AT_BASE_PLATFORM" \in Asks => "copy_base_platform" \in Steps
      BY <3>1, <3>2 DEF Copying, Asks
    <3>4. QED
      BY <2>2, <3>3, AllDone
  <2>5. ASSUME Done, Complete
        PROVE  /\ Text(strings[<<"type", "platform">>]) = Cut(PointedTo(AT_PLATFORM))
               /\ "AT_BASE_PLATFORM" \in Asks =>
                    Text(strings[<<"type", "base_platform">>])
                      = Cut(PointedTo(AT_BASE_PLATFORM))
    <3>1. /\ TypeOf["AT_PLATFORM"] = AT_PLATFORM
          /\ TypeOf["AT_BASE_PLATFORM"] = AT_BASE_PLATFORM
      BY DEF TypeOf
    <3>2. /\ "copy_platform" \in Copies /\ "copy_base_platform" \in Copies
          /\ NameOf("copy_platform") = <<"type", "platform">>
          /\ NameOf("copy_base_platform") = <<"type", "base_platform">>
          /\ AskedFor("copy_platform") = "AT_PLATFORM"
          /\ AskedFor("copy_base_platform") = "AT_BASE_PLATFORM"
      BY DEF Copies, NameOf, AskedFor
    <3>3. QED
      BY <2>4, <2>5, <3>1, <3>2, TypeHeld
  <2>6. QED
    BY <2>1, <2>3, <2>5 DEF PlatformStrings
<1>4. QED
  BY <1>1, <1>2, <1>3, PTL DEF Spec
===============================================================================
