----------------------------- MODULE AuxiliaryVector ----------------------------
(***************************************************************************)
(* One value of the auxiliary vector (src/src/hwcaps_linux_or_android.c    *)
(* and hwcaps_freebsd_or_openbsd.c): the C library is asked first, and     *)
(* when it answers 0, /proc/self/auxv is read as pairs of 32-bit words,    *)
(* whatever the width of the process.  A word is the set of its 1 bits.    *)
(***************************************************************************)
EXTENDS Integers, Sequences

CONSTANTS
  Machines,  \* What a process may find.
  Stale      \* What a word of the stack may hold before it is written.

AT_PLATFORM == 0 .. 3
AT_HWCAP == {4}
AT_BASE_PLATFORM == {3, 4}
AT_HWCAP2 == {1, 3, 4}
Types == {AT_PLATFORM, AT_HWCAP, AT_BASE_PLATFORM, AT_HWCAP2}

Bits(n) == 0 .. n - 1
Half(v, h) == {b \in Bits(32) : b + 32 * h \in v}

(***************************************************************************)
(* A machine: the vector without the AT_NULL at its end, whose types are   *)
(* small numbers; how the library was built; what the C library has; and   *)
(* whether /proc/self/auxv can be opened, fails while it is read, or is    *)
(* read in less than whole entries.                                        *)
(***************************************************************************)
Entry(bits) == [type : (SUBSET Bits(32)) \ {{}}, value : SUBSET Bits(bits)]
MachineType(bits) ==
  [bits : {bits}, big_endian : BOOLEAN, vector : Seq(Entry(bits)),
   build : {"strong", "dlopen", "elf_aux_info"},
   libc : {"missing", "no getauxval", "getauxval"},
   file : {"missing", "failing", "short", "whole"}]

ASSUME AuxAssumption ==
  /\ Machines \subseteq MachineType(32) \cup MachineType(64)
  /\ Stale \subseteq SUBSET Bits(32)

VARIABLES
  machine,  \* What this process finds.
  step,     \* "idle", "libc", "open", "read" or "answered"
  type,     \* The value asked for.
  at,       \* Words of /proc/self/auxv read.
  entry,    \* The pair of words last read: tag, value.
  answer    \* What the call returns.

call == <<type, at, entry, answer>>
auxvars == <<machine, step, call>>

\* What the kernel says: the first entry of the type, or 0.
Having(t) == {i \in DOMAIN machine.vector : machine.vector[i].type = t}
Kernel(t) ==
  IF Having(t) = {} THEN {}
  ELSE machine.vector[CHOOSE i \in Having(t) : \A j \in Having(t) : i <= j].value

\* The file, pair by pair of 32-bit words: an entry is one pair in a 32-bit
\* process, and two in a 64-bit process, its type and its value.
Split(v) == IF machine.big_endian THEN <<Half(v, 1), Half(v, 0)>>
            ELSE <<Half(v, 0), Half(v, 1)>>
EntryAt(i) == IF i <= Len(machine.vector) THEN machine.vector[i]
              ELSE [type |-> {}, value |-> {}]
Pair(p) ==
  IF machine.bits = 32 THEN <<EntryAt(p).type, EntryAt(p).value>>
  ELSE IF p % 2 = 1 THEN Split(EntryAt((p + 1) \div 2).type)
  ELSE Split(EntryAt(p \div 2).value)
Pairs == (Len(machine.vector) + 1) * (machine.bits \div 32)
Word(k) == Pair((k + 1) \div 2)[IF k % 2 = 1 THEN 1 ELSE 2]

AuxInit ==
  /\ machine \in Machines
  /\ step = "idle"
  /\ type = {} /\ at = 0 /\ entry = [tag |-> {}, value |-> {}] /\ answer = {}

Ask(t) ==
  /\ step = "idle"
  /\ step' = "libc"
  /\ type' = t
  /\ UNCHANGED <<machine, at, entry, answer>>

Return(value) == step' = "answered" /\ answer' = value

\* The value as the C library gives it to this build: the function found with
\* dlsym returns it through a uint32_t.
FromLibc(t) ==
  IF machine.build # "dlopen" THEN Kernel(t)
  ELSE IF machine.libc = "getauxval" THEN Half(Kernel(t), 0)
  ELSE {}

GetElfHwcapFromGetauxval ==
  /\ step = "libc" /\ machine.build # "elf_aux_info"
  /\ IF FromLibc(type) # {} THEN Return(FromLibc(type))
     ELSE step' = "open" /\ UNCHANGED answer
  /\ UNCHANGED <<machine, type, at, entry>>

GetElfHwcapFromElfAuxInfo ==
  /\ step = "libc" /\ machine.build = "elf_aux_info"
  /\ Return(FromLibc(type))
  /\ UNCHANGED <<machine, type, at, entry>>

\* The entry on the stack is not initialised.
OpenAuxv ==
  /\ step = "open"
  /\ IF machine.file = "missing"
     THEN Return({}) /\ UNCHANGED <<at, entry>>
     ELSE /\ step' = "read"
          /\ at' = 0
          /\ entry' \in [tag : Stale, value : Stale]
          /\ UNCHANGED answer
  /\ UNCHANGED <<machine, type>>

\* How many words a read into entry may return.
WordsRead ==
  LET room == 2 * Pairs - at
      want == IF room < 2 THEN room ELSE 2
  IN  IF machine.file = "short" /\ room > 0 THEN 1 .. want ELSE {want}

\* Mutant: neither the end of the list nor that of the file stops the loop.
ReadEntryUnstopped ==
  /\ step = "read"
  /\ \E n \in WordsRead :
       /\ at' = at + n
       /\ entry' = [tag   |-> IF n > 0 THEN Word(at + 1) ELSE entry.tag,
                    value |-> IF n > 1 THEN Word(at + 2) ELSE entry.value]
       /\ IF entry'.tag = type THEN Return(entry'.value)
          ELSE UNCHANGED <<step, answer>>
  /\ UNCHANGED <<machine, type>>

\* Mutant: an entry whose value is 0 is taken for the end of the list.
ReadEntryStopsAtZero ==
  /\ step = "read"
  /\ \E n \in WordsRead :
       /\ at' = at + n
       /\ entry' = [tag   |-> IF n > 0 THEN Word(at + 1) ELSE entry.tag,
                    value |-> IF n > 1 THEN Word(at + 2) ELSE entry.value]
       /\ IF n = 0 \/ entry'.tag = {} \/ entry'.value = {} THEN Return({})
          ELSE IF entry'.tag = type THEN Return(entry'.value)
          ELSE UNCHANGED <<step, answer>>
  /\ UNCHANGED <<machine, type>>

\* A read of less than an entry leaves the rest of it as it was.
ReadEntry ==
  /\ step = "read"
  /\ \E n \in WordsRead :
       /\ at' = at + n
       /\ entry' = [tag   |-> IF n > 0 THEN Word(at + 1) ELSE entry.tag,
                    value |-> IF n > 1 THEN Word(at + 2) ELSE entry.value]
       /\ IF n = 0 \/ (entry'.tag = {} /\ entry'.value = {}) THEN Return({})
          ELSE IF entry'.tag = type THEN Return(entry'.value)
          ELSE UNCHANGED <<step, answer>>
  /\ UNCHANGED <<machine, type>>

ReadError ==
  /\ step = "read" /\ machine.file = "failing"
  /\ Return({})
  /\ UNCHANGED <<machine, type, at, entry>>

\* The caller goes on with the answer.
TakeAnswer ==
  /\ step = "answered"
  /\ step' = "idle"
  /\ UNCHANGED <<machine, call>>

GetHardwareCapabilitiesFor ==
  \/ GetElfHwcapFromGetauxval \/ GetElfHwcapFromElfAuxInfo
  \/ OpenAuxv \/ ReadEntry \/ ReadError

AuxNext == (\E t \in Types : Ask(t)) \/ GetHardwareCapabilitiesFor \/ TakeAnswer

AuxSpec == AuxInit /\ [][AuxNext]_auxvars

-------------------------------------------------------------------------------
\* The sources of this machine have every value, as far as its build sees it.
Seen(v) == IF machine.build = "dlopen" THEN Half(v, 0) ELSE v
Complete ==
  \/ machine.build # "dlopen" \/ machine.libc = "getauxval"
  \/ machine.bits = 32 /\ machine.file = "whole"

\* The value v that the fallback takes for that of type t, though it is not: in a
\* 64-bit process, whose entries are two pairs, the halves of another value; where
\* reads are short, a word behind a word like t, or one that was left on the stack.
Misread(t, v) ==
  /\ FromLibc(t) = {} /\ machine.build # "elf_aux_info"
  /\ \/ /\ machine.bits = 64 /\ machine.file \in {"failing", "whole"}
        /\ \E i \in DOMAIN machine.vector : Split(machine.vector[i].value) = <<t, v>>
     \/ /\ machine.file = "short"
        /\ \E k \in 1 .. 2 * Pairs :
             /\ Word(k) = t
             /\ v \in Stale \/ \E j \in 1 .. k + 1 : v = Word(j)

\* A value is what the kernel says or, when a source is missing, 0, or it is
\* misread in one of the ways above: hwcaps.h:282-285 promises the fallback to
\* /proc/self/auxv without exception, but the code has it only for 32-bit
\* processes whose reads return whole entries.  In a 64-bit process it finds
\* nothing, or halves of a value that belongs to another type
\* (hwcaps_linux_or_android.c:101-126).
AnswerOrMisread ==
  step = "answered" =>
    \/ answer = Seen(Kernel(type))
    \/ answer = {} /\ ~Complete
    \/ Misread(type, answer)

\* No word of this machine's file can be misread: reads return whole entries, and
\* no 64-bit value looks like t followed by something that is not 0.
Trusted(t) ==
  /\ machine.file # "short"
  /\ machine.bits = 64 =>
       \A i \in DOMAIN machine.vector :
         LET pair == Split(machine.vector[i].value)
         IN  pair[1] = t => pair[2] = {}
===============================================================================
