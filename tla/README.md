# A verification development of cpu_features

[cpu_features](../src/README.md) tells a program, at run time, which features the
processor has that it runs on. It is a small C library of sequential functions that read
text files and CPUID leaves of uncertain content, and of one component with shared state.
This directory holds TLA+ models of it, TLC configurations that check them on small
instances, and theorems that TLAPS checks for every value of the constants.

    tlc -workers 2 -config X86.cfg MCX86Info     # one run; PROJECT.json lists them all
    tlapm StackLineReaderProofs.tla              # one proof module

Paths below are those of the repository, without the leading `src/` directory here.

## 1. Inventory

### Components

| component (code) | state | operations | what makes it hard | what makes it correct |
|---|---|---|---|---|
| stack line reader (`src/stack_line_reader.c`) | `buffer`, `view`, `fd`, `skip_mode` | `StackLineReader_Initialize`, `StackLineReader_NextLine` | `read(2)` returns any portion, or an error; a line ends inside, at the end of, or outside the buffer; a truncated line leaves a mode behind for the next call | the view lies in the buffer and is a piece of the file; each call hands out one line, none twice, none skipped; `eof` comes in the end |
| string views (`src/string_view.c`) | none | search, split, trim, parse numbers, copy | edges: empty view, nothing found, no digits, overflow, no room for the terminator | each function computes what its header says |
| filesystem (`src/filesystem.c`) | file descriptors | open, read, close | failure, short reads, EINTR | results reach the callers |
| hardware capabilities (`src/hwcaps.c`, `src/hwcaps_linux_or_android.c`, `src/hwcaps_freebsd_or_openbsd.c`) | an entry on the stack | `getauxval`, linked or looked up, `elf_aux_info`, or reading `/proc/self/auxv` | partial reads, two sizes of entries, pointers cut in halves | a value is the kernel's, or 0 |
| ARM (`src/impl_arm_linux_or_android.c`) | `ArmInfo`, `ProcCpuInfoData` | lines of `/proc/cpuinfo`, hardware capabilities, `FixErrors` | several cores; one source missing; corrections that read what earlier ones wrote | what is reported survives, what is added is justified |
| RISC-V (`src/impl_riscv_linux.c`) | `RiscvInfo` | lines of `/proc/cpuinfo`, with a loop over the flags of an isa string | several harts; a search that goes on behind the last hit; a `return true` that ignores `eof` | the last hart's features; termination |
| x86 features (`src/impl_x86__base_implementation.inl` and its four systems) | `Leaves`, `OsPreserves`, `X86Features` | read leaves, check the system, parse features, AMD's extras | CPUID answers for missing leaves; four systems tell differently what they save | a vector feature exactly where processor and system support it |
| x86 cache info (same file, from line 990) | `CacheInfo` | leaf 2 with its table of descriptors, deterministic parameters, legacy AMD leaves | a bounded array, loops that the processor ends, sources that replace each other | no write out of bounds, one source, termination |
| x86 microarchitecture (same file) | none | a table from vendor, family, model and stepping; `HasSecondFMA` from model and brand string | two tables of the same models, one by product names at fixed places of a string | the two agree |
| AArch64, MIPS, PowerPC, s390x, LoongArch (`src/impl_*`) | an info or platform strings structure each | lines of `/proc/cpuinfo`, hardware capabilities, `midr_el1`, `sysctlbyname`, `IsProcessorFeaturePresent`; strings of the auxiliary vector | sources that are missing, several cores, pointers that are 0 | a feature is set exactly when a source of the function declares it; strings are those of the last line or of the kernel, cut to fit |
| introspection tables (`src/define_introspection*.inl`) | none | setters, getters and names from one table | the three must agree | they come from one macro |
| NDK layer (`ndk_compat/cpu-features.c`) | five process-wide globals: `g_once`, `g_inited`, `g_cpuFeatures`, `g_cpuCount`, `g_cpuIdArm` | `android_getCpu...`, `android_setCpu`, `android_setCpuArm`, and the two routines of `pthread_once` | threads; writes before `pthread_once` and after it | getters agree; one setter or none succeeds and what it set stays |
| bit utilities (`include/internal/bit_utils.h`) | none | bit test, bit range | | |
| the program `list_cpu_features` (`src/utils/list_cpu_features.c`) | `gBumpAllocator`, `gGlobalBuffer`, a tree in it | allocate, print into the free part, append, print the tree | a buffer of fixed size, alignment, text printed before its space is reserved, linked lists built while others grow | blocks stay apart and inside, the buffer suffices, the output is the tree |
| tests, build | | | | not behaviour of the library |

### Interactions

Everything is a call; there are no callbacks and no messages. The parsers of every
architecture call the line reader, the line reader calls `read`, and the parsers take the
lines apart with string views. ARM and most others merge hardware capabilities into what
the file said. The NDK layer calls the parser of its architecture once per process, from
whatever thread comes first. Only the NDK layer has state that outlives a call, and only
there do threads meet. Nothing is persisted, so there is no crash recovery to check.

### What is hard to test

`PROJECT.json` lists the hazards one by one, each with its line and the properties that
watch it. In short: portions in which `read` returns a file; the two calls between which
`skip_mode` lives; loops whose end depends on the data; a second hart, core or source that
overwrites or fails to overwrite the first; bits that a missing CPUID leaf returns; the
halves of a 64-bit value that look like entries of the auxiliary vector; the order of corrections; a buffer at
its end; and the interleavings of `android_setCpu` with itself and others.

## 2. The modules

### Line reader: `LineReader`, `StackLineReader`

`LineReader` is the abstract specification: the file, a cursor into it and the last
`LineResult`. A call delivers the next line, or a part of a line that may be cut, or the
bytes before the end of the file. It knows neither buffers nor `read`.

`StackLineReader` is the C code. `buffer` and the view (`ptr`, `size`) are the fields of the
structure; `head` is the file position of the descriptor, `skip_mode` the field. `pc`
stands between the calls of `read`: each `read` is one step that may return any admissible
count, or an error if the file is one of `ReadErrors`, and what the C code does between two
reads belongs to the step of the read before. Bytes of `buffer` that the program never wrote
are `Junk`. A failing `assert` leads to `pc = "aborted"`, and the specification ends there.
`TypeOK` says among other things that every index lies in the buffer.

The refinement mapping (`ImplementsLineReader`) takes the cursor of `LineReader` to the
offset where the view starts, and, while a truncated line is still to be skipped, behind
the newline that ends it. Files with NUL bytes map to `Unspecified`: `memchr` on a view
stops at a NUL (`src/string_view.c:25`), so nothing is promised of lines there, while the
bounds hold for them also.

### Strings: `StringView`, `StringViewCheck`, `CpuMask`

`StringView` holds the operations of `src/string_view.c` as operators on sequences of
characters, -1 for "not found" as in C, and integers up to `INT_MAX` that wrap around. `CpuMask` is the count
of CPUs from the two mask files (`ndk_compat/cpu-features.c:29-93`), where a file that is missing, cut or
unterminated counts nothing. `StringViewCheck` chooses a test (a word, an alphabet and a length) and appends
characters to a view, one by one and in every way (`EveryView`); in every state it compares what the operations
give for the view with a reference definition that says what the header says, by quantifiers instead of by
scanning.

### Parsers of /proc/cpuinfo: `CpuinfoLines`, `RiscvInfo`, `ArmInfo`, `NdkArmFlags`

`CpuinfoLines` is the line reader as parsers see it: a file is a sequence of lines with a
key and a value and a flag for the final newline; `eof` comes with an empty line behind the last, or with the last line
itself when it has no newline and an earlier line's `read` has brought it into the view (`Results`). The loop of each
parser is `pc = "read" -> "handle" -> "read"`, one action per branch of the handler.

`RiscvInfo` keeps isa strings as characters, because its search runs over them: `IsaFlag`
is one round of the loop over `kCpuInfoFlags`, with the view it consumes in `rest`. An isa line carries what it
declares and where its extensions start, and `Places` is where the name of a flag stands in it.
`ArmInfo` keeps words as sets of names and numbers as characters, has `MergeHwcaps` for the
merge and one action `FixErrors`, the corrections in their order in a chain of `LET`.
`NdkArmFlags` adds the flags that the NDK layer derives (`ndk_compat/cpu-features.c:106-127`).

### Hardware capabilities: `AuxiliaryVector`, `FeatureTables`, `HwcapsInfo`

`AuxiliaryVector` is one call of `GetHardwareCapabilitiesFor` (`src/hwcaps_linux_or_android.c:52-139`, and
`elf_aux_info` of `src/hwcaps_freebsd_or_openbsd.c`). A `machine` is what the process finds: the width, the
byte order, the vector that the kernel wrote, the build of the library, what the C library has, and the state of
`/proc/self/auxv`. A word is the set of its one bits, so that words of 64 bits and their halves are exact. `step` is
the place in the function, `entry` the pair of words on the stack, which holds anything (`Stale`) before the
first read, and `at` counts the words read: a short read (`WordsRead`) fills a part of `entry` only.

`FeatureTables` is the `INTROSPECTION_TABLE` of the five architectures with the masks of
`include/internal/hwcaps.h`, and `CpuFeatures_IsHwCapsSet`.

`HwcapsInfo` composes `AuxiliaryVector` with `CpuinfoLines` and `StringView`. The functions of AArch64, MIPS,
PowerPC, s390x and LoongArch do the same things in different orders, so a function is its `Plan`, a sequence of
phases: read the lines of `/proc/cpuinfo`, ask for a value of the vector, merge, copy a string the kernel points at,
read `midr_el1`, or ask macOS or Windows. Each phase is an action, or one per branch of the handler.
`os` is the call with what it finds, `memory` the strings that the kernel put at the pointers; following any other
pointer leads to `pc = "crashed"`.

### x86: `X86Info`, `X86Microarchitecture`, `CacheDescriptors`, `X86CacheInfo`

`X86Info` has three actions: `ReadLeaves` (`Leaves` with `SafeCpuIdEx`), `ParseCpuId` and
`ParseExtraAMDCpuId`. A CPUID leaf is the set of the feature bits it has; what the processor
answers for leaves that it does not have is arbitrary, as on real ones. `system` is one of
Linux/Android, FreeBSD, macOS and Windows, each with its own file of
`src/impl_x86_*.c`.

`X86Microarchitecture` has family, model and stepping from the signature of leaf 1, the table of
`GetX86Microarchitecture` as rows (`:517-988`), and `HasSecondFMA`, which looks at places of the brand string; a
brand string is a function from its 48 places. `X86Info` takes `HasSecondFMA` from there.

`CacheDescriptors` is the table of `GetCacheLevelInfo` (lines 996-1853), in six parts.
`X86CacheInfo` has one action for the entry, one per descriptor of leaf 2, one per sub-leaf
of leaf 4 or 0x8000001D and one per legacy register. `levels` and `found` stand for
`CacheInfo.levels` up to `size`, of the function and of its caller; `stage` is the place in the functions.

### The program: `BumpAllocator`, `ListCpuFeatures`

`BumpAllocator` has the free part of `gGlobalBuffer` (`ptr`, `size`), the blocks handed out with the bytes asked for,
and `latest`, the bytes last written: `vsnprintf` writes at `ptr` before `BA_Bump` has reserved
anything. `internal_error` leads to `allocator = "failed"`.

`ListCpuFeatures` is the program around it. The calls of `CreateTree` (`:382-451`) are a sequence of operations on
a stack of addresses (`CreateTree(info)`), executed one by one on a `heap` of nodes; `LastOf` is the walk to the end
of a linked list, `Sorted` what `qsort` makes of the names of the flags. `JsonOf` and `TextFieldOf` are the two printers, as
recursive functions on the heap. A text is a sequence of characters or of words, the output a sequence of tokens.

What the output is to be is told without operations and nodes. `ValueOf(info)` is what the library has, as a value: a
number, a text, or a map or array with the sequence of its members; its flags are in the order in which each comes behind so many
others (`InOrder`). `AsJson` and `AsText` print it level by level, and `Read` takes back the backslashes of `printJsonString` as a reader
of JSON does. `OutputFaithful` compares the two.

### Threads: `NdkCpuFeatures`

The globals are variables, each access to one of them is an action, and a thread is at a
`pc` in the API function `call`. `pthread_once` is modelled from its use: the first caller
runs its routine, the others wait at `"once"`. `todo` holds the flags that
`android_cpuInit` has still to set, a read and a write each. `ret` and `forced` are history: what the last call
returned, and the arguments of the setters that returned 1. The constant `Serialised` chooses the
clients: those that keep setters apart from all other calls, though they may call them late
and repeatedly, or any clients. Reads and writes of plain `int` and `uint64_t` globals are taken as
atomic, but a `g_cpuFeatures |= x` is a read and a write (`seen` is what was read).

Definitions that follow a comment beginning with `Mutant` are faulty variants of the next
definition. No specification uses them; they serve to show that the properties can tell the
code from plausible mistakes (`PROJECT.json`, "mutants").

## 3. The runs

Bounds are in the `MC...` modules and the `.cfg` files. Deadlock is checked where the
system never stops (`Reader` lets a caller ask again after `eof`, in `NdkThreads` clients go
on calling); the other specifications end when the function has returned.

| run | bounds | shows |
|---|---|---|
| `Reader` | buffer of 3; all files up to 5 bytes over newline, NUL and two letters, with short and failing reads; texts of 6 and 7 bytes, read in full | the view is the right segment of the file; lines start where lines start; there is room whenever more is loaded; the reader implements `LineReader`; a loop until `eof` ends |
| `StringViews` | views up to 7 characters over two letters and the separator, up to 6 over a mixed alphabet; `int` of 8 bits; CPU lists in two files, each present and whole or not | `HasWord` finds exactly the words, splitting takes the first separator, numbers that fit an `int` are parsed, larger ones wrap and what is no number is refused, copies end in NUL, the CPUs that are listed are counted once |
| `Riscv` | 384 isa strings; files of up to three lines of several harts | features of the last isa line only; vendor and uarch from one line; termination when every uarch has a vendor |
| `Arm` | 4 processors, 4 architectures, 8 sets of flags, 3 of capabilities, with and without the emulator and ARMv6; files of up to 3 lines out of 7 | what is reported survives, what is added is justified, only broken NEON is taken away, the NDK flags keep the relations that `cpu-features.h` promises |
| `X86` | 3 vendors, maximal leaves {0, 6, 7} and {0, 1, 33}, two or three values of each leaf, 6 of XCR0, 4 systems; 9 models and 12 products with AVX-512 at steppings 4 to 8 | no feature of a missing leaf; vector features exactly where processor and system support them, AMX and the second FMA unit among them; wider registers imply narrower; one FMA unit for exactly the products that the comments name |
| `X86Cache` | every descriptor 1-255 alone; registers empty, full and reserved; lists of sub-leaves with and without an end, and with a null one in the middle; maximal leaves 1 to 4; legacy AMD with every associativity; 15 slots | no level outside the array, one source, nothing from missing leaves or from behind a null sub-leaf, the loops end |
| `Hwcaps` | every feature alone in every source; files of up to two lines of two cores; 32 and 64 bits, both byte orders, every build, C library and state of `/proc/self/auxv`; a value that looks like a type and one that is 0 half way; strings of 3 characters | values are the kernel's or 0, or misread in the two ways that `Misread` names; features are those declared; strings are those given, and no other pointer is followed; every call returns |
| `List` | a small tree in every buffer of 0 to 390 bytes at every alignment; small trees with awkward strings, all lists of two arguments; the largest tree of each of 8 architectures in 64 kB | blocks stay apart and inside the buffer; 64 kB are enough; JSON and text are the tree |
| `NdkThreads` | 3 threads, two arguments for the setters (one with a count below 1), `/sys` unreadable, two flags | getters agree, the count is positive, at most one setter succeeds and sticks, every call returns |

Why the bounds are enough. The reader compares positions with the size of the buffer and
with the end of the file only: lines of 0 to 7 bytes in a buffer of 3 are shorter, as long,
one longer, twice as long and longer than that, at every offset of the view, and a
truncated line is followed by another. Its safety and its refinement do not depend on the bounds,
being proved. The handlers
of a parser look at one line at a time and overwrite the same fields, so three lines hold
first, overwriting and last. Features of x86 are read from one bit each; one or two
representatives of each leaf and kind of register tell the tables apart. What a function does
with capabilities it does feature by feature, so every feature is tried alone in all sources, and few of them on
all machines. A vector of seven entries has types before, between and behind those asked for. The small tree of `List`
has every kind of node but that of a
number and needs 376 bytes, so that the end of the buffer falls on every byte of every block, and behind the last; the largest trees have 96 flags, 16 cache levels and strings of 63 characters. In the NDK layer
all getters behave alike, so three threads are two that race and one that observes.

### Where the code and what is said of it disagree

Three runs check a statement of the repository that the code does not keep; TLC
finds a behaviour that violates it.

- `NdkSetterAndGetter`. `ndk_compat/cpu-features.h:296-297` says that `android_setCpu` "_must_ be called only
  once, and before any android_getCpuXXX function, any other case will fail". With two threads a
  getter that starts between the check of `g_inited` and `pthread_once` makes
  `android_cpuInit` overwrite the forced values, and `android_setCpu` returns 1.
- `RiscvNoVendor`. A uarch line without comma as the last line, without newline, may be handed
  out for ever: `src/impl_riscv_linux.c:80` returns true whatever `result.eof` is. It takes an earlier line whose
  `read` has brought the last one into the view already, as one `read` of a short file does; a file of that one line is
  handed out as truncated, and then ends (`CpuinfoLines!Results`).
- `X86VexFeatures`. The note at `src/impl_x86__base_implementation.inl:16-32` wants the system checked for
  SIMD features; `f16c`, `vaes` and `vpclmulqdq` are reported unchecked.

Met while modelling, without a run:

- The `v` of `xv5` in the isa string of the Kendryte K510 is reported as the vector extension
  (`src/impl_riscv_linux.c:64`; `test/cpuinfo_riscv_test.cc:71` expects it not to be, but the raw string of
  that test is not closed at line 58, so the expectation is never compiled). Any flag letter inside a multi-letter
  name is taken for the flag.
- Descriptor 0x5D has `.cache_size = 4` where all other TLB rows have a multiple of KiB
  (`src/impl_x86__base_implementation.inl:1396`; `include/cpu_features_cache_info.h:36` gives the size in bytes).
- `HasSecondFMA` looks at the model without vendor or family, so that an AMD family 0x1A model 0x66, a
  Zen 5, is treated as Cannon Lake (`:302`). `SecondFmaByUarch` is about Intel processors.
- `ParsePositiveNumber` does not refuse a number above the largest `int`, although `include/internal/string_view.h:89-90`
  promises -1 on error: the sum wraps (`src/string_view.c:126`), also to positive values. `ParseExact` states what it gives.
- A 64-bit process without `getauxval` reads its entries of two 64-bit words as pairs of 32-bit words
  (`src/hwcaps_linux_or_android.c:100-103`) and finds nothing, although `include/internal/hwcaps.h:282-284` promises the
  fallback without exception; and a value whose halves look like an entry is taken for one (`Misread`). The variant with `dlsym` cuts values to 32 bits (`:85`). After a
  short read a stale half of the entry is looked at.
- `include/cpuinfo_s390x.h:62` says that `num_processors` is -1 if not available; it is 0 when `/proc/cpuinfo`
  cannot be opened.
- `printJsonString` prints a control character raw behind its backslash (`src/utils/list_cpu_features.c:242-244`), which
  is no JSON. `OutputFaithful` is checked for strings without control characters.
- A last line without newline that is shorter than the buffer may be reported truncated, contrary to
  `include/internal/stack_line_reader.h:40-41`; a mask file without newline is therefore ignored.
- Two concurrent setters of the NDK layer may both succeed. NDK `VFP_FP16` follows from `vfpv3d16` and `NEON_FMA`
  from `vfpv4` alone.

### Fairness

The functions of the library are sequential and not interrupted for good, so a run of a
parser assumes `WF_vars(Next)`: it takes its next step as long as it has one. The reader
separates `Reader`, its own steps, from `Call`, the caller that asks for the next line; both are weakly fair in
`FairSpec`, since `EofReached` is about callers that loop until `eof`, as the parsers of `/proc/cpuinfo`
do. In `NdkCpuFeatures` each thread's `Library` steps are weakly fair, as
a scheduler provides, and nobody is obliged to call. No strong fairness is assumed.

## 4. The proofs

| theorem | says, for every value of the constants |
|---|---|
| `StackLineReaderProofs!TypeCorrect` | the view stays in the buffer: no access is out of bounds |
| `StackLineReaderProofs!ViewCorrect` | the view is the segment of the file that ends at the file offset |
| `StackLineReaderProofs!LineStartCorrect` | a newline is searched from the start of a line on |
| `StackLineReaderProofs!RoomCorrect` | there is room when more is loaded, so a read of zero bytes is the end of the file |
| `StackLineReaderProofs!ImplementsLineReaderCorrect` | the reader implements `LineReader`: every line of a text file once, in order, cut only where it may be |
| `NdkCpuFeaturesProofs!TypeCorrect` | the place in the code and the function called belong together |
| `NdkCpuFeaturesProofs!OnceExclusiveCorrect` | one routine runs, once, and the others wait, for any number of threads and any clients |
| `NdkCpuFeaturesProofs!CountPositiveCorrect` | no settled state has a count of 0 |
| `NdkCpuFeaturesProofs!GettersAgreeCorrect` | for serialised clients: getters return what was forced, or else what was detected |
| `NdkCpuFeaturesProofs!OnlyOneSetSucceedsCorrect` | for serialised clients: at most one setter succeeds |
| `NdkCpuFeaturesProofs!SettledForGoodCorrect` | for serialised clients: once the routine is over, features and count stay |
| `NdkCpuFeaturesProofs!SetSticksCorrect` | for serialised clients: a setter that returned 1 finds its features in place |
| `X86Proofs!MissingLeafCorrect` | no feature of a leaf that the processor does not have, whatever CPUID answers for it |
| `X86Proofs!VectorNeedsOsCorrect` | vector features only where the system saves their registers, on all four systems |
| `X86Proofs!WiderCorrect` | the registers trusted are closed downwards, for every XCR0 |
| `X86Proofs!LevelsInBoundsCorrect` | no level is stored outside `CacheInfo.levels`, for every processor |
| `X86Proofs!MissingLevelCorrect` | every level is a descriptor, a sub-leaf before the first null one, or a legacy register, of a leaf that the processor has |
| `X86Proofs!NothingWithheldCorrect` | a feature of SSE, AVX, AVX-512 or AMX that the processor has and whose registers the system saves is reported, and so is what needs no registers, what AMD adds, and the second FMA unit of processors that keep it |
| `X86Proofs!SecondFmaCorrect` | the second FMA unit is withheld from exactly the microarchitectures and products that the comments name |
| `X86Proofs!OneSourceCorrect` | the levels come from one leaf, all of it, in its order, and each once |
| `HwcapsProofs!AuxAnswerOrMisread` | a value of the auxiliary vector is the kernel's, or 0 where a source is missing, or misread in one of the two ways that are named, for every vector, width, byte order, build and file |
| `HwcapsProofs!FunctionsAnswerOrMisread` | the same within the functions of the five architectures |
| `HwcapsProofs!FeaturesDeclaredCorrect` | for every function, file and machine: a feature is set exactly if a source that the function reads declares it |
| `HwcapsProofs!PlatformStringsCorrect` | every platform string is that of the last line or of the kernel, cut to fit its buffer with its terminator |
| `ListCpuFeaturesProofs!AllocatorBlocksDisjoint` | nothing is written outside the buffer or over a block, for every buffer and every sequence of calls |
| `ListCpuFeaturesProofs!ProgramBlocksDisjoint` | the same for the program, for every processor and all arguments |
| `ListCpuFeaturesProofs!RoomForAllCorrect` | no processor that the library can describe makes a buffer of 64 kB run over, at any address |
| `ListCpuFeaturesProofs!TreePushes` | the calls of `CreateTree`, taken as operations on a stack of values, push the value of the processor |
| `ListCpuFeaturesProofs!SortedInOrder` | names that differ are sorted so that each stands behind as many as come before it |
| `ListCpuFeaturesProofs!EscapeReads` | a string without control characters, escaped, reads back as it was |
| `ListCpuFeaturesProofs!OutputFaithfulCorrect` | what the program prints reads back as what the library has told, for every processor, every buffer and all arguments |
| `StringViewProofs!HasWordExactCorrect` | `HasWord` finds exactly the fields of a line, whatever the line, the word and the separator |
| `StringViewProofs!KeyValueSplitsCorrect` | a line is split at its first ": ", and both parts are trimmed |
| `StringViewProofs!ParseExactCorrect` | what an int can hold is parsed as what it says, a larger number wraps to the int congruent to it, what is no number is refused, for every size of int |
| `StringViewProofs!CopyTerminatesCorrect` | a copy stays inside, is terminated, and is the longest start that fits |
| `StringViewProofs!CpuCountExactCorrect` | the count of CPUs is the number of CPUs below 32 that the complete ones of the two files list |
| `RiscvProofs!IsaExactCorrect` | the features are those that the last isa line declares |
| `RiscvProofs!UarchPairCorrect` | vendor and uarch are the halves of the last uarch line that has two |
| `NdkArmFlagsProofs!FeaturesAsReportedCorrect` | what a source reports survives the merge and the corrections but for broken NEON, and only four flags are made up |
| `NdkArmFlagsProofs!IdivJustifiedCorrect` | IDIV is made up only for an ARMv7 of the vendors named in the comments, by the corrected architecture |
| `NdkArmFlagsProofs!NeonAndVfpCorrect` | the NDK flags of NEON and VFP keep the relations that the header promises |
| `NdkArmFlagsProofs!Armv6Correct` | an ARMv6 whose kernel says 7 gets no ARMv7 flag |

Assumptions. `SlrAssumption`: the buffer holds at least one byte, files are finite sequences of bytes,
NUL is no newline. `NdkAssumption`: counts are numbers and the arguments of a setter have the
three fields. `SystemAssumption`: the system is one of the four that have an `impl_x86_*.c` with a
`DetectFeaturesFromOs`. `MaxLevelAssumption`: the array has at least 15
slots, as `include/cpu_features_cache_info.h:44-46` demands; it has 16 unless the build says otherwise.
`CpuAssumption`: registers have four bytes, maximal leaves are numbers. `AuxAssumption`: entries have 32 or 64 bits, and a type that is not 0.
`BufferAssumption`: the buffer does not start at address 0. `ListAssumption`: nodes have a size, and the operations of `CreateTree` are
what they are. `LimitAssumption`: a node takes at most 64 bytes, texts have at most 63 characters, there are at most 96 flags and
`CPU_FEATURES_MAX_CACHE_LEVEL` levels, as the arrays and tables of the library have them. `NameAssumption`: the names of the features of a
table differ and have a place in the order of `strcmp`, and neither they nor the types of cache have characters to escape, as the tables
(`include/cpuinfo_*.h` and the names in `src/impl_*`) and `GetCacheTypeString` show. That strings have no control characters (`Readable`) is no
assumption but a condition of `OutputFaithful`, for JSON only (section 3 says why). `LeafAssumption`: a bit is named after one leaf.
`BrandAssumption`: signatures and leaves are numbers, and a Skylake or Cascade Lake server bears the name of its product in its brand string, at the
places and with the numbers that Intel gives it (`NamedAs`): this is where the comments that name products (`:278-308`) meet strings.
`IntAssumption`: there is a largest int. `CharAssumption`: NUL is no white space and no part of ": ". `ViewsAssumption`: the words looked
for are sequences. `FileAssumption` (of ARM, of RISC-V and of the five functions in `TableAssumption` and `CallAssumption`): a file is a
sequence of lines, the values taken apart are texts, and the empty line at the end of a file has no key that is handled. That of
RISC-V says besides that isa strings have the form that the source quotes (`src/impl_riscv_linux.c:22-28`), in which the name of a flag
stands at most once and names stand in the order of the table; which letters stand inside an extension is left open. `ArmAssumption`: hardware
capabilities are bits of their words. `TableAssumption`: masks and plans are those of the tables. `CallAssumption`: buffers hold at
least one character and pointers of the kernel are not 0. TLC evaluates them in the passing runs. The theorems of
`NdkCpuFeaturesProofs` assume `Serialised` besides, that is clients that keep setters apart from other
calls; without it they do not hold.

Line reader. `IInv` is `TypeOK`, `ViewIsFileSegment`, `AtLineStart` and `Control`: a skip
is pending at `"skip"`, it is over at `"scan"` and `"load"`, and a view that fills the buffer is one that
is to be skipped. `AtLineStart` is not inductive alone: it needs `Control` to know at which places the
view starts a line, and `ViewIsFileSegment` to carry a newline found in the view over to the
file. `RoomToLoad` follows from the last part of `Control`: a view that fills the buffer without a
newline is given up as truncated before more is loaded.

Refinement. `RInv` adds to `IInv` that a reader about to load has no newline in its view
(`SearchedInv`): only then are the pending bytes at the end of the file no line of their own. For a text file
the search of the view is a search of the file (`SearchIsExact`), the cursor of `LineReader` does
not move while the rest of a truncated line is dropped (`NextLineStartSame`), and so each step of
the reader is `Deliver`, `Truncate`, `EndOfFile` or nothing. The definition of the next line's start is a
`CHOOSE` of a least offset, which exists because the naturals are well-founded (`LeastOf`). A file with
a NUL maps to `Unspecified`.

NDK layer. The invariant is `TypeOK`, `OnceExclusive` and `CountInv`. `android_cpuInit`
may store a count of 0, so `CountPositive` is not inductive: a setter that has stored its count may find
it 0 again. But only the one thread inside the routine stores a 0 (`OnceExclusive`), and it repairs the
count before the routine is over; everybody else stores at least 1.

Serialised clients. `SerialisedInv` says of every thread how far it has brought the globals at its `pc`
(`SetterAt`, `GetterAt`), that a thread in a setter is alone (`SetterAlone`), that `g_inited` follows `g_once`
(`OnceInv`), and that what clients are to see is there from the end of the routine on, but for the time
in which a setter has still to return (`SettledInv`). Steps that write no global disturb nobody
(`QuietStep`), and steps that do write happen while all other threads are idle or wait for the routine
(`UnsettledStep`, from `OnceExclusive`). `SetSticks` needs besides that a setter that succeeded has left its
arguments in `forced` (`SetterForced`).

x86 features. The invariant ties the leaves read to those that the processor has (`LeavesExact`), and
keeps `os_preserves` honest between `ParseCpuId` and `ParseExtraAMDCpuId` (`Control`): AMD's `sse4a` and `fma4`
are decided by what the former left there. No name stands in two tables (`TablesDisjoint`),
so a feature that one table reports is not one that another has to justify.

Cache info. `ParseLeaf2` has no bound of its own. `Leaf2Inv` says that at byte `i` of the 16 there are at
most `i - 1` levels, as the low byte of EAX is cleared before the loop, and a full leaf therefore has at
most 15. `LegacyInv` bounds the legacy loop by its index, and the loop over sub-leaves has its own
bound. For missing leaves, `MissingInv` builds on the invariant of
`OneSource`, which has a descriptor or a sub-leaf for every level stored: a sub-leaf that was taken has none of a null type up to it
(`FoundOfSubLeaf`), a descriptor is that of a byte of leaf 2 (`DescribedIsPlace`), and an absent leaf reads as zeros, which are neither
(`PlaceOfLeaf2`, `SubLeafThere`). `VendorInv` ties the place in the function to the vendor.

Auxiliary vector. `AuxInv` says that the file is read only where the C library gave nothing (`LibcSilent`), and, in a
32-bit process with whole reads, that the pairs passed so far were entries of other types (`Scan`): the first match is then the
kernel's (`FirstEntry`), and the pair of zeros that ends the loop is the end of the vector, since no type is
0, so the kernel has no such value. In a 64-bit process pairs are halves of words: a pair that starts like the type asked for is an entry's own type with its upper
half, 0, or the halves of a value (`Pair64`), which `Misread` names. After short reads `entry.value` is a word of those passed, or one that
the stack had (`PassedWords`), and `Misread` names that also. `FeaturesDeclared` and `PlatformStrings` are about machines on which neither
can happen (`Trusted`, `TrustedAnswers`). The functions take no step that touches the
vector except by `AuxiliaryVector` (`FunctionsUseAux`), which carries the theorem over.

Bump allocator. `BlocksDisjoint` is about blocks only; inductive is that all of them end before `ptr` and that
`ptr` and `size` reach exactly to the end of the buffer (`AllocatorInv`). `RoundUpReaches` shows that a
reservation covers what was asked for. The program is shown to take only steps of the allocator
(`StepIsACall`), for which every operation to come must be one of `CreateTree` (`TodoType`).

The program's buffer. `RoomInv` says that what is left of the buffer is at least 64 bytes for each operation that is still to come,
since no operation takes more: a node with its alignment, or a text with its NUL. `Plan` gives the number of operations of every call
of `CreateTree`, at most 474, so that 64 kB are enough with room to spare.

What the program prints. The proof has three parts, and values (numbers, texts, maps and arrays with their members) between them.

- The calls of `CreateTree` are followed as operations on a stack of values instead of addresses (`Runs`, `Push`, `Grow`): a call that creates
  pushes one value, and a call that adds appends to the one on top. Put together they push `ValueOf(info)` (`TreePushes`). That the flags are in
  order is a fact about `Sorted` of its own (`SortedInOrder`): the first of those that are left is the one that as many others come before as
  have been taken.
- The heap is related to such a stack. `Tree` says of every node whose it is, that it stands at its place in the linked list of its
  owner and nowhere else, that the value of an entry is no entry itself, that it was created between the node that the entry follows and
  the entry, and that the entries of a list hold the members of its value in order. `Holding` says that the addresses on the stack are those of the values on
  the other stack, and that nothing held there is the value of an entry yet, so that no node comes to hang in two places. Each operation on
  nodes is then the operation on values (`NodeCreated`, `StringNamed`, `TextPrinted`, `EntryAppended`), wherever the allocator puts the node, since
  its address is new (`AllocatorInv`). The walk to the end of a list ends at its last node.
- At the end the heap is the tree of one value. `printJson` and `printTextField` are recursive functions along `next` and `value`; they have
  solutions since a number grows along both (`PrintsExist`, `JsonIs`, `TextFieldIs`), and they print a list as its members with marks
  between them, level by level (`JsonPrinted`, `TextPrintedRoot`). A text that is escaped character by character reads back (`EscapeReads`).

`TreeInv`, the inductive invariant, is the allocator's with `Building`: the operations still to come take the values held to `ValueOf(info)`.
`OutputFaithful` itself speaks of the end only, and nothing in it could be kept on the way.

String views. The loops of `src/string_view.c` are recursive functions, defined with `LET`. What such a function computes is proved
by exhibiting a function that satisfies the recursion, and showing that every other one agrees with it: upwards for numbers, where each
digit adds to what the digits before it gave (`NumberValues`, `WrappedValues`), and downwards from the end of a view for searches, where a turn
of the loop either ends or passes no occurrence (`Jump`, `WordFound`). The induction itself is over a set of naturals
(`SetInduction`, from the well-foundedness of `<`), which needs no theorem with an operator parameter. A list of CPUs is taken one entry
at a time: `ListedFrom` is what the entries from a place on name, and a turn of the loop moves one entry of it into the mask.

RISC-V. `RiscvInv` says of every place in the loop over the lines which lines count as handled (`Filled`): all before the one that the
reader is at, and at the end of the file all of them. A uarch line without comma at the end is handed out again and again, and counts for nothing
each time. In an isa line, `Searched` says that the flags before the current one are those declared, and that the names of the
others lie in what is left (`Ahead`). What is found first is the flag's own name: an occurrence elsewhere would be a letter in the extensions,
behind its own place (`FlagFound`); and what is consumed ends where the name ends, in front of all later names (`FlagPassed`).

ARM and the NDK flags. `LinesInv` says that the features are those of the last Features line handled, and that numbers are integers. The
rest is one step: `Fixed` is what `FixErrors` makes of the flags reported, from which `FeaturesAsReported` and `IdivJustified` can be read
off, with the number that it corrects (`FixStep`). After it nothing changes (`DoneStays`).

x86, the other direction. `NothingWithheld` needs that nothing is lost on the way: `GivenInv` says at every place of the function
that what the leaves have and the registers trusted allow is among the features, or is still to be added by `ParseExtraAMDCpuId`.
`OneSource` follows a list of levels through the loops: at byte `i` of leaf 2 the levels are those of the descriptors before it, and
at sub-leaf `i` those of the sub-leaves before it; a found deterministic leaf replaces the descriptors whole.
`SecondFmaByUarch` is about no bit of a leaf: `FmaInv` keeps signature and brand string as they were read, and the answer as that of
`HasSecondFMA`. That the models in `HasSecondFMA` are the rows of the table by which `GetX86Microarchitecture` tells the same
processors, and no others, is `UarchOfModel`, and that its places of the brand string tell the products apart `NamesTell`.

The functions of the other architectures. `PlanInv` ties the place in a function to its plan and `AskedBefore` to the
answers it has had, `LinesInv` to the lines handled and `TypesInv` to what the words and texts are; `KernelPoints` says that a
pointer followed is one that the kernel gave, and `TextHeld` what the buffers hold.

Only model-checked: liveness (`EofReached`, `CallsReturn`, `Terminates`), which the prover does not
reach.

## 5. What is not modelled

- Builds with `NDEBUG`: after a failing read the reader then works on a view of
  `SIZE_MAX` bytes. The models stop at the assertion.
- `EINTR` (retried in `CpuFeatures_ReadFile`) and `close`, which change nothing that is modelled.
- Cache sizes of 2 GiB and more, for which the products in `int` overflow; a range of CPUs up
  to `INT_MAX`, whose loop overflows.
- What parsers make of a truncated line: `CpuinfoLines` hands out whole lines, while the handlers ignore
  `full_line` and may take the half of a word for another flag.
- The NDK flags of x86, MIPS and AArch64, which are features under other names: `NdkCpuFeatures` has any set
  of flags, `NdkArmFlags` those of ARM.
- No property is about `GetAarch64Info` of macOS and Windows, which are tables of names; the run fires them.
- The bytes of numbers and of control characters in the output, `vsnprintf` failing, and the generation of code by
  macros.

## 6. Plan

Done, in this order: line reader with its abstract specification, its proofs and the proof that it
implements that specification; string views; the NDK layer with its proofs; RISC-V and ARM on
`CpuinfoLines`; x86 features with proofs; x86 cache info with its proofs; the auxiliary vector with its proof and the
functions of the other five architectures on top of it; the microarchitecture and the second FMA unit of x86; the program
`list_cpu_features` with the proof of its allocator; the mask files of the NDK layer; then the proofs of the string views, of ARM and
RISC-V, of the functions of the five architectures and of what was left of x86 and of the buffer; then the proof of what
`list_cpu_features` prints. Every safety property and action property that a passing run checks is now stated by a theorem.

To come:

1. `ArmInfo` and `HwcapsInfo` on top of `LineReader` instead of `CpuinfoLines`, to see what truncated lines do
   to the flags; `ArmInfo` on `AuxiliaryVector` in place of its free capabilities.
2. Arithmetic of `int` at its end: a CPU range up to the largest int, cache sizes of 2 GiB and more.
3. Proofs go with them: for truncated lines, what of `FeaturesDeclared` and `FeaturesAsReported` is left.
