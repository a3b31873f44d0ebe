---------------------------- MODULE ListCpuFeatures ----------------------------
(***************************************************************************)
(* The program list_cpu_features (src/src/utils/list_cpu_features.c): what *)
(* is known of the processor is built as a tree of nodes in the memory of  *)
(* the bump allocator, and the tree is walked to print it.  The calls of   *)
(* CreateTree are a sequence of operations on a stack of addresses.        *)
(* A text is a sequence of characters and of words that are not looked at; *)
(* a constant string, which is not copied, is a sequence of one word.      *)
(***************************************************************************)
EXTENDS BumpAllocator, Sequences, FiniteSetsExt

CONSTANTS
  Infos,      \* What the library may tell of the processor.
  Arguments,  \* What argv may hold after the name of the program.
  Words,      \* The characters and words that texts are made of.
  Rank,       \* The place of a feature's name in the order of strcmp.
  NodeSize    \* sizeof(Node)

NULL == 0

-------------------------------------------------------------------------------
\* The operations: create a node, print a string, take the address on top of
\* the stack as the string of a node, or as the value of a map or array below.
Op(op, number, text) == [op |-> op, number |-> number, text |-> text]
CreateInt(n) == <<Op("int", n, <<>>)>>
CreateConstantString(word) == <<Op("constant", 0, <<word>>)>>
CreateMap == <<Op("map", 0, <<>>)>>
CreateArray == <<Op("array", 0, <<>>)>>
CreateString(text) == <<Op("print", 0, text), Op("printed", 0, <<>>)>>
AddMapEntry(key, value) == value \o <<Op("entry", 0, <<key>>)>>
AddArrayElement(value) == value \o <<Op("element", 0, <<>>)>>

Concat(seqs) ==
  LET joined[n \in 0 .. Len(seqs)] ==
        IF n = 0 THEN <<>> ELSE joined[n - 1] \o seqs[n]
  IN  joined[Len(seqs)]

\* qsort by cmp: the first of the names that are left goes behind those sorted.
FirstOf(left) == CHOOSE a \in left : \A b \in left : Rank[a] <= Rank[b]
Sorted(names) ==
  LET all == {names[j] : j \in DOMAIN names}
      sorted[i \in 0 .. Len(names)] ==
        IF i = 0 THEN <<>>
        ELSE LET done == sorted[i - 1]
             IN  Append(done, FirstOf(all \ {done[j] : j \in DOMAIN done}))
  IN  sorted[Len(names)]

\* The names of the features that are set, in the order of the enumeration, are
\* sorted.
AddFlags(flags) ==
  LET ptrs == Sorted(flags)
      element(i) == AddArrayElement(CreateConstantString(ptrs[i]))
  IN  AddMapEntry("flags",
                  CreateArray \o Concat([i \in DOMAIN flags |-> element(i)]))

AddCacheLevel(info) ==
  AddArrayElement(
    CreateMap
      \o AddMapEntry("level", CreateInt(info.level))
      \o AddMapEntry("cache_type", CreateConstantString(info.cache_type))
      \o AddMapEntry("cache_size", CreateInt(info.cache_size))
      \o AddMapEntry("ways", CreateInt(info.ways))
      \o AddMapEntry("line_size", CreateInt(info.line_size))
      \o AddMapEntry("tlb_entries", CreateInt(info.tlb_entries))
      \o AddMapEntry("partitioning", CreateInt(info.partitioning)))

AddCacheInfo(levels) ==
  AddMapEntry("cache_info",
    CreateArray \o Concat([i \in DOMAIN levels |-> AddCacheLevel(levels[i])]))

\* The entries of an architecture between arch and flags: keys of numbers or of
\* strings, in order.
Fields ==
  [x86       |-> <<"brand", "family", "model", "stepping", "uarch">>,
   ARM       |-> <<"implementer", "architecture", "variant", "part",
                   "revision">>,
   aarch64   |-> <<"implementer", "variant", "part", "revision">>,
   mips      |-> <<>>,
   ppc       |-> <<"platform", "model", "machine", "cpu", "instruction",
                   "microarchitecture">>,
   s390x     |-> <<"platform", "model", "# processors">>,
   riscv     |-> <<"vendor", "microarchitecture">>,
   loongarch |-> <<>>]
Strings == {"brand", "uarch", "platform", "machine", "cpu", "instruction",
            "microarchitecture", "vendor"}
IsString(arch, key) == key \in Strings \/ (key = "model" /\ arch # "x86")

CreateTree(info) ==
  LET field(key) ==
        AddMapEntry(key, IF IsString(info.arch, key)
                         THEN CreateString(info.string[key])
                         ELSE CreateInt(info.number[key]))
      keys == Fields[info.arch]
  IN  CreateMap \o AddMapEntry("arch", CreateString(info.name))
        \o Concat([i \in DOMAIN keys |-> field(keys[i])])
        \o AddFlags(info.flags)
        \o (IF info.arch = "x86" THEN AddCacheInfo(info.levels) ELSE <<>>)

OpType ==
  [op : {"int", "constant", "map", "array", "print", "printed", "entry",
         "element"},
   number : Int, text : Seq(Words)]
ASSUME ListAssumption ==
  /\ NodeSize \in Nat \ {0}
  /\ \A info \in Infos : CreateTree(info) \in Seq(OpType)

\* What the library can tell: a char[64] holds a string and its terminator, the
\* largest enumeration has 96 features, and there are 16 levels of cache.  The
\* size of a Node is that of two ints, three pointers and what aligns them.
MAX_TEXT == 63
MAX_FLAGS == 96
CPU_FEATURES_MAX_CACHE_LEVEL == 16
ASSUME LimitAssumption ==
  /\ NodeSize <= 64
  /\ \A info \in Infos :
       /\ info.arch \in DOMAIN Fields
       /\ info.name \in Seq(Words) /\ Len(info.name) \in 0 .. MAX_TEXT
       /\ \A key \in Strings \cup {"model"} :
            /\ info.string[key] \in Seq(Words)
            /\ Len(info.string[key]) \in 0 .. MAX_TEXT
       /\ \E n \in 0 .. MAX_FLAGS : DOMAIN info.flags = 1 .. n
       /\ \E n \in 0 .. CPU_FEATURES_MAX_CACHE_LEVEL :
            DOMAIN info.levels = 1 .. n

\* printJsonString puts a backslash before these.
Escaped == {"\"", "\\", "/", "backspace", "\f", "\n", "\r", "\t"}

\* The names of the features in a table differ, and neither they nor the names of
\* the types of cache have characters to escape.
ASSUME NameAssumption ==
  \A info \in Infos :
    /\ \A i, j \in DOMAIN info.flags :
         /\ Rank[info.flags[i]] \in Nat
         /\ Rank[info.flags[i]] = Rank[info.flags[j]] => i = j
    /\ \A i \in DOMAIN info.flags : info.flags[i] \notin Escaped
    /\ \A i \in DOMAIN info.levels : info.levels[i].cache_type \notin Escaped

-------------------------------------------------------------------------------
VARIABLES
  info, argv,  \* What this run finds.
  pc,          \* "align", "build", "print" or "exit"
  todo,        \* The operations to come.
  stack,       \* The addresses that CreateTree holds, the last one first.
  heap,        \* The nodes by their address.
  texts,       \* The printed strings by their address.
  status, output   \* The exit status, and what has been printed.

tree == <<todo, stack, heap, texts>>
vars == <<bavars, info, argv, pc, tree, status, output>>

Node(type, integer, string, printed, value) ==
  [type |-> type, integer |-> integer, string |-> string, printed |-> printed,
   value |-> value, next |-> NULL]

Init ==
  /\ BAInit
  /\ info \in Infos /\ argv \in Arguments
  /\ pc = "align"
  /\ todo = CreateTree(info)
  /\ stack = <<>> /\ heap = <<>> /\ texts = <<>>
  /\ status = "running" /\ output = <<>>

\* internal_error ends the program.
Proceed(next) ==
  IF allocator' = "failed" THEN pc' = "exit" /\ status' = "EXIT_FAILURE"
  ELSE pc' = next /\ UNCHANGED status

Align ==
  /\ pc = "align"
  /\ BA_Align
  /\ Proceed("build")
  /\ UNCHANGED <<info, argv, tree, output>>

Does(ops) == pc = "build" /\ todo # <<>> /\ Head(todo).op \in ops
Below(n) == SubSeq(stack, n + 1, Len(stack))

\* The memory with something stored at an address of its own.
Stored(memory, address, what) ==
  [a \in DOMAIN memory \cup {address} |->
     IF a = address THEN what ELSE memory[a]]

\* What an operation does to the tree, once the allocator has the memory.
Builds(nodes, strings, addresses) ==
  /\ Proceed("build")
  /\ IF allocator' = "failed" THEN UNCHANGED tree
     ELSE /\ todo' = Tail(todo)
          /\ heap' = nodes
          /\ texts' = strings
          /\ stack' = addresses
  /\ UNCHANGED <<info, argv, output>>

NodeType == [int |-> "NT_INT", constant |-> "NT_STRING", map |-> "NT_MAP",
             array |-> "NT_ARRAY"]

BA_CreateNode ==
  /\ Does(DOMAIN NodeType)
  /\ BA_Bump(NodeSize)
  /\ LET op == Head(todo)
         node == Node(NodeType[op.op], op.number, op.text, NULL, NULL)
     IN  Builds(Stored(heap, ptr, node), texts, <<ptr>> \o stack)

CreatePrintfString ==
  /\ Does({"print"})
  /\ BA_Print(Len(Head(todo).text))
  /\ Builds(heap, Stored(texts, ptr, Head(todo).text), <<ptr>> \o stack)

CreatePrintedString ==
  /\ Does({"printed"})
  /\ BA_Bump(NodeSize)
  /\ Builds(Stored(heap, ptr, Node("NT_STRING", 0, <<>>, stack[1], NULL)),
            texts, <<ptr>> \o Below(1))

\* Mutant: what was appended before is lost.
LastOfForgets(nodes, first) == first

\* while (current->next) current = current->next
LastOf(nodes, first) ==
  LET last[a \in DOMAIN nodes] ==
        IF nodes[a].next = NULL THEN a ELSE last[nodes[a].next]
  IN  last[first]

\* The value on top of the stack is appended to the map or array below it.
AppendTo(type) ==
  /\ BA_Bump(NodeSize)
  /\ Builds(Stored([heap EXCEPT ![LastOf(heap, stack[2])].next = ptr], ptr,
                   Node(type, 0, Head(todo).text, NULL, stack[1])),
            texts, Below(1))

AddEntry == Does({"entry"}) /\ AppendTo("NT_MAP_ENTRY")
AddElement == Does({"element"}) /\ AppendTo("NT_ARRAY_ELEMENT")

TreeBuilt ==
  /\ pc = "build" /\ todo = <<>>
  /\ pc' = "print"
  /\ UNCHANGED <<bavars, info, argv, tree, status, output>>

-------------------------------------------------------------------------------
\* What is printed: marks, keys, numbers, the texts of a quoted string and
\* those of a plain one.
Token(kind, number, text) == [kind |-> kind, number |-> number, text |-> text]
Mark(c) == <<Token("mark", 0, <<c>>)>>
Key(k) == <<Token("key", 0, k)>>
Number(n) == <<Token("number", n, <<>>)>>
Quoted(text) == <<Token("quoted", 0, text)>>
Plain(text) == <<Token("plain", 0, text)>>

\* printJsonString: the character itself follows the backslash.
Escape(text) ==
  Concat([i \in DOMAIN text |->
            IF text[i] \in Escaped THEN <<"\\", text[i]>> ELSE <<text[i]>>])

TextOf(node) == IF node.printed = NULL THEN node.string ELSE texts[node.printed]

JsonOf(root) ==
  LET json[a \in DOMAIN heap] ==
        LET node == heap[a]
            next(before) ==
              IF node.next = NULL THEN <<>> ELSE before \o json[node.next]
        IN  CASE node.type = "NT_INT" -> Number(node.integer)
              [] node.type = "NT_STRING" -> Quoted(Escape(TextOf(node)))
              [] node.type = "NT_ARRAY" -> Mark("[") \o next(<<>>) \o Mark("]")
              [] node.type = "NT_MAP" -> Mark("{") \o next(<<>>) \o Mark("}")
              [] node.type = "NT_MAP_ENTRY" ->
                   Key(node.string) \o json[node.value] \o next(Mark(","))
              [] node.type = "NT_ARRAY_ELEMENT" ->
                   json[node.value] \o next(Mark(","))
  IN  json[root]

\* printTextField, which prints the map of a cache level as printJson does.
TextFieldOf(first) ==
  LET field[a \in DOMAIN heap] ==
        LET node == heap[a]
            next(before) ==
              IF node.next = NULL THEN <<>> ELSE before \o field[node.next]
        IN  CASE node.type = "NT_INT" -> Number(node.integer)
              [] node.type = "NT_STRING" -> Plain(TextOf(node))
              [] node.type = "NT_ARRAY" -> next(<<>>)
              [] node.type = "NT_MAP" ->
                   IF node.next = NULL THEN <<>>
                   ELSE Mark("{") \o JsonOf(node.next) \o Mark("}")
              [] node.type = "NT_MAP_ENTRY" ->
                   Key(node.string) \o field[node.value] \o next(Mark("\n"))
              [] node.type = "NT_ARRAY_ELEMENT" ->
                   field[node.value] \o next(Mark(","))
  IN  field[first]

printTextRoot(root) ==
  IF heap[root].next = NULL THEN <<>> ELSE TextFieldOf(heap[root].next)

\* The arguments are looked at one by one, after the tree has been built; the
\* first that is not -j or --json shows the usage.
Json == {"-j", "--json"}
Help == {"-h", "--help"}
Unknown == {i \in DOMAIN argv : argv[i] \notin Json}

ShowUsage ==
  /\ pc = "print" /\ Unknown # {}
  /\ output' = Plain(<<"usage">>)
  /\ status' = IF argv[Min(Unknown)] \in Help
               THEN "EXIT_SUCCESS" ELSE "EXIT_FAILURE"
  /\ pc' = "exit"
  /\ UNCHANGED <<bavars, info, argv, tree>>

PrintTree ==
  /\ pc = "print" /\ Unknown = {}
  /\ LET root == stack[1]
     IN  output' = (IF argv # <<>> THEN JsonOf(root) ELSE printTextRoot(root))
                     \o Mark("\n")
  /\ status' = "EXIT_SUCCESS"
  /\ pc' = "exit"
  /\ UNCHANGED <<bavars, info, argv, tree>>

CreatesTree ==
  \/ BA_CreateNode \/ CreatePrintfString \/ CreatePrintedString
  \/ AddEntry \/ AddElement
Next == Align \/ CreatesTree \/ TreeBuilt \/ ShowUsage \/ PrintTree

Spec == Init /\ [][Next]_vars

-------------------------------------------------------------------------------
(***************************************************************************)
(* What the program is to print, told without nodes: the values that the   *)
(* library has, in maps and arrays that are the sequences of their members.*)
(***************************************************************************)
Leaf(kind, number, text) ==
  [kind |-> kind, number |-> number, text |-> text, members |-> <<>>]
Integer(n) == Leaf("int", n, <<>>)
Text(text) == Leaf("string", 0, text)
Container(kind, members) ==
  [kind |-> kind, number |-> 0, text |-> <<>>, members |-> members]
Entry(key, value) == << <<<<key>>, value>> >>
Element(value) == <<<<>>, value>>

\* The i-th name is the one that i - 1 others come before.
InOrder(names) ==
  LET all == {names[j] : j \in DOMAIN names}
  IN  [i \in DOMAIN names |->
         CHOOSE a \in all : Cardinality({b \in all : Rank[b] < Rank[a]}) = i - 1]

LevelValue(level) ==
  Container("map",
    Entry("level", Integer(level.level))
      \o Entry("cache_type", Text(<<level.cache_type>>))
      \o Entry("cache_size", Integer(level.cache_size))
      \o Entry("ways", Integer(level.ways))
      \o Entry("line_size", Integer(level.line_size))
      \o Entry("tlb_entries", Integer(level.tlb_entries))
      \o Entry("partitioning", Integer(level.partitioning)))

FieldValue(i, key) ==
  IF IsString(i.arch, key) THEN Text(i.string[key]) ELSE Integer(i.number[key])

ValueOf(i) ==
  LET keys == Fields[i.arch]
      flags == InOrder(i.flags)
  IN  Container("map",
        Entry("arch", Text(i.name))
          \o [k \in DOMAIN keys |-> <<<<keys[k]>>, FieldValue(i, keys[k])>>]
          \o Entry("flags",
               Container("array",
                         [k \in DOMAIN flags |-> Element(Text(<<flags[k]>>))]))
          \o (IF i.arch = "x86"
              THEN Entry("cache_info",
                     Container("array",
                       [k \in DOMAIN i.levels |->
                          Element(LevelValue(i.levels[k]))]))
              ELSE <<>>))

\* The parts with a mark between them.
Join(parts, mark) ==
  LET rest[i \in DOMAIN parts] ==
        parts[i] \o (IF i = Len(parts) THEN <<>> ELSE mark \o rest[i + 1])
  IN  IF DOMAIN parts = {} THEN <<>> ELSE rest[1]

\* What a value is in JSON, and as text: it is never deeper than a map in an
\* array in the root.
Scalar(v) == IF v.kind = "int" THEN Number(v.number) ELSE Quoted(v.text)
Level(v) ==
  IF v.kind = "map"
  THEN Mark("{")
         \o Join([i \in DOMAIN v.members |->
                    Key(v.members[i][1]) \o Scalar(v.members[i][2])], Mark(","))
         \o Mark("}")
  ELSE Scalar(v)
Field(v) ==
  IF v.kind = "array"
  THEN Mark("[")
         \o Join([i \in DOMAIN v.members |-> Level(v.members[i][2])], Mark(","))
         \o Mark("]")
  ELSE Scalar(v)
AsJson(v) ==
  Mark("{")
    \o Join([i \in DOMAIN v.members |->
               Key(v.members[i][1]) \o Field(v.members[i][2])], Mark(","))
    \o Mark("}")

PlainScalar(v) == IF v.kind = "int" THEN Number(v.number) ELSE Plain(v.text)
PlainLevel(v) == IF v.kind = "map" THEN Level(v) ELSE PlainScalar(v)
PlainField(v) ==
  IF v.kind = "array"
  THEN Join([i \in DOMAIN v.members |-> PlainLevel(v.members[i][2])], Mark(","))
  ELSE PlainScalar(v)
AsText(v) ==
  Join([i \in DOMAIN v.members |->
          Key(v.members[i][1]) \o PlainField(v.members[i][2])], Mark("\n"))

\* What a reader of JSON makes of a quoted text: a quote, a backslash or a slash
\* after a backslash stands for itself.  No other character does, and neither a
\* quote nor a control character is read as it is.
Itself == {"\"", "\\", "/"}
Control == Escaped \ Itself
Reading(text, mode) == [text |-> text, mode |-> mode]
ReadOne(s, c) ==
  CASE s.mode = "escape" /\ c \in Itself -> Reading(Append(s.text, c), "plain")
    [] s.mode = "plain" /\ c = "\\" -> Reading(s.text, "escape")
    [] s.mode = "plain" /\ c \notin Control \cup {"\"", "\\"} ->
         Reading(Append(s.text, c), "plain")
    [] OTHER -> Reading(s.text, "invalid")
Unquoted(text) ==
  LET read[i \in 0 .. Len(text)] ==
        IF i = 0 THEN Reading(<<>>, "plain") ELSE ReadOne(read[i - 1], text[i])
  IN  read[Len(text)]
ReadToken(token) ==
  IF token.kind # "quoted" THEN token
  ELSE LET s == Unquoted(token.text)
       IN  IF s.mode = "plain" THEN Token("quoted", 0, s.text)
           ELSE Token("invalid", 0, <<>>)
Read(tokens) == [i \in DOMAIN tokens |-> ReadToken(tokens[i])]

\* The strings of the processor have no control characters.
Readable ==
  \A text \in {info.name} \cup {info.string[key] : key \in Strings \cup {"model"}} :
    \A i \in DOMAIN text : text[i] \notin Control

\* What is printed reads back as what the library has told: no node is lost,
\* shared or out of order in the linked lists of the heap, the flags are in
\* order, and every string of JSON reads back as it was, if it has no control
\* characters (list_cpu_features.c:163-227, 229-330).
OutputFaithful ==
  (pc = "exit" /\ status = "EXIT_SUCCESS" /\ Unknown = {}) =>
    /\ argv # <<>> /\ Readable =>
         Read(output) = AsJson(ValueOf(info)) \o Mark("\n")
    /\ argv = <<>> => Read(output) = AsText(ValueOf(info)) \o Mark("\n")

\* The buffer of 64 kB has room for every tree that the library can give rise
\* to, wherever it starts (list_cpu_features.c:58, 86-95, 145-159).
RoomForAll == buffer.capacity >= 65536 => allocator # "failed"
===============================================================================
