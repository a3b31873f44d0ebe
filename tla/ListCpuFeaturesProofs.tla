------------------------- MODULE ListCpuFeaturesProofs --------------------------
(***************************************************************************)
(* Proofs about the bump allocator, alone and driven by list_cpu_features, *)
(* and about what the program prints.  In order:                           *)
(*   - for every address and size of the buffer and every sequence of      *)
(*     calls, what is written stays inside the buffer and out of the       *)
(*     blocks handed out before;                                           *)
(*   - a buffer of 64 kB has room for every tree;                          *)
(*   - the calls of CreateTree, taken as operations on a stack of values,  *)
(*     push the value of the processor (Runs, Push, Grow, TreePushes), the *)
(*     flags of which are sorted (SortedInOrder);                          *)
(*   - the nodes of the heap are such values (Tree, Holding), and every    *)
(*     operation on nodes is the operation on values;                      *)
(*   - the recursions that print a tree have solutions (JsonIs,            *)
(*     TextFieldIs), by which a tree is printed as its value is            *)
(*     (JsonPrinted, TextPrintedRoot), and an escaped string reads back as *)
(*     it was (EscapeReads);                                               *)
(*   - the inductive invariant TreeInv, and OutputFaithful.                *)
(***************************************************************************)
EXTENDS ListCpuFeatures, TLAPS, WellFoundedInduction, FiniteSetTheorems

-------------------------------------------------------------------------------
\* What the checks of BA_Bump keep: the free part reaches to the end of the
\* buffer, is aligned, and lies behind every block and every byte written.
Free ==
  /\ buffer \in Buffers
  /\ ptr \in Nat /\ size \in Nat
  /\ buffer.at <= ptr
  /\ ptr + size = buffer.at + buffer.capacity

Handed(b) ==
  /\ b.at \in Nat /\ b.used \in Nat
  /\ b.at % ALIGN = 0
  /\ buffer.at <= b.at
  /\ b.at + b.used <= ptr

Written ==
  /\ latest \in [at : Nat, used : Nat]
  /\ Inside(latest)
  /\ \A b \in blocks \ {latest} : Apart(b, latest)

AllocatorInv ==
  /\ Free
  /\ allocator = "new" => blocks = {}
  /\ \A b \in blocks : Handed(b)
  /\ Written

\* RoundUp is the least multiple of ALIGN that is no less than n.
LEMMA RoundUpReaches ==
  ASSUME NEW n \in Nat
  PROVE  /\ RoundUp(n) \in Nat
         /\ n <= RoundUp(n)
         /\ RoundUp(n) < n + ALIGN
         /\ RoundUp(n) % ALIGN = 0
BY SMT DEF RoundUp, ALIGN

LEMMA BufferType == Free => buffer.at \in Nat /\ buffer.capacity \in Nat
BY BufferAssumption DEF Free

\* What Reserve leaves: the blocks of before, behind ptr as they were, and at
\* most one more, which starts at ptr and fits in the buffer.
LEMMA ReserveKeeps ==
  ASSUME AllocatorInv, allocator = "ready", NEW n \in Nat, Reserve(n),
         buffer' = buffer
  PROVE  /\ Free'
         /\ allocator' # "new"
         /\ \A b \in blocks' : Handed(b)'
         /\ \/ allocator' = "failed" /\ blocks' = blocks
            \/ /\ allocator' = "ready"
               /\ blocks' = blocks \cup {[at |-> ptr, used |-> n]}
               /\ ptr + n <= buffer.at + buffer.capacity
PROOF
<1> DEFINE r == RoundUp(n)
           block == [at |-> ptr, used |-> n]
<1>1. r \in Nat /\ n <= r
  BY RoundUpReaches
<1>2. /\ Free
      /\ \A b \in blocks : Handed(b)
      /\ buffer.at \in Nat /\ buffer.capacity \in Nat
  BY BufferType DEF AllocatorInv
<1>3. CASE ptr % ALIGN # 0 \/ size < r
  <2>1. allocator' = "failed" /\ UNCHANGED <<ptr, size, blocks>>
    BY <1>3 DEF Reserve, internal_error
  <2>. QED BY <2>1, <1>2 DEF Free, Handed
<1>4. CASE ~(ptr % ALIGN # 0 \/ size < r)
  <2>1. /\ blocks' = blocks \cup {block}
        /\ ptr' = ptr + r /\ size' = size - r
        /\ allocator' = "ready"
    BY <1>4 DEF Reserve
  <2>2. ptr % ALIGN = 0 /\ ~(size < r)
    BY <1>4
  <2>3. ptr \in Nat /\ size \in Nat /\ buffer.at <= ptr
        /\ ptr + size = buffer.at + buffer.capacity /\ buffer \in Buffers
    BY <1>2 DEF Free
  <2> HIDE DEF r
  <2>4. /\ ptr + r \in Nat /\ size - r \in Nat /\ buffer.at <= ptr + r
        /\ ptr + r + (size - r) = buffer.at + buffer.capacity
        /\ ptr + n <= ptr + r
        /\ ptr + n <= buffer.at + buffer.capacity
    BY <1>1, <1>2, <2>2, <2>3, SMT
  <2>5. Free'
    BY <2>1, <2>3, <2>4 DEF Free
  <2>6. ASSUME NEW b \in blocks' PROVE Handed(b)'
    <3>1. CASE b \in blocks
      BY <3>1, <1>1, <1>2, <2>1, <2>3, <2>4, SMT DEF Handed
    <3>2. CASE b = block
      BY <3>2, <2>1, <2>2, <2>3, <2>4, SMT DEF Handed
    <3>. QED BY <3>1, <3>2, <2>1
  <2>. QED BY <2>1, <2>4, <2>5, <2>6
<1>. QED BY <1>3, <1>4

\* Bytes written from ptr on, inside the buffer, are out of every block handed
\* out before.
LEMMA WrittenBehind ==
  ASSUME AllocatorInv, NEW n \in Nat, ptr + n <= buffer.at + buffer.capacity,
         latest' = [at |-> ptr, used |-> n],
         blocks' = blocks \/ blocks' = blocks \cup {latest'},
         buffer' = buffer
  PROVE  Written'
PROOF
<1>1. /\ ptr \in Nat /\ buffer.at <= ptr
      /\ \A b \in blocks : Handed(b)
  BY DEF AllocatorInv, Free
<1>2. latest' \in [at : Nat, used : Nat]
  BY <1>1
<1>3. Inside(latest)'
  BY <1>1 DEF Inside
<1>4. ASSUME NEW b \in blocks' \ {latest'} PROVE Apart(b, latest')
  <2>1. b \in blocks
    BY <1>4
  <2>. QED BY <1>1, <2>1 DEF Handed, Apart
<1>. QED BY <1>2, <1>3, <1>4 DEF Written

-------------------------------------------------------------------------------
LEMMA InitAllocatorInv == BAInit => AllocatorInv
<1> SUFFICES ASSUME BAInit PROVE AllocatorInv
  OBVIOUS
<1>1. buffer.at \in Nat /\ buffer.capacity \in Nat
  BY BufferAssumption DEF BAInit
<1>2. Free
  BY <1>1 DEF BAInit, Free
<1>3. Written
  BY <1>1 DEF BAInit, Written, Inside
<1>. QED BY <1>2, <1>3 DEF BAInit, AllocatorInv

LEMMA AlignKeeps == AllocatorInv /\ BA_Align => AllocatorInv'
<1> SUFFICES ASSUME AllocatorInv, BA_Align PROVE AllocatorInv'
  OBVIOUS
<1>1. /\ blocks = {} /\ blocks' = {}
      /\ latest' = latest /\ buffer' = buffer
      /\ ptr' = ptr + Skipped /\ size' = size - Skipped
  BY DEF AllocatorInv, BA_Align
<1>2. ptr \in Nat /\ size \in Nat /\ Free /\ Written
  BY DEF AllocatorInv, Free
<1>3. Skipped \in Nat /\ Skipped <= size
  BY <1>2 DEF Skipped, ALIGN
<1>4. Free'
  BY <1>1, <1>2, <1>3, BufferType DEF Free
<1>5. Written'
  BY <1>1, <1>2 DEF Written, Inside, Apart
<1>. QED BY <1>1, <1>4, <1>5 DEF AllocatorInv

LEMMA BumpKeeps ==
  ASSUME NEW n \in Nat
  PROVE  AllocatorInv /\ BA_Bump(n) => AllocatorInv'
<1> SUFFICES ASSUME AllocatorInv, BA_Bump(n) PROVE AllocatorInv'
  OBVIOUS
<1>1. allocator = "ready" /\ Reserve(n) /\ buffer' = buffer
  BY DEF BA_Bump
<1>2. /\ Free' /\ allocator' # "new"
      /\ \A b \in blocks' : Handed(b)'
      /\ \/ allocator' = "failed" /\ blocks' = blocks
         \/ /\ allocator' = "ready"
            /\ blocks' = blocks \cup {[at |-> ptr, used |-> n]}
            /\ ptr + n <= buffer.at + buffer.capacity
  BY <1>1, ReserveKeeps
<1>3. CASE allocator' = "failed"
  <2>1. latest' = latest /\ blocks' = blocks
    BY <1>2, <1>3 DEF BA_Bump
  <2>2. Written'
    BY <2>1, <1>1 DEF AllocatorInv, Written, Inside, Apart
  <2>. QED BY <1>2, <2>2 DEF AllocatorInv
<1>4. CASE allocator' # "failed"
  <2>1. latest' = [at |-> ptr, used |-> n]
    BY <1>4 DEF BA_Bump
  <2>2. Written'
    BY <1>1, <1>2, <1>4, <2>1, WrittenBehind
  <2>. QED BY <1>2, <2>2 DEF AllocatorInv
<1>. QED BY <1>3, <1>4

LEMMA PrintKeeps ==
  ASSUME NEW length \in Nat
  PROVE  AllocatorInv /\ BA_Print(length) => AllocatorInv'
<1> SUFFICES ASSUME AllocatorInv, BA_Print(length) PROVE AllocatorInv'
  OBVIOUS
<1> DEFINE n == IF length < size THEN length + 1 ELSE size
<1>1. /\ allocator = "ready" /\ buffer' = buffer
      /\ latest' = [at |-> ptr, used |-> n]
  BY DEF BA_Print
<1>2. /\ ptr \in Nat /\ size \in Nat
      /\ ptr + size = buffer.at + buffer.capacity
      /\ Free /\ \A b \in blocks : Handed(b)
  BY DEF AllocatorInv, Free
<1>3. n \in Nat /\ ptr + n <= buffer.at + buffer.capacity
  BY <1>2
<1>4. CASE length >= size
  <2>1. allocator' = "failed" /\ UNCHANGED <<ptr, size, blocks>>
    BY <1>4 DEF BA_Print, internal_error
  <2>2. Written'
    BY <1>1, <1>3, <2>1, WrittenBehind
  <2>. QED BY <1>1, <1>2, <2>1, <2>2 DEF AllocatorInv, Free, Handed
<1>5. CASE ~(length >= size)
  <2>1. Reserve(length + 1)
    BY <1>5 DEF BA_Print
  <2>2. n = length + 1
    BY <1>2, <1>5
  <2>3. /\ Free' /\ allocator' # "new"
        /\ \A b \in blocks' : Handed(b)'
        /\ \/ allocator' = "failed" /\ blocks' = blocks
           \/ /\ allocator' = "ready"
              /\ blocks' = blocks \cup {[at |-> ptr, used |-> n]}
              /\ ptr + n <= buffer.at + buffer.capacity
    <3> HIDE DEF n
    <3>. QED BY <1>1, <2>1, <2>2, <1>3, ReserveKeeps
  <2>4. blocks' = blocks \/ blocks' = blocks \cup {latest'}
    BY <2>3, <1>1
  <2>5. Written'
    <3> HIDE DEF n
    <3>. QED BY <1>1, <1>3, <2>4, WrittenBehind
  <2>. QED BY <2>3, <2>5 DEF AllocatorInv
<1>. QED BY <1>4, <1>5

LEMMA StutterKeeps == AllocatorInv /\ UNCHANGED bavars => AllocatorInv'
BY DEF AllocatorInv, Free, Handed, Written, Inside, Apart, bavars

LEMMA CallKeeps == AllocatorInv /\ [BANext]_bavars => AllocatorInv'
BY AlignKeeps, BumpKeeps, PrintKeeps, StutterKeeps DEF BANext

LEMMA InvImpliesDisjoint == AllocatorInv => BlocksDisjoint
<1> SUFFICES ASSUME AllocatorInv PROVE BlocksDisjoint
  OBVIOUS
<1>1. Inside(latest) /\ \A b \in blocks \ {latest} : Apart(b, latest)
  BY DEF AllocatorInv, Written
<1>2. ASSUME NEW b \in blocks PROVE b.at % ALIGN = 0 /\ Inside(b)
  <2>1. Handed(b) /\ Free
    BY DEF AllocatorInv
  <2>. QED BY <2>1, BufferType DEF Handed, Free, Inside
<1>. QED BY <1>1, <1>2 DEF BlocksDisjoint

\* Every sequence of calls of the allocator, of any sizes, in any buffer:
\* alignment, no overlap and no write outside (list_cpu_features.c:77-159).
THEOREM AllocatorBlocksDisjoint == BASpec => []BlocksDisjoint
<1>1. BAInit => AllocatorInv
  BY InitAllocatorInv
<1>2. AllocatorInv /\ [BANext]_bavars => AllocatorInv'
  BY CallKeeps
<1>3. AllocatorInv => BlocksDisjoint
  BY InvImpliesDisjoint
<1>. QED BY <1>1, <1>2, <1>3, PTL DEF BASpec

-------------------------------------------------------------------------------
\* The operations to come are those of CreateTree.
TodoType == todo \in Seq(OpType)

LEMMA InitTodoType == Init => TodoType
BY ListAssumption DEF Init, TodoType

LEMMA NextTodo ==
  ASSUME [Next]_vars
  PROVE  todo' = todo \/ (todo # <<>> /\ todo' = Tail(todo))
<1>1. CASE UNCHANGED tree
  BY <1>1 DEF tree
<1>2. CASE UNCHANGED vars
  BY <1>2 DEF vars, tree
<1>3. ASSUME NEW nodes, NEW strings, NEW addresses,
             Builds(nodes, strings, addresses), todo # <<>>
      PROVE  todo' = todo \/ (todo # <<>> /\ todo' = Tail(todo))
  BY <1>3 DEF Builds, tree
<1>. QED
  BY <1>1, <1>2, <1>3 DEF Next, Align, CreatesTree, BA_CreateNode,
     CreatePrintfString, CreatePrintedString, AddEntry, AddElement, AppendTo,
     Does, TreeBuilt, ShowUsage, PrintTree

LEMMA NextTodoType == TodoType /\ [Next]_vars => TodoType'
BY NextTodo DEF TodoType

\* Every step of the program is a call of the allocator or leaves it alone.
LEMMA StepIsACall == TodoType /\ [Next]_vars => [BANext]_bavars
<1> SUFFICES ASSUME TodoType, [Next]_vars PROVE [BANext]_bavars
  OBVIOUS
<1>1. BA_Bump(NodeSize) => BANext
  BY ListAssumption DEF BANext
<1>2. CreatePrintfString => BANext
  <2> SUFFICES ASSUME CreatePrintfString PROVE BANext
    OBVIOUS
  <2> DEFINE length == Len(Head(todo).text)
  <2>1. BA_Print(length) /\ todo # <<>>
    BY DEF CreatePrintfString, Does
  <2>2. length \in Nat
    <3>1. Head(todo) \in OpType
      BY <2>1 DEF TodoType
    <3>2. Head(todo).text \in Seq(Words)
      BY <3>1 DEF OpType
    <3>. QED BY <3>2
  <2> HIDE DEF length
  <2>3. length + 1 \in Nat \ {0} /\ (length + 1) - 1 = length
    BY <2>2
  <2>4. BA_Print((length + 1) - 1)
    BY <2>1, <2>3
  <2>. QED BY <2>3, <2>4 DEF BANext
<1>. QED
  BY <1>1, <1>2 DEF Next, Align, CreatesTree, BA_CreateNode, CreatePrintedString,
     AddEntry, AddElement, AppendTo, TreeBuilt, ShowUsage, PrintTree, vars, BANext

\* The program itself, for any processor, arguments and size of a node
\* (list_cpu_features.c:382-474).
THEOREM ProgramBlocksDisjoint == Spec => []BlocksDisjoint
<1>1. Init => AllocatorInv /\ TodoType
  BY InitAllocatorInv, InitTodoType DEF Init
<1>2. AllocatorInv /\ TodoType /\ [Next]_vars => AllocatorInv' /\ TodoType'
  BY CallKeeps, StepIsACall, NextTodoType
<1>3. AllocatorInv => BlocksDisjoint
  BY InvImpliesDisjoint
<1>. QED BY <1>1, <1>2, <1>3, PTL DEF Spec

-------------------------------------------------------------------------------
\* A set of naturals that is not empty has a least one.
LEMMA LeastOf ==
  ASSUME NEW T, T \subseteq Nat, T # {}
  PROVE  \E m \in T : \A n \in T : m <= n
<1>1. PICK m \in T : \A n \in T : ~(<<n, m>> \in OpToRel(<, Nat))
  BY NatLessThanWellFounded, WFMin, Zenon
<1>2. ASSUME NEW n \in T PROVE m <= n
  <2>1. m \in Nat /\ n \in Nat
    OBVIOUS
  <2>2. ~(<<n, m>> \in OpToRel(<, Nat))
    BY <1>1
  <2>3. ~(n < m)
    BY <2>1, <2>2 DEF OpToRel
  <2>4. QED
    BY <2>1, <2>3
<1>3. QED
  BY <1>2

LEMMA SetInduction ==
  ASSUME NEW T, 0 \in T, \A n \in Nat : n \in T => n + 1 \in T
  PROVE  \A n \in Nat : n \in T
<1> SUFFICES ASSUME {n \in Nat : n \notin T} # {} PROVE FALSE
  OBVIOUS
<1>1. PICK m \in {n \in Nat : n \notin T} :
        \A n \in {k \in Nat : k \notin T} : m <= n
  BY LeastOf
<1>2. m - 1 \in Nat /\ m - 1 \in T
  BY <1>1
<1>3. QED
  BY <1>1, <1>2

-------------------------------------------------------------------------------
\* A sequence of at most n operations that print at most MAX_TEXT characters.
Short(o) == o.op = "print" => Len(o.text) \in 0 .. MAX_TEXT
Plan(s, n) ==
  /\ \E S : s \in Seq(S)
  /\ Len(s) <= n
  /\ \A i \in 1 .. Len(s) : Short(s[i])

LEMMA NoPlan == Plan(<<>>, 0)
<1>1. <<>> \in Seq({})
  OBVIOUS
<1>. QED BY <1>1 DEF Plan

LEMMA OnePlan == ASSUME NEW o, Short(o) PROVE Plan(<<o>>, 1)
<1>1. <<o>> \in Seq({o}) /\ Len(<<o>>) = 1 /\ <<o>>[1] = o
  OBVIOUS
<1>2. Len(<<o>>) <= 1 /\ \A i \in 1 .. Len(<<o>>) : i = 1
  BY <1>1
<1>3. \A i \in 1 .. Len(<<o>>) : Short(<<o>>[i])
  BY <1>1, <1>2, Zenon
<1>. QED BY <1>1, <1>2, <1>3, Zenon DEF Plan

LEMMA JoinedPlan ==
  ASSUME NEW m \in Nat, NEW n \in Nat, NEW s, NEW t, Plan(s, m), Plan(t, n)
  PROVE  Plan(s \o t, m + n)
<1>1. PICK S : s \in Seq(S)
  BY DEF Plan
<1>2. PICK T : t \in Seq(T)
  BY DEF Plan
<1> DEFINE U == S \cup T
<1>3. s \in Seq(U) /\ t \in Seq(U)
  BY <1>1, <1>2
<1>4. /\ s \o t \in Seq(U)
      /\ Len(s \o t) = Len(s) + Len(t)
      /\ Len(s) \in Nat /\ Len(t) \in Nat
      /\ \A i \in 1 .. Len(s) + Len(t) :
           (s \o t)[i] = IF i <= Len(s) THEN s[i] ELSE t[i - Len(s)]
  BY <1>3
<1>5. /\ Len(s) <= m /\ Len(t) <= n
      /\ \A i \in 1 .. Len(s) : Short(s[i])
      /\ \A i \in 1 .. Len(t) : Short(t[i])
  BY DEF Plan
<1>6. ASSUME NEW i \in 1 .. Len(s) + Len(t) PROVE Short((s \o t)[i])
  <2>1. CASE i <= Len(s)
    BY <2>1, <1>4, <1>5
  <2>2. CASE ~(i <= Len(s))
    <3>1. i - Len(s) \in 1 .. Len(t)
      BY <2>2, <1>4
    <3>. QED BY <2>2, <3>1, <1>4, <1>5
  <2>. QED BY <2>1, <2>2
<1>. QED BY <1>4, <1>5, <1>6 DEF Plan

LEMMA WiderPlan ==
  ASSUME NEW m \in Nat, NEW n \in Nat, NEW s, Plan(s, m), m <= n
  PROVE  Plan(s, n)
<1>1. PICK S : s \in Seq(S)
  BY DEF Plan
<1>2. Len(s) \in Nat
  BY <1>1
<1>. QED BY <1>2 DEF Plan

\* A sequence of n members, whatever they are.
Listed(f, n) == f = [i \in 1 .. n |-> f[i]]

\* The recursion of Concat has a solution.
Joins(joined, f, n) ==
  /\ joined[0] = <<>>
  /\ \A i \in 1 .. n : joined[i] = joined[i - 1] \o f[i]

LEMMA ConcatIs ==
  ASSUME NEW n \in Nat, NEW f, Listed(f, n)
  PROVE  \E joined : Concat(f) = joined[n] /\ Joins(joined, f, n)
PROOF
<1> DEFINE Solves(g, m) ==
             g = [i \in 0 .. m |-> IF i = 0 THEN <<>> ELSE g[i - 1] \o f[i]]
           joined == CHOOSE g : Solves(g, n)
           E == {m \in Nat : \E g : Solves(g, m)}
<1>1. 0 \in E
  <2>1. Solves([i \in 0 .. 0 |-> <<>>], 0)
    OBVIOUS
  <2>. QED BY <2>1
<1>2. ASSUME NEW m \in Nat, m \in E PROVE m + 1 \in E
  <2>1. PICK g : Solves(g, m)
    BY <1>2
  <2> DEFINE h == [i \in 0 .. m + 1 |->
                     IF i = m + 1 THEN g[m] \o f[m + 1] ELSE g[i]]
  <2>2. ASSUME NEW i \in 0 .. m + 1
        PROVE  h[i] = IF i = 0 THEN <<>> ELSE h[i - 1] \o f[i]
    <3>1. CASE i = m + 1
      <4>1. h[i] = g[m] \o f[m + 1] /\ h[i - 1] = g[m] /\ i # 0
        BY <3>1
      <4>. QED BY <3>1, <4>1
    <3>2. CASE i \in 0 .. m
      <4>1. h[i] = g[i] /\ (i # 0 => h[i - 1] = g[i - 1])
        BY <3>2
      <4>2. g[i] = IF i = 0 THEN <<>> ELSE g[i - 1] \o f[i]
        BY <2>1, <3>2
      <4>. QED BY <4>1, <4>2
    <3>. QED BY <3>1, <3>2
  <2>3. Solves(h, m + 1)
    BY <2>2
  <2> HIDE DEF h, Solves
  <2>. QED BY <2>3
<1>3. n \in E
  <2> HIDE DEF E
  <2>. QED BY <1>1, <1>2, SetInduction
<1>4. Solves(joined, n)
  BY <1>3
<1>5. Len(f) = n
  BY DEF Listed
<1>6. Concat(f) = joined[n]
  BY <1>5 DEF Concat
<1>7. Joins(joined, f, n)
  <2> HIDE DEF joined
  <2>. QED BY <1>4 DEF Joins
<1> HIDE DEF joined
<1>. QED BY <1>6, <1>7

\* What is joined is as long as its parts, by induction on the parts.
LEMMA ConcatPlan ==
  ASSUME NEW n \in Nat, NEW k \in Nat, NEW f, Listed(f, n),
         \A i \in 1 .. n : Plan(f[i], k)
  PROVE  Plan(Concat(f), n * k)
PROOF
<1>1. PICK joined : Concat(f) = joined[n] /\ Joins(joined, f, n)
  BY ConcatIs
<1> DEFINE T == {m \in Nat : m <= n => Plan(joined[m], m * k)}
<1>2. 0 \in T
  <2>1. 0 * k = 0
    OBVIOUS
  <2>. QED BY <1>1, <2>1, NoPlan DEF Joins
<1>3. ASSUME NEW m \in Nat, m \in T PROVE m + 1 \in T
  <2> SUFFICES ASSUME m + 1 <= n PROVE Plan(joined[m + 1], (m + 1) * k)
    OBVIOUS
  <2>1. /\ m + 1 \in 1 .. n /\ (m + 1) - 1 = m /\ m <= n
        /\ m * k \in Nat /\ (m + 1) * k = m * k + k
    OBVIOUS
  <2>2. Plan(joined[m], m * k)
    BY <1>3, <2>1
  <2>3. joined[m + 1] = joined[m] \o f[m + 1]
    BY <1>1, <2>1 DEF Joins
  <2>4. Plan(f[m + 1], k)
    BY <2>1
  <2>5. Plan(joined[m] \o f[m + 1], m * k + k)
    BY <2>1, <2>2, <2>4, JoinedPlan
  <2>. QED BY <2>1, <2>3, <2>5
<1>4. n \in T
  <2> HIDE DEF T
  <2>. QED BY <1>2, <1>3, SetInduction
<1>. QED BY <1>1, <1>4

LEMMA FlagsPlan ==
  ASSUME NEW flags, NEW n \in 0 .. MAX_FLAGS, DOMAIN flags = 1 .. n
  PROVE  Plan(AddFlags(flags), 194)
PROOF
<1> DEFINE ptrs == Sorted(flags)
           element(i) == AddArrayElement(CreateConstantString(ptrs[i]))
           f == [i \in 1 .. n |-> element(i)]
<1> HIDE DEF ptrs
<1>1. n \in Nat /\ n <= 96
  BY DEF MAX_FLAGS
<1>2. ASSUME NEW i \in 1 .. n PROVE Plan(f[i], 2)
  <2>1. /\ Plan(CreateConstantString(ptrs[i]), 1)
        /\ Plan(<<Op("element", 0, <<>>)>>, 1)
    BY OnePlan DEF CreateConstantString, Op, Short
  <2>2. f[i] = CreateConstantString(ptrs[i]) \o <<Op("element", 0, <<>>)>>
    BY DEF AddArrayElement
  <2> HIDE DEF f
  <2>3. Plan(CreateConstantString(ptrs[i]) \o <<Op("element", 0, <<>>)>>, 1 + 1)
    BY <2>1, JoinedPlan
  <2>. QED BY <2>2, <2>3
<1>3. Listed(f, n)
  BY DEF Listed
<1>4. AddFlags(flags)
        = (CreateArray \o Concat(f)) \o <<Op("entry", 0, <<"flags">>)>>
  BY DEF AddFlags, AddMapEntry, ptrs
<1> HIDE DEF f
<1>5. Plan(Concat(f), n * 2)
  BY <1>1, <1>2, <1>3, ConcatPlan
<1>6. Plan(CreateArray, 1) /\ Plan(<<Op("entry", 0, <<"flags">>)>>, 1)
  BY OnePlan DEF CreateArray, Op, Short
<1>7. Plan(CreateArray \o Concat(f), 1 + n * 2)
  BY <1>1, <1>5, <1>6, JoinedPlan
<1>8. Plan(AddFlags(flags), (1 + n * 2) + 1)
  BY <1>1, <1>4, <1>6, <1>7, JoinedPlan
<1>. QED BY <1>1, <1>8, WiderPlan

LEMMA EntryPlan ==
  ASSUME NEW n \in Nat, NEW value, Plan(value, n), NEW key
  PROVE  Plan(AddMapEntry(key, value), n + 1)
<1>1. Plan(<<Op("entry", 0, <<key>>)>>, 1)
  BY OnePlan DEF Op, Short
<1>. QED BY <1>1, JoinedPlan DEF AddMapEntry

LEMMA IntPlan == ASSUME NEW n PROVE Plan(CreateInt(n), 1)
BY OnePlan DEF CreateInt, Op, Short

LEMMA WordPlan == ASSUME NEW word PROVE Plan(CreateConstantString(word), 1)
BY OnePlan DEF CreateConstantString, Op, Short

LEMMA StringPlan ==
  ASSUME NEW text, Len(text) \in 0 .. MAX_TEXT
  PROVE  Plan(CreateString(text), 2)
<1> DEFINE a == Op("print", 0, text)
           b == Op("printed", 0, <<>>)
<1>1. Short(a) /\ Short(b)
  BY DEF Op, Short
<1>2. CreateString(text) = <<a, b>>
  BY DEF CreateString
<1> HIDE DEF a, b
<1>3. /\ <<a, b>> \in Seq({a, b}) /\ Len(<<a, b>>) = 2
      /\ <<a, b>>[1] = a /\ <<a, b>>[2] = b
  OBVIOUS
<1>4. Len(<<a, b>>) <= 2 /\ \A i \in 1 .. Len(<<a, b>>) : i = 1 \/ i = 2
  BY <1>3
<1>5. \A i \in 1 .. Len(<<a, b>>) : Short(<<a, b>>[i])
  BY <1>1, <1>3, <1>4, Zenon
<1>. QED BY <1>2, <1>3, <1>4, <1>5, Zenon DEF Plan

LEMMA LevelPlan == ASSUME NEW level PROVE Plan(AddCacheLevel(level), 16)
PROOF
<1> DEFINE number(key, n) == AddMapEntry(key, CreateInt(n))
           type == AddMapEntry("cache_type", CreateConstantString(level.cache_type))
<1>1. ASSUME NEW key, NEW n PROVE Plan(number(key, n), 2)
  <2>1. Plan(AddMapEntry(key, CreateInt(n)), 1 + 1)
    BY IntPlan, EntryPlan
  <2>. QED BY <2>1
<1>2. Plan(type, 2)
  <2>1. Plan(type, 1 + 1)
    BY WordPlan, EntryPlan
  <2>. QED BY <2>1
<1>3. Plan(CreateMap, 1) /\ Plan(<<Op("element", 0, <<>>)>>, 1)
  BY OnePlan DEF CreateMap, Op, Short
<1> DEFINE s1 == CreateMap \o number("level", level.level)
           s2 == s1 \o type
           s3 == s2 \o number("cache_size", level.cache_size)
           s4 == s3 \o number("ways", level.ways)
           s5 == s4 \o number("line_size", level.line_size)
           s6 == s5 \o number("tlb_entries", level.tlb_entries)
           s7 == s6 \o number("partitioning", level.partitioning)
<1>4. AddCacheLevel(level) = s7 \o <<Op("element", 0, <<>>)>>
  BY DEF AddCacheLevel, AddArrayElement
<1> HIDE DEF number, type
<1>5. Plan(s1, 1 + 2)
  BY <1>1, <1>3, JoinedPlan
<1> HIDE DEF s1
<1>6. Plan(s2, 3 + 2)
  BY <1>2, <1>5, JoinedPlan
<1> HIDE DEF s2
<1>7. Plan(s3, 5 + 2)
  BY <1>1, <1>6, JoinedPlan
<1> HIDE DEF s3
<1>8. Plan(s4, 7 + 2)
  BY <1>1, <1>7, JoinedPlan
<1> HIDE DEF s4
<1>9. Plan(s5, 9 + 2)
  BY <1>1, <1>8, JoinedPlan
<1> HIDE DEF s5
<1>10. Plan(s6, 11 + 2)
  BY <1>1, <1>9, JoinedPlan
<1> HIDE DEF s6
<1>11. Plan(s7, 13 + 2)
  BY <1>1, <1>10, JoinedPlan
<1> HIDE DEF s7
<1>12. Plan(s7 \o <<Op("element", 0, <<>>)>>, 15 + 1)
  BY <1>3, <1>11, JoinedPlan
<1>. QED BY <1>4, <1>12

LEMMA LevelsPlan ==
  ASSUME NEW levels, NEW n \in 0 .. CPU_FEATURES_MAX_CACHE_LEVEL,
         DOMAIN levels = 1 .. n
  PROVE  Plan(AddCacheInfo(levels), 258)
PROOF
<1> DEFINE f == [i \in 1 .. n |-> AddCacheLevel(levels[i])]
<1>1. n \in Nat /\ n <= 16
  BY DEF CPU_FEATURES_MAX_CACHE_LEVEL
<1>2. \A i \in 1 .. n : Plan(f[i], 16)
  BY LevelPlan
<1>3. Listed(f, n)
  BY DEF Listed
<1>4. AddCacheInfo(levels) = AddMapEntry("cache_info", CreateArray \o Concat(f))
  BY DEF AddCacheInfo
<1> HIDE DEF f
<1>5. Plan(Concat(f), n * 16)
  BY <1>1, <1>2, <1>3, ConcatPlan
<1>6. Plan(CreateArray, 1)
  BY OnePlan DEF CreateArray, Op, Short
<1>7. Plan(CreateArray \o Concat(f), 1 + n * 16)
  BY <1>1, <1>5, <1>6, JoinedPlan
<1>8. Plan(AddCacheInfo(levels), (1 + n * 16) + 1)
  BY <1>1, <1>4, <1>7, EntryPlan
<1>. QED BY <1>1, <1>8, WiderPlan

\* No architecture has more than six fields, and only strings are printed.
LEMMA FieldsLimited ==
  ASSUME NEW arch \in DOMAIN Fields
  PROVE  \E n \in 0 .. 6 : DOMAIN Fields[arch] = 1 .. n
PROOF
<1> DEFINE Long(s, n) == DOMAIN s = 1 .. n
<1>1. /\ Long(<<>>, 0)
      /\ \A a, b : Long(<<a, b>>, 2)
      /\ \A a, b, c : Long(<<a, b, c>>, 3)
      /\ \A a, b, c, d : Long(<<a, b, c, d>>, 4)
      /\ \A a, b, c, d, e : Long(<<a, b, c, d, e>>, 5)
      /\ \A a, b, c, d, e, f : Long(<<a, b, c, d, e, f>>, 6)
  OBVIOUS
<1> HIDE DEF Long
<1>2. arch \in {"x86", "ARM", "aarch64", "mips", "ppc", "s390x", "riscv",
                "loongarch"}
  BY DEF Fields
<1>3. Long(Fields["x86"], 5)
  BY <1>1, Zenon DEF Fields
<1>4. Long(Fields["ARM"], 5)
  BY <1>1, Zenon DEF Fields
<1>5. Long(Fields["aarch64"], 4)
  BY <1>1, Zenon DEF Fields
<1>6. Long(Fields["mips"], 0)
  BY <1>1, Zenon DEF Fields
<1>7. Long(Fields["ppc"], 6)
  BY <1>1, Zenon DEF Fields
<1>8. Long(Fields["s390x"], 3)
  BY <1>1, Zenon DEF Fields
<1>9. Long(Fields["riscv"], 2)
  BY <1>1, Zenon DEF Fields
<1>10. Long(Fields["loongarch"], 0)
  BY <1>1, Zenon DEF Fields
<1>11. /\ 0 \in 0 .. 6 /\ 2 \in 0 .. 6 /\ 3 \in 0 .. 6 /\ 4 \in 0 .. 6
       /\ 5 \in 0 .. 6 /\ 6 \in 0 .. 6
  OBVIOUS
<1>12. \E n \in 0 .. 6 : Long(Fields[arch], n)
  BY <1>2, <1>3, <1>4, <1>5, <1>6, <1>7, <1>8, <1>9, <1>10, <1>11, Zenon
<1>. QED BY <1>12 DEF Long

LEMMA FieldsPlan ==
  ASSUME NEW i \in Infos, NEW n \in 0 .. 6, NEW keys, DOMAIN keys = 1 .. n
  PROVE  Plan(Concat([k \in DOMAIN keys |->
                AddMapEntry(keys[k], IF IsString(i.arch, keys[k])
                                     THEN CreateString(i.string[keys[k]])
                                     ELSE CreateInt(i.number[keys[k]]))]), 18)
PROOF
<1> DEFINE value(key) == IF IsString(i.arch, key)
                         THEN CreateString(i.string[key])
                         ELSE CreateInt(i.number[key])
           f == [k \in 1 .. n |-> AddMapEntry(keys[k], value(keys[k]))]
<1>1. ASSUME NEW key PROVE Plan(value(key), 2)
  <2>1. CASE IsString(i.arch, key)
    <3>1. key \in Strings \cup {"model"}
      BY <2>1 DEF IsString
    <3>2. Len(i.string[key]) \in 0 .. MAX_TEXT
      BY <3>1, LimitAssumption
    <3>. QED BY <2>1, <3>2, StringPlan
  <2>2. CASE ~IsString(i.arch, key)
    <3>1. Plan(CreateInt(i.number[key]), 1)
      BY IntPlan
    <3>2. Plan(CreateInt(i.number[key]), 2)
      BY <3>1, WiderPlan
    <3>. QED BY <2>2, <3>2
  <2>. QED BY <2>1, <2>2
<1> HIDE DEF value
<1>2. ASSUME NEW k \in 1 .. n PROVE Plan(f[k], 3)
  <2>1. f[k] = AddMapEntry(keys[k], value(keys[k]))
    OBVIOUS
  <2> HIDE DEF f
  <2>2. Plan(AddMapEntry(keys[k], value(keys[k])), 2 + 1)
    BY <1>1, EntryPlan
  <2>. QED BY <2>1, <2>2
<1>3. Listed(f, n)
  BY DEF Listed
<1> HIDE DEF f
<1>4. Plan(Concat(f), n * 3)
  BY <1>2, <1>3, ConcatPlan
<1>5. Plan(Concat(f), 18)
  BY <1>4, WiderPlan
<1>. QED BY <1>5 DEF f, value

\* What CreateTree asks for, whatever the library tells.
MAX_OPERATIONS == 474

LEMMA TreePlan == ASSUME NEW i \in Infos PROVE Plan(CreateTree(i), MAX_OPERATIONS)
PROOF
<1> DEFINE keys == Fields[i.arch]
           fields == Concat([k \in DOMAIN keys |->
                        AddMapEntry(keys[k], IF IsString(i.arch, keys[k])
                                             THEN CreateString(i.string[keys[k]])
                                             ELSE CreateInt(i.number[keys[k]]))])
           name == AddMapEntry("arch", CreateString(i.name))
           flags == AddFlags(i.flags)
           levels == IF i.arch = "x86" THEN AddCacheInfo(i.levels) ELSE <<>>
<1>1. CreateTree(i) = (((CreateMap \o name) \o fields) \o flags) \o levels
  BY DEF CreateTree
<1>2. PICK n \in 0 .. 6 : DOMAIN keys = 1 .. n
  <2>1. i.arch \in DOMAIN Fields
    BY LimitAssumption
  <2>. QED BY <2>1, FieldsLimited
<1> HIDE DEF keys
<1>3. Plan(fields, 18)
  BY <1>2, FieldsPlan
<1>4. Plan(name, 3)
  <2>1. Len(i.name) \in 0 .. MAX_TEXT
    BY LimitAssumption
  <2>2. Plan(CreateString(i.name), 2)
    BY <2>1, StringPlan
  <2>3. Plan(name, 2 + 1)
    BY <2>2, EntryPlan
  <2>. QED BY <2>3
<1>5. Plan(flags, 194)
  <2>1. PICK m \in 0 .. MAX_FLAGS : DOMAIN i.flags = 1 .. m
    BY LimitAssumption
  <2>. QED BY <2>1, FlagsPlan
<1>6. Plan(levels, 258)
  <2>1. PICK m \in 0 .. CPU_FEATURES_MAX_CACHE_LEVEL : DOMAIN i.levels = 1 .. m
    BY LimitAssumption
  <2>2. Plan(AddCacheInfo(i.levels), 258)
    BY <2>1, LevelsPlan
  <2>3. Plan(<<>>, 258)
    BY NoPlan, WiderPlan
  <2>. QED BY <2>2, <2>3
<1>7. Plan(CreateMap, 1)
  BY OnePlan DEF CreateMap, Op, Short
<1> HIDE DEF fields, name, flags, levels
<1>8. Plan(CreateMap \o name, 1 + 3)
  BY <1>4, <1>7, JoinedPlan
<1>9. Plan((CreateMap \o name) \o fields, 4 + 18)
  BY <1>3, <1>8, JoinedPlan
<1>10. Plan(((CreateMap \o name) \o fields) \o flags, 22 + 194)
  BY <1>5, <1>9, JoinedPlan
<1>11. Plan(CreateTree(i), 216 + 258)
  BY <1>1, <1>6, <1>10, JoinedPlan
<1>. QED BY <1>11 DEF MAX_OPERATIONS

-------------------------------------------------------------------------------
\* In the buffer of 64 kB there is room for the operations to come, of which
\* none takes more than 64 bytes.
Room ==
  buffer.capacity >= 65536 =>
    /\ allocator \in {"new", "ready"}
    /\ allocator = "new" => size >= 65536
    /\ allocator = "ready" => ptr % ALIGN = 0 /\ 64 * Len(todo) <= size

RoomInv ==
  /\ AllocatorInv /\ TodoType
  /\ Plan(todo, MAX_OPERATIONS)
  /\ Room

LEMMA InitRoomInv == Init => RoomInv
<1> SUFFICES ASSUME Init PROVE RoomInv
  OBVIOUS
<1>1. AllocatorInv /\ TodoType
  BY InitAllocatorInv, InitTodoType DEF Init
<1>2. Plan(todo, MAX_OPERATIONS)
  BY TreePlan DEF Init
<1>3. Room
  BY DEF Init, BAInit, Room
<1>. QED BY <1>1, <1>2, <1>3 DEF RoomInv

\* What is left of a plan is a plan.
LEMMA TailPlan ==
  ASSUME TodoType, Plan(todo, MAX_OPERATIONS), todo # <<>>, todo' = Tail(todo)
  PROVE  Plan(todo, MAX_OPERATIONS)' /\ Len(todo') = Len(todo) - 1
<1>1. /\ todo \in Seq(OpType) /\ todo' \in Seq(OpType)
      /\ Len(todo) \in Nat /\ Len(todo) >= 1
      /\ Len(todo') = Len(todo) - 1
      /\ \A i \in 1 .. Len(todo') : todo'[i] = todo[i + 1]
  BY DEF TodoType
<1>2. \A i \in 1 .. Len(todo) : Short(todo[i])
  BY DEF Plan
<1>3. Len(todo) <= MAX_OPERATIONS /\ MAX_OPERATIONS \in Nat
  BY DEF Plan, MAX_OPERATIONS
<1>4. \A i \in 1 .. Len(todo') : Short(todo'[i])
  <2> SUFFICES ASSUME NEW i \in 1 .. Len(todo') PROVE Short(todo'[i])
    OBVIOUS
  <2>1. i + 1 \in 1 .. Len(todo) /\ todo'[i] = todo[i + 1]
    BY <1>1
  <2>. QED BY <1>2, <2>1
<1>5. Len(todo') <= MAX_OPERATIONS
  BY <1>1, <1>3
<1>6. \E S : todo' \in Seq(S)
  BY <1>1
<1>. QED BY <1>1, <1>4, <1>5, <1>6 DEF Plan

\* An operation of at most 64 bytes, for which there is room, leaves room for
\* the others.
LEMMA ReserveLeavesRoom ==
  ASSUME RoomInv, buffer.capacity >= 65536, allocator = "ready", todo # <<>>,
         NEW n \in Nat, n <= 64, Reserve(n), buffer' = buffer,
         allocator' # "failed" => todo' = Tail(todo)
  PROVE  Room'
<1>1. /\ ptr \in Nat /\ size \in Nat
      /\ ptr % ALIGN = 0 /\ 64 * Len(todo) <= size
      /\ Len(todo) \in Nat /\ Len(todo) >= 1
      /\ TodoType /\ Plan(todo, MAX_OPERATIONS)
  BY DEF RoomInv, Room, AllocatorInv, Free, TodoType
<1> DEFINE r == RoundUp(n)
<1>2. r \in Nat /\ r % ALIGN = 0 /\ r <= 64
  BY SMT DEF RoundUp, ALIGN
<1>3. ~(ptr % ALIGN # 0 \/ size < r)
  <2> HIDE DEF r
  <2>. QED BY <1>1, <1>2
<1>4. /\ ptr' = ptr + r /\ size' = size - r
      /\ allocator' = allocator
  BY <1>3 DEF Reserve
<1> HIDE DEF r
<1>5. todo' = Tail(todo)
  BY <1>4
<1>6. Plan(todo, MAX_OPERATIONS)' /\ Len(todo') = Len(todo) - 1
  BY <1>1, <1>5, TailPlan
<1>7. (ptr + r) % ALIGN = 0
  BY <1>1, <1>2, SMT DEF ALIGN
<1>8. 64 * (Len(todo) - 1) <= size - r
  BY <1>1, <1>2
<1>. QED BY <1>4, <1>5, <1>6, <1>7, <1>8 DEF Room

LEMMA AlignLeavesRoom == RoomInv /\ Align => Room'
<1> SUFFICES ASSUME RoomInv, Align, buffer.capacity >= 65536 PROVE Room'
  BY DEF Room, Align, BA_Align
<1>1. /\ allocator = "new" /\ ptr' = ptr + Skipped /\ size' = size - Skipped
      /\ buffer' = buffer /\ todo' = todo
      /\ IF ptr' % ALIGN # 0 THEN internal_error ELSE allocator' = "ready"
  BY DEF Align, BA_Align, tree
<1>2. ptr \in Nat /\ size \in Nat /\ size >= 65536
  BY <1>1 DEF RoomInv, AllocatorInv, Free, Room
<1>3. Skipped \in 0 .. 7 /\ (ptr + Skipped) % ALIGN = 0
  BY <1>2, SMT DEF Skipped, ALIGN
<1>4. Len(todo) <= 474 /\ Len(todo) \in Nat
  BY DEF RoomInv, Plan, MAX_OPERATIONS, TodoType
<1>5. allocator' = "ready" /\ ptr' % ALIGN = 0
  BY <1>1, <1>3
<1>6. 64 * Len(todo') <= size'
  BY <1>1, <1>2, <1>3, <1>4
<1>. QED BY <1>5, <1>6 DEF Room

LEMMA NextRoomInv == RoomInv /\ [Next]_vars => RoomInv'
<1> SUFFICES ASSUME RoomInv, [Next]_vars PROVE RoomInv'
  OBVIOUS
<1>1. AllocatorInv' /\ TodoType'
  <2>1. [BANext]_bavars
    BY StepIsACall DEF RoomInv
  <2>2. AllocatorInv'
    BY <2>1, CallKeeps DEF RoomInv
  <2>. QED BY <2>2, NextTodoType DEF RoomInv
<1>2. TodoType /\ Plan(todo, MAX_OPERATIONS)
  BY DEF RoomInv
<1>3. Plan(todo, MAX_OPERATIONS)'
  <2>1. todo' = todo \/ (todo # <<>> /\ todo' = Tail(todo))
    BY NextTodo
  <2>2. CASE todo' = todo
    BY <1>2, <2>2 DEF Plan
  <2>3. CASE todo # <<>> /\ todo' = Tail(todo)
    BY <1>2, <2>3, TailPlan
  <2>. QED BY <2>1, <2>2, <2>3
<1>4. ASSUME NEW n \in Nat, n <= 64, allocator = "ready", Reserve(n),
             buffer' = buffer, todo # <<>>,
             allocator' # "failed" => todo' = Tail(todo)
      PROVE  Room'
  BY <1>4, ReserveLeavesRoom DEF Room
<1>5. NodeSize \in Nat /\ NodeSize <= 64
  BY ListAssumption, LimitAssumption
<1>6. ASSUME BA_Bump(NodeSize), todo # <<>>,
             NEW nodes, NEW strings, NEW addresses,
             Builds(nodes, strings, addresses)
      PROVE  Room'
  <2>1. /\ allocator = "ready" /\ Reserve(NodeSize) /\ buffer' = buffer
    BY <1>6 DEF BA_Bump
  <2>2. allocator' # "failed" => todo' = Tail(todo)
    BY <1>6 DEF Builds
  <2>. QED BY <1>4, <1>5, <1>6, <2>1, <2>2
<1>7. ASSUME CreatePrintfString PROVE Room'
  <2> DEFINE length == Len(Head(todo).text)
  <2>1. /\ Head(todo).op = "print" /\ todo # <<>> /\ BA_Print(length)
        /\ allocator' # "failed" => todo' = Tail(todo)
    BY <1>7 DEF CreatePrintfString, Does, Builds
  <2>2. length \in 0 .. MAX_TEXT
    <3>1. 1 \in 1 .. Len(todo) /\ Head(todo) = todo[1]
      BY <1>2, <2>1 DEF TodoType
    <3>2. Short(todo[1])
      BY <1>2, <3>1 DEF Plan
    <3>. QED BY <2>1, <3>1, <3>2 DEF Short
  <2>3. /\ allocator = "ready" /\ buffer' = buffer
        /\ length >= size \/ Reserve(length + 1)
    BY <2>1 DEF BA_Print
  <2>4. buffer.capacity >= 65536 => length < size
    <3>1. Len(todo) \in Nat /\ Len(todo) >= 1 /\ size \in Nat
      BY <1>2, <2>1 DEF TodoType, RoomInv, AllocatorInv, Free
    <3> HIDE DEF length
    <3>. QED BY <2>2, <2>3, <3>1 DEF RoomInv, Room, MAX_TEXT
  <2> HIDE DEF length
  <2>5. length + 1 \in Nat /\ length + 1 <= 64 /\ size \in Nat
    BY <2>2 DEF MAX_TEXT, RoomInv, AllocatorInv, Free
  <2>6. CASE length < size
    <3>1. Reserve(length + 1)
      BY <2>2, <2>3, <2>5, <2>6
    <3>. QED BY <1>4, <2>1, <2>3, <2>5, <3>1
  <2>7. CASE ~(buffer.capacity >= 65536)
    BY <2>3, <2>7 DEF Room
  <2>. QED BY <2>4, <2>6, <2>7
<1>8. ASSUME bavars' = bavars, todo' = todo PROVE Room'
  BY <1>8 DEF bavars, RoomInv, Room
<1>9. Room'
  <2>1. ASSUME Align PROVE Room'
    BY <2>1, AlignLeavesRoom
  <2>2. ASSUME BA_CreateNode PROVE Room'
    BY <2>2, <1>6 DEF BA_CreateNode, Does
  <2>3. ASSUME CreatePrintedString PROVE Room'
    BY <2>3, <1>6 DEF CreatePrintedString, Does
  <2>4. ASSUME AddEntry \/ AddElement PROVE Room'
    BY <2>4, <1>6 DEF AddEntry, AddElement, AppendTo, Does
  <2>5. ASSUME TreeBuilt \/ ShowUsage \/ PrintTree \/ UNCHANGED vars PROVE Room'
    BY <2>5, <1>8 DEF TreeBuilt, ShowUsage, PrintTree, vars, tree
  <2>. QED BY <2>1, <2>2, <2>3, <2>4, <2>5, <1>7 DEF Next, CreatesTree
<1>. QED BY <1>1, <1>3, <1>9 DEF RoomInv

\* The buffer is large enough for whatever the library can tell of a processor,
\* at every address (list_cpu_features.c:56-60, 382-474).
THEOREM RoomForAllCorrect == Spec => []RoomForAll
<1>1. RoomInv => RoomForAll
  BY DEF RoomInv, Room, RoomForAll
<1>. QED BY <1>1, InitRoomInv, NextRoomInv, PTL DEF Spec
-------------------------------------------------------------------------------
\* Sequences of whatever there is.
Sq(s) == \E S : s \in Seq(S)

LEMMA SqIs ==
  ASSUME NEW s, Sq(s)
  PROVE  /\ Len(s) \in Nat /\ DOMAIN s = 1 .. Len(s)
         /\ s = [i \in 1 .. Len(s) |-> s[i]]
BY DEF Sq

LEMMA SqNone == Sq(<<>>) /\ Len(<<>>) = 0
<1>1. <<>> \in Seq({})
  OBVIOUS
<1>. QED BY <1>1 DEF Sq

LEMMA SqOne == ASSUME NEW x PROVE Sq(<<x>>) /\ Len(<<x>>) = 1 /\ <<x>>[1] = x
<1>1. <<x>> \in Seq({x}) /\ Len(<<x>>) = 1 /\ <<x>>[1] = x
  OBVIOUS
<1>. QED BY <1>1 DEF Sq

LEMMA SqEqual ==
  ASSUME NEW s, NEW t, Sq(s), Sq(t), Len(s) = Len(t),
         \A i \in 1 .. Len(s) : s[i] = t[i]
  PROVE  s = t
<1>1. /\ s = [i \in 1 .. Len(s) |-> s[i]]
      /\ t = [i \in 1 .. Len(t) |-> t[i]]
  BY SqIs
<1>. QED BY <1>1

LEMMA SqFunction ==
  ASSUME NEW n \in Nat, NEW f, Listed(f, n)
  PROVE  Sq(f) /\ Len(f) = n /\ DOMAIN f = 1 .. n
<1>1. f \in Seq({f[i] : i \in 1 .. n})
  BY DEF Listed
<1>2. Len(f) = n /\ DOMAIN f = 1 .. n
  BY DEF Listed
<1>. QED BY <1>1, <1>2 DEF Sq

LEMMA SqJoined ==
  ASSUME NEW s, NEW t, Sq(s), Sq(t)
  PROVE  /\ Sq(s \o t)
         /\ Len(s \o t) = Len(s) + Len(t)
         /\ \A i \in 1 .. Len(s) : (s \o t)[i] = s[i]
         /\ \A i \in 1 .. Len(t) : (s \o t)[Len(s) + i] = t[i]
<1>1. PICK S : s \in Seq(S)
  BY DEF Sq
<1>2. PICK T : t \in Seq(T)
  BY DEF Sq
<1> DEFINE U == S \cup T
<1>3. s \in Seq(U) /\ t \in Seq(U)
  BY <1>1, <1>2
<1>. QED BY <1>3 DEF Sq

LEMMA SqAppended ==
  ASSUME NEW s, NEW x, Sq(s)
  PROVE  /\ Sq(s \o <<x>>)
         /\ Len(s \o <<x>>) = Len(s) + 1
         /\ \A i \in 1 .. Len(s) : (s \o <<x>>)[i] = s[i]
         /\ (s \o <<x>>)[Len(s) + 1] = x
<1>1. PICK S : s \in Seq(S)
  BY DEF Sq
<1> DEFINE U == S \cup {x}
<1>2. s \in Seq(U) /\ <<x>> \in Seq(U)
  BY <1>1
<1>. QED BY <1>2 DEF Sq

LEMMA SqAppend ==
  ASSUME NEW s, NEW x, Sq(s)
  PROVE  /\ Sq(Append(s, x))
         /\ Append(s, x) = s \o <<x>>
         /\ Len(Append(s, x)) = Len(s) + 1
         /\ \A i \in 1 .. Len(s) : Append(s, x)[i] = s[i]
         /\ Append(s, x)[Len(s) + 1] = x
<1>1. PICK S : s \in Seq(S)
  BY DEF Sq
<1> DEFINE U == S \cup {x}
<1>2. s \in Seq(U) /\ <<x>> \in Seq(U) /\ x \in U
  BY <1>1
<1>. QED BY <1>2 DEF Sq

\* A sequence that is longer by one.
Longer(r, s, x) == r = Append(s, x)

LEMMA LongerList ==
  ASSUME NEW s, NEW x, NEW r, Sq(s), Longer(r, s, x)
  PROVE  /\ Sq(r) /\ Len(r) = Len(s) + 1 /\ r[Len(s) + 1] = x
         /\ \A i \in 1 .. Len(s) : r[i] = s[i]
BY SqAppend, Zenon DEF Longer

LEMMA SqTail ==
  ASSUME NEW s, Sq(s), s # <<>>
  PROVE  /\ Sq(Tail(s)) /\ Len(s) >= 1 /\ Len(Tail(s)) = Len(s) - 1
         /\ Head(s) = s[1]
         /\ \A i \in 1 .. Len(s) - 1 : Tail(s)[i] = s[i + 1]
BY DEF Sq

LEMMA SqAssociative ==
  ASSUME NEW s, NEW t, NEW u, Sq(s), Sq(t), Sq(u)
  PROVE  (s \o t) \o u = s \o (t \o u)
<1>1. PICK S : s \in Seq(S)
  BY DEF Sq
<1>2. PICK T : t \in Seq(T)
  BY DEF Sq
<1>3. PICK V : u \in Seq(V)
  BY DEF Sq
<1> DEFINE U == S \cup T \cup V
<1>4. s \in Seq(U) /\ t \in Seq(U) /\ u \in Seq(U)
  BY <1>1, <1>2, <1>3
<1>. QED BY <1>4

LEMMA SqEmpty == ASSUME NEW s, Sq(s) PROVE <<>> \o s = s /\ s \o <<>> = s
BY DEF Sq
-------------------------------------------------------------------------------
(***************************************************************************)
(* The operations on values in place of nodes: a stack of values, of which *)
(* a text that has been printed and has no node yet is one.                *)
(***************************************************************************)
\* A value has the four fields of one; More has more members, and NewValue is what
\* an operation makes.
IsValue(v) ==
  /\ v = [kind |-> v.kind, number |-> v.number, text |-> v.text,
          members |-> v.members]
  /\ Sq(v.members)
More(v, ms) ==
  [kind |-> v.kind, number |-> v.number, text |-> v.text,
   members |-> v.members \o ms]

NewValue(o) ==
  CASE o.op = "int" -> Integer(o.number)
    [] o.op = "constant" -> Text(o.text)
    [] o.op = "print" -> Leaf("text", 0, o.text)
    [] o.op = "map" -> Container("map", <<>>)
    [] o.op = "array" -> Container("array", <<>>)
\* What an operation does to the stack u, v being the stack after it: a value is
\* pushed, a printed text becomes a string, or a value is hung under the one below.
Pushes(u, x, v) ==
  /\ Len(v) = Len(u) + 1 /\ v[1] = x
  /\ \A k \in 1 .. Len(u) : v[k + 1] = u[k]
TakesText(u, v) ==
  /\ Len(u) >= 1 /\ u[1].kind = "text"
  /\ Len(v) = Len(u) /\ v[1] = Text(u[1].text)
  /\ \A k \in 2 .. Len(u) : v[k] = u[k]
Hangs(u, kind, key, v) ==
  /\ Len(u) >= 2 /\ u[1].kind # "text" /\ u[2].kind = kind
  /\ Len(v) = Len(u) - 1 /\ v[1] = More(u[2], << <<key, u[1]>> >>)
  /\ \A k \in 2 .. Len(v) : v[k] = u[k + 1]
Acts(u, o, v) ==
  /\ Sq(v)
  /\ \/ /\ o.op \in {"int", "constant", "print", "map", "array"}
        /\ Pushes(u, NewValue(o), v)
     \/ o.op = "printed" /\ TakesText(u, v)
     \/ o.op = "entry" /\ Hangs(u, "map", o.text, v)
     \/ o.op = "element" /\ Hangs(u, "array", o.text, v)

\* Operations lead from a stack to a stack.
Runs(u, ops, v) ==
  \E r : /\ r[0] = u /\ r[Len(ops)] = v
         /\ \A i \in 1 .. Len(ops) : Acts(r[i - 1], ops[i], r[i])

LEMMA RunsNone == ASSUME NEW u PROVE Runs(u, <<>>, u)
<1> DEFINE r == [i \in 0 .. 0 |-> u]
<1>1. r[0] = u /\ r[Len(<<>>)] = u /\ \A i \in 1 .. Len(<<>>) : FALSE
  OBVIOUS
<1>. QED BY <1>1 DEF Runs

LEMMA RunsOver == ASSUME NEW u, NEW v, Runs(u, <<>>, v) PROVE v = u
BY DEF Runs

LEMMA RunsOne == ASSUME NEW u, NEW o, NEW v, Acts(u, o, v) PROVE Runs(u, <<o>>, v)
<1> DEFINE r == [i \in 0 .. 1 |-> IF i = 0 THEN u ELSE v]
<1>1. r[0] = u /\ r[1] = v
  OBVIOUS
<1>2. Len(<<o>>) = 1 /\ <<o>>[1] = o
  BY SqOne
<1> HIDE DEF r
<1>3. ASSUME NEW i \in 1 .. 1 PROVE Acts(r[i - 1], <<o>>[i], r[i])
  <2>1. i = 1 /\ i - 1 = 0
    OBVIOUS
  <2>. QED BY <1>1, <1>2, <2>1
<1>. QED BY <1>1, <1>2, <1>3 DEF Runs

\* One sequence of operations, and then another.
LEMMA RunsJoined ==
  ASSUME NEW s, NEW t, Sq(s), Sq(t), NEW u, NEW v, NEW w,
         Runs(u, s, v), Runs(v, t, w)
  PROVE  Runs(u, s \o t, w)
<1> DEFINE m == Len(s)
           n == Len(t)
<1>1. PICK p : /\ p[0] = u /\ p[m] = v
               /\ \A i \in 1 .. m : Acts(p[i - 1], s[i], p[i])
  BY DEF Runs
<1>2. PICK q : /\ q[0] = v /\ q[n] = w
               /\ \A i \in 1 .. n : Acts(q[i - 1], t[i], q[i])
  BY DEF Runs
<1>3. /\ m \in Nat /\ n \in Nat /\ Len(s \o t) = m + n
      /\ \A i \in 1 .. m : (s \o t)[i] = s[i]
      /\ \A i \in 1 .. n : (s \o t)[m + i] = t[i]
  BY SqIs, SqJoined
<1> HIDE DEF m, n
<1> DEFINE r == [i \in 0 .. m + n |-> IF i <= m THEN p[i] ELSE q[i - m]]
<1>4. \A i \in 0 .. m : r[i] = p[i]
  BY <1>3
<1>5. \A i \in 0 .. n : r[m + i] = q[i]
  <2> SUFFICES ASSUME NEW i \in 0 .. n PROVE r[m + i] = q[i]
    OBVIOUS
  <2>1. CASE i = 0
    BY <2>1, <1>1, <1>2, <1>3
  <2>2. CASE i # 0
    BY <2>2, <1>3
  <2>. QED BY <2>1, <2>2
<1> HIDE DEF r
<1>6. ASSUME NEW i \in 1 .. m + n PROVE Acts(r[i - 1], (s \o t)[i], r[i])
  <2>1. CASE i <= m
    <3>1. i \in 1 .. m /\ i \in 0 .. m /\ i - 1 \in 0 .. m
      BY <1>3, <2>1
    <3>2. r[i - 1] = p[i - 1] /\ r[i] = p[i] /\ (s \o t)[i] = s[i]
      BY <1>3, <1>4, <3>1
    <3>3. Acts(p[i - 1], s[i], p[i])
      BY <1>1, <3>1
    <3>. QED BY <3>2, <3>3
  <2>2. CASE ~(i <= m)
    <3>1. PICK j \in 1 .. n : i = m + j
      <4>1. i - m \in 1 .. n /\ i = m + (i - m)
        BY <1>3, <2>2
      <4>. QED BY <4>1
    <3>2. j \in 0 .. n /\ j - 1 \in 0 .. n /\ i - 1 = m + (j - 1)
      BY <1>3, <3>1
    <3>3. r[i - 1] = q[j - 1] /\ r[i] = q[j] /\ (s \o t)[i] = t[j]
      BY <1>3, <1>5, <3>1, <3>2
    <3>4. Acts(q[j - 1], t[j], q[j])
      BY <1>2, <3>1
    <3>. QED BY <3>3, <3>4
  <2>. QED BY <2>1, <2>2
<1>7. r[0] = u /\ r[m + n] = w
  <2>1. 0 \in 0 .. m /\ n \in 0 .. n
    BY <1>3
  <2>. QED BY <1>1, <1>2, <1>4, <1>5, <2>1
<1>. QED BY <1>3, <1>6, <1>7 DEF Runs

\* The first of the operations acts, and the others go on from there.
LEMMA RunsNext ==
  ASSUME NEW s, Sq(s), s # <<>>, NEW u, NEW w, Runs(u, s, w)
  PROVE  \E v : Acts(u, Head(s), v) /\ Runs(v, Tail(s), w)
<1>1. PICK r : /\ r[0] = u /\ r[Len(s)] = w
               /\ \A i \in 1 .. Len(s) : Acts(r[i - 1], s[i], r[i])
  BY DEF Runs
<1>2. /\ Sq(Tail(s)) /\ Len(s) >= 1 /\ Len(Tail(s)) = Len(s) - 1
      /\ Head(s) = s[1] /\ Len(s) \in Nat
      /\ \A i \in 1 .. Len(s) - 1 : Tail(s)[i] = s[i + 1]
  BY SqTail, SqIs
<1>3. Acts(u, Head(s), r[1])
  <2>1. 1 \in 1 .. Len(s) /\ 1 - 1 = 0
    BY <1>2
  <2>2. Acts(r[1 - 1], s[1], r[1])
    BY <1>1, <2>1
  <2>. QED BY <1>1, <1>2, <2>1, <2>2
<1> DEFINE n == Len(s) - 1
           q == [i \in 0 .. n |-> r[i + 1]]
<1>4. \A i \in 0 .. n : q[i] = r[i + 1]
  OBVIOUS
<1> HIDE DEF q
<1>5. ASSUME NEW i \in 1 .. n PROVE Acts(q[i - 1], Tail(s)[i], q[i])
  <2>1. i \in 0 .. n /\ i - 1 \in 0 .. n /\ (i - 1) + 1 = i /\ i + 1 \in 1 .. Len(s)
        /\ (i + 1) - 1 = i
    BY <1>2
  <2>2. Acts(r[(i + 1) - 1], s[i + 1], r[i + 1])
    BY <1>1, <2>1
  <2>3. q[i - 1] = r[i] /\ q[i] = r[i + 1] /\ Tail(s)[i] = s[i + 1]
    BY <1>2, <1>4, <2>1
  <2>. QED BY <2>1, <2>2, <2>3
<1>6. q[0] = r[1] /\ q[n] = w
  <2>1. 0 \in 0 .. n /\ n \in 0 .. n /\ n + 1 = Len(s) /\ 0 + 1 = 1
    BY <1>2
  <2>. QED BY <1>1, <1>4, <2>1
<1>7. Runs(r[1], Tail(s), w)
  BY <1>2, <1>5, <1>6 DEF Runs
<1>. QED BY <1>3, <1>7
-------------------------------------------------------------------------------
\* Operations that push a value, and operations that hang members under the map
\* or array on top of the stack.
Push(ops, x) ==
  /\ Sq(ops) /\ IsValue(x)
  /\ \A u : Sq(u) => Runs(u, ops, <<x>> \o u)
Grow(ops, kind, ms) ==
  /\ Sq(ops) /\ Sq(ms)
  /\ \A u, v : Sq(u) /\ IsValue(v) /\ v.kind = kind =>
       Runs(<<v>> \o u, ops, <<More(v, ms)>> \o u)

\* What a pushed value is on top of.
LEMMA Pushed ==
  ASSUME NEW u, Sq(u), NEW x
  PROVE  /\ Sq(<<x>> \o u)
         /\ Len(<<x>> \o u) = Len(u) + 1
         /\ (<<x>> \o u)[1] = x
         /\ \A k \in 1 .. Len(u) : (<<x>> \o u)[k + 1] = u[k]
<1>1. Sq(<<x>>) /\ Len(<<x>>) = 1 /\ <<x>>[1] = x
  BY SqOne
<1>2. Len(u) \in Nat
  BY SqIs
<1>3. /\ Sq(<<x>> \o u)
      /\ Len(<<x>> \o u) = 1 + Len(u)
      /\ \A i \in 1 .. 1 : (<<x>> \o u)[i] = <<x>>[i]
      /\ \A i \in 1 .. Len(u) : (<<x>> \o u)[1 + i] = u[i]
  BY <1>1, SqJoined
<1>. QED BY <1>1, <1>2, <1>3

LEMMA PushOne ==
  ASSUME NEW o, o.op \in {"int", "constant", "print", "map", "array"},
         IsValue(NewValue(o))
  PROVE  Push(<<o>>, NewValue(o))
<1>1. ASSUME NEW u, Sq(u) PROVE Runs(u, <<o>>, <<NewValue(o)>> \o u)
  <2>1. Pushes(u, NewValue(o), <<NewValue(o)>> \o u)
    BY <1>1, Pushed DEF Pushes
  <2>2. Sq(<<NewValue(o)>> \o u)
    BY <1>1, Pushed
  <2>3. Acts(u, o, <<NewValue(o)>> \o u)
    BY <2>1, <2>2, Zenon DEF Acts
  <2>. QED BY <2>3, RunsOne
<1>. QED BY <1>1, SqOne DEF Push

LEMMA RecordIsValue ==
  ASSUME NEW kind, NEW n, NEW text, NEW ms, Sq(ms)
  PROVE  IsValue([kind |-> kind, number |-> n, text |-> text, members |-> ms])
BY DEF IsValue

LEMMA MoreIsValue ==
  ASSUME NEW v, IsValue(v), NEW ms, Sq(ms)
  PROVE  IsValue(More(v, ms)) /\ More(v, ms).kind = v.kind
<1>1. Sq(v.members \o ms)
  BY SqJoined DEF IsValue
<1>. QED BY <1>1, RecordIsValue DEF More

\* Members that are hung in two goes are hung in order.
LEMMA MoreMore ==
  ASSUME NEW v, IsValue(v), NEW ms, NEW ns, Sq(ms), Sq(ns)
  PROVE  More(More(v, ms), ns) = More(v, ms \o ns)
<1> DEFINE vs == v.members
<1>1. Sq(vs)
  BY DEF IsValue
<1> HIDE DEF vs
<1>2. (vs \o ms) \o ns = vs \o (ms \o ns)
  BY <1>1, SqAssociative
<1>. QED BY <1>2 DEF More, vs

LEMMA MoreNone == ASSUME NEW v, IsValue(v) PROVE More(v, <<>>) = v
<1>1. v.members \o <<>> = v.members
  BY SqEmpty DEF IsValue
<1>. QED BY <1>1 DEF IsValue, More

LEMMA GrowNone == ASSUME NEW kind PROVE Grow(<<>>, kind, <<>>)
<1>1. ASSUME NEW u, NEW v, IsValue(v)
      PROVE  Runs(<<v>> \o u, <<>>, <<More(v, <<>>)>> \o u)
  BY <1>1, MoreNone, RunsNone
<1>. QED BY <1>1, SqNone DEF Grow

\* Members of a first part come before those of a second.
LEMMA GrowJoined ==
  ASSUME NEW s, NEW t, NEW kind, NEW ms, NEW ns,
         Grow(s, kind, ms), Grow(t, kind, ns)
  PROVE  Grow(s \o t, kind, ms \o ns)
<1>1. Sq(s) /\ Sq(t) /\ Sq(ms) /\ Sq(ns)
  BY DEF Grow
<1>2. ASSUME NEW u, NEW v, Sq(u), IsValue(v), v.kind = kind
      PROVE  Runs(<<v>> \o u, s \o t, <<More(v, ms \o ns)>> \o u)
  <2>1. Runs(<<v>> \o u, s, <<More(v, ms)>> \o u)
    BY <1>2 DEF Grow
  <2>2. IsValue(More(v, ms)) /\ More(v, ms).kind = kind
    BY <1>1, <1>2, MoreIsValue
  <2>3. Runs(<<More(v, ms)>> \o u, t, <<More(More(v, ms), ns)>> \o u)
    BY <1>2, <2>2 DEF Grow
  <2>4. More(More(v, ms), ns) = More(v, ms \o ns)
    BY <1>1, <1>2, MoreMore
  <2>5. Runs(<<More(v, ms)>> \o u, t, <<More(v, ms \o ns)>> \o u)
    BY <2>3, <2>4
  <2>. QED BY <1>1, <2>1, <2>5, RunsJoined
<1>. QED BY <1>1, <1>2, SqJoined DEF Grow

LEMMA PushGrow ==
  ASSUME NEW s, NEW t, NEW v, NEW ms, Push(s, v), Grow(t, v.kind, ms)
  PROVE  Push(s \o t, More(v, ms))
<1>1. Sq(s) /\ Sq(t) /\ Sq(ms) /\ IsValue(v)
  BY DEF Push, Grow
<1>2. ASSUME NEW u, Sq(u) PROVE Runs(u, s \o t, <<More(v, ms)>> \o u)
  <2>1. Runs(u, s, <<v>> \o u)
    BY <1>2 DEF Push
  <2>2. Runs(<<v>> \o u, t, <<More(v, ms)>> \o u)
    BY <1>1, <1>2 DEF Grow
  <2>. QED BY <1>1, <2>1, <2>2, RunsJoined
<1>. QED BY <1>1, <1>2, SqJoined, MoreIsValue DEF Push

\* A value is hung under the value below it.
LEMMA PushHang ==
  ASSUME NEW ops, NEW x, Push(ops, x), x.kind # "text", NEW o,
         NEW kind \in {"map", "array"},
         o.op = IF kind = "map" THEN "entry" ELSE "element"
  PROVE  Grow(ops \o <<o>>, kind, << <<o.text, x>> >>)
<1> DEFINE ms == << <<o.text, x>> >>
<1>1. Sq(ops) /\ Sq(<<o>>) /\ Sq(ms)
  BY SqOne DEF Push
<1>2. ASSUME NEW u, NEW v, Sq(u), IsValue(v), v.kind = kind
      PROVE  Runs(<<v>> \o u, ops \o <<o>>, <<More(v, ms)>> \o u)
  <2> DEFINE a == <<v>> \o u
             b == <<x>> \o a
             c == <<More(v, ms)>> \o u
  <2>1. /\ Sq(a) /\ Len(a) = Len(u) + 1 /\ a[1] = v
        /\ \A k \in 1 .. Len(u) : a[k + 1] = u[k]
    BY <1>2, Pushed
  <2>2. /\ Sq(b) /\ Len(b) = Len(a) + 1 /\ b[1] = x
        /\ \A k \in 1 .. Len(a) : b[k + 1] = a[k]
    BY <2>1, Pushed
  <2>3. /\ Sq(c) /\ Len(c) = Len(u) + 1 /\ c[1] = More(v, ms)
        /\ \A k \in 1 .. Len(u) : c[k + 1] = u[k]
    BY <1>2, Pushed
  <2>4. Runs(a, ops, b)
    BY <2>1 DEF Push
  <2>5. Len(u) \in Nat
    BY <1>2, SqIs
  <2> HIDE DEF a, b, c
  <2>6. b[2] = v
    BY <2>1, <2>2, <2>5
  <2>7. \A k \in 2 .. Len(c) : c[k] = b[k + 1]
    <3> SUFFICES ASSUME NEW k \in 2 .. Len(c) PROVE c[k] = b[k + 1]
      OBVIOUS
    <3>1. k - 1 \in 1 .. Len(u) /\ k \in 1 .. Len(a) /\ k = (k - 1) + 1
      BY <2>1, <2>3, <2>5
    <3>. QED BY <2>1, <2>2, <2>3, <3>1
  <2>8. Hangs(b, kind, o.text, c)
    <3>1. Len(b) >= 2 /\ Len(c) = Len(b) - 1
      BY <2>1, <2>2, <2>3, <2>5
    <3>. QED BY <1>2, <2>2, <2>3, <2>6, <2>7, <3>1 DEF Hangs
  <2>9. Acts(b, o, c)
    <3>1. CASE kind = "map"
      BY <3>1, <2>3, <2>8 DEF Acts
    <3>2. CASE kind = "array"
      BY <3>2, <2>3, <2>8 DEF Acts
    <3>. QED BY <3>1, <3>2
  <2>10. Runs(a, ops \o <<o>>, c)
    BY <1>1, <2>4, <2>9, RunsOne, RunsJoined
  <2>. QED BY <2>10 DEF a, c
<1>. QED BY <1>1, <1>2, SqJoined DEF Grow

LEMMA PushEntry ==
  ASSUME NEW ops, NEW x, Push(ops, x), x.kind # "text", NEW key
  PROVE  Grow(AddMapEntry(key, ops), "map", Entry(key, x))
<1> DEFINE o == Op("entry", 0, <<key>>)
<1>1. o.op = "entry" /\ o.text = <<key>>
  BY DEF Op
<1> HIDE DEF o
<1>2. Grow(ops \o <<o>>, "map", << <<o.text, x>> >>)
  BY <1>1, PushHang
<1>. QED BY <1>1, <1>2 DEF AddMapEntry, Entry, o

LEMMA PushElement ==
  ASSUME NEW ops, NEW x, Push(ops, x), x.kind # "text"
  PROVE  Grow(AddArrayElement(ops), "array", <<Element(x)>>)
<1> DEFINE o == Op("element", 0, <<>>)
<1>1. o.op = "element" /\ o.text = <<>>
  BY DEF Op
<1> HIDE DEF o
<1>2. Grow(ops \o <<o>>, "array", << <<o.text, x>> >>)
  BY <1>1, PushHang
<1>. QED BY <1>1, <1>2 DEF AddArrayElement, Element, o

LEMMA LeafIsValue ==
  ASSUME NEW kind, NEW n, NEW text
  PROVE  IsValue(Leaf(kind, n, text)) /\ Leaf(kind, n, text).kind = kind
BY SqNone DEF IsValue, Leaf

LEMMA ContainerIsValue ==
  ASSUME NEW kind, NEW ms, Sq(ms)
  PROVE  IsValue(Container(kind, ms)) /\ Container(kind, ms).kind = kind
BY DEF IsValue, Container

\* The calls that make a value of each kind.
LEMMA PushInt == ASSUME NEW n PROVE Push(CreateInt(n), Integer(n))
<1> DEFINE o == Op("int", n, <<>>)
<1>1. o.op = "int" /\ o.number = n
  BY DEF Op
<1>2. CreateInt(n) = <<o>>
  BY DEF CreateInt
<1> HIDE DEF o
<1>3. NewValue(o) = Integer(n)
  BY <1>1 DEF NewValue
<1>4. IsValue(Integer(n))
  BY LeafIsValue DEF Integer
<1>. QED BY <1>1, <1>2, <1>3, <1>4, PushOne

LEMMA PushConstant ==
  ASSUME NEW word PROVE Push(CreateConstantString(word), Text(<<word>>))
<1> DEFINE o == Op("constant", 0, <<word>>)
<1>1. o.op = "constant" /\ o.text = <<word>>
  BY DEF Op
<1>2. CreateConstantString(word) = <<o>>
  BY DEF CreateConstantString
<1> HIDE DEF o
<1>3. NewValue(o) = Text(<<word>>)
  BY <1>1 DEF NewValue
<1>4. IsValue(Text(<<word>>))
  BY LeafIsValue DEF Text
<1>. QED BY <1>1, <1>2, <1>3, <1>4, PushOne

LEMMA PushContainer ==
  /\ Push(CreateMap, Container("map", <<>>))
  /\ Push(CreateArray, Container("array", <<>>))
<1>1. ASSUME NEW kind \in {"map", "array"}
      PROVE  Push(<<Op(kind, 0, <<>>)>>, Container(kind, <<>>))
  <2> DEFINE o == Op(kind, 0, <<>>)
  <2>1. o.op = kind
    BY DEF Op
  <2> HIDE DEF o
  <2>2. NewValue(o) = Container(kind, <<>>)
    BY <2>1 DEF NewValue
  <2>3. IsValue(Container(kind, <<>>))
    BY ContainerIsValue, SqNone
  <2>4. Push(<<o>>, Container(kind, <<>>))
    BY <2>1, <2>2, <2>3, PushOne
  <2>. QED BY <2>4 DEF o
<1>. QED BY <1>1 DEF CreateMap, CreateArray

LEMMA PushString == ASSUME NEW text PROVE Push(CreateString(text), Text(text))
<1> DEFINE a == Op("print", 0, text)
           b == Op("printed", 0, <<>>)
           x == Leaf("text", 0, text)
<1>1. a.op = "print" /\ a.text = text /\ b.op = "printed"
  BY DEF Op
<1>2. CreateString(text) = <<a>> \o <<b>>
  BY DEF CreateString
<1> HIDE DEF a, b
<1>3. NewValue(a) = x
  BY <1>1 DEF NewValue
<1>4. IsValue(x) /\ x.kind = "text" /\ x.text = text
  BY LeafIsValue DEF Leaf
<1> HIDE DEF x
<1>5. Push(<<a>>, x)
  BY <1>1, <1>3, <1>4, PushOne
<1>6. ASSUME NEW u, Sq(u) PROVE Runs(u, <<a>> \o <<b>>, <<Text(text)>> \o u)
  <2> DEFINE v == <<x>> \o u
             w == <<Text(text)>> \o u
  <2>1. /\ Sq(v) /\ Len(v) = Len(u) + 1 /\ v[1] = x
        /\ \A k \in 1 .. Len(u) : v[k + 1] = u[k]
    BY <1>6, Pushed
  <2>2. /\ Sq(w) /\ Len(w) = Len(u) + 1 /\ w[1] = Text(text)
        /\ \A k \in 1 .. Len(u) : w[k + 1] = u[k]
    BY <1>6, Pushed
  <2>3. Len(u) \in Nat
    BY <1>6, SqIs
  <2>4. Runs(u, <<a>>, v)
    BY <1>5, <1>6 DEF Push
  <2> HIDE DEF v, w
  <2>5. \A k \in 2 .. Len(v) : w[k] = v[k]
    <3> SUFFICES ASSUME NEW k \in 2 .. Len(v) PROVE w[k] = v[k]
      OBVIOUS
    <3>1. k - 1 \in 1 .. Len(u) /\ k = (k - 1) + 1
      BY <2>1, <2>3
    <3>. QED BY <2>1, <2>2, <3>1
  <2>6. TakesText(v, w)
    BY <1>4, <2>1, <2>2, <2>3, <2>5 DEF TakesText
  <2>7. Acts(v, b, w)
    BY <1>1, <2>2, <2>6 DEF Acts
  <2>8. Runs(u, <<a>> \o <<b>>, w)
    BY <2>4, <2>7, SqOne, RunsOne, RunsJoined
  <2>. QED BY <2>8 DEF w
<1>7. IsValue(Text(text))
  BY LeafIsValue DEF Text
<1>8. Sq(<<a>> \o <<b>>)
  BY SqOne, SqJoined
<1>. QED BY <1>2, <1>6, <1>7, <1>8 DEF Push

\* Parts that hang a member each are joined.
LEMMA GrowConcat ==
  ASSUME NEW n \in Nat, NEW f, Listed(f, n), NEW kind,
         NEW ms, Listed(ms, n),
         \A i \in 1 .. n : Grow(f[i], kind, <<ms[i]>>)
  PROVE  Grow(Concat(f), kind, ms)
PROOF
<1>1. PICK joined : Concat(f) = joined[n] /\ Joins(joined, f, n)
  BY ConcatIs
<1> DEFINE first(m) == [i \in 1 .. m |-> ms[i]]
           T == {m \in Nat : m <= n => Grow(joined[m], kind, first(m))}
<1>2. 0 \in T
  <2>1. first(0) = <<>>
    OBVIOUS
  <2>. QED BY <1>1, <2>1, GrowNone DEF Joins
<1>3. ASSUME NEW m \in Nat, m \in T PROVE m + 1 \in T
  <2> SUFFICES ASSUME m + 1 <= n PROVE Grow(joined[m + 1], kind, first(m + 1))
    OBVIOUS
  <2>1. m + 1 \in 1 .. n /\ (m + 1) - 1 = m /\ m <= n
    OBVIOUS
  <2>2. Grow(joined[m], kind, first(m))
    BY <1>3, <2>1
  <2>3. joined[m + 1] = joined[m] \o f[m + 1]
    BY <1>1, <2>1 DEF Joins
  <2>4. Grow(f[m + 1], kind, <<ms[m + 1]>>)
    BY <2>1
  <2>5. first(m + 1) = first(m) \o <<ms[m + 1]>>
    <3> DEFINE s == first(m)
               w == first(m + 1)
    <3>1. Sq(s) /\ Len(s) = m
      <4>1. Listed(s, m)
        BY DEF Listed
      <4> HIDE DEF s, first
      <4>. QED BY <4>1, SqFunction
    <3>2. Sq(w) /\ Len(w) = m + 1
      <4>1. Listed(w, m + 1) /\ m + 1 \in Nat
        BY DEF Listed
      <4> HIDE DEF w, first
      <4>. QED BY <4>1, SqFunction
    <3>3. /\ \A i \in 1 .. m : s[i] = ms[i]
          /\ \A i \in 1 .. m + 1 : w[i] = ms[i]
      OBVIOUS
    <3> HIDE DEF s, w
    <3> DEFINE x == ms[m + 1]
               st == s \o <<x>>
    <3>4. /\ Sq(st) /\ Len(st) = Len(s) + 1
          /\ \A i \in 1 .. Len(s) : st[i] = s[i]
          /\ st[Len(s) + 1] = x
      BY <3>1, SqAppended
    <3> HIDE DEF st
    <3>5. \A i \in 1 .. m + 1 : w[i] = st[i]
      BY <3>1, <3>3, <3>4
    <3>6. w = st
      BY <3>1, <3>2, <3>4, <3>5, SqEqual
    <3>. QED BY <3>6 DEF s, st, w
  <2> HIDE DEF first
  <2>. QED BY <2>2, <2>3, <2>4, <2>5, GrowJoined
<1>4. n \in T
  <2> HIDE DEF T
  <2>. QED BY <1>2, <1>3, SetInduction
<1>5. first(n) = ms
  BY DEF Listed
<1> HIDE DEF first
<1>. QED BY <1>1, <1>4, <1>5
-------------------------------------------------------------------------------
\* The names up to place m.
UpTo(s, m) == {s[j] : j \in 1 .. m}

\* Names that are told apart by their ranks are counted by their places.
LEMMA UpToCount ==
  ASSUME NEW n \in Nat, NEW s, \A i, j \in 1 .. n : s[i] = s[j] => i = j
  PROVE  \A m \in 0 .. n : /\ IsFiniteSet(UpTo(s, m))
                           /\ Cardinality(UpTo(s, m)) = m
<1> DEFINE C(m) == IsFiniteSet(UpTo(s, m)) /\ Cardinality(UpTo(s, m)) = m
           T == {m \in Nat : m <= n => C(m)}
<1>1. 0 \in T
  <2>1. UpTo(s, 0) = {}
    BY DEF UpTo
  <2>. QED BY <2>1, FS_EmptySet
<1>2. ASSUME NEW m \in Nat, m \in T PROVE m + 1 \in T
  <2> SUFFICES ASSUME m + 1 <= n PROVE C(m + 1)
    OBVIOUS
  <2>1. C(m)
    BY <1>2
  <2>2. UpTo(s, m + 1) = UpTo(s, m) \cup {s[m + 1]}
    <3>1. \A j \in 1 .. m + 1 : j \in 1 .. m \/ j = m + 1
      OBVIOUS
    <3>2. \A j \in 1 .. m : j \in 1 .. m + 1
      OBVIOUS
    <3>3. m + 1 \in 1 .. m + 1
      OBVIOUS
    <3>. QED BY <3>1, <3>2, <3>3 DEF UpTo
  <2>3. s[m + 1] \notin UpTo(s, m)
    BY DEF UpTo
  <2>. QED BY <2>1, <2>2, <2>3, FS_AddElement
<1>3. \A m \in Nat : m \in T
  <2> HIDE DEF T
  <2>. QED BY <1>1, <1>2, SetInduction
<1>. QED BY <1>3

Distinct(names, n) ==
  /\ DOMAIN names = 1 .. n
  /\ \A i, j \in 1 .. n : /\ Rank[names[i]] \in Nat
                          /\ Rank[names[i]] = Rank[names[j]] => i = j

\* The first m places of s hold the first m names.
SortedUpTo(s, m, all) ==
  /\ Sq(s) /\ Len(s) = m
  /\ \A j \in 1 .. m : s[j] \in all
  /\ \A j, k \in 1 .. m : j < k => Rank[s[j]] < Rank[s[k]]
  /\ \A j \in 1 .. m : \A a \in all \ UpTo(s, m) : Rank[s[j]] < Rank[a]

\* The first of the names that are left is one of them, and before the others.
LEMMA FirstIs ==
  ASSUME NEW left, left # {}, \A a \in left : Rank[a] \in Nat,
         \A a, b \in left : Rank[a] = Rank[b] => a = b
  PROVE  /\ FirstOf(left) \in left
         /\ \A a \in left \ {FirstOf(left)} : Rank[FirstOf(left)] < Rank[a]
<1> DEFINE T == {Rank[a] : a \in left}
<1>1. T \subseteq Nat /\ T # {}
  OBVIOUS
<1>2. PICK r \in T : \A n \in T : r <= n
  <2> HIDE DEF T
  <2>. QED BY <1>1, LeastOf
<1>3. PICK a \in left : Rank[a] = r
  BY <1>2
<1>4. \A b \in left : Rank[a] <= Rank[b]
  BY <1>2, <1>3
<1>5. FirstOf(left) \in left /\ \A b \in left : Rank[FirstOf(left)] <= Rank[b]
  BY <1>3, <1>4, Zenon DEF FirstOf
<1> DEFINE f == FirstOf(left)
<1>6. ASSUME NEW b \in left \ {f} PROVE Rank[f] < Rank[b]
  <2>1. f \in left /\ Rank[f] <= Rank[b]
    BY <1>5
  <2> HIDE DEF f
  <2>. QED BY <2>1
<1>. QED BY <1>5, <1>6

\* One more name goes behind those sorted.
LEMMA SortedNext ==
  ASSUME NEW n \in Nat, NEW names, Distinct(names, n), NEW m \in Nat, m < n,
         NEW s, SortedUpTo(s, m, UpTo(names, n))
  PROVE  SortedUpTo(Append(s, FirstOf(UpTo(names, n) \ {s[j] : j \in DOMAIN s})),
                    m + 1, UpTo(names, n))
PROOF
<1> DEFINE all == UpTo(names, n)
           left == all \ UpTo(s, m)
           f == FirstOf(left)
           t == Append(s, f)
<1>1. \A a \in all : \E i \in 1 .. n : a = names[i]
  BY DEF UpTo
<1>2. /\ \A a \in all : Rank[a] \in Nat
      /\ \A a, b \in all : Rank[a] = Rank[b] => a = b
  BY <1>1 DEF Distinct
<1>3. /\ Sq(s) /\ Len(s) = m /\ DOMAIN s = 1 .. m
      /\ \A j \in 1 .. m : s[j] \in all
      /\ \A j, k \in 1 .. m : j < k => Rank[s[j]] < Rank[s[k]]
      /\ \A j \in 1 .. m : \A a \in all \ UpTo(s, m) : Rank[s[j]] < Rank[a]
  BY SqIs DEF SortedUpTo
<1>4. IsFiniteSet(all) /\ Cardinality(all) = n
  <2>1. \A i, j \in 1 .. n : names[i] = names[j] => i = j
    BY DEF Distinct
  <2>2. n \in 0 .. n
    OBVIOUS
  <2>. QED BY <2>1, <2>2, UpToCount
<1>5. Cardinality(UpTo(s, m)) = m
  <2>1. \A i, j \in 1 .. m : s[i] = s[j] => i = j
    <3> SUFFICES ASSUME NEW i \in 1 .. m, NEW j \in 1 .. m, s[i] = s[j], i # j
                 PROVE  FALSE
      OBVIOUS
    <3>1. Rank[s[i]] \in Nat /\ Rank[s[j]] \in Nat
      BY <1>2, <1>3
    <3>2. i < j \/ j < i
      OBVIOUS
    <3>. QED BY <1>3, <3>1, <3>2
  <2>2. m \in 0 .. m
    OBVIOUS
  <2>. QED BY <2>1, <2>2, UpToCount
<1>6. left # {}
  <2> SUFFICES ASSUME left = {} PROVE FALSE
    OBVIOUS
  <2>1. UpTo(s, m) \subseteq all
    BY <1>3 DEF UpTo
  <2>2. UpTo(s, m) = all
    BY <2>1
  <2>. QED BY <1>4, <1>5, <2>2
<1>7. f \in left /\ \A a \in left \ {f} : Rank[f] < Rank[a]
  <2>1. left \subseteq all
    OBVIOUS
  <2> HIDE DEF left
  <2>. QED BY <1>2, <1>6, <2>1, FirstIs
<1>8. {s[j] : j \in DOMAIN s} = UpTo(s, m)
  BY <1>3 DEF UpTo
<1>9. /\ Sq(t) /\ Len(t) = m + 1
      /\ \A j \in 1 .. m : t[j] = s[j]
      /\ t[m + 1] = f
  <2>1. /\ Sq(t) /\ Len(t) = Len(s) + 1
        /\ \A j \in 1 .. Len(s) : t[j] = s[j]
        /\ t[Len(s) + 1] = f
    <3>1. Longer(t, s, f)
      BY DEF Longer
    <3>2. Sq(s)
      BY <1>3
    <3> HIDE DEF t, f
    <3>. QED BY <3>1, <3>2, LongerList
  <2> HIDE DEF t, f
  <2>. QED BY <1>3, <2>1
<1>10. UpTo(t, m + 1) = UpTo(s, m) \cup {f}
  <2> HIDE DEF t, f
  <2>. QED BY <1>9 DEF UpTo
<1> HIDE DEF t, f, left
<1>11. \A j \in 1 .. m + 1 : t[j] \in all
  <2>1. f \in all
    BY <1>7 DEF left
  <2>. QED BY <1>3, <1>9, <2>1
<1>12. ASSUME NEW j \in 1 .. m + 1, NEW k \in 1 .. m + 1, j < k
       PROVE  Rank[t[j]] < Rank[t[k]]
  <2>1. CASE k = m + 1
    <3>1. j \in 1 .. m /\ t[j] = s[j] /\ t[k] = f /\ f \in all \ UpTo(s, m)
      BY <1>7, <1>9, <1>12, <2>1 DEF left
    <3>. QED BY <1>3, <3>1
  <2>2. CASE k # m + 1
    <3>1. j \in 1 .. m /\ k \in 1 .. m /\ t[j] = s[j] /\ t[k] = s[k]
      BY <1>9, <1>12, <2>2
    <3>. QED BY <1>3, <1>12, <3>1
  <2>. QED BY <2>1, <2>2
<1>13. ASSUME NEW j \in 1 .. m + 1, NEW a \in all \ UpTo(t, m + 1)
       PROVE  Rank[t[j]] < Rank[a]
  <2>1. a \in all \ UpTo(s, m) /\ a \in left \ {f}
    BY <1>10 DEF left
  <2>2. CASE j = m + 1
    BY <1>7, <1>9, <2>1, <2>2
  <2>3. CASE j # m + 1
    <3>1. j \in 1 .. m /\ t[j] = s[j]
      BY <1>9, <2>3
    <3>. QED BY <1>3, <2>1, <3>1
  <2>. QED BY <2>2, <2>3
<1>14. SortedUpTo(t, m + 1, all)
  <2> HIDE DEF all
  <2>. QED BY <1>9, <1>11, <1>12, <1>13 DEF SortedUpTo
<1>. QED BY <1>8, <1>14 DEF t, f, left

\* The recursion of Sorted has a solution, which sorts one more name at a time.
LEMMA SortedSorts ==
  ASSUME NEW n \in Nat, NEW names, Distinct(names, n)
  PROVE  SortedUpTo(Sorted(names), n, UpTo(names, n))
PROOF
<1> DEFINE all == UpTo(names, n)
           Next1(done) == Append(done, FirstOf(all \ {done[j] : j \in DOMAIN done}))
           Solves(g, m) == g = [i \in 0 .. m |-> IF i = 0 THEN <<>>
                                                 ELSE Next1(g[i - 1])]
           sorted == CHOOSE g : Solves(g, n)
           E == {m \in Nat : \E g : Solves(g, m)}
<1>1. Len(names) = n /\ {names[j] : j \in DOMAIN names} = all
  BY DEF Distinct, UpTo
<1>2. Sorted(names) = sorted[n]
  BY <1>1 DEF Sorted
<1> HIDE DEF all, Next1
<1>3. 0 \in E
  <2>1. Solves([i \in 0 .. 0 |-> <<>>], 0)
    OBVIOUS
  <2>. QED BY <2>1
<1>4. ASSUME NEW m \in Nat, m \in E PROVE m + 1 \in E
  <2>1. PICK g : Solves(g, m)
    BY <1>4
  <2> DEFINE h == [i \in 0 .. m + 1 |-> IF i = m + 1 THEN Next1(g[m]) ELSE g[i]]
  <2>2. ASSUME NEW i \in 0 .. m + 1
        PROVE  h[i] = IF i = 0 THEN <<>> ELSE Next1(h[i - 1])
    <3>1. CASE i = m + 1
      <4>1. h[i] = Next1(g[m]) /\ h[i - 1] = g[m] /\ i # 0
        BY <3>1
      <4>. QED BY <3>1, <4>1
    <3>2. CASE i \in 0 .. m
      <4>1. h[i] = g[i] /\ (i # 0 => h[i - 1] = g[i - 1])
        BY <3>2
      <4>2. g[i] = IF i = 0 THEN <<>> ELSE Next1(g[i - 1])
        BY <2>1, <3>2
      <4>. QED BY <4>1, <4>2
    <3>. QED BY <3>1, <3>2
  <2>3. Solves(h, m + 1)
    BY <2>2
  <2> HIDE DEF h, Solves
  <2>. QED BY <2>3
<1>5. n \in E
  <2> HIDE DEF E
  <2>. QED BY <1>3, <1>4, SetInduction
<1>6. Solves(sorted, n)
  BY <1>5
<1>7. sorted[0] = <<>> /\ \A i \in 1 .. n : sorted[i] = Next1(sorted[i - 1])
  <2> HIDE DEF sorted
  <2>. QED BY <1>6
<1> HIDE DEF sorted
<1> DEFINE T == {m \in Nat : m <= n => SortedUpTo(sorted[m], m, all)}
<1>8. 0 \in T
  BY <1>7, SqNone DEF SortedUpTo
<1>9. ASSUME NEW m \in Nat, m \in T PROVE m + 1 \in T
  <2> SUFFICES ASSUME m + 1 <= n PROVE SortedUpTo(sorted[m + 1], m + 1, all)
    OBVIOUS
  <2>1. m < n /\ m + 1 \in 1 .. n /\ (m + 1) - 1 = m
    OBVIOUS
  <2>2. SortedUpTo(sorted[m], m, all)
    BY <1>9, <2>1
  <2>3. SortedUpTo(Next1(sorted[m]), m + 1, all)
    BY <2>1, <2>2, SortedNext DEF Next1, all
  <2>. QED BY <1>7, <2>1, <2>3
<1>10. n \in T
  <2> HIDE DEF T
  <2>. QED BY <1>8, <1>9, SetInduction
<1>. QED BY <1>2, <1>10 DEF all

\* The flags are sorted: every name is behind those that come before it in the
\* order of strcmp, and only those (list_cpu_features.c:181-227).
THEOREM SortedInOrder ==
  ASSUME NEW n \in Nat, NEW names, Distinct(names, n)
  PROVE  /\ Sorted(names) = InOrder(names)
         /\ DOMAIN InOrder(names) = 1 .. n
         /\ \A i \in 1 .. n : InOrder(names)[i] \in UpTo(names, n)
PROOF
<1> DEFINE all == UpTo(names, n)
           s == Sorted(names)
           before(a) == {b \in all : Rank[b] < Rank[a]}
<1>1. /\ Sq(s) /\ Len(s) = n /\ DOMAIN s = 1 .. n /\ s = [i \in 1 .. n |-> s[i]]
      /\ \A j \in 1 .. n : s[j] \in all
      /\ \A j, k \in 1 .. n : j < k => Rank[s[j]] < Rank[s[k]]
  BY SortedSorts, SqIs DEF SortedUpTo
<1> HIDE DEF s
<1>2. \A a \in all : Rank[a] \in Nat
  BY DEF UpTo, Distinct
<1>3. \A i, j \in 1 .. n : s[i] = s[j] => i = j
  <2> SUFFICES ASSUME NEW i \in 1 .. n, NEW j \in 1 .. n, s[i] = s[j], i # j
               PROVE  FALSE
    OBVIOUS
  <2>1. Rank[s[i]] \in Nat /\ Rank[s[j]] \in Nat
    BY <1>1, <1>2
  <2>2. i < j \/ j < i
    OBVIOUS
  <2>. QED BY <1>1, <2>1, <2>2
<1>4. UpTo(s, n) = all
  <2>1. n \in 0 .. n
    OBVIOUS
  <2>2. IsFiniteSet(UpTo(s, n)) /\ Cardinality(UpTo(s, n)) = n
    BY <1>3, <2>1, UpToCount
  <2>3. IsFiniteSet(all) /\ Cardinality(all) = n
    <3>1. \A i, j \in 1 .. n : names[i] = names[j] => i = j
      BY DEF Distinct
    <3>. QED BY <2>1, <3>1, UpToCount
  <2>4. UpTo(s, n) \in SUBSET all
    BY <1>1 DEF UpTo
  <2> HIDE DEF all
  <2>. QED BY <2>2, <2>3, <2>4, FS_Subset
<1>5. ASSUME NEW i \in 1 .. n PROVE Cardinality(before(s[i])) = i - 1
  <2>1. before(s[i]) = UpTo(s, i - 1)
    <3>1. ASSUME NEW a \in before(s[i]) PROVE a \in UpTo(s, i - 1)
      <4>1. PICK j \in 1 .. n : a = s[j]
        BY <1>4, <3>1 DEF UpTo
      <4>2. Rank[s[j]] < Rank[s[i]] /\ Rank[s[j]] \in Nat /\ Rank[s[i]] \in Nat
        BY <1>1, <1>2, <3>1, <4>1
      <4>3. j < i
        <5>1. CASE j = i
          BY <4>2, <5>1
        <5>2. CASE i < j
          <6>1. Rank[s[i]] < Rank[s[j]]
            BY <1>1, <5>2
          <6>. QED BY <4>2, <6>1
        <5>. QED BY <5>1, <5>2
      <4>. QED BY <4>1, <4>3 DEF UpTo
    <3>2. ASSUME NEW a \in UpTo(s, i - 1) PROVE a \in before(s[i])
      <4>1. PICK j \in 1 .. i - 1 : a = s[j]
        BY <3>2 DEF UpTo
      <4>2. j \in 1 .. n /\ j < i
        OBVIOUS
      <4>. QED BY <1>1, <4>1, <4>2
    <3>. QED BY <3>1, <3>2
  <2>2. i - 1 \in 0 .. n
    OBVIOUS
  <2>. QED BY <1>3, <2>1, <2>2, UpToCount
<1>6. ASSUME NEW i \in 1 .. n
      PROVE  (CHOOSE a \in all : Cardinality(before(a)) = i - 1) = s[i]
  <2>1. s[i] \in all /\ Cardinality(before(s[i])) = i - 1
    BY <1>1, <1>5
  <2>2. ASSUME NEW a \in all, Cardinality(before(a)) = i - 1 PROVE a = s[i]
    <3>1. PICK j \in 1 .. n : a = s[j]
      BY <1>4 DEF UpTo
    <3>2. Cardinality(before(s[j])) = j - 1
      BY <1>5
    <3> HIDE DEF before
    <3>. QED BY <2>2, <3>1, <3>2
  <2> HIDE DEF all, before
  <2>. QED BY <2>1, <2>2, Zenon
<1>7. {names[j] : j \in DOMAIN names} = all /\ DOMAIN names = 1 .. n
  BY DEF Distinct, UpTo
<1> DEFINE place(S, i) ==
             CHOOSE a \in S : Cardinality({b \in S : Rank[b] < Rank[a]}) = i - 1
           at(i) == place(all, i)
<1>8. InOrder(names) = [i \in 1 .. n |-> at(i)]
  <2> DEFINE S == {names[j] : j \in DOMAIN names}
  <2>1. InOrder(names) = [i \in DOMAIN names |-> place(S, i)]
    BY DEF InOrder
  <2> HIDE DEF place
  <2>. QED BY <1>7, <2>1
<1>9. InOrder(names) = s
  <2>1. \A i \in 1 .. n : at(i) = s[i]
    BY <1>6
  <2> HIDE DEF at
  <2>2. [i \in 1 .. n |-> at(i)] = [i \in 1 .. n |-> s[i]]
    BY <2>1
  <2>. QED BY <1>1, <1>8, <2>2, Zenon
<1>10. DOMAIN s = 1 .. n /\ \A j \in 1 .. n : s[j] \in all
  BY <1>1
<1>. QED BY <1>9, <1>10 DEF s
-------------------------------------------------------------------------------
\* A value, and then what is hung under it.
LEMMA PushMore ==
  ASSUME NEW s, NEW t, NEW kind, NEW ms, NEW ns, Sq(ms),
         Push(s, Container(kind, ms)), Grow(t, kind, ns)
  PROVE  /\ Push(s \o t, Container(kind, ms \o ns))
         /\ ms = <<>> => Push(s \o t, Container(kind, ns))
<1> DEFINE v == Container(kind, ms)
<1>1. v.kind = kind /\ More(v, ns) = Container(kind, ms \o ns)
  BY DEF Container, More
<1>2. Push(s \o t, More(v, ns))
  <2> HIDE DEF v
  <2>1. Push(s, v)
    BY DEF v
  <2>. QED BY <1>1, <2>1, PushGrow
<1>3. Sq(ns)
  BY DEF Grow
<1>4. ms = <<>> => ms \o ns = ns
  BY <1>3, SqEmpty
<1> HIDE DEF v
<1>. QED BY <1>1, <1>2, <1>4

LEMMA Kinds ==
  /\ \A n : Integer(n).kind = "int"
  /\ \A text : Text(text).kind = "string"
  /\ \A kind, ms : Container(kind, ms).kind = kind
BY DEF Integer, Text, Leaf, Container

\* An entry of each kind of scalar.
LEMMA EntryInt ==
  ASSUME NEW key, NEW n
  PROVE  Grow(AddMapEntry(key, CreateInt(n)), "map", Entry(key, Integer(n)))
<1>1. Integer(n).kind # "text"
  BY Kinds
<1>. QED BY <1>1, PushInt, PushEntry

LEMMA EntryWord ==
  ASSUME NEW key, NEW word
  PROVE  Grow(AddMapEntry(key, CreateConstantString(word)), "map",
              Entry(key, Text(<<word>>)))
<1>1. Text(<<word>>).kind # "text"
  BY Kinds
<1>. QED BY <1>1, PushConstant, PushEntry

LEMMA EntryString ==
  ASSUME NEW key, NEW text
  PROVE  Grow(AddMapEntry(key, CreateString(text)), "map", Entry(key, Text(text)))
<1>1. Text(text).kind # "text"
  BY Kinds
<1>. QED BY <1>1, PushString, PushEntry

LEMMA GrowEntries ==
  ASSUME NEW s, NEW t, NEW ms, NEW ns,
         Push(s, Container("map", ms)), Sq(ms), Grow(t, "map", ns)
  PROVE  Push(s \o t, Container("map", ms \o ns)) /\ Sq(ms \o ns)
<1>1. Sq(ns)
  BY DEF Grow
<1>. QED BY <1>1, PushMore, SqJoined

\* An array of what the parts hang under it.
LEMMA ArrayGrows ==
  ASSUME NEW n \in Nat, NEW f, Listed(f, n), NEW ms, Listed(ms, n), NEW key,
         \A k \in 1 .. n : Grow(f[k], "array", <<ms[k]>>)
  PROVE  Grow(AddMapEntry(key, CreateArray \o Concat(f)), "map",
              Entry(key, Container("array", ms)))
<1>1. Grow(Concat(f), "array", ms)
  BY GrowConcat
<1>2. Push(CreateArray \o Concat(f), Container("array", ms))
  BY <1>1, PushContainer, SqNone, PushMore
<1>3. Container("array", ms).kind # "text"
  BY Kinds
<1>. QED BY <1>2, <1>3, PushEntry

\* The flags of a processor, its cache levels and its fields.
LEMMA FlagsGrow ==
  ASSUME NEW n \in Nat, NEW flags, Distinct(flags, n)
  PROVE  Grow(AddFlags(flags), "map",
              Entry("flags",
                Container("array",
                  [k \in DOMAIN InOrder(flags) |->
                     Element(Text(<<InOrder(flags)[k]>>))])))
PROOF
<1> DEFINE ptrs == Sorted(flags)
           element(i) == AddArrayElement(CreateConstantString(ptrs[i]))
           f == [i \in 1 .. n |-> element(i)]
           ms == [i \in 1 .. n |-> Element(Text(<<ptrs[i]>>))]
<1>1. Listed(f, n) /\ Listed(ms, n)
  BY DEF Listed
<1>2. DOMAIN flags = 1 .. n
  BY DEF Distinct
<1>3. DOMAIN InOrder(flags) = 1 .. n /\ InOrder(flags) = ptrs
  BY SortedInOrder
<1>4. AddFlags(flags) = AddMapEntry("flags", CreateArray \o Concat(f))
  BY <1>2 DEF AddFlags
<1>5. [k \in DOMAIN InOrder(flags) |-> Element(Text(<<InOrder(flags)[k]>>))] = ms
  BY <1>3
<1>6. ASSUME NEW k \in 1 .. n PROVE Grow(f[k], "array", <<ms[k]>>)
  <2> DEFINE x == Text(<<ptrs[k]>>)
             ops == CreateConstantString(ptrs[k])
  <2>1. f[k] = AddArrayElement(ops) /\ ms[k] = Element(x)
    OBVIOUS
  <2>2. Push(ops, x) /\ x.kind # "text"
    BY PushConstant, Kinds
  <2> HIDE DEF x, ops, f, ms
  <2>. QED BY <2>1, <2>2, PushElement
<1> HIDE DEF f, ms
<1>7. Grow(AddMapEntry("flags", CreateArray \o Concat(f)), "map",
           Entry("flags", Container("array", ms)))
  BY <1>1, <1>6, ArrayGrows
<1>. QED BY <1>4, <1>5, <1>7

LEMMA LevelGrows ==
  ASSUME NEW level
  PROVE  Grow(AddCacheLevel(level), "array", <<Element(LevelValue(level))>>)
PROOF
<1> DEFINE t1 == AddMapEntry("level", CreateInt(level.level))
           t2 == AddMapEntry("cache_type", CreateConstantString(level.cache_type))
           t3 == AddMapEntry("cache_size", CreateInt(level.cache_size))
           t4 == AddMapEntry("ways", CreateInt(level.ways))
           t5 == AddMapEntry("line_size", CreateInt(level.line_size))
           t6 == AddMapEntry("tlb_entries", CreateInt(level.tlb_entries))
           t7 == AddMapEntry("partitioning", CreateInt(level.partitioning))
           e1 == Entry("level", Integer(level.level))
           e2 == Entry("cache_type", Text(<<level.cache_type>>))
           e3 == Entry("cache_size", Integer(level.cache_size))
           e4 == Entry("ways", Integer(level.ways))
           e5 == Entry("line_size", Integer(level.line_size))
           e6 == Entry("tlb_entries", Integer(level.tlb_entries))
           e7 == Entry("partitioning", Integer(level.partitioning))
<1>1. /\ Grow(t1, "map", e1) /\ Grow(t2, "map", e2) /\ Grow(t3, "map", e3)
      /\ Grow(t4, "map", e4) /\ Grow(t5, "map", e5) /\ Grow(t6, "map", e6)
      /\ Grow(t7, "map", e7)
  BY EntryInt, EntryWord
<1> DEFINE s7 == CreateMap \o t1 \o t2 \o t3 \o t4 \o t5 \o t6 \o t7
           m7 == e1 \o e2 \o e3 \o e4 \o e5 \o e6 \o e7
<1>2. AddCacheLevel(level) = AddArrayElement(s7)
  BY DEF AddCacheLevel
<1>3. LevelValue(level) = Container("map", m7)
  BY DEF LevelValue
<1> HIDE DEF t1, t2, t3, t4, t5, t6, t7, e1, e2, e3, e4, e5, e6, e7
<1>4. Push(CreateMap \o t1, Container("map", e1)) /\ Sq(e1)
  <2>1. Sq(e1)
    BY <1>1 DEF Grow
  <2>. QED BY <1>1, <2>1, PushContainer, SqNone, PushMore
<1> DEFINE s1 == CreateMap \o t1
           s2 == s1 \o t2
           s3 == s2 \o t3
           s4 == s3 \o t4
           s5 == s4 \o t5
           s6 == s5 \o t6
           m2 == e1 \o e2
           m3 == m2 \o e3
           m4 == m3 \o e4
           m5 == m4 \o e5
           m6 == m5 \o e6
<1>5. s7 = s6 \o t7 /\ m7 = m6 \o e7
  OBVIOUS
<1> HIDE DEF s7, m7, s1
<1>6. Push(s2, Container("map", m2)) /\ Sq(m2)
  BY <1>1, <1>4, GrowEntries DEF s1
<1> HIDE DEF s2, m2
<1>7. Push(s3, Container("map", m3)) /\ Sq(m3)
  BY <1>1, <1>6, GrowEntries
<1> HIDE DEF s3, m3
<1>8. Push(s4, Container("map", m4)) /\ Sq(m4)
  BY <1>1, <1>7, GrowEntries
<1> HIDE DEF s4, m4
<1>9. Push(s5, Container("map", m5)) /\ Sq(m5)
  BY <1>1, <1>8, GrowEntries
<1> HIDE DEF s5, m5
<1>10. Push(s6, Container("map", m6)) /\ Sq(m6)
  BY <1>1, <1>9, GrowEntries
<1> HIDE DEF s6, m6
<1>11. Push(s7, Container("map", m7))
  BY <1>1, <1>5, <1>10, GrowEntries
<1>12. Container("map", m7).kind # "text"
  BY Kinds
<1>. QED BY <1>2, <1>3, <1>11, <1>12, PushElement

LEMMA CacheGrows ==
  ASSUME NEW n \in Nat, NEW levels, DOMAIN levels = 1 .. n
  PROVE  Grow(AddCacheInfo(levels), "map",
              Entry("cache_info",
                Container("array",
                  [k \in DOMAIN levels |-> Element(LevelValue(levels[k]))])))
PROOF
<1> DEFINE f == [i \in 1 .. n |-> AddCacheLevel(levels[i])]
           ms == [i \in 1 .. n |-> Element(LevelValue(levels[i]))]
<1>1. Listed(f, n) /\ Listed(ms, n)
  BY DEF Listed
<1>2. AddCacheInfo(levels) = AddMapEntry("cache_info", CreateArray \o Concat(f))
  BY DEF AddCacheInfo
<1>3. [k \in DOMAIN levels |-> Element(LevelValue(levels[k]))] = ms
  OBVIOUS
<1>4. ASSUME NEW k \in 1 .. n PROVE Grow(f[k], "array", <<ms[k]>>)
  BY LevelGrows
<1> HIDE DEF f, ms
<1>5. Grow(AddMapEntry("cache_info", CreateArray \o Concat(f)), "map",
           Entry("cache_info", Container("array", ms)))
  BY <1>1, <1>4, ArrayGrows
<1>. QED BY <1>2, <1>3, <1>5

LEMMA FieldsGrow ==
  ASSUME NEW i, NEW n \in Nat, NEW keys, DOMAIN keys = 1 .. n
  PROVE  Grow(Concat([k \in DOMAIN keys |->
                AddMapEntry(keys[k], IF IsString(i.arch, keys[k])
                                     THEN CreateString(i.string[keys[k]])
                                     ELSE CreateInt(i.number[keys[k]]))]),
              "map",
              [k \in DOMAIN keys |-> <<<<keys[k]>>, FieldValue(i, keys[k])>>])
PROOF
<1> DEFINE value(key) == IF IsString(i.arch, key)
                         THEN CreateString(i.string[key])
                         ELSE CreateInt(i.number[key])
           f == [k \in 1 .. n |-> AddMapEntry(keys[k], value(keys[k]))]
           ms == [k \in 1 .. n |-> <<<<keys[k]>>, FieldValue(i, keys[k])>>]
<1>1. ASSUME NEW key
      PROVE  Grow(AddMapEntry(key, value(key)), "map",
                  Entry(key, FieldValue(i, key)))
  <2>1. CASE IsString(i.arch, key)
    <3>1. value(key) = CreateString(i.string[key])
          /\ FieldValue(i, key) = Text(i.string[key])
      BY <2>1 DEF FieldValue
    <3> HIDE DEF value
    <3>. QED BY <3>1, EntryString
  <2>2. CASE ~IsString(i.arch, key)
    <3>1. value(key) = CreateInt(i.number[key])
          /\ FieldValue(i, key) = Integer(i.number[key])
      BY <2>2 DEF FieldValue
    <3> HIDE DEF value
    <3>. QED BY <3>1, EntryInt
  <2>. QED BY <2>1, <2>2
<1> HIDE DEF value
<1>2. Listed(f, n) /\ Listed(ms, n)
  BY DEF Listed
<1>3. ASSUME NEW k \in 1 .. n PROVE Grow(f[k], "map", <<ms[k]>>)
  <2>1. f[k] = AddMapEntry(keys[k], value(keys[k]))
    OBVIOUS
  <2>2. <<ms[k]>> = Entry(keys[k], FieldValue(i, keys[k]))
    BY DEF Entry
  <2> HIDE DEF f, ms
  <2>. QED BY <1>1, <2>1, <2>2
<1> HIDE DEF f, ms
<1>4. Grow(Concat(f), "map", ms)
  BY <1>2, <1>3, GrowConcat
<1>. QED BY <1>4 DEF f, ms, value

\* The calls of CreateTree, made on any stack, push the value that the library
\* tells of the processor (list_cpu_features.c:114-227, 362-450).
THEOREM TreePushes == ASSUME NEW i \in Infos PROVE Push(CreateTree(i), ValueOf(i))
PROOF
<1> DEFINE keys == Fields[i.arch]
           fields == Concat([k \in DOMAIN keys |->
                        AddMapEntry(keys[k], IF IsString(i.arch, keys[k])
                                             THEN CreateString(i.string[keys[k]])
                                             ELSE CreateInt(i.number[keys[k]]))])
           name == AddMapEntry("arch", CreateString(i.name))
           flags == AddFlags(i.flags)
           levels == IF i.arch = "x86" THEN AddCacheInfo(i.levels) ELSE <<>>
           e1 == Entry("arch", Text(i.name))
           e2 == [k \in DOMAIN keys |-> <<<<keys[k]>>, FieldValue(i, keys[k])>>]
           e3 == Entry("flags",
                   Container("array",
                     [k \in DOMAIN InOrder(i.flags) |->
                        Element(Text(<<InOrder(i.flags)[k]>>))]))
           e4 == IF i.arch = "x86"
                 THEN Entry("cache_info",
                        Container("array",
                          [k \in DOMAIN i.levels |->
                             Element(LevelValue(i.levels[k]))]))
                 ELSE <<>>
<1>1. CreateTree(i) = (((CreateMap \o name) \o fields) \o flags) \o levels
  BY DEF CreateTree
<1>2. ValueOf(i) = Container("map", ((e1 \o e2) \o e3) \o e4)
  BY DEF ValueOf
<1>3. Grow(name, "map", e1)
  BY EntryString
<1>4. Grow(fields, "map", e2)
  <2>1. i.arch \in DOMAIN Fields
    BY LimitAssumption
  <2>2. PICK n \in 0 .. 6 : DOMAIN keys = 1 .. n
    BY <2>1, FieldsLimited
  <2>3. n \in Nat
    OBVIOUS
  <2> HIDE DEF keys
  <2>. QED BY <2>2, <2>3, FieldsGrow, Zenon
<1>5. Grow(flags, "map", e3)
  <2>1. PICK m \in 0 .. MAX_FLAGS : DOMAIN i.flags = 1 .. m
    BY LimitAssumption
  <2>2. \A j, k \in DOMAIN i.flags :
          /\ Rank[i.flags[j]] \in Nat
          /\ Rank[i.flags[j]] = Rank[i.flags[k]] => j = k
    BY NameAssumption
  <2>3. Distinct(i.flags, m)
    BY <2>1, <2>2 DEF Distinct
  <2>4. m \in Nat
    BY DEF MAX_FLAGS
  <2>. QED BY <2>3, <2>4, FlagsGrow
<1>6. Grow(levels, "map", e4)
  <2>1. PICK m \in 0 .. CPU_FEATURES_MAX_CACHE_LEVEL : DOMAIN i.levels = 1 .. m
    BY LimitAssumption
  <2>2. m \in Nat
    BY DEF CPU_FEATURES_MAX_CACHE_LEVEL
  <2>3. CASE i.arch = "x86"
    BY <2>1, <2>2, <2>3, CacheGrows
  <2>4. CASE i.arch # "x86"
    BY <2>4, GrowNone
  <2>. QED BY <2>3, <2>4
<1> HIDE DEF name, fields, flags, levels, e1, e2, e3, e4
<1>7. Push(CreateMap \o name, Container("map", e1)) /\ Sq(e1)
  <2>1. Sq(e1)
    BY <1>3 DEF Grow
  <2>. QED BY <1>3, <2>1, PushContainer, SqNone, PushMore
<1>8. /\ Push((CreateMap \o name) \o fields, Container("map", e1 \o e2))
      /\ Sq(e1 \o e2)
  BY <1>4, <1>7, GrowEntries
<1>9. /\ Push(((CreateMap \o name) \o fields) \o flags,
              Container("map", (e1 \o e2) \o e3))
      /\ Sq((e1 \o e2) \o e3)
  BY <1>5, <1>8, GrowEntries
<1>10. Push((((CreateMap \o name) \o fields) \o flags) \o levels,
            Container("map", ((e1 \o e2) \o e3) \o e4))
  BY <1>6, <1>9, GrowEntries
<1>. QED BY <1>1, <1>2, <1>10
-------------------------------------------------------------------------------
(***************************************************************************)
(* The nodes of a heap: each is at place Q[a] of the list P[W[a]] that     *)
(* begins with its owner W[a], a node that is no entry, whose value is     *)
(* V[W[a]].                                                                *)
(***************************************************************************)
IsEntry(node) == node.type \in {"NT_MAP_ENTRY", "NT_ARRAY_ELEMENT"}
Owners(h) == {a \in DOMAIN h : ~IsEntry(h[a])}

\* A node is where its list says, and its next is what follows it there.
Placed(h, P, W, Q) ==
  \A a \in DOMAIN h :
    /\ W[a] \in Owners(h)
    /\ Q[a] \in 1 .. Len(P[W[a]])
    /\ P[W[a]][Q[a]] = a
    /\ h[a].next = IF Q[a] = Len(P[W[a]]) THEN NULL ELSE P[W[a]][Q[a] + 1]
    /\ IF IsEntry(h[a]) THEN Q[a] > 1 ELSE W[a] = a /\ Q[a] = 1

\* The list of an owner is of nodes that are its own.
Chained(h, P, W, Q) ==
  \A a \in Owners(h) :
    /\ Sq(P[a])
    /\ \A i \in 1 .. Len(P[a]) :
         P[a][i] \in DOMAIN h /\ W[P[a][i]] = a /\ Q[P[a][i]] = i

\* A value is younger than what its entry was appended to.
HungYounger(h, P, W, Q) ==
  \A a \in DOMAIN h :
    IsEntry(h[a]) =>
      /\ h[a].value \in Owners(h)
      /\ P[W[a]][Q[a] - 1] < h[a].value
      /\ h[a].value < a

StringIn(t, node) == IF node.printed = NULL THEN node.string ELSE t[node.printed]
\* The kind of a node, its number and its string are those of its value.
Shows(node, t, v) ==
  \/ node.type = "NT_INT" /\ v.kind = "int" /\ node.integer = v.number
  \/ /\ node.type = "NT_STRING" /\ v.kind = "string"
     /\ StringIn(t, node) = v.text
     /\ node.printed # NULL => node.printed \in DOMAIN t
  \/ node.type = "NT_MAP" /\ v.kind = "map"
  \/ node.type = "NT_ARRAY" /\ v.kind = "array"
EntryType(kind) == IF kind = "map" THEN "NT_MAP_ENTRY" ELSE "NT_ARRAY_ELEMENT"
Holds(node, V, kind, member) ==
  node.type = EntryType(kind) /\ member = <<node.string, V[node.value]>>

\* The entries in the list of an owner hold the members of its value, in order.
Told(h, t, P, V) ==
  \A a \in Owners(h) :
    /\ IsValue(V[a]) /\ Shows(h[a], t, V[a])
    /\ Len(V[a].members) = Len(P[a]) - 1
    /\ \A i \in 1 .. Len(P[a]) - 1 :
         Holds(h[P[a][i + 1]], V, V[a].kind, V[a].members[i])

Tree(h, t, P, W, Q, V) ==
  /\ Placed(h, P, W, Q) /\ Chained(h, P, W, Q) /\ HungYounger(h, P, W, Q)
  /\ Told(h, t, P, V)

\* The first node in the list of an owner is the owner.
LEMMA OwnerFirst ==
  ASSUME NEW h, NEW P, NEW W, NEW Q, Placed(h, P, W, Q), Chained(h, P, W, Q),
         NEW a \in Owners(h)
  PROVE  Len(P[a]) \in Nat /\ Len(P[a]) >= 1 /\ P[a][1] = a /\ Sq(P[a])
<1>1. a \in DOMAIN h /\ ~IsEntry(h[a])
  BY DEF Owners
<1>2. Sq(P[a])
  BY DEF Chained
<1>3. Len(P[a]) \in Nat
  BY <1>2, SqIs
<1>4. W[a] = a /\ Q[a] = 1 /\ Q[a] \in 1 .. Len(P[W[a]]) /\ P[W[a]][Q[a]] = a
  BY <1>1 DEF Placed
<1>. QED BY <1>2, <1>3, <1>4

\* A value without members, for a node that is new in the heap.
IsNew(v) == IsValue(v) /\ v.members = <<>>
TellsNew(h, P, V, p, v, P2, V2) ==
  /\ P2[p] = <<p>> /\ V2[p] = v
  /\ \A a \in DOMAIN h : P2[a] = P[a] /\ V2[a] = V[a]

\* A node that is no entry is alone in its list.
LEMMA OwnerAdded ==
  ASSUME NEW h, NEW t, NEW P, NEW W, NEW Q, NEW V, Tree(h, t, P, W, Q, V),
         NEW p, p \notin DOMAIN h, NEW h2, DOMAIN h2 = DOMAIN h \cup {p},
         \A a \in DOMAIN h : h2[a] = h[a],
         ~IsEntry(h2[p]), h2[p].next = NULL,
         NEW v, IsNew(v), Shows(h2[p], t, v)
  PROVE  \E P2, W2, Q2, V2 :
           Tree(h2, t, P2, W2, Q2, V2) /\ TellsNew(h, P, V, p, v, P2, V2)
PROOF
<1> DEFINE P2 == [a \in DOMAIN h2 |-> IF a = p THEN <<p>> ELSE P[a]]
           W2 == [a \in DOMAIN h2 |-> IF a = p THEN p ELSE W[a]]
           Q2 == [a \in DOMAIN h2 |-> IF a = p THEN 1 ELSE Q[a]]
           V2 == [a \in DOMAIN h2 |-> IF a = p THEN v ELSE V[a]]
<1>1. P2[p] = <<p>> /\ W2[p] = p /\ Q2[p] = 1 /\ V2[p] = v
  OBVIOUS
<1>2. \A a \in DOMAIN h : /\ P2[a] = P[a] /\ W2[a] = W[a] /\ Q2[a] = Q[a]
                          /\ V2[a] = V[a] /\ a # p
  OBVIOUS
<1> HIDE DEF P2, W2, Q2, V2
<1>3. Owners(h2) = Owners(h) \cup {p} /\ Owners(h) \subseteq DOMAIN h
  BY DEF Owners
<1>4. Sq(<<p>>) /\ Len(<<p>>) = 1 /\ <<p>>[1] = p
  BY SqOne
<1>5. /\ Placed(h, P, W, Q) /\ Chained(h, P, W, Q) /\ HungYounger(h, P, W, Q)
      /\ Told(h, t, P, V)
  BY DEF Tree
<1>6. Placed(h2, P2, W2, Q2)
  <2>1. ASSUME NEW a \in DOMAIN h
        PROVE  /\ W2[a] \in Owners(h2)
               /\ Q2[a] \in 1 .. Len(P2[W2[a]])
               /\ P2[W2[a]][Q2[a]] = a
               /\ h2[a].next = IF Q2[a] = Len(P2[W2[a]]) THEN NULL
                               ELSE P2[W2[a]][Q2[a] + 1]
               /\ IF IsEntry(h2[a]) THEN Q2[a] > 1 ELSE W2[a] = a /\ Q2[a] = 1
    <3>1. /\ W[a] \in Owners(h)
          /\ Q[a] \in 1 .. Len(P[W[a]])
          /\ P[W[a]][Q[a]] = a
          /\ h[a].next = IF Q[a] = Len(P[W[a]]) THEN NULL ELSE P[W[a]][Q[a] + 1]
          /\ IF IsEntry(h[a]) THEN Q[a] > 1 ELSE W[a] = a /\ Q[a] = 1
      BY <1>5 DEF Placed
    <3>2. W2[a] = W[a] /\ Q2[a] = Q[a] /\ P2[W[a]] = P[W[a]] /\ h2[a] = h[a]
      BY <1>2, <1>3, <3>1
    <3>. QED BY <1>3, <3>1, <3>2
  <2>2. /\ W2[p] \in Owners(h2)
        /\ Q2[p] \in 1 .. Len(P2[W2[p]])
        /\ P2[W2[p]][Q2[p]] = p
        /\ h2[p].next = IF Q2[p] = Len(P2[W2[p]]) THEN NULL
                        ELSE P2[W2[p]][Q2[p] + 1]
        /\ IF IsEntry(h2[p]) THEN Q2[p] > 1 ELSE W2[p] = p /\ Q2[p] = 1
    BY <1>1, <1>3, <1>4
  <2>. QED BY <2>1, <2>2 DEF Placed
<1>7. Chained(h2, P2, W2, Q2)
  <2>1. ASSUME NEW a \in Owners(h)
        PROVE  /\ Sq(P2[a])
               /\ \A i \in 1 .. Len(P2[a]) : /\ P2[a][i] \in DOMAIN h2
                                             /\ W2[P2[a][i]] = a
                                             /\ Q2[P2[a][i]] = i
    BY <1>2, <1>3, <1>5 DEF Chained
  <2>2. /\ Sq(P2[p])
        /\ \A i \in 1 .. Len(P2[p]) : /\ P2[p][i] \in DOMAIN h2
                                      /\ W2[P2[p][i]] = p
                                      /\ Q2[P2[p][i]] = i
    BY <1>1, <1>4
  <2>. QED BY <1>3, <2>1, <2>2 DEF Chained
<1>8. HungYounger(h2, P2, W2, Q2)
  <2> SUFFICES ASSUME NEW a \in DOMAIN h2, IsEntry(h2[a])
               PROVE  /\ h2[a].value \in Owners(h2)
                      /\ P2[W2[a]][Q2[a] - 1] < h2[a].value
                      /\ h2[a].value < a
    BY DEF HungYounger
  <2>1. a \in DOMAIN h /\ h2[a] = h[a] /\ IsEntry(h[a])
    OBVIOUS
  <2>2. W[a] \in Owners(h)
    BY <1>5, <2>1 DEF Placed
  <2>3. W2[a] = W[a] /\ Q2[a] = Q[a] /\ P2[W[a]] = P[W[a]]
    BY <1>2, <1>3, <2>1, <2>2
  <2>. QED BY <1>3, <1>5, <2>1, <2>3 DEF HungYounger
<1>9. Told(h2, t, P2, V2)
  <2>1. ASSUME NEW a \in Owners(h)
        PROVE  /\ IsValue(V2[a]) /\ Shows(h2[a], t, V2[a])
               /\ Len(V2[a].members) = Len(P2[a]) - 1
               /\ \A i \in 1 .. Len(P2[a]) - 1 :
                    Holds(h2[P2[a][i + 1]], V2, V2[a].kind, V2[a].members[i])
    <3>1. a \in DOMAIN h /\ h2[a] = h[a] /\ P2[a] = P[a] /\ V2[a] = V[a]
      BY <1>2, <1>3
    <3>2. /\ IsValue(V[a]) /\ Shows(h[a], t, V[a])
          /\ Len(V[a].members) = Len(P[a]) - 1
      BY <1>5 DEF Told
    <3>3. Len(P[a]) \in Nat
      BY <1>5, OwnerFirst
    <3>4. ASSUME NEW i \in 1 .. Len(P[a]) - 1
          PROVE  Holds(h2[P[a][i + 1]], V2, V[a].kind, V[a].members[i])
      <4> DEFINE e == P[a][i + 1]
      <4>1. i + 1 \in 1 .. Len(P[a])
        BY <3>3
      <4>2. e \in DOMAIN h /\ W[e] = a /\ Q[e] = i + 1
        BY <1>5, <4>1 DEF Chained
      <4>3. Holds(h[e], V, V[a].kind, V[a].members[i])
        BY <1>5 DEF Told
      <4> HIDE DEF e
      <4>4. IsEntry(h[e])
        BY <4>3 DEF Holds, EntryType, IsEntry
      <4>5. h[e].value \in Owners(h)
        BY <1>5, <4>2, <4>4 DEF HungYounger
      <4>6. h2[e] = h[e] /\ V2[h[e].value] = V[h[e].value]
        BY <1>2, <1>3, <4>2, <4>5
      <4>7. Holds(h2[e], V2, V[a].kind, V[a].members[i])
        BY <4>3, <4>6 DEF Holds
      <4>. QED BY <4>7 DEF e
    <3>. QED BY <3>1, <3>2, <3>4
  <2>2. /\ IsValue(V2[p]) /\ Shows(h2[p], t, V2[p])
        /\ Len(V2[p].members) = Len(P2[p]) - 1
        /\ \A i \in 1 .. Len(P2[p]) - 1 :
             Holds(h2[P2[p][i + 1]], V2, V2[p].kind, V2[p].members[i])
    BY <1>1, <1>4, SqNone DEF IsNew
  <2>. QED BY <1>3, <2>1, <2>2 DEF Told
<1>10. Tree(h2, t, P2, W2, Q2, V2)
  BY <1>6, <1>7, <1>8, <1>9 DEF Tree
<1>11. TellsNew(h, P, V, p, v, P2, V2)
  BY <1>1, <1>2 DEF TellsNew
<1>. QED BY <1>10, <1>11
-------------------------------------------------------------------------------
\* Printing a text changes nothing for the nodes.
LEMMA TextAdded ==
  ASSUME NEW h, NEW t, NEW P, NEW W, NEW Q, NEW V, Tree(h, t, P, W, Q, V),
         NEW t2, DOMAIN t \subseteq DOMAIN t2, \A a \in DOMAIN t : t2[a] = t[a]
  PROVE  Tree(h, t2, P, W, Q, V)
<1>1. ASSUME NEW a \in Owners(h) PROVE Shows(h[a], t2, V[a])
  <2>1. Shows(h[a], t, V[a])
    BY DEF Tree, Told
  <2>. QED BY <2>1 DEF Shows, StringIn
<1>2. Told(h, t2, P, V)
  BY <1>1 DEF Tree, Told
<1>. QED BY <1>2 DEF Tree

\* Nodes that differ in what comes next, at most.
Alike(m, n) ==
  /\ m.type = n.type /\ m.integer = n.integer /\ m.string = n.string
  /\ m.printed = n.printed /\ m.value = n.value

LEMMA AlikeShows ==
  ASSUME NEW m, NEW n, Alike(m, n), NEW t
  PROVE  /\ IsEntry(m) <=> IsEntry(n)
         /\ \A v : Shows(m, t, v) <=> Shows(n, t, v)
         /\ \A V, kind, x : Holds(m, V, kind, x) <=> Holds(n, V, kind, x)
<1>1. IsEntry(m) <=> IsEntry(n)
  BY DEF Alike, IsEntry
<1>2. ASSUME NEW v PROVE Shows(m, t, v) <=> Shows(n, t, v)
  <2>1. StringIn(t, m) = StringIn(t, n)
    BY DEF Alike, StringIn
  <2>. QED BY <2>1 DEF Alike, Shows
<1>3. ASSUME NEW V, NEW kind, NEW x PROVE Holds(m, V, kind, x) <=> Holds(n, V, kind, x)
  BY DEF Alike, Holds
<1>. QED BY <1>1, <1>2, <1>3

JoinedTo(r, s, t) == r = s \o t

LEMMA JoinedList ==
  ASSUME NEW s, NEW t, NEW r, Sq(s), Sq(t), JoinedTo(r, s, t)
  PROVE  /\ Sq(r) /\ Len(r) = Len(s) + Len(t)
         /\ \A i \in 1 .. Len(s) : r[i] = s[i]
         /\ \A i \in 1 .. Len(t) : r[Len(s) + i] = t[i]
BY SqJoined DEF JoinedTo

\* The list of c has one node more, and its value one member more.
TellsMore(h, P, V, c, key, x, P2, V2) ==
  /\ V2[c] = More(V[c], << <<key, V[x]>> >>)
  /\ \A a \in Owners(h) : a # c => P2[a] = P[a] /\ V2[a] = V[a]

\* An entry goes to the end of the list of c, for a value x that is younger than
\* all of it and hangs nowhere yet, as the map or array c does.
LEMMA EntryAdded ==
  ASSUME NEW h, NEW t, NEW P, NEW W, NEW Q, NEW V, Tree(h, t, P, W, Q, V),
         DOMAIN h \subseteq Nat,
         NEW p, p \notin DOMAIN h, p # NULL, NEW h2, DOMAIN h2 = DOMAIN h \cup {p},
         NEW c \in Owners(h), V[c].kind \in {"map", "array"},
         NEW x \in Owners(h), x # c, P[c][Len(P[c])] < x, x < p,
         \A a \in DOMAIN h : IsEntry(h[a]) => h[a].value # c,
         \A a \in DOMAIN h : Alike(h2[a], h[a]),
         \A a \in DOMAIN h :
           h2[a].next = IF a = P[c][Len(P[c])] THEN p ELSE h[a].next,
         h2[p].type = EntryType(V[c].kind), h2[p].value = x, h2[p].next = NULL
  PROVE  \E P2, W2, Q2, V2 :
           /\ Tree(h2, t, P2, W2, Q2, V2)
           /\ TellsMore(h, P, V, c, h2[p].string, x, P2, V2)
PROOF
<1> DEFINE n == Len(P[c])
           l == P[c][n]
           m == << <<h2[p].string, V[x]>> >>
           P2 == [a \in DOMAIN h2 |-> IF a = c THEN Append(P[c], p) ELSE P[a]]
           W2 == [a \in DOMAIN h2 |-> IF a = p THEN c ELSE W[a]]
           Q2 == [a \in DOMAIN h2 |-> IF a = p THEN n + 1 ELSE Q[a]]
           V2 == [a \in DOMAIN h2 |-> IF a = c THEN More(V[c], m) ELSE V[a]]
<1>1. c \in DOMAIN h /\ x \in DOMAIN h /\ c # p /\ Owners(h) \subseteq DOMAIN h
  BY DEF Owners
<1>2. /\ P2[c] = Append(P[c], p) /\ W2[p] = c /\ Q2[p] = n + 1
      /\ V2[c] = More(V[c], m)
  BY <1>1
<1>3. \A a \in DOMAIN h : /\ W2[a] = W[a] /\ Q2[a] = Q[a] /\ a # p
                          /\ a # c => P2[a] = P[a] /\ V2[a] = V[a]
  OBVIOUS
<1>4. /\ Placed(h, P, W, Q) /\ Chained(h, P, W, Q) /\ HungYounger(h, P, W, Q)
      /\ Told(h, t, P, V)
  BY DEF Tree
<1>5. IsEntry(h2[p])
  BY DEF IsEntry, EntryType
<1>6. Owners(h2) = Owners(h)
  BY <1>5, AlikeShows DEF Owners
<1>7. n \in Nat /\ n >= 1 /\ P[c][1] = c /\ Sq(P[c])
  BY <1>4, OwnerFirst
<1>8. /\ Sq(P2[c]) /\ Len(P2[c]) = n + 1 /\ P2[c][n + 1] = p
      /\ \A i \in 1 .. n : P2[c][i] = P[c][i]
  <2> DEFINE r == P2[c]
             s == P[c]
  <2>1. Longer(r, s, p)
    BY <1>2 DEF Longer
  <2>2. Sq(s) /\ Len(s) = n
    BY <1>7
  <2> HIDE DEF r, s, n, l
  <2>3. /\ Sq(r) /\ Len(r) = n + 1 /\ r[n + 1] = p
        /\ \A i \in 1 .. n : r[i] = s[i]
    BY <2>1, <2>2, LongerList
  <2>. QED BY <2>3 DEF r, s
<1>9. l \in DOMAIN h /\ W[l] = c /\ Q[l] = n
  BY <1>4, <1>7 DEF Chained
<1>10. Sq(m) /\ Len(m) = 1 /\ m[1] = <<h2[p].string, V[x]>>
  <2> HIDE DEF m
  <2> DEFINE y == <<h2[p].string, V[x]>>
  <2>1. m = <<y>>
    BY DEF m
  <2> HIDE DEF y
  <2>2. Sq(m) /\ Len(m) = 1 /\ m[1] = y
    BY <2>1, SqOne
  <2>. QED BY <2>2 DEF y
<1> HIDE DEF P2, W2, Q2, V2, m
<1>11. Placed(h2, P2, W2, Q2)
  <2>1. ASSUME NEW a \in DOMAIN h
        PROVE  /\ W2[a] \in Owners(h2)
               /\ Q2[a] \in 1 .. Len(P2[W2[a]])
               /\ P2[W2[a]][Q2[a]] = a
               /\ h2[a].next = IF Q2[a] = Len(P2[W2[a]]) THEN NULL
                               ELSE P2[W2[a]][Q2[a] + 1]
               /\ IF IsEntry(h2[a]) THEN Q2[a] > 1 ELSE W2[a] = a /\ Q2[a] = 1
    <3>1. /\ W[a] \in Owners(h)
          /\ Q[a] \in 1 .. Len(P[W[a]])
          /\ P[W[a]][Q[a]] = a
          /\ h[a].next = IF Q[a] = Len(P[W[a]]) THEN NULL ELSE P[W[a]][Q[a] + 1]
          /\ IF IsEntry(h[a]) THEN Q[a] > 1 ELSE W[a] = a /\ Q[a] = 1
      BY <1>4 DEF Placed
    <3>2. W2[a] = W[a] /\ Q2[a] = Q[a] /\ (IsEntry(h2[a]) <=> IsEntry(h[a]))
      BY <1>3, AlikeShows
    <3>3. h2[a].next = IF a = l THEN p ELSE h[a].next
      OBVIOUS
    <3>4. CASE W[a] # c
      <4>1. P2[W[a]] = P[W[a]] /\ a # l
        BY <1>1, <1>3, <1>9, <3>1, <3>4
      <4>. QED BY <1>6, <3>1, <3>2, <3>3, <4>1
    <3>5. CASE W[a] = c /\ a = l
      <4>1. Q[a] = n /\ h2[a].next = p
        BY <1>9, <3>3, <3>5
      <4>2. n \in 1 .. n + 1 /\ n # n + 1 /\ n \in 1 .. n
        BY <1>7
      <4>. QED BY <1>6, <1>8, <3>1, <3>2, <3>5, <4>1, <4>2
    <3>6. CASE W[a] = c /\ a # l
      <4>1. Q[a] \in 1 .. n /\ Q[a] # n
        BY <3>1, <3>6
      <4>2. Q[a] \in 1 .. n + 1 /\ Q[a] # n + 1 /\ Q[a] + 1 \in 1 .. n
        BY <1>7, <4>1
      <4>3. h2[a].next = P[c][Q[a] + 1]
        BY <3>1, <3>3, <3>6, <4>1
      <4>4. /\ W2[a] = c /\ Q2[a] = Q[a] /\ Len(P2[c]) = n + 1
            /\ P2[c][Q[a]] = a /\ P2[c][Q[a] + 1] = P[c][Q[a] + 1]
        BY <1>8, <3>1, <3>2, <3>6, <4>1, <4>2
      <4>. QED BY <1>6, <3>1, <3>2, <3>6, <4>2, <4>3, <4>4
    <3>. QED BY <3>4, <3>5, <3>6
  <2>2. /\ W2[p] \in Owners(h2)
        /\ Q2[p] \in 1 .. Len(P2[W2[p]])
        /\ P2[W2[p]][Q2[p]] = p
        /\ h2[p].next = IF Q2[p] = Len(P2[W2[p]]) THEN NULL
                        ELSE P2[W2[p]][Q2[p] + 1]
        /\ IF IsEntry(h2[p]) THEN Q2[p] > 1 ELSE W2[p] = p /\ Q2[p] = 1
    BY <1>2, <1>5, <1>6, <1>7, <1>8
  <2>. QED BY <2>1, <2>2 DEF Placed
<1>12. Chained(h2, P2, W2, Q2)
  <2> SUFFICES ASSUME NEW a \in Owners(h)
               PROVE  /\ Sq(P2[a])
                      /\ \A i \in 1 .. Len(P2[a]) : /\ P2[a][i] \in DOMAIN h2
                                                    /\ W2[P2[a][i]] = a
                                                    /\ Q2[P2[a][i]] = i
    BY <1>6 DEF Chained
  <2>1. CASE a # c
    <3>1. P2[a] = P[a] /\ Sq(P[a])
      BY <1>1, <1>3, <1>4, <2>1 DEF Chained
    <3>2. ASSUME NEW i \in 1 .. Len(P[a])
          PROVE  P[a][i] \in DOMAIN h2 /\ W2[P[a][i]] = a /\ Q2[P[a][i]] = i
      <4>1. P[a][i] \in DOMAIN h /\ W[P[a][i]] = a /\ Q[P[a][i]] = i
        BY <1>4 DEF Chained
      <4>. QED BY <1>3, <4>1
    <3>. QED BY <3>1, <3>2
  <2>2. CASE a = c
    <3>1. ASSUME NEW i \in 1 .. n + 1
          PROVE  P2[c][i] \in DOMAIN h2 /\ W2[P2[c][i]] = c /\ Q2[P2[c][i]] = i
      <4>1. CASE i = n + 1
        BY <1>2, <1>8, <4>1
      <4>2. CASE i # n + 1
        <5>1. i \in 1 .. n
          BY <1>7, <4>2
        <5>2. P[c][i] \in DOMAIN h /\ W[P[c][i]] = c /\ Q[P[c][i]] = i
          BY <1>4, <5>1 DEF Chained
        <5>. QED BY <1>3, <1>8, <5>1, <5>2
      <4>. QED BY <4>1, <4>2
    <3>. QED BY <1>8, <2>2, <3>1
  <2>. QED BY <2>1, <2>2
<1>13. HungYounger(h2, P2, W2, Q2)
  <2> SUFFICES ASSUME NEW a \in DOMAIN h2, IsEntry(h2[a])
               PROVE  /\ h2[a].value \in Owners(h2)
                      /\ P2[W2[a]][Q2[a] - 1] < h2[a].value
                      /\ h2[a].value < a
    BY DEF HungYounger
  <2>1. CASE a = p
    <3>1. n \in 1 .. n /\ Q2[a] - 1 = n /\ P2[c][n] = l
      BY <1>2, <1>7, <1>8, <2>1
    <3>. QED BY <1>2, <1>6, <2>1, <3>1
  <2>2. CASE a # p
    <3>1. a \in DOMAIN h /\ h2[a].value = h[a].value /\ IsEntry(h[a])
      BY <2>2, AlikeShows DEF Alike
    <3>2. W[a] \in Owners(h) /\ Q[a] > 1 /\ Q[a] \in 1 .. Len(P[W[a]])
      BY <1>4, <3>1 DEF Placed
    <3>3. /\ h[a].value \in Owners(h) /\ P[W[a]][Q[a] - 1] < h[a].value
          /\ h[a].value < a
      BY <1>4, <3>1 DEF HungYounger
    <3>4. Len(P[W[a]]) \in Nat
      BY <1>4, <3>2, OwnerFirst
    <3>5. P2[W[a]][Q[a] - 1] = P[W[a]][Q[a] - 1]
      <4>1. CASE W[a] # c
        BY <1>1, <1>3, <3>2, <4>1
      <4>2. CASE W[a] = c
        <5>1. Q[a] - 1 \in 1 .. n
          BY <3>2, <3>4, <4>2
        <5>. QED BY <1>8, <4>2, <5>1
      <4>. QED BY <4>1, <4>2
    <3>. QED BY <1>3, <1>6, <3>1, <3>3, <3>5
  <2>. QED BY <2>1, <2>2
<1>14. ASSUME NEW a \in Owners(h), NEW i \in 1 .. Len(P[a]) - 1
       PROVE  Holds(h2[P[a][i + 1]], V2, V[a].kind, V[a].members[i])
  <2> DEFINE e == P[a][i + 1]
  <2>1. i + 1 \in 1 .. Len(P[a])
    BY <1>4, OwnerFirst
  <2>2. e \in DOMAIN h
    BY <1>4, <2>1 DEF Chained
  <2>3. Holds(h[e], V, V[a].kind, V[a].members[i])
    BY <1>4 DEF Told
  <2> HIDE DEF e
  <2>4. IsEntry(h[e])
    BY <2>3 DEF Holds, EntryType, IsEntry
  <2>5. h[e].value \in Owners(h) /\ h[e].value # c
    BY <1>4, <2>2, <2>4 DEF HungYounger
  <2>6. V2[h[e].value] = V[h[e].value]
    BY <1>1, <1>3, <2>5
  <2>7. Holds(h[e], V2, V[a].kind, V[a].members[i])
    BY <2>3, <2>6 DEF Holds
  <2>8. Alike(h2[e], h[e])
    BY <2>2
  <2>9. \A V3, kind, y : Holds(h2[e], V3, kind, y) <=> Holds(h[e], V3, kind, y)
    BY <2>8, AlikeShows
  <2>10. Holds(h2[e], V2, V[a].kind, V[a].members[i])
    BY <2>7, <2>9
  <2>. QED BY <2>10 DEF e
<1>15. Told(h2, t, P2, V2)
  <2> SUFFICES ASSUME NEW a \in Owners(h)
               PROVE  /\ IsValue(V2[a]) /\ Shows(h2[a], t, V2[a])
                      /\ Len(V2[a].members) = Len(P2[a]) - 1
                      /\ \A i \in 1 .. Len(P2[a]) - 1 :
                           Holds(h2[P2[a][i + 1]], V2, V2[a].kind,
                                 V2[a].members[i])
    BY <1>6 DEF Told
  <2>1. /\ IsValue(V[a]) /\ Shows(h[a], t, V[a])
        /\ Len(V[a].members) = Len(P[a]) - 1
    BY <1>4 DEF Told
  <2>2. a \in DOMAIN h
    BY <1>1
  <2>3. CASE a # c
    BY <1>3, <1>14, <2>1, <2>2, <2>3, AlikeShows
  <2>4. CASE a = c
    <3>1. V2[c].kind = V[c].kind /\ V2[c].members = V[c].members \o m
      BY <1>2 DEF More
    <3>2. Sq(V[c].members) /\ Len(V[c].members) = n - 1
      BY <2>1, <2>4 DEF IsValue
    <3>3. /\ Len(V2[c].members) = n
          /\ \A i \in 1 .. n - 1 : V2[c].members[i] = V[c].members[i]
          /\ V2[c].members[n] = m[1]
      <4>1. /\ Len(V2[c].members) = (n - 1) + 1
            /\ \A i \in 1 .. n - 1 : V2[c].members[i] = V[c].members[i]
            /\ \A i \in 1 .. 1 : V2[c].members[(n - 1) + i] = m[i]
        <5> DEFINE r == V2[c].members
                   s == V[c].members
        <5>1. JoinedTo(r, s, m) /\ Sq(s) /\ Sq(m)
          BY <1>10, <3>1, <3>2 DEF JoinedTo
        <5>4. Len(m) = 1 /\ Len(s) = n - 1
          BY <1>10, <3>2
        <5> HIDE DEF r, s
        <5>2. /\ Len(r) = Len(s) + Len(m)
              /\ \A i \in 1 .. Len(s) : r[i] = s[i]
              /\ \A i \in 1 .. Len(m) : r[Len(s) + i] = m[i]
          BY <5>1, JoinedList
        <5>3. /\ Len(r) = (n - 1) + 1
              /\ \A i \in 1 .. n - 1 : r[i] = s[i]
              /\ \A i \in 1 .. 1 : r[(n - 1) + i] = m[i]
          BY <5>2, <5>4
        <5>. QED BY <5>3 DEF r, s
      <4>2. 1 \in 1 .. 1 /\ (n - 1) + 1 = n
        BY <1>7
      <4>. QED BY <3>1, <4>1, <4>2
    <3>4. IsValue(V2[c])
      BY <1>2, <1>10, <2>1, <2>4, MoreIsValue
    <3>5. Shows(h2[c], t, V2[c])
      <4>1. Shows(h2[c], t, V[c])
        BY <1>1, <2>1, <2>4, AlikeShows
      <4>. QED BY <3>1, <4>1 DEF Shows
    <3>6. ASSUME NEW i \in 1 .. n
          PROVE  Holds(h2[P2[c][i + 1]], V2, V2[c].kind, V2[c].members[i])
      <4>1. CASE i = n
        <5>1. P2[c][i + 1] = p
          BY <1>8, <4>1
        <5>2. V2[x] = V[x]
          BY <1>1, <1>3
        <5>3. m[1] = <<h2[p].string, V2[h2[p].value]>>
          BY <1>10, <5>2
        <5>. QED BY <3>1, <3>3, <4>1, <5>1, <5>3 DEF Holds
      <4>2. CASE i # n
        <5>1. i \in 1 .. n - 1 /\ i + 1 \in 1 .. n
          BY <1>7, <4>2
        <5>2. P2[c][i + 1] = P[c][i + 1] /\ V2[c].members[i] = V[c].members[i]
          BY <1>8, <3>3, <5>1
        <5>. QED BY <1>14, <3>1, <5>1, <5>2
      <4>. QED BY <4>1, <4>2
    <3>7. Len(P2[c]) - 1 = n
      BY <1>7, <1>8
    <3>. QED BY <2>4, <3>3, <3>4, <3>5, <3>6, <3>7
  <2>. QED BY <2>3, <2>4
<1>16. Tree(h2, t, P2, W2, Q2, V2)
  BY <1>11, <1>12, <1>13, <1>15 DEF Tree
<1>17. \A a \in Owners(h) : a # c => P2[a] = P[a] /\ V2[a] = V[a]
  BY <1>1, <1>3
<1>18. TellsMore(h, P, V, c, h2[p].string, x, P2, V2)
  BY <1>2, <1>17 DEF TellsMore, m
<1>. QED BY <1>16, <1>18
-------------------------------------------------------------------------------
\* Induction from n down to 1.
LEMMA DownInduction ==
  ASSUME NEW n \in Nat, NEW T, n \in T,
         \A i \in 1 .. n - 1 : i + 1 \in T => i \in T
  PROVE  \A i \in 1 .. n : i \in T
<1> DEFINE S == {k \in Nat : k < n => n - k \in T}
<1>1. 0 \in S
  OBVIOUS
<1>2. ASSUME NEW k \in Nat, k \in S PROVE k + 1 \in S
  <2> SUFFICES ASSUME k + 1 < n PROVE n - (k + 1) \in T
    OBVIOUS
  <2>1. n - k \in T /\ n - (k + 1) \in 1 .. n - 1 /\ (n - (k + 1)) + 1 = n - k
    BY <1>2
  <2>. QED BY <2>1
<1>3. ASSUME NEW k \in Nat PROVE k \in S
  <2> HIDE DEF S
  <2>. QED BY <1>1, <1>2, SetInduction
<1>4. ASSUME NEW i \in 1 .. n PROVE i \in T
  <2>1. n - i \in Nat /\ n - i < n /\ n - (n - i) = i
    OBVIOUS
  <2>2. n - i \in S
    BY <1>3, <2>1
  <2>. QED BY <2>1, <2>2
<1>. QED BY <1>4

\* Walking the list of c from its owner ends at the last of its nodes.
LEMMA LastIs ==
  ASSUME NEW h, NEW P, NEW W, NEW Q, Placed(h, P, W, Q), Chained(h, P, W, Q),
         NULL \notin DOMAIN h, NEW c \in Owners(h)
  PROVE  LastOf(h, c) = P[c][Len(P[c])]
PROOF
<1> DEFINE Solves(g) ==
             g = [a \in DOMAIN h |-> IF h[a].next = NULL THEN a ELSE g[h[a].next]]
           last == CHOOSE g : Solves(g)
           end(a) == P[W[a]][Len(P[W[a]])]
           e == [a \in DOMAIN h |-> end(a)]
<1>1. LastOf(h, c) = last[c]
  BY DEF LastOf
<1>2. ASSUME NEW a \in DOMAIN h
      PROVE  /\ h[a].next = NULL => end(a) = a
             /\ h[a].next # NULL => h[a].next \in DOMAIN h /\ W[h[a].next] = W[a]
  <2>1. /\ W[a] \in Owners(h)
        /\ Q[a] \in 1 .. Len(P[W[a]])
        /\ P[W[a]][Q[a]] = a
        /\ h[a].next = IF Q[a] = Len(P[W[a]]) THEN NULL ELSE P[W[a]][Q[a] + 1]
    BY DEF Placed
  <2>2. Len(P[W[a]]) \in Nat
    BY <2>1, OwnerFirst
  <2>3. CASE Q[a] = Len(P[W[a]])
    BY <2>1, <2>3
  <2>4. CASE Q[a] # Len(P[W[a]])
    <3>1. Q[a] + 1 \in 1 .. Len(P[W[a]])
      BY <2>1, <2>2, <2>4
    <3>2. P[W[a]][Q[a] + 1] \in DOMAIN h /\ W[P[W[a]][Q[a] + 1]] = W[a]
      BY <2>1, <3>1 DEF Chained
    <3>. QED BY <2>1, <2>4, <3>2
  <2>. QED BY <2>3, <2>4
<1>3. Solves(e)
  <2>1. ASSUME NEW a \in DOMAIN h
        PROVE  end(a) = IF h[a].next = NULL THEN a ELSE e[h[a].next]
    BY <1>2
  <2>. QED BY <2>1
<1>4. Solves(last)
  <2> HIDE DEF e, Solves
  <2>. QED BY <1>3
<1>5. \A a \in DOMAIN h : last[a] = IF h[a].next = NULL THEN a ELSE last[h[a].next]
  <2> HIDE DEF last
  <2>. QED BY <1>4
<1> HIDE DEF last
<1> DEFINE n == Len(P[c])
           T == {i \in 1 .. n : last[P[c][i]] = P[c][n]}
<1>6. n \in Nat /\ n >= 1 /\ P[c][1] = c
  BY OwnerFirst
<1>7. ASSUME NEW i \in 1 .. n
      PROVE  /\ P[c][i] \in DOMAIN h
             /\ h[P[c][i]].next = IF i = n THEN NULL ELSE P[c][i + 1]
  <2>1. P[c][i] \in DOMAIN h /\ W[P[c][i]] = c /\ Q[P[c][i]] = i
    BY DEF Chained
  <2>. QED BY <2>1 DEF Placed
<1>8. n \in T
  <2>1. n \in 1 .. n
    BY <1>6
  <2>2. P[c][n] \in DOMAIN h /\ h[P[c][n]].next = NULL
    BY <1>7, <2>1
  <2>. QED BY <1>5, <2>1, <2>2
<1>9. ASSUME NEW i \in 1 .. n - 1, i + 1 \in T PROVE i \in T
  <2>1. i \in 1 .. n /\ i # n /\ i + 1 \in 1 .. n
    BY <1>6
  <2>2. /\ P[c][i] \in DOMAIN h /\ h[P[c][i]].next = P[c][i + 1]
        /\ P[c][i + 1] # NULL
    BY <1>7, <2>1
  <2>3. last[P[c][i]] = last[P[c][i + 1]]
    BY <1>5, <2>2
  <2>. QED BY <1>9, <2>1, <2>3
<1>10. \A i \in 1 .. n : i \in T
  <2> HIDE DEF T, n
  <2>. QED BY <1>6, <1>8, <1>9, DownInduction
<1>11. 1 \in T
  BY <1>6, <1>10
<1>. QED BY <1>1, <1>6, <1>11

\* A node has the six fields of one.
IsNode(node) ==
  DOMAIN node = {"type", "integer", "string", "printed", "value", "next"}

\* What a new node is.
LEMMA NodeIs ==
  ASSUME NEW type, NEW integer, NEW string, NEW printed, NEW value, NEW node,
         node = Node(type, integer, string, printed, value)
  PROVE  /\ IsNode(node)
         /\ node.type = type /\ node.integer = integer /\ node.string = string
         /\ node.printed = printed /\ node.value = value /\ node.next = NULL
BY DEF Node, IsNode

\* What the assignment current->next = node leaves.
Links(g, h, l, p) == g = [h EXCEPT ![l].next = p]

LEMMA LinkedIs ==
  ASSUME NEW h, NEW l, NEW p, l \in DOMAIN h, IsNode(h[l]),
         NEW g, Links(g, h, l, p)
  PROVE  /\ DOMAIN g = DOMAIN h
         /\ \A a \in DOMAIN h : a # l => g[a] = h[a]
         /\ Alike(g[l], h[l]) /\ g[l].next = p /\ IsNode(g[l])
<1>1. g[l] = [h[l] EXCEPT !.next = p]
  BY DEF Links
<1>2. DOMAIN g = DOMAIN h /\ \A a \in DOMAIN h : a # l => g[a] = h[a]
  BY DEF Links
<1>3. Alike(g[l], h[l]) /\ g[l].next = p /\ IsNode(g[l])
  BY <1>1 DEF IsNode, Alike
<1>. QED BY <1>2, <1>3
-------------------------------------------------------------------------------
(***************************************************************************)
(* The addresses on the stack are those of the values of the stack u: of a *)
(* text, or of a node that hangs nowhere, and what is further up is        *)
(* younger than every node of its list.                                    *)
(***************************************************************************)
Stands(h, t, V, a, x) ==
  IF x.kind = "text" THEN a \in DOMAIN t /\ t[a] = x.text
  ELSE a \in Owners(h) /\ V[a] = x
\* Every node in the list of a is older than b.
Younger(P, a, b) == \A i \in 1 .. Len(P[a]) : P[a][i] < b
\* The addresses held are those of the values, the older ones below, and none of
\* them is the value of an entry yet.
Held(h, t, s, P, V, u) ==
  /\ Sq(s) /\ Sq(u) /\ Len(s) = Len(u)
  /\ \A k \in 1 .. Len(u) : Stands(h, t, V, s[k], u[k])
  /\ \A j, k \in 1 .. Len(u) :
       j < k /\ u[k].kind # "text" => Younger(P, s[k], s[j])
  /\ \A a \in DOMAIN h :
       IsEntry(h[a]) =>
         \A k \in 1 .. Len(u) : u[k].kind # "text" => h[a].value # s[k]

\* What has an address has one below p, which is where the next will be.
Addressed(h, t, p) ==
  /\ p \in Nat
  /\ DOMAIN h \subseteq 1 .. p - 1 /\ DOMAIN t \subseteq 1 .. p - 1
  /\ \A a \in DOMAIN h : IsNode(h[a])

\* The memory holds the stack u of values.
Represents(h, t, s, p, P, W, Q, V, u) ==
  /\ Tree(h, t, P, W, Q, V) /\ Held(h, t, s, P, V, u) /\ Addressed(h, t, p)
Holding(h, t, s, p, u) == \E P, W, Q, V : Represents(h, t, s, p, P, W, Q, V, u)

\* At the start there is nothing.
LEMMA HoldsNone == ASSUME NEW p \in Nat PROVE Holding(<<>>, <<>>, <<>>, p, <<>>)
<1> DEFINE none == <<>>
<1>1. DOMAIN none = {}
  OBVIOUS
<1>2. Owners(none) = {}
  BY <1>1 DEF Owners
<1>3. Sq(none) /\ Len(none) = 0
  BY SqNone
<1> HIDE DEF none
<1>4. Tree(none, none, none, none, none, none)
  BY <1>1, <1>2 DEF Tree, Placed, Chained, HungYounger, Told
<1>5. Held(none, none, none, none, none, none)
  BY <1>1, <1>3 DEF Held
<1>6. Addressed(none, none, p)
  BY <1>1 DEF Addressed
<1>7. Holding(none, none, none, p, none)
  BY <1>4, <1>5, <1>6 DEF Holding, Represents
<1>. QED BY <1>7 DEF none

\* What is below the top of the stack.
LEMMA SqBelow ==
  ASSUME NEW s, Sq(s), Len(s) >= 1, NEW r, r = SubSeq(s, 1 + 1, Len(s))
  PROVE  /\ Sq(r) /\ Len(r) = Len(s) - 1
         /\ \A k \in 1 .. Len(s) - 1 : r[k] = s[k + 1]
<1>1. PICK S : s \in Seq(S)
  BY DEF Sq
<1>2. Len(s) \in Nat /\ 1 + 1 = 2 /\ 2 \in 1 .. Len(s) + 1
  BY <1>1
<1>3. r = [k \in 1 .. Len(s) - 1 |-> s[k + 1]]
  BY <1>1, <1>2
<1>4. \A k \in 1 .. Len(s) - 1 : s[k + 1] \in S
  BY <1>1, <1>2
<1>5. Len(s) - 1 \in Nat /\ Listed(r, Len(s) - 1)
  BY <1>2, <1>3 DEF Listed
<1>6. Sq(r) /\ Len(r) = Len(s) - 1
  BY <1>5, SqFunction
<1>. QED BY <1>3, <1>6

\* The memory g is h with something at an address of its own.
Gains(g, h, p, x) ==
  /\ DOMAIN g = DOMAIN h \cup {p} /\ g[p] = x
  /\ \A a \in DOMAIN h : a # p => g[a] = h[a]

LEMMA StoredGains ==
  ASSUME NEW h, NEW p, NEW x, NEW g, g = Stored(h, p, x) PROVE Gains(g, h, p, x)
BY DEF Stored, Gains

\* Below the first of s2 and v is what is below the first d of s and u.
AsBelow(s2, v, s, u, d) ==
  \A k \in 2 .. Len(v) : /\ k - 1 + d \in 1 .. Len(u)
                         /\ s2[k] = s[k - 1 + d] /\ v[k] = u[k - 1 + d]

\* A new owner is on top of the stack, and below it what was below the first d
\* of what was there.
LEMMA OwnerPushed ==
  ASSUME NEW h, NEW t, NEW s, NEW p, NEW P, NEW W, NEW Q, NEW V, NEW u,
         Represents(h, t, s, p, P, W, Q, V, u),
         NEW node, IsNode(node), ~IsEntry(node), node.next = NULL,
         NEW x, IsNew(x), Shows(node, t, x),
         NEW s2, NEW v, Sq(s2), Sq(v), Len(s2) = Len(v),
         s2[1] = p, v[1] = x,
         NEW d \in Nat, AsBelow(s2, v, s, u, d),
         NEW p2 \in Nat, p < p2, p # NULL, NEW h2, Gains(h2, h, p, node)
  PROVE  Holding(h2, t, s2, p2, v)
PROOF
<1>1. /\ DOMAIN h2 = DOMAIN h \cup {p} /\ h2[p] = node
      /\ \A a \in DOMAIN h : a # p => h2[a] = h[a]
  BY DEF Gains
<1>15. \A k \in 2 .. Len(v) : /\ k - 1 + d \in 1 .. Len(u)
                              /\ s2[k] = s[k - 1 + d] /\ v[k] = u[k - 1 + d]
  BY DEF AsBelow
<1>2. /\ Tree(h, t, P, W, Q, V) /\ Held(h, t, s, P, V, u) /\ Addressed(h, t, p)
  BY DEF Represents
<1>3. /\ p \in Nat /\ p \notin DOMAIN h
      /\ \A a \in DOMAIN h : a \in Nat /\ a < p /\ a # p
  BY <1>2 DEF Addressed
<1>4. \A a \in DOMAIN h : h2[a] = h[a]
  BY <1>1, <1>3
<1>6. PICK P2, W2, Q2, V2 :
         Tree(h2, t, P2, W2, Q2, V2) /\ TellsNew(h, P, V, p, x, P2, V2)
  <2>1. ~IsEntry(h2[p]) /\ h2[p].next = NULL /\ Shows(h2[p], t, x)
    BY <1>1
  <2>. QED BY <1>1, <1>2, <1>3, <1>4, <2>1, OwnerAdded
<1>5. /\ Tree(h2, t, P2, W2, Q2, V2) /\ V2[p] = x
      /\ \A a \in DOMAIN h : P2[a] = P[a] /\ V2[a] = V[a]
  BY <1>6 DEF TellsNew
<1>8. Owners(h2) = Owners(h) \cup {p} /\ Owners(h) \subseteq DOMAIN h
  BY <1>1, <1>4 DEF Owners
<1>9. Addressed(h2, t, p2)
  <2>1. p \in 1 .. p2 - 1 /\ \A a \in 1 .. p - 1 : a \in 1 .. p2 - 1
    BY <1>3 DEF NULL
  <2>2. \A a \in DOMAIN h2 : IsNode(h2[a])
    BY <1>1, <1>2, <1>4 DEF Addressed
  <2>. QED BY <1>1, <1>2, <2>1, <2>2 DEF Addressed
<1>10. x.kind # "text"
  BY DEF Shows
<1>11. ASSUME NEW k \in 1 .. Len(v)
       PROVE  Stands(h2, t, V2, s2[k], v[k])
  <2>1. CASE k = 1
    BY <1>5, <1>8, <1>10, <2>1 DEF Stands
  <2>2. CASE k # 1
    <3>1. k \in 2 .. Len(v)
      BY <2>2
    <3>2. Stands(h, t, V, s2[k], v[k])
      BY <1>2, <1>15, <3>1 DEF Held
    <3>3. s2[k] \in Owners(h) => V2[s2[k]] = V[s2[k]] /\ s2[k] \in Owners(h2)
      BY <1>5, <1>8
    <3>. QED BY <3>2, <3>3 DEF Stands
  <2>. QED BY <2>1, <2>2
<1>12. ASSUME NEW j \in 1 .. Len(v), NEW k \in 1 .. Len(v), j < k,
              v[k].kind # "text"
       PROVE  Younger(P2, s2[k], s2[j])
  <2>1. k \in 2 .. Len(v)
    BY <1>12
  <2>2. Stands(h, t, V, s2[k], v[k])
    BY <1>2, <1>15, <2>1 DEF Held
  <2>3. s2[k] \in Owners(h) /\ P2[s2[k]] = P[s2[k]]
    BY <1>5, <1>8, <1>12, <2>2 DEF Stands
  <2>4. CASE j = 1
    <3>1. ASSUME NEW i \in 1 .. Len(P[s2[k]]) PROVE P[s2[k]][i] < p
      <4>1. P[s2[k]][i] \in DOMAIN h
        BY <1>2, <2>3 DEF Tree, Chained
      <4>. QED BY <1>3, <4>1
    <3>. QED BY <2>3, <2>4, <3>1 DEF Younger
  <2>5. CASE j # 1
    <3>1. j \in 2 .. Len(v)
      BY <2>5
    <3>2. j - 1 + d \in 1 .. Len(u) /\ k - 1 + d \in 1 .. Len(u)
          /\ j - 1 + d < k - 1 + d
          /\ s2[j] = s[j - 1 + d] /\ s2[k] = s[k - 1 + d] /\ v[k] = u[k - 1 + d]
      BY <1>12, <1>15, <2>1, <3>1
    <3>3. Younger(P, s2[k], s2[j])
      BY <1>2, <1>12, <3>2 DEF Held
    <3>. QED BY <2>3, <3>3 DEF Younger
  <2>. QED BY <2>4, <2>5
<1>13. ASSUME NEW a \in DOMAIN h2, IsEntry(h2[a]), NEW k \in 1 .. Len(v),
              v[k].kind # "text"
       PROVE  h2[a].value # s2[k]
  <2>1. a \in DOMAIN h /\ h2[a] = h[a]
    BY <1>1, <1>4, <1>13
  <2>2. h[a].value \in DOMAIN h
    BY <1>2, <1>8, <1>13, <2>1 DEF Tree, HungYounger
  <2>3. CASE k = 1
    BY <1>3, <2>1, <2>2, <2>3
  <2>4. CASE k # 1
    <3>1. k \in 2 .. Len(v)
      BY <2>4
    <3>2. k - 1 + d \in 1 .. Len(u) /\ s2[k] = s[k - 1 + d] /\ v[k] = u[k - 1 + d]
      BY <1>15, <3>1
    <3>. QED BY <1>2, <1>13, <2>1, <3>2 DEF Held
  <2>. QED BY <2>3, <2>4
<1>14. Held(h2, t, s2, P2, V2, v)
  BY <1>11, <1>12, <1>13 DEF Held
<1>16. Holding(h2, t, s2, p2, v)
  BY <1>5, <1>9, <1>14 DEF Holding, Represents
<1>. QED BY <1>16
-------------------------------------------------------------------------------
Over(s2, p, s) == s2 = <<p>> \o s

\* A new address on top of the stack.
LEMMA Shifted ==
  ASSUME NEW s, NEW u, Sq(s), Sq(u), Len(s) = Len(u), NEW p, NEW x, NEW v,
         Pushes(u, x, v), NEW s2, Over(s2, p, s)
  PROVE  /\ Sq(s2) /\ Len(s2) = Len(v) /\ s2[1] = p /\ v[1] = x
         /\ AsBelow(s2, v, s, u, 0)
<1>1. /\ Sq(s2) /\ Len(s2) = Len(s) + 1 /\ s2[1] = p
      /\ \A k \in 1 .. Len(s) : s2[k + 1] = s[k]
  BY Pushed DEF Over
<1>2. /\ Len(v) = Len(u) + 1 /\ v[1] = x
      /\ \A k \in 1 .. Len(u) : v[k + 1] = u[k]
  BY DEF Pushes
<1>3. Len(u) \in Nat
  BY SqIs
<1>4. ASSUME NEW k \in 2 .. Len(v)
      PROVE  /\ k - 1 + 0 \in 1 .. Len(u)
             /\ s2[k] = s[k - 1 + 0] /\ v[k] = u[k - 1 + 0]
  <2> DEFINE j == k - 1
  <2>1. j \in 1 .. Len(u) /\ k = j + 1 /\ k - 1 + 0 = j
    BY <1>2, <1>3
  <2> HIDE DEF j
  <2>. QED BY <1>1, <1>2, <2>1
<1>. QED BY <1>1, <1>2, <1>4 DEF AsBelow

\* A new node that is not of a printed string shows the value that is pushed.
LEMMA NewIs ==
  ASSUME NEW o, o.op \in DOMAIN NodeType, NEW node, NEW t,
         node = Node(NodeType[o.op], o.number, o.text, NULL, NULL)
  PROVE  /\ IsNode(node) /\ ~IsEntry(node) /\ node.next = NULL
         /\ IsNew(NewValue(o)) /\ Shows(node, t, NewValue(o))
<1> DEFINE x == NewValue(o)
<1>1. /\ IsNode(node) /\ node.type = NodeType[o.op] /\ node.integer = o.number
      /\ node.string = o.text /\ node.printed = NULL /\ node.next = NULL
  BY NodeIs
<1>2. o.op \in {"int", "constant", "map", "array"}
  BY DEF NodeType
<1>3. CASE o.op = "int"
  <2>1. x = Leaf("int", o.number, <<>>) /\ node.type = "NT_INT"
    BY <1>1, <1>3 DEF NewValue, Integer, NodeType
  <2>2. IsValue(x)
    BY <2>1, LeafIsValue
  <2>3. x.kind = "int" /\ x.number = o.number /\ x.members = <<>>
    BY <2>1 DEF Leaf
  <2>. QED BY <1>1, <2>1, <2>2, <2>3 DEF IsNew, Shows, IsEntry
<1>4. CASE o.op = "constant"
  <2>1. x = Leaf("string", 0, o.text) /\ node.type = "NT_STRING"
    BY <1>1, <1>4 DEF NewValue, Text, NodeType
  <2>2. IsValue(x)
    BY <2>1, LeafIsValue
  <2>3. x.kind = "string" /\ x.text = o.text /\ x.members = <<>>
    BY <2>1 DEF Leaf
  <2>. QED BY <1>1, <2>1, <2>2, <2>3 DEF IsNew, Shows, IsEntry, StringIn
<1>5. CASE o.op \in {"map", "array"}
  <2>1. /\ x = Container(o.op, <<>>)
        /\ node.type = IF o.op = "map" THEN "NT_MAP" ELSE "NT_ARRAY"
    BY <1>1, <1>5 DEF NewValue, NodeType
  <2>2. IsValue(x)
    BY <2>1, ContainerIsValue, SqNone
  <2>3. x.kind = o.op /\ x.members = <<>>
    BY <2>1 DEF Container
  <2>. QED BY <1>1, <1>5, <2>1, <2>2, <2>3 DEF IsNew, Shows, IsEntry
<1>. QED BY <1>2, <1>3, <1>4, <1>5

\* The operations, one by one: a node is created, a printed text gets a node, a text
\* is printed.
LEMMA NodeCreated ==
  ASSUME NEW h, NEW t, NEW s, NEW p, NEW u, Holding(h, t, s, p, u), p # NULL,
         NEW p2 \in Nat, p < p2, NEW o, o.op \in DOMAIN NodeType,
         NEW v, Acts(u, o, v),
         NEW node, node = Node(NodeType[o.op], o.number, o.text, NULL, NULL)
  PROVE  Holding(Stored(h, p, node), t, <<p>> \o s, p2, v)
PROOF
<1>1. PICK P, W, Q, V : Represents(h, t, s, p, P, W, Q, V, u)
  BY DEF Holding
<1>2. Sq(s) /\ Sq(u) /\ Len(s) = Len(u)
  BY <1>1 DEF Represents, Held
<1>3. Sq(v) /\ Pushes(u, NewValue(o), v)
  BY DEF Acts, NodeType
<1> DEFINE x == NewValue(o)
           s2 == <<p>> \o s
           h2 == Stored(h, p, node)
<1>4. /\ IsNode(node) /\ ~IsEntry(node) /\ node.next = NULL
      /\ IsNew(x) /\ Shows(node, t, x)
  BY NewIs
<1>5. Gains(h2, h, p, node)
  BY StoredGains
<1>6. /\ Sq(s2) /\ Len(s2) = Len(v) /\ s2[1] = p /\ v[1] = x
      /\ AsBelow(s2, v, s, u, 0)
  <2>1. Over(s2, p, s) /\ Pushes(u, x, v)
    BY <1>3 DEF Over
  <2> HIDE DEF x, s2
  <2>. QED BY <1>2, <2>1, Shifted
<1> HIDE DEF x, s2, h2
<1>7. Holding(h2, t, s2, p2, v)
  BY <1>1, <1>3, <1>4, <1>5, <1>6, OwnerPushed
<1>. QED BY <1>7 DEF h2, s2

LEMMA StringNamed ==
  ASSUME NEW h, NEW t, NEW s, NEW p, NEW u, Holding(h, t, s, p, u), p # NULL,
         NEW p2 \in Nat, p < p2, NEW o, o.op = "printed", NEW v, Acts(u, o, v),
         NEW node, node = Node("NT_STRING", 0, <<>>, s[1], NULL)
  PROVE  Holding(Stored(h, p, node), t, <<p>> \o SubSeq(s, 1 + 1, Len(s)), p2, v)
PROOF
<1>1. PICK P, W, Q, V : Represents(h, t, s, p, P, W, Q, V, u)
  BY DEF Holding
<1>2. Sq(s) /\ Sq(u) /\ Len(s) = Len(u) /\ Len(u) \in Nat
  BY <1>1, SqIs DEF Represents, Held
<1>3. /\ Sq(v) /\ Len(u) >= 1 /\ u[1].kind = "text"
      /\ Len(v) = Len(u) /\ v[1] = Text(u[1].text)
      /\ \A k \in 2 .. Len(u) : v[k] = u[k]
  BY DEF Acts, TakesText
<1> DEFINE x == Text(u[1].text)
           r == SubSeq(s, 1 + 1, Len(s))
           s2 == <<p>> \o r
           h2 == Stored(h, p, node)
<1>4. /\ IsNode(node) /\ node.type = "NT_STRING" /\ node.printed = s[1]
      /\ node.next = NULL
  BY NodeIs
<1>5. s[1] \in DOMAIN t /\ t[s[1]] = u[1].text
  <2>1. 1 \in 1 .. Len(u)
    BY <1>2, <1>3
  <2>2. Stands(h, t, V, s[1], u[1])
    BY <1>1, <2>1 DEF Represents, Held
  <2>. QED BY <1>3, <2>2 DEF Stands
<1>6. s[1] # NULL
  BY <1>1, <1>5 DEF Represents, Addressed, NULL
<1>7. IsNew(x) /\ x.kind = "string" /\ x.text = u[1].text
  <2>1. IsValue(x)
    BY LeafIsValue DEF Text
  <2>. QED BY <2>1 DEF IsNew, Text, Leaf
<1>8. ~IsEntry(node) /\ Shows(node, t, x)
  BY <1>4, <1>5, <1>6, <1>7 DEF IsEntry, Shows, StringIn
<1>9. Gains(h2, h, p, node)
  BY StoredGains
<1>10. /\ Sq(r) /\ Len(r) = Len(s) - 1
       /\ \A k \in 1 .. Len(s) - 1 : r[k] = s[k + 1]
  BY <1>2, <1>3, SqBelow
<1> HIDE DEF x, r
<1>11. /\ Sq(s2) /\ Len(s2) = Len(r) + 1 /\ s2[1] = p
       /\ \A k \in 1 .. Len(r) : s2[k + 1] = r[k]
  BY <1>10, Pushed
<1> HIDE DEF s2, h2
<1>12. AsBelow(s2, v, s, u, 1)
  <2> SUFFICES ASSUME NEW k \in 2 .. Len(v)
               PROVE  /\ k - 1 + 1 \in 1 .. Len(u)
                      /\ s2[k] = s[k - 1 + 1] /\ v[k] = u[k - 1 + 1]
    BY DEF AsBelow
  <2> DEFINE j == k - 1
  <2>1. j \in 1 .. Len(s) - 1 /\ k = j + 1 /\ k - 1 + 1 = k /\ k \in 2 .. Len(u)
    BY <1>2, <1>3
  <2> HIDE DEF j
  <2>2. s2[j + 1] = r[j] /\ r[j] = s[j + 1]
    BY <1>10, <1>11, <2>1
  <2>. QED BY <1>3, <2>1, <2>2
<1>13. Len(s2) = Len(v)
  BY <1>2, <1>3, <1>10, <1>11
<1>14. v[1] = x
  BY <1>3 DEF x
<1>15. Holding(h2, t, s2, p2, v)
  BY <1>1, <1>3, <1>4, <1>7, <1>8, <1>9, <1>11, <1>12, <1>13, <1>14, OwnerPushed
<1>. QED BY <1>15 DEF h2, s2, r

LEMMA TextPrinted ==
  ASSUME NEW h, NEW t, NEW s, NEW p, NEW u, Holding(h, t, s, p, u), p # NULL,
         NEW p2 \in Nat, p < p2, NEW o, o.op = "print", NEW v, Acts(u, o, v)
  PROVE  Holding(h, Stored(t, p, o.text), <<p>> \o s, p2, v)
PROOF
<1>1. PICK P, W, Q, V : Represents(h, t, s, p, P, W, Q, V, u)
  BY DEF Holding
<1>2. /\ Tree(h, t, P, W, Q, V) /\ Held(h, t, s, P, V, u) /\ Addressed(h, t, p)
      /\ Sq(s) /\ Sq(u) /\ Len(s) = Len(u)
  BY <1>1 DEF Represents, Held
<1>3. Sq(v) /\ Pushes(u, NewValue(o), v)
  BY DEF Acts
<1> DEFINE x == NewValue(o)
           s2 == <<p>> \o s
           t2 == Stored(t, p, o.text)
<1>4. x.kind = "text" /\ x.text = o.text
  BY DEF NewValue, Leaf
<1>5. /\ DOMAIN t2 = DOMAIN t \cup {p} /\ t2[p] = o.text
      /\ \A a \in DOMAIN t : a # p => t2[a] = t[a]
  BY DEF Stored
<1>6. /\ Sq(s2) /\ Len(s2) = Len(v) /\ s2[1] = p /\ v[1] = x
      /\ AsBelow(s2, v, s, u, 0)
  <2>1. Over(s2, p, s) /\ Pushes(u, x, v)
    BY <1>3 DEF Over
  <2> HIDE DEF x, s2
  <2>. QED BY <1>2, <2>1, Shifted
<1> HIDE DEF x, s2, t2
<1>7. /\ p \in Nat /\ p \notin DOMAIN t
      /\ \A a \in DOMAIN h : a \in Nat /\ a < p
  BY <1>2 DEF Addressed
<1>8. \A a \in DOMAIN t : t2[a] = t[a]
  BY <1>5, <1>7
<1>9. Tree(h, t2, P, W, Q, V)
  BY <1>2, <1>5, <1>8, TextAdded
<1>10. Addressed(h, t2, p2)
  <2>1. p \in 1 .. p2 - 1 /\ \A a \in 1 .. p - 1 : a \in 1 .. p2 - 1
    BY <1>7 DEF NULL
  <2>. QED BY <1>2, <1>5, <2>1 DEF Addressed
<1>11. ASSUME NEW k \in 2 .. Len(v)
       PROVE  k - 1 \in 1 .. Len(u) /\ s2[k] = s[k - 1] /\ v[k] = u[k - 1]
  <2>1. k - 1 + 0 = k - 1
    OBVIOUS
  <2>. QED BY <1>6, <2>1 DEF AsBelow
<1>12. ASSUME NEW k \in 1 .. Len(v) PROVE Stands(h, t2, V, s2[k], v[k])
  <2>1. CASE k = 1
    BY <1>4, <1>5, <1>6, <2>1 DEF Stands
  <2>2. CASE k # 1
    <3>1. k \in 2 .. Len(v)
      BY <2>2
    <3>2. Stands(h, t, V, s2[k], v[k])
      BY <1>2, <1>11, <3>1 DEF Held
    <3>. QED BY <1>5, <1>8, <3>2 DEF Stands
  <2>. QED BY <2>1, <2>2
<1>13. ASSUME NEW j \in 1 .. Len(v), NEW k \in 1 .. Len(v), j < k,
              v[k].kind # "text"
       PROVE  Younger(P, s2[k], s2[j])
  <2>1. k \in 2 .. Len(v)
    BY <1>13
  <2>2. Stands(h, t, V, s2[k], v[k])
    BY <1>2, <1>11, <2>1 DEF Held
  <2>3. s2[k] \in Owners(h)
    BY <1>13, <2>2 DEF Stands
  <2>4. CASE j = 1
    <3>1. ASSUME NEW i \in 1 .. Len(P[s2[k]]) PROVE P[s2[k]][i] < p
      <4>1. P[s2[k]][i] \in DOMAIN h
        BY <1>2, <2>3 DEF Tree, Chained
      <4>. QED BY <1>7, <4>1
    <3>. QED BY <1>6, <2>4, <3>1 DEF Younger
  <2>5. CASE j # 1
    <3>1. j \in 2 .. Len(v)
      BY <2>5
    <3>2. j - 1 \in 1 .. Len(u) /\ k - 1 \in 1 .. Len(u) /\ j - 1 < k - 1
          /\ s2[j] = s[j - 1] /\ s2[k] = s[k - 1] /\ v[k] = u[k - 1]
      BY <1>11, <1>13, <2>1, <3>1
    <3>. QED BY <1>2, <1>13, <3>2 DEF Held
  <2>. QED BY <2>4, <2>5
<1>14. ASSUME NEW a \in DOMAIN h, IsEntry(h[a]), NEW k \in 1 .. Len(v),
              v[k].kind # "text"
       PROVE  h[a].value # s2[k]
  <2>1. h[a].value \in DOMAIN h
    BY <1>2, <1>14 DEF Tree, HungYounger, Owners
  <2>2. CASE k = 1
    BY <1>6, <1>7, <2>1, <2>2
  <2>3. CASE k # 1
    <3>1. k \in 2 .. Len(v)
      BY <2>3
    <3>. QED BY <1>2, <1>11, <1>14, <3>1 DEF Held
  <2>. QED BY <2>2, <2>3
<1>15. Held(h, t2, s2, P, V, v)
  BY <1>3, <1>6, <1>12, <1>13, <1>14 DEF Held
<1>16. Holding(h, t2, s2, p2, v)
  BY <1>9, <1>10, <1>15 DEF Holding, Represents
<1>. QED BY <1>16 DEF t2, s2
-------------------------------------------------------------------------------
\* An entry or element is appended.
LEMMA EntryAppended ==
  ASSUME NEW h, NEW t, NEW s, NEW p, NEW u, Holding(h, t, s, p, u), p # NULL,
         NEW p2 \in Nat, p < p2, NEW o, NEW kind \in {"map", "array"},
         NEW v, Sq(v), Hangs(u, kind, o.text, v),
         NEW node, node = Node(EntryType(kind), 0, o.text, NULL, s[1]),
         NEW g, g = [h EXCEPT ![LastOf(h, s[2])].next = p]
  PROVE  Holding(Stored(g, p, node), t, SubSeq(s, 1 + 1, Len(s)), p2, v)
PROOF
<1>1. PICK P, W, Q, V : Represents(h, t, s, p, P, W, Q, V, u)
  BY DEF Holding
<1>2. /\ Tree(h, t, P, W, Q, V) /\ Held(h, t, s, P, V, u) /\ Addressed(h, t, p)
      /\ Sq(s) /\ Sq(u) /\ Len(s) = Len(u) /\ Len(u) \in Nat
  BY <1>1, SqIs DEF Represents, Held
<1>3. /\ Len(u) >= 2 /\ u[1].kind # "text" /\ u[2].kind = kind
      /\ Len(v) = Len(u) - 1 /\ v[1] = More(u[2], << <<o.text, u[1]>> >>)
      /\ \A k \in 2 .. Len(v) : v[k] = u[k + 1]
  BY DEF Hangs
<1> DEFINE c == s[2]
           x == s[1]
           l == P[c][Len(P[c])]
           r == SubSeq(s, 1 + 1, Len(s))
           h2 == Stored(g, p, node)
<1>4. 1 \in 1 .. Len(u) /\ 2 \in 1 .. Len(u)
  BY <1>2, <1>3
<1>5. c \in Owners(h) /\ V[c] = u[2] /\ x \in Owners(h) /\ V[x] = u[1]
  <2>1. Stands(h, t, V, s[1], u[1]) /\ Stands(h, t, V, s[2], u[2])
    BY <1>2, <1>4 DEF Held
  <2>. QED BY <1>3, <2>1 DEF Stands
<1>6. Younger(P, c, x)
  <2>1. 1 < 2 /\ u[2].kind # "text"
    BY <1>3
  <2>. QED BY <1>2, <1>4, <2>1 DEF Held
<1>7. /\ Len(P[c]) \in Nat /\ Len(P[c]) >= 1 /\ P[c][1] = c
      /\ NULL \notin DOMAIN h
  BY <1>2, <1>5, OwnerFirst DEF Tree, Addressed, NULL
<1>8. l < x /\ x # c /\ l \in DOMAIN h
  <2>1. 1 \in 1 .. Len(P[c]) /\ Len(P[c]) \in 1 .. Len(P[c])
    BY <1>7
  <2>2. l \in DOMAIN h
    BY <1>2, <1>5, <2>1 DEF Tree, Chained
  <2>3. c < x /\ l < x
    BY <1>6, <1>7, <2>1 DEF Younger
  <2>4. c \in Nat
    BY <1>2, <1>5 DEF Owners, Addressed
  <2>. QED BY <2>2, <2>3, <2>4
<1>9. LastOf(h, c) = l
  BY <1>2, <1>5, <1>7, LastIs DEF Tree
<1>10. g = [h EXCEPT ![l].next = p]
  BY <1>9
<1>11. /\ IsNode(node) /\ node.type = EntryType(kind) /\ node.string = o.text
       /\ node.value = x /\ node.next = NULL
  BY NodeIs
<1> HIDE DEF l
<1>12. /\ DOMAIN g = DOMAIN h
       /\ \A a \in DOMAIN h : a # l => g[a] = h[a]
       /\ Alike(g[l], h[l]) /\ g[l].next = p /\ IsNode(g[l])
  <2>1. IsNode(h[l])
    BY <1>2, <1>8 DEF Addressed
  <2>2. Links(g, h, l, p)
    BY <1>10 DEF Links
  <2>. QED BY <1>8, <2>1, <2>2, LinkedIs
<1>13. Gains(h2, g, p, node)
  BY StoredGains
<1> HIDE DEF h2
<1>14. /\ p \in Nat /\ p \notin DOMAIN h
       /\ \A a \in DOMAIN h : a \in Nat /\ a < p /\ a # p
  BY <1>2 DEF Addressed
<1>15. /\ DOMAIN h2 = DOMAIN h \cup {p} /\ h2[p] = node
       /\ \A a \in DOMAIN h : h2[a] = g[a]
  BY <1>12, <1>13, <1>14 DEF Gains
<1>16. \A a \in DOMAIN h : /\ Alike(h2[a], h[a]) /\ IsNode(h2[a])
                           /\ h2[a].next = IF a = l THEN p ELSE h[a].next
  BY <1>2, <1>12, <1>15 DEF Alike, Addressed
<1>17. \A a \in DOMAIN h : IsEntry(h[a]) => h[a].value # c
  BY <1>2, <1>3, <1>4 DEF Held
<1> HIDE DEF c, x
<1>18. PICK P2, W2, Q2, V2 :
         Tree(h2, t, P2, W2, Q2, V2) /\ TellsMore(h, P, V, c, h2[p].string, x, P2, V2)
  <2>1. DOMAIN h \subseteq Nat /\ x < p /\ V[c].kind \in {"map", "array"}
    BY <1>3, <1>5, <1>14 DEF Owners
  <2>2. /\ h2[p].type = EntryType(V[c].kind) /\ h2[p].value = x
        /\ h2[p].next = NULL
    BY <1>3, <1>5, <1>11, <1>15
  <2>3. P[c][Len(P[c])] < x
    BY <1>8 DEF l
  <2>4. \A a \in DOMAIN h :
          h2[a].next = IF a = P[c][Len(P[c])] THEN p ELSE h[a].next
    BY <1>16 DEF l
  <2>. QED
    BY <1>2, <1>5, <1>8, <1>14, <1>15, <1>16, <1>17, <2>1, <2>2, <2>3, <2>4,
       EntryAdded
<1>19. /\ V2[c] = v[1]
       /\ \A a \in Owners(h) : a # c => P2[a] = P[a] /\ V2[a] = V[a]
  BY <1>3, <1>5, <1>11, <1>15, <1>18 DEF TellsMore
<1>20. /\ Sq(r) /\ Len(r) = Len(v)
       /\ \A k \in 1 .. Len(v) : r[k] = s[k + 1]
  <2>1. Sq(s) /\ Len(s) >= 1
    BY <1>2, <1>3
  <2>2. /\ Sq(r) /\ Len(r) = Len(s) - 1
        /\ \A k \in 1 .. Len(s) - 1 : r[k] = s[k + 1]
    BY <2>1, SqBelow
  <2>. QED BY <1>2, <1>3, <2>2
<1> HIDE DEF r
<1>21. Owners(h2) = Owners(h)
  <2>1. IsEntry(h2[p])
    BY <1>11, <1>15 DEF IsEntry, EntryType
  <2>2. \A a \in DOMAIN h : IsEntry(h2[a]) <=> IsEntry(h[a])
    BY <1>16, AlikeShows
  <2>. QED BY <1>15, <2>1, <2>2 DEF Owners
<1>22. Addressed(h2, t, p2)
  <2>1. p \in 1 .. p2 - 1 /\ \A a \in 1 .. p - 1 : a \in 1 .. p2 - 1
    BY <1>14 DEF NULL
  <2>2. \A a \in DOMAIN h2 : IsNode(h2[a])
    BY <1>11, <1>15, <1>16
  <2>. QED BY <1>2, <1>15, <2>1, <2>2 DEF Addressed
\* What is further down on the stack is not c.
<1>23. ASSUME NEW k \in 2 .. Len(v), v[k].kind # "text"
       PROVE  /\ r[k] \in Owners(h) /\ V[r[k]] = v[k]
              /\ P2[r[k]] = P[r[k]] /\ V2[r[k]] = V[r[k]]
  <2>1. k + 1 \in 1 .. Len(u) /\ 2 < k + 1 /\ r[k] = s[k + 1] /\ v[k] = u[k + 1]
    BY <1>2, <1>3, <1>20
  <2>2. Stands(h, t, V, r[k], v[k])
    BY <1>2, <2>1 DEF Held
  <2>3. r[k] \in Owners(h) /\ V[r[k]] = v[k]
    BY <1>23, <2>2 DEF Stands
  <2>4. Younger(P, r[k], c)
    BY <1>2, <1>4, <1>23, <2>1 DEF Held, c
  <2>5. Len(P[r[k]]) \in Nat /\ Len(P[r[k]]) >= 1 /\ P[r[k]][1] = r[k]
    BY <1>2, <2>3, OwnerFirst DEF Tree
  <2>6. r[k] < c
    <3>1. 1 \in 1 .. Len(P[r[k]])
      BY <2>5
    <3>. QED BY <2>4, <2>5, <3>1 DEF Younger
  <2>7. c \in Nat
    BY <1>5, <1>14 DEF Owners
  <2>8. r[k] # c
    BY <2>6, <2>7
  <2>. QED BY <1>19, <2>3, <2>8
<1>24. r[1] = c /\ v[1].kind # "text"
  <2>1. 1 \in 1 .. Len(v) /\ 1 + 1 = 2
    BY <1>2, <1>3
  <2>2. v[1].kind = kind
    BY <1>3 DEF More
  <2>. QED BY <1>20, <2>1, <2>2 DEF c
<1>25. ASSUME NEW k \in 1 .. Len(v) PROVE Stands(h2, t, V2, r[k], v[k])
  <2>1. CASE k = 1
    BY <1>5, <1>19, <1>21, <1>24, <2>1 DEF Stands
  <2>2. CASE k # 1
    <3>1. k \in 2 .. Len(v) /\ k + 1 \in 1 .. Len(u)
      BY <1>2, <1>3, <2>2
    <3>2. CASE v[k].kind = "text"
      <4>1. Stands(h, t, V, s[k + 1], u[k + 1])
        BY <1>2, <3>1 DEF Held
      <4>2. r[k] = s[k + 1] /\ v[k] = u[k + 1]
        BY <1>3, <1>20, <3>1
      <4>. QED BY <3>2, <4>1, <4>2 DEF Stands
    <3>3. CASE v[k].kind # "text"
      BY <1>21, <1>23, <3>1, <3>3 DEF Stands
    <3>. QED BY <3>2, <3>3
  <2>. QED BY <2>1, <2>2
<1>26. ASSUME NEW j \in 1 .. Len(v), NEW k \in 1 .. Len(v), j < k,
              v[k].kind # "text"
       PROVE  Younger(P2, r[k], r[j])
  <2>1. /\ k \in 2 .. Len(v) /\ j + 1 \in 1 .. Len(u) /\ k + 1 \in 1 .. Len(u)
        /\ j + 1 < k + 1
    BY <1>2, <1>3, <1>26
  <2>2. r[j] = s[j + 1] /\ r[k] = s[k + 1] /\ v[k] = u[k + 1]
    BY <1>3, <1>20, <2>1
  <2>3. Younger(P, r[k], r[j])
    BY <1>2, <1>26, <2>1, <2>2 DEF Held
  <2>4. P2[r[k]] = P[r[k]]
    BY <1>23, <1>26, <2>1
  <2>. QED BY <2>3, <2>4 DEF Younger
<1>27. ASSUME NEW a \in DOMAIN h2, IsEntry(h2[a]), NEW k \in 1 .. Len(v),
              v[k].kind # "text"
       PROVE  h2[a].value # r[k]
  <2>1. k + 1 \in 1 .. Len(u) /\ r[k] = s[k + 1] /\ 1 < k + 1
    BY <1>2, <1>3, <1>20
  <2>2. u[k + 1].kind # "text"
    <3>1. CASE k = 1
      BY <1>3, <3>1
    <3>2. CASE k # 1
      BY <1>3, <1>27, <3>2
    <3>. QED BY <3>1, <3>2
  <2>3. CASE a = p
    <3>1. h2[a].value = x
      BY <1>11, <1>15, <2>3
    <3>2. Younger(P, r[k], x)
      BY <1>2, <1>4, <2>1, <2>2 DEF Held, x
    <3>3. r[k] \in Owners(h)
      <4>1. Stands(h, t, V, s[k + 1], u[k + 1])
        BY <1>2, <2>1 DEF Held
      <4>. QED BY <2>1, <2>2, <4>1 DEF Stands
    <3>4. Len(P[r[k]]) \in Nat /\ Len(P[r[k]]) >= 1 /\ P[r[k]][1] = r[k]
      BY <1>2, <3>3, OwnerFirst DEF Tree
    <3>5. r[k] < x
      <4>1. 1 \in 1 .. Len(P[r[k]])
        BY <3>4
      <4>. QED BY <3>2, <3>4, <4>1 DEF Younger
    <3>6. x \in Nat
      BY <1>5, <1>14 DEF Owners
    <3>. QED BY <3>1, <3>5, <3>6
  <2>4. CASE a # p
    <3>1. a \in DOMAIN h /\ h2[a].value = h[a].value /\ IsEntry(h[a])
      BY <1>15, <1>16, <1>27, <2>4, AlikeShows DEF Alike
    <3>. QED BY <1>2, <2>1, <2>2, <3>1 DEF Held
  <2>. QED BY <2>3, <2>4
<1>28. Held(h2, t, r, P2, V2, v)
  BY <1>20, <1>25, <1>26, <1>27 DEF Held
<1>29. Holding(h2, t, r, p2, v)
  BY <1>18, <1>22, <1>28 DEF Holding, Represents
<1>. QED BY <1>29 DEF h2, r
-------------------------------------------------------------------------------
(***************************************************************************)
(* The functions that print a tree are well defined.                       *)
(***************************************************************************)
\* What one node is printed as, in JSON or as text, given what f says of others
\* and the JSON that j says a map has.
PrintNext(node, f, before) ==
  IF node.next = NULL THEN <<>> ELSE before \o f[node.next]
PrintStep(h, t, j, mode, f, a) ==
  CASE h[a].type = "NT_INT" -> Number(h[a].integer)
    [] h[a].type = "NT_STRING" ->
         IF mode = "json" THEN Quoted(Escape(StringIn(t, h[a])))
         ELSE Plain(StringIn(t, h[a]))
    [] h[a].type = "NT_ARRAY" ->
         IF mode = "json"
         THEN Mark("[") \o PrintNext(h[a], f, <<>>) \o Mark("]")
         ELSE PrintNext(h[a], f, <<>>)
    [] h[a].type = "NT_MAP" ->
         IF mode = "json"
         THEN Mark("{") \o PrintNext(h[a], f, <<>>) \o Mark("}")
         ELSE IF h[a].next = NULL THEN <<>>
              ELSE Mark("{") \o j[h[a].next] \o Mark("}")
    [] h[a].type = "NT_MAP_ENTRY" ->
         Key(h[a].string) \o f[h[a].value]
           \o PrintNext(h[a], f, IF mode = "json" THEN Mark(",") ELSE Mark("\n"))
    [] h[a].type = "NT_ARRAY_ELEMENT" ->
         f[h[a].value] \o PrintNext(h[a], f, Mark(","))
Prints(h, t, j, mode, f, D) == f = [a \in D |-> PrintStep(h, t, j, mode, f, a)]

\* What a node is printed as depends on its next and its value only.
LEMMA PrintLocal ==
  ASSUME NEW h, NEW t, NEW j, NEW mode, NEW f, NEW g, NEW a,
         h[a].next # NULL => f[h[a].next] = g[h[a].next],
         IsEntry(h[a]) => f[h[a].value] = g[h[a].value]
  PROVE  PrintStep(h, t, j, mode, f, a) = PrintStep(h, t, j, mode, g, a)
<1>1. \A before : PrintNext(h[a], f, before) = PrintNext(h[a], g, before)
  BY DEF PrintNext
<1>2. CASE IsEntry(h[a])
  <2>1. f[h[a].value] = g[h[a].value]
    BY <1>2
  <2>2. CASE h[a].type = "NT_MAP_ENTRY"
    <3> DEFINE mark == IF mode = "json" THEN Mark(",") ELSE Mark("\n")
    <3>1. /\ PrintStep(h, t, j, mode, f, a)
               = Key(h[a].string) \o f[h[a].value] \o PrintNext(h[a], f, mark)
          /\ PrintStep(h, t, j, mode, g, a)
               = Key(h[a].string) \o g[h[a].value] \o PrintNext(h[a], g, mark)
      BY <2>2 DEF PrintStep
    <3> HIDE DEF mark
    <3>2. PrintNext(h[a], f, mark) = PrintNext(h[a], g, mark)
      BY <1>1
    <3>. QED BY <2>1, <3>1, <3>2
  <2>3. CASE h[a].type = "NT_ARRAY_ELEMENT"
    <3>1. /\ PrintStep(h, t, j, mode, f, a)
               = f[h[a].value] \o PrintNext(h[a], f, Mark(","))
          /\ PrintStep(h, t, j, mode, g, a)
               = g[h[a].value] \o PrintNext(h[a], g, Mark(","))
      BY <2>3 DEF PrintStep
    <3>2. PrintNext(h[a], f, Mark(",")) = PrintNext(h[a], g, Mark(","))
      BY <1>1
    <3>. QED BY <2>1, <3>1, <3>2
  <2>. QED BY <1>2, <2>2, <2>3 DEF IsEntry
<1>3. CASE ~IsEntry(h[a])
  <2>1. h[a].type # "NT_MAP_ENTRY" /\ h[a].type # "NT_ARRAY_ELEMENT"
    BY <1>3 DEF IsEntry
  <2>. QED BY <1>1, <2>1 DEF PrintStep
<1>. QED BY <1>2, <1>3

\* What a node leads to is older than nothing that it is part of: a number that
\* grows on the way from a node to the next and to a value.
After(h, a) == IF IsEntry(h[a]) THEN 2 * h[a].value - 1 ELSE 2 * a

LEMMA AfterGrows ==
  ASSUME NEW h, NEW t, NEW P, NEW W, NEW Q, NEW V, Tree(h, t, P, W, Q, V),
         NEW p \in Nat, DOMAIN h \subseteq 1 .. p - 1, NEW a \in DOMAIN h
  PROVE  /\ After(h, a) \in 1 .. 2 * p - 1
         /\ h[a].next # NULL =>
              /\ h[a].next \in DOMAIN h
              /\ After(h, a) < After(h, h[a].next)
         /\ IsEntry(h[a]) =>
              /\ h[a].value \in DOMAIN h
              /\ After(h, a) < After(h, h[a].value)
PROOF
<1>1. /\ Placed(h, P, W, Q) /\ Chained(h, P, W, Q) /\ HungYounger(h, P, W, Q)
  BY DEF Tree
<1>2. Owners(h) \subseteq DOMAIN h /\ \A b \in Owners(h) : ~IsEntry(h[b])
  BY DEF Owners
<1>3. \A b \in DOMAIN h : b \in 1 .. p - 1
  OBVIOUS
<1>4. ASSUME IsEntry(h[a])
      PROVE  /\ h[a].value \in Owners(h) /\ h[a].value \in 1 .. p - 1
             /\ h[a].value < a
  BY <1>1, <1>2, <1>3, <1>4 DEF HungYounger
<1>5. After(h, a) \in 1 .. 2 * p - 1
  BY <1>3, <1>4 DEF After
<1>6. ASSUME IsEntry(h[a])
      PROVE  h[a].value \in DOMAIN h /\ After(h, a) < After(h, h[a].value)
  <2> DEFINE x == h[a].value
  <2>1. x \in Owners(h) /\ x \in 1 .. p - 1
    BY <1>4, <1>6
  <2>2. After(h, a) = 2 * x - 1
    BY <1>6 DEF After
  <2> HIDE DEF x
  <2>3. After(h, x) = 2 * x
    BY <1>2, <2>1 DEF After
  <2>4. x \in DOMAIN h /\ After(h, a) < After(h, x)
    BY <1>2, <2>1, <2>2, <2>3
  <2>. QED BY <2>4 DEF x
<1>7. ASSUME h[a].next # NULL
      PROVE  h[a].next \in DOMAIN h /\ After(h, a) < After(h, h[a].next)
  <2> DEFINE e == h[a].next
             c == W[a]
  <2>1. /\ c \in Owners(h) /\ Q[a] \in 1 .. Len(P[c]) /\ P[c][Q[a]] = a
        /\ Q[a] # Len(P[c]) /\ e = P[c][Q[a] + 1]
    BY <1>1, <1>7 DEF Placed
  <2>2. Len(P[c]) \in Nat
    BY <1>1, <2>1, OwnerFirst
  <2>3. Q[a] + 1 \in 1 .. Len(P[c]) /\ (Q[a] + 1) - 1 = Q[a] /\ Q[a] + 1 > 1
    BY <2>1, <2>2
  <2>4. e \in DOMAIN h /\ W[e] = c /\ Q[e] = Q[a] + 1
    BY <1>1, <2>1, <2>3 DEF Chained
  <2> HIDE DEF e
  <2>5. IsEntry(h[e])
    <3>1. IF IsEntry(h[e]) THEN Q[e] > 1 ELSE Q[e] = 1
      BY <1>1, <2>4 DEF Placed
    <3>2. Q[e] # 1
      BY <2>1, <2>3, <2>4
    <3>. QED BY <3>1, <3>2
  <2>6. h[e].value \in Owners(h) /\ a < h[e].value
    BY <1>1, <2>1, <2>3, <2>4, <2>5 DEF HungYounger
  <2> HIDE DEF c
  <2>7. h[e].value \in 1 .. p - 1 /\ a \in 1 .. p - 1
    BY <1>2, <2>6
  <2>8. After(h, e) = 2 * h[e].value - 1
    BY <2>5 DEF After
  <2>9. After(h, a) <= 2 * a
    <3>1. CASE IsEntry(h[a])
      BY <1>4, <2>7, <3>1 DEF After
    <3>2. CASE ~IsEntry(h[a])
      BY <2>7, <3>2 DEF After
    <3>. QED BY <3>1, <3>2
  <2>10. After(h, a) < After(h, e)
    BY <1>5, <2>6, <2>7, <2>8, <2>9
  <2>. QED BY <2>4, <2>10 DEF e
<1>. QED BY <1>5, <1>6, <1>7

\* There is a function that prints every node of a tree, by induction on what comes
\* after a node.
LEMMA PrintsExist ==
  ASSUME NEW h, NEW t, NEW P, NEW W, NEW Q, NEW V, Tree(h, t, P, W, Q, V),
         NEW p \in Nat, DOMAIN h \subseteq 1 .. p - 1, NEW j, NEW mode
  PROVE  \E f : Prints(h, t, j, mode, f, DOMAIN h)
PROOF
<1> DEFINE m == 2 * p
           D(n) == {a \in DOMAIN h : After(h, a) >= m - n}
           E == {n \in Nat : \E f : Prints(h, t, j, mode, f, D(n))}
<1>1. \A a \in DOMAIN h :
        /\ After(h, a) \in 1 .. m - 1
        /\ h[a].next # NULL =>
             h[a].next \in DOMAIN h /\ After(h, a) < After(h, h[a].next)
        /\ IsEntry(h[a]) =>
             h[a].value \in DOMAIN h /\ After(h, a) < After(h, h[a].value)
  BY AfterGrows
<1>2. m \in Nat
  OBVIOUS
<1> HIDE DEF m
<1>3. 0 \in E
  <2>1. D(0) = {}
    BY <1>1, <1>2
  <2> HIDE DEF D
  <2>2. Prints(h, t, j, mode, [a \in {} |-> 0], D(0))
    BY <2>1 DEF Prints
  <2>. QED BY <2>2
<1>4. ASSUME NEW n \in Nat, n \in E PROVE n + 1 \in E
  <2>1. PICK f : Prints(h, t, j, mode, f, D(n))
    BY <1>4
  <2> DEFINE g == [a \in D(n + 1) |->
                     IF a \in D(n) THEN f[a] ELSE PrintStep(h, t, j, mode, f, a)]
  <2>2. D(n) \subseteq D(n + 1) /\ D(n + 1) \subseteq DOMAIN h
    BY <1>1, <1>2
  <2>3. ASSUME NEW a \in D(n + 1)
        PROVE  /\ h[a].next # NULL => h[a].next \in D(n)
               /\ IsEntry(h[a]) => h[a].value \in D(n)
    <3>1. ASSUME NEW b \in DOMAIN h, After(h, a) < After(h, b) PROVE b \in D(n)
      <4>1. /\ After(h, a) \in 1 .. m - 1 /\ After(h, b) \in 1 .. m - 1
            /\ After(h, a) >= m - (n + 1)
        BY <1>1
      <4>2. After(h, b) >= m - n
        BY <1>2, <3>1, <4>1
      <4>. QED BY <4>2
    <3>2. a \in DOMAIN h
      OBVIOUS
    <3> HIDE DEF D
    <3>. QED BY <1>1, <3>1, <3>2
  <2> HIDE DEF D
  <2>4. \A a \in D(n) : f[a] = PrintStep(h, t, j, mode, f, a)
    BY <2>1 DEF Prints
  <2>5. \A a \in D(n) : g[a] = f[a]
    BY <2>2
  <2>6. \A a \in D(n + 1) : g[a] = PrintStep(h, t, j, mode, f, a)
    BY <2>2, <2>4
  <2>7. DOMAIN g = D(n + 1) /\ g = [a \in D(n + 1) |-> g[a]]
    OBVIOUS
  <2> HIDE DEF g
  <2>8. ASSUME NEW a \in D(n + 1) PROVE g[a] = PrintStep(h, t, j, mode, g, a)
    <3>1. /\ h[a].next # NULL => f[h[a].next] = g[h[a].next]
          /\ IsEntry(h[a]) => f[h[a].value] = g[h[a].value]
      BY <2>3, <2>5
    <3>2. PrintStep(h, t, j, mode, f, a) = PrintStep(h, t, j, mode, g, a)
      BY <3>1, PrintLocal
    <3>. QED BY <2>6, <3>2
  <2>9. Prints(h, t, j, mode, g, D(n + 1))
    BY <2>7, <2>8 DEF Prints
  <2>. QED BY <2>9
<1>5. m \in E
  <2> HIDE DEF E
  <2>. QED BY <1>2, <1>3, <1>4, SetInduction
<1>6. D(m) = DOMAIN h
  <2>1. \A a \in DOMAIN h : After(h, a) >= m - m
    BY <1>1, <1>2
  <2>. QED BY <2>1
<1>. QED BY <1>5, <1>6
-------------------------------------------------------------------------------
\* The recursions of JsonOf and TextFieldOf have such a function for a solution.
LEMMA JsonIs ==
  ASSUME NEW P, NEW W, NEW Q, NEW V, Tree(heap, texts, P, W, Q, V),
         NEW p \in Nat, DOMAIN heap \subseteq 1 .. p - 1
  PROVE  \E j : /\ Prints(heap, texts, <<>>, "json", j, DOMAIN heap)
                /\ \A a : JsonOf(a) = j[a]
PROOF
<1> DEFINE body(f, a) ==
             LET node == heap[a]
                 next(before) ==
                   IF node.next = NULL THEN <<>> ELSE before \o f[node.next]
             IN  CASE node.type = "NT_INT" -> Number(node.integer)
                   [] node.type = "NT_STRING" -> Quoted(Escape(TextOf(node)))
                   [] node.type = "NT_ARRAY" ->
                        Mark("[") \o next(<<>>) \o Mark("]")
                   [] node.type = "NT_MAP" ->
                        Mark("{") \o next(<<>>) \o Mark("}")
                   [] node.type = "NT_MAP_ENTRY" ->
                        Key(node.string) \o f[node.value] \o next(Mark(","))
                   [] node.type = "NT_ARRAY_ELEMENT" ->
                        f[node.value] \o next(Mark(","))
           Solves(f) == f = [a \in DOMAIN heap |-> body(f, a)]
           json == CHOOSE f : Solves(f)
<1>1. \A a : JsonOf(a) = json[a]
  BY DEF JsonOf
<1>2. ASSUME NEW f, NEW a
      PROVE  PrintStep(heap, texts, <<>>, "json", f, a) = body(f, a)
  <2>1. \A before :
          PrintNext(heap[a], f, before)
            = IF heap[a].next = NULL THEN <<>> ELSE before \o f[heap[a].next]
    BY DEF PrintNext
  <2>2. StringIn(texts, heap[a]) = TextOf(heap[a])
    BY DEF StringIn, TextOf
  <2>. QED BY <2>2 DEF PrintStep, PrintNext
<1> HIDE DEF body
<1>3. ASSUME NEW f
      PROVE  Solves(f) <=> Prints(heap, texts, <<>>, "json", f, DOMAIN heap)
  BY <1>2 DEF Prints
<1>4. \E f : Prints(heap, texts, <<>>, "json", f, DOMAIN heap)
  BY PrintsExist
<1> HIDE DEF Solves
<1>5. Solves(json)
  BY <1>3, <1>4
<1>6. Prints(heap, texts, <<>>, "json", json, DOMAIN heap)
  <2> HIDE DEF json
  <2>. QED BY <1>3, <1>5
<1> HIDE DEF json
<1>. QED BY <1>1, <1>6

LEMMA TextFieldIs ==
  ASSUME NEW P, NEW W, NEW Q, NEW V, Tree(heap, texts, P, W, Q, V),
         NEW p \in Nat, DOMAIN heap \subseteq 1 .. p - 1, NEW j,
         \A a : JsonOf(a) = j[a]
  PROVE  \E f : /\ Prints(heap, texts, j, "text", f, DOMAIN heap)
                /\ \A a : TextFieldOf(a) = f[a]
PROOF
<1> DEFINE body(f, a) ==
             LET node == heap[a]
                 next(before) ==
                   IF node.next = NULL THEN <<>> ELSE before \o f[node.next]
             IN  CASE node.type = "NT_INT" -> Number(node.integer)
                   [] node.type = "NT_STRING" -> Plain(TextOf(node))
                   [] node.type = "NT_ARRAY" -> next(<<>>)
                   [] node.type = "NT_MAP" ->
                        IF node.next = NULL THEN <<>>
                        ELSE Mark("{") \o JsonOf(node.next) \o Mark("}")
                   [] node.type = "NT_MAP_ENTRY" ->
                        Key(node.string) \o f[node.value] \o next(Mark("\n"))
                   [] node.type = "NT_ARRAY_ELEMENT" ->
                        f[node.value] \o next(Mark(","))
           Solves(f) == f = [a \in DOMAIN heap |-> body(f, a)]
           field == CHOOSE f : Solves(f)
<1>1. \A a : TextFieldOf(a) = field[a]
  BY DEF TextFieldOf
<1>2. ASSUME NEW f, NEW a
      PROVE  PrintStep(heap, texts, j, "text", f, a) = body(f, a)
  <2>1. \A before :
          PrintNext(heap[a], f, before)
            = IF heap[a].next = NULL THEN <<>> ELSE before \o f[heap[a].next]
    BY DEF PrintNext
  <2>2. StringIn(texts, heap[a]) = TextOf(heap[a])
    BY DEF StringIn, TextOf
  <2>3. JsonOf(heap[a].next) = j[heap[a].next]
    OBVIOUS
  <2>. QED BY <2>2, <2>3 DEF PrintStep, PrintNext
<1> HIDE DEF body
<1>3. ASSUME NEW f
      PROVE  Solves(f) <=> Prints(heap, texts, j, "text", f, DOMAIN heap)
  BY <1>2 DEF Prints
<1>4. \E f : Prints(heap, texts, j, "text", f, DOMAIN heap)
  BY PrintsExist
<1> HIDE DEF Solves
<1>5. Solves(field)
  BY <1>3, <1>4
<1>6. Prints(heap, texts, j, "text", field, DOMAIN heap)
  <2> HIDE DEF field
  <2>. QED BY <1>3, <1>5
<1> HIDE DEF field
<1>. QED BY <1>1, <1>6
-------------------------------------------------------------------------------
(***************************************************************************)
(* What is printed, as it reads.                                           *)
(***************************************************************************)
\* Reading goes token by token.
LEMMA ReadIs ==
  ASSUME NEW s, Sq(s)
  PROVE  /\ Sq(Read(s)) /\ Len(Read(s)) = Len(s)
         /\ \A i \in 1 .. Len(s) : Read(s)[i] = ReadToken(s[i])
<1>1. Len(s) \in Nat /\ DOMAIN s = 1 .. Len(s)
  BY SqIs
<1>2. Listed(Read(s), Len(s)) /\ \A i \in 1 .. Len(s) : Read(s)[i] = ReadToken(s[i])
  BY <1>1 DEF Read, Listed
<1>. QED BY <1>1, <1>2, SqFunction

LEMMA ReadJoined ==
  ASSUME NEW s, NEW t, Sq(s), Sq(t)
  PROVE  Sq(s \o t) /\ Read(s \o t) = Read(s) \o Read(t)
<1> DEFINE m == Len(s)
           n == Len(t)
           r == s \o t
           q == Read(s) \o Read(t)
<1>1. m \in Nat /\ n \in Nat
  BY SqIs
<1>2. /\ Sq(r) /\ Len(r) = m + n
      /\ \A i \in 1 .. m : r[i] = s[i]
      /\ \A i \in 1 .. n : r[m + i] = t[i]
  BY SqJoined
<1>3. /\ Sq(Read(s)) /\ Len(Read(s)) = m /\ Sq(Read(t)) /\ Len(Read(t)) = n
      /\ \A i \in 1 .. m : Read(s)[i] = ReadToken(s[i])
      /\ \A i \in 1 .. n : Read(t)[i] = ReadToken(t[i])
  BY ReadIs
<1>4. /\ Sq(q) /\ Len(q) = m + n
      /\ \A i \in 1 .. m : q[i] = Read(s)[i]
      /\ \A i \in 1 .. n : q[m + i] = Read(t)[i]
  <2> DEFINE a == Read(s)
             b == Read(t)
  <2>1. Sq(a) /\ Sq(b) /\ Len(a) = m /\ Len(b) = n
    BY <1>3
  <2> HIDE DEF a, b, m, n
  <2>2. /\ Sq(a \o b) /\ Len(a \o b) = Len(a) + Len(b)
        /\ \A i \in 1 .. Len(a) : (a \o b)[i] = a[i]
        /\ \A i \in 1 .. Len(b) : (a \o b)[Len(a) + i] = b[i]
    BY <2>1, SqJoined
  <2>3. /\ Sq(a \o b) /\ Len(a \o b) = m + n
        /\ \A i \in 1 .. m : (a \o b)[i] = a[i]
        /\ \A i \in 1 .. n : (a \o b)[m + i] = b[i]
    BY <2>1, <2>2
  <2>. QED BY <2>3 DEF a, b
<1> HIDE DEF r, q, m, n
<1>5. /\ Sq(Read(r)) /\ Len(Read(r)) = m + n
      /\ \A i \in 1 .. m + n : Read(r)[i] = ReadToken(r[i])
  BY <1>2, ReadIs
<1>6. ASSUME NEW i \in 1 .. m + n PROVE Read(r)[i] = q[i]
  <2>1. CASE i \in 1 .. m
    BY <1>2, <1>3, <1>4, <1>5, <2>1
  <2>2. CASE i \notin 1 .. m
    <3> DEFINE k == i - m
    <3>1. k \in 1 .. n /\ i = m + k
      BY <1>1, <2>2
    <3> HIDE DEF k
    <3>. QED BY <1>2, <1>3, <1>4, <1>5, <3>1
  <2>. QED BY <2>1, <2>2
<1>7. Read(r) = q
  BY <1>4, <1>5, <1>6, SqEqual
<1>. QED BY <1>2, <1>7 DEF r, q

LEMMA ReadOneIs ==
  ASSUME NEW x, NEW s, s = <<x>>
  PROVE  Sq(s) /\ Read(s) = <<ReadToken(x)>>
<1>1. Sq(s) /\ Len(s) = 1 /\ s[1] = x
  BY SqOne
<1>2. /\ Sq(Read(s)) /\ Len(Read(s)) = 1
      /\ \A i \in 1 .. 1 : Read(s)[i] = ReadToken(s[i])
  BY <1>1, ReadIs
<1> DEFINE y == ReadToken(x)
<1>3. Sq(<<y>>) /\ Len(<<y>>) = 1 /\ <<y>>[1] = y
  BY SqOne
<1>4. \A i \in 1 .. 1 : Read(s)[i] = <<y>>[i]
  BY <1>1, <1>2, <1>3
<1>5. Read(s) = <<y>>
  <2> HIDE DEF y
  <2>. QED BY <1>2, <1>3, <1>4, SqEqual
<1>. QED BY <1>1, <1>5

\* All but quoted texts read as they are.
Same(s) == Sq(s) /\ Read(s) = s

LEMMA TokensAreSame ==
  /\ \A c : Same(Mark(c))
  /\ \A k : Same(Key(k))
  /\ \A n : Same(Number(n))
  /\ \A text : Same(Plain(text))
<1>1. ASSUME NEW kind, kind # "quoted", NEW n, NEW text
      PROVE  Same(<<Token(kind, n, text)>>)
  <2> DEFINE x == Token(kind, n, text)
  <2>1. ReadToken(x) = x
    BY <1>1 DEF ReadToken, Token
  <2> HIDE DEF x
  <2>2. Same(<<x>>)
    BY <2>1, ReadOneIs DEF Same
  <2>. QED BY <2>2 DEF x
<1>2. ASSUME NEW c PROVE Same(Mark(c))
  BY <1>1 DEF Mark
<1>3. ASSUME NEW k PROVE Same(Key(k))
  BY <1>1 DEF Key
<1>4. ASSUME NEW n PROVE Same(Number(n))
  BY <1>1 DEF Number
<1>5. ASSUME NEW text PROVE Same(Plain(text))
  BY <1>1 DEF Plain
<1>. QED BY <1>2, <1>3, <1>4, <1>5

\* A list that is printed from its i-th member on.
Listing(J, X, n, mark) ==
  \A i \in 1 .. n :
    J[i] = X[i] \o (IF i = n THEN <<>> ELSE mark \o J[i + 1])
\* What is printed is a sequence that reads as t.
Reads(s, t) == Sq(s) /\ Read(s) = t

\* A list that is printed mark by mark reads as its parts joined.
LEMMA JoinReads ==
  ASSUME NEW n \in Nat, n >= 1, NEW parts, Listed(parts, n), NEW mark, Same(mark),
         NEW J, NEW X, Listing(J, X, n, mark),
         \A i \in 1 .. n : Reads(X[i], parts[i])
  PROVE  Reads(J[1], Join(parts, mark))
PROOF
<1> DEFINE T == {i \in 1 .. n : Sq(J[i])}
           r == [i \in 1 .. n |-> Read(J[i])]
           Solves(g) ==
             g = [i \in DOMAIN parts |->
                    parts[i] \o (IF i = Len(parts) THEN <<>>
                                 ELSE mark \o g[i + 1])]
           rest == CHOOSE g : Solves(g)
<1>1. Len(parts) = n /\ DOMAIN parts = 1 .. n
  BY SqFunction
<1>2. ASSUME NEW i \in 1 .. n
      PROVE  J[i] = X[i] \o (IF i = n THEN <<>> ELSE mark \o J[i + 1])
  BY DEF Listing
<1>3. \A i \in 1 .. n : Sq(X[i]) /\ Read(X[i]) = parts[i]
  BY DEF Reads
<1>4. Sq(mark) /\ Read(mark) = mark
  BY DEF Same
<1>5. n \in T
  <2>3. n \in 1 .. n
    OBVIOUS
  <2>1. J[n] = X[n] \o <<>>
    BY <1>2, <2>3
  <2>2. Sq(X[n])
    BY <1>3, <2>3
  <2>. QED BY <2>1, <2>2, <2>3, SqEmpty
<1>6. ASSUME NEW i \in 1 .. n - 1, i + 1 \in T PROVE i \in T
  <2>1. i \in 1 .. n /\ i # n
    OBVIOUS
  <2>2. J[i] = X[i] \o (mark \o J[i + 1]) /\ Sq(X[i]) /\ Sq(J[i + 1])
    BY <1>2, <1>3, <1>6, <2>1
  <2>3. Sq(mark \o J[i + 1])
    BY <1>4, <2>2, SqJoined
  <2>4. Sq(X[i] \o (mark \o J[i + 1]))
    BY <2>2, <2>3, SqJoined
  <2>. QED BY <2>1, <2>2, <2>4
<1>7. \A i \in 1 .. n : i \in T
  <2> HIDE DEF T
  <2>. QED BY <1>5, <1>6, DownInduction
<1>8. \A i \in 1 .. n : Sq(J[i])
  BY <1>7
<1>9. ASSUME NEW i \in 1 .. n
      PROVE  Read(J[i]) = parts[i] \o (IF i = n THEN <<>>
                                       ELSE mark \o Read(J[i + 1]))
  <2>1. CASE i = n
    <3>1. J[i] = X[i] \o <<>> /\ Sq(X[i]) /\ Read(X[i]) = parts[i]
      BY <1>2, <1>3, <2>1
    <3>2. J[i] = X[i]
      BY <3>1, SqEmpty
    <3>3. Sq(parts[i])
      BY <3>1, ReadIs
    <3>4. parts[i] \o <<>> = parts[i]
      BY <3>3, SqEmpty
    <3>. QED BY <2>1, <3>1, <3>2, <3>4
  <2>2. CASE i # n
    <3>1. i + 1 \in 1 .. n
      BY <2>2
    <3>2. J[i] = X[i] \o (mark \o J[i + 1]) /\ Sq(X[i]) /\ Sq(J[i + 1])
      BY <1>2, <1>3, <1>8, <2>2, <3>1
    <3>3. Sq(mark \o J[i + 1]) /\ Read(mark \o J[i + 1]) = mark \o Read(J[i + 1])
      BY <1>4, <3>2, ReadJoined
    <3> DEFINE y == mark \o J[i + 1]
    <3> HIDE DEF y
    <3>4. Read(X[i] \o y) = Read(X[i]) \o Read(y)
      BY <3>2, <3>3, ReadJoined DEF y
    <3>. QED BY <1>3, <2>2, <3>2, <3>3, <3>4 DEF y
  <2>. QED BY <2>1, <2>2
<1>10. Solves(r)
  <2>1. ASSUME NEW i \in 1 .. n
        PROVE  r[i] = parts[i] \o (IF i = n THEN <<>> ELSE mark \o r[i + 1])
    <3>1. i # n => i + 1 \in 1 .. n
      OBVIOUS
    <3>2. r[i] = Read(J[i]) /\ (i # n => r[i + 1] = Read(J[i + 1]))
      BY <3>1
    <3> HIDE DEF r
    <3>. QED BY <1>9, <3>2
  <2>2. r = [i \in 1 .. n |-> r[i]]
    OBVIOUS
  <2> HIDE DEF r
  <2>. QED BY <1>1, <2>1, <2>2
<1>11. Solves(rest)
  <2> HIDE DEF r, Solves
  <2>. QED BY <1>10
<1>12. Join(parts, mark) = rest[1]
  <2>1. DOMAIN parts # {}
    BY <1>1
  <2>. QED BY <2>1 DEF Join
<1> HIDE DEF rest
<1>13. ASSUME NEW i \in 1 .. n
       PROVE  rest[i] = parts[i] \o (IF i = n THEN <<>> ELSE mark \o rest[i + 1])
  BY <1>1, <1>11
<1> DEFINE U == {i \in 1 .. n : rest[i] = Read(J[i])}
<1>14. n \in U
  <2>1. n \in 1 .. n
    OBVIOUS
  <2>2. Read(J[n]) = parts[n] \o <<>> /\ rest[n] = parts[n] \o <<>>
    BY <1>9, <1>13, <2>1
  <2>. QED BY <2>1, <2>2
<1>15. ASSUME NEW i \in 1 .. n - 1, i + 1 \in U PROVE i \in U
  <2>1. i \in 1 .. n /\ i # n /\ rest[i + 1] = Read(J[i + 1])
    BY <1>15
  <2>. QED BY <1>9, <1>13, <2>1
<1>16. \A i \in 1 .. n : i \in U
  <2> HIDE DEF U
  <2>. QED BY <1>14, <1>15, DownInduction
<1>17. 1 \in U /\ 1 \in 1 .. n
  BY <1>16
<1>. QED BY <1>8, <1>12, <1>17 DEF Reads

LEMMA JoinOfNone == ASSUME NEW parts, Listed(parts, 0), NEW mark
                    PROVE  Join(parts, mark) = <<>>
<1>1. DOMAIN parts = {}
  BY SqFunction
<1>. QED BY <1>1 DEF Join
-------------------------------------------------------------------------------
(***************************************************************************)
(* What printJsonString escapes reads back as it was.                      *)
(***************************************************************************)
\* A reader goes from the state u to v by the characters of s.
ReadsOn(u, s, v) ==
  \E r : /\ r[0] = u /\ r[Len(s)] = v
         /\ \A i \in 1 .. Len(s) : r[i] = ReadOne(r[i - 1], s[i])

LEMMA ReadsOnNone == ASSUME NEW u PROVE ReadsOn(u, <<>>, u)
<1> DEFINE r == [i \in 0 .. 0 |-> u]
<1>1. r[0] = u /\ r[Len(<<>>)] = u /\ \A i \in 1 .. Len(<<>>) : FALSE
  OBVIOUS
<1>. QED BY <1>1 DEF ReadsOn

LEMMA ReadsOnOne ==
  ASSUME NEW u, NEW c, NEW v, v = ReadOne(u, c) PROVE ReadsOn(u, <<c>>, v)
<1> DEFINE r == [i \in 0 .. 1 |-> IF i = 0 THEN u ELSE v]
<1>1. r[0] = u /\ r[1] = v
  OBVIOUS
<1>2. Len(<<c>>) = 1 /\ <<c>>[1] = c
  BY SqOne
<1> HIDE DEF r
<1>3. ASSUME NEW i \in 1 .. 1 PROVE r[i] = ReadOne(r[i - 1], <<c>>[i])
  <2>1. i = 1 /\ i - 1 = 0
    OBVIOUS
  <2>. QED BY <1>1, <1>2, <2>1
<1>. QED BY <1>1, <1>2, <1>3 DEF ReadsOn

LEMMA ReadsOnJoined ==
  ASSUME NEW s, NEW t, Sq(s), Sq(t), NEW u, NEW v, NEW w,
         ReadsOn(u, s, v), ReadsOn(v, t, w)
  PROVE  ReadsOn(u, s \o t, w)
<1> DEFINE m == Len(s)
           n == Len(t)
<1>1. PICK p : /\ p[0] = u /\ p[m] = v
               /\ \A i \in 1 .. m : p[i] = ReadOne(p[i - 1], s[i])
  BY DEF ReadsOn
<1>2. PICK q : /\ q[0] = v /\ q[n] = w
               /\ \A i \in 1 .. n : q[i] = ReadOne(q[i - 1], t[i])
  BY DEF ReadsOn
<1>3. /\ m \in Nat /\ n \in Nat /\ Len(s \o t) = m + n
      /\ \A i \in 1 .. m : (s \o t)[i] = s[i]
      /\ \A i \in 1 .. n : (s \o t)[m + i] = t[i]
  BY SqIs, SqJoined
<1> HIDE DEF m, n
<1> DEFINE r == [i \in 0 .. m + n |-> IF i <= m THEN p[i] ELSE q[i - m]]
<1>4. \A i \in 0 .. m : r[i] = p[i]
  BY <1>3
<1>5. \A i \in 0 .. n : r[m + i] = q[i]
  <2> SUFFICES ASSUME NEW i \in 0 .. n PROVE r[m + i] = q[i]
    OBVIOUS
  <2>1. CASE i = 0
    BY <2>1, <1>1, <1>2, <1>3
  <2>2. CASE i # 0
    BY <2>2, <1>3
  <2>. QED BY <2>1, <2>2
<1> HIDE DEF r
<1>6. ASSUME NEW i \in 1 .. m + n PROVE r[i] = ReadOne(r[i - 1], (s \o t)[i])
  <2>1. CASE i <= m
    <3>1. i \in 1 .. m /\ i \in 0 .. m /\ i - 1 \in 0 .. m
      BY <1>3, <2>1
    <3>2. r[i - 1] = p[i - 1] /\ r[i] = p[i] /\ (s \o t)[i] = s[i]
      BY <1>3, <1>4, <3>1
    <3>3. p[i] = ReadOne(p[i - 1], s[i])
      BY <1>1, <3>1
    <3>. QED BY <3>2, <3>3
  <2>2. CASE ~(i <= m)
    <3>1. PICK k \in 1 .. n : i = m + k
      <4>1. i - m \in 1 .. n /\ i = m + (i - m)
        BY <1>3, <2>2
      <4>. QED BY <4>1
    <3>2. k \in 0 .. n /\ k - 1 \in 0 .. n /\ i - 1 = m + (k - 1)
      BY <1>3, <3>1
    <3>3. r[i - 1] = q[k - 1] /\ r[i] = q[k] /\ (s \o t)[i] = t[k]
      BY <1>3, <1>5, <3>1, <3>2
    <3>4. q[k] = ReadOne(q[k - 1], t[k])
      BY <1>2, <3>1
    <3>. QED BY <3>3, <3>4
  <2>. QED BY <2>1, <2>2
<1>7. r[0] = u /\ r[m + n] = w
  <2>1. 0 \in 0 .. m /\ n \in 0 .. n
    BY <1>3
  <2>. QED BY <1>1, <1>2, <1>4, <1>5, <2>1
<1>. QED BY <1>3, <1>6, <1>7 DEF ReadsOn

\* The recursion of Unquoted has the states of the reader for a solution.
LEMMA UnquotedIs ==
  ASSUME NEW s, Sq(s), NEW v, ReadsOn(Reading(<<>>, "plain"), s, v)
  PROVE  Unquoted(s) = v
<1> DEFINE n == Len(s)
           u == Reading(<<>>, "plain")
           Solves(g) ==
             g = [i \in 0 .. n |-> IF i = 0 THEN u ELSE ReadOne(g[i - 1], s[i])]
           read == CHOOSE g : Solves(g)
<1>1. n \in Nat
  BY SqIs
<1>2. PICK r : /\ r[0] = u /\ r[n] = v
               /\ \A i \in 1 .. n : r[i] = ReadOne(r[i - 1], s[i])
  BY DEF ReadsOn
<1>3. Unquoted(s) = read[n]
  BY DEF Unquoted
<1> HIDE DEF u
<1> DEFINE e == [i \in 0 .. n |-> r[i]]
<1>4. Solves(e)
  <2>1. ASSUME NEW i \in 0 .. n
        PROVE  e[i] = IF i = 0 THEN u ELSE ReadOne(e[i - 1], s[i])
    <3>1. CASE i = 0
      BY <1>2, <3>1
    <3>2. CASE i # 0
      <4>1. i \in 1 .. n /\ i - 1 \in 0 .. n
        BY <1>1, <3>2
      <4>2. e[i] = r[i] /\ e[i - 1] = r[i - 1]
        BY <4>1
      <4> HIDE DEF e
      <4>. QED BY <1>2, <3>2, <4>1, <4>2
    <3>. QED BY <3>1, <3>2
  <2>2. e = [i \in 0 .. n |-> e[i]]
    OBVIOUS
  <2> HIDE DEF e
  <2>. QED BY <2>1, <2>2
<1>5. Solves(read)
  <2> HIDE DEF e, Solves
  <2>. QED BY <1>4
<1> HIDE DEF read
<1>6. ASSUME NEW i \in 0 .. n
      PROVE  read[i] = IF i = 0 THEN u ELSE ReadOne(read[i - 1], s[i])
  BY <1>5
<1> DEFINE T == {i \in Nat : i <= n => read[i] = r[i]}
<1>7. 0 \in T
  <2>1. 0 \in 0 .. n
    BY <1>1
  <2>. QED BY <1>2, <1>6, <2>1
<1>8. ASSUME NEW i \in Nat, i \in T PROVE i + 1 \in T
  <2> SUFFICES ASSUME i + 1 <= n PROVE read[i + 1] = r[i + 1]
    OBVIOUS
  <2>1. i + 1 \in 1 .. n /\ i + 1 \in 0 .. n /\ (i + 1) - 1 = i /\ i <= n
        /\ i + 1 # 0
    BY <1>1
  <2>2. read[i] = r[i]
    BY <1>8, <2>1
  <2>3. read[i + 1] = ReadOne(read[(i + 1) - 1], s[i + 1])
    BY <1>6, <2>1
  <2>4. r[i + 1] = ReadOne(r[(i + 1) - 1], s[i + 1])
    BY <1>2, <2>1
  <2>. QED BY <2>1, <2>2, <2>3, <2>4
<1>9. n \in T
  <2> HIDE DEF T
  <2>. QED BY <1>1, <1>7, <1>8, SetInduction
<1>. QED BY <1>1, <1>2, <1>3, <1>9

-------------------------------------------------------------------------------
\* What a character is escaped as.
Piece(c) == IF c \in Escaped THEN <<"\\", c>> ELSE <<c>>

\* It is read back as the character.
LEMMA PieceReads ==
  ASSUME NEW c, c \notin Control, NEW x
  PROVE  /\ Sq(Piece(c))
         /\ ReadsOn(Reading(x, "plain"), Piece(c), Reading(Append(x, c), "plain"))
<1> DEFINE u == Reading(x, "plain")
           w == Reading(Append(x, c), "plain")
           v == Reading(x, "escape")
<1>1. CASE c \in Escaped
  <2>1. c \in Itself
    BY <1>1 DEF Control
  <2>2. u.mode = "plain" /\ u.text = x /\ v.mode = "escape" /\ v.text = x
    BY DEF Reading
  <2>3. ReadOne(u, "\\") = v
    BY <2>2 DEF ReadOne
  <2>4. ReadOne(v, c) = w
    BY <2>1, <2>2 DEF ReadOne
  <2> HIDE DEF u, v, w
  <2>5. ReadsOn(u, <<"\\">>, v) /\ ReadsOn(v, <<c>>, w)
    BY <2>3, <2>4, ReadsOnOne
  <2>6. Sq(<<"\\">>) /\ Sq(<<c>>)
    BY SqOne
  <2>7. Piece(c) = <<"\\">> \o <<c>>
    BY <1>1 DEF Piece
  <2>8. ReadsOn(u, <<"\\">> \o <<c>>, w)
    BY <2>5, <2>6, ReadsOnJoined
  <2>9. Sq(<<"\\">> \o <<c>>)
    BY <2>6, SqJoined
  <2>. QED BY <2>7, <2>8, <2>9 DEF u, w
<1>2. CASE c \notin Escaped
  <2>1. c \notin Control \cup {"\"", "\\"} /\ c # "\\"
    BY <1>2 DEF Control, Escaped
  <2>2. u.mode = "plain" /\ u.text = x
    BY DEF Reading
  <2>3. ReadOne(u, c) = w
    BY <2>1, <2>2 DEF ReadOne
  <2> HIDE DEF u, w
  <2>4. ReadsOn(u, <<c>>, w) /\ Sq(<<c>>)
    BY <2>3, ReadsOnOne, SqOne
  <2>5. Piece(c) = <<c>>
    BY <1>2 DEF Piece
  <2>. QED BY <2>4, <2>5 DEF u, w
<1>. QED BY <1>1, <1>2

\* A text without control characters.
Clean(text) == Sq(text) /\ \A i \in 1 .. Len(text) : text[i] \notin Control

\* A reader of JSON gets the text that printJsonString has escaped, if it has no
\* control characters (list_cpu_features.c:229-248).
THEOREM EscapeReads ==
  ASSUME NEW text, Clean(text)
  PROVE  Unquoted(Escape(text)) = Reading(text, "plain")
PROOF
<1> DEFINE n == Len(text)
           f == [i \in DOMAIN text |->
                   IF text[i] \in Escaped THEN <<"\\", text[i]>> ELSE <<text[i]>>]
           none == Reading(<<>>, "plain")
           prefix(m) == [i \in 1 .. m |-> text[i]]
<1>1. n \in Nat /\ DOMAIN text = 1 .. n /\ Sq(text)
      /\ \A i \in 1 .. n : text[i] \notin Control
  BY SqIs DEF Clean
<1>2. Escape(text) = Concat(f)
  BY DEF Escape
<1>3. Listed(f, n) /\ \A i \in 1 .. n : f[i] = Piece(text[i])
  BY <1>1 DEF Listed, Piece
<1> HIDE DEF f, n, none
<1>4. PICK joined : Concat(f) = joined[n] /\ Joins(joined, f, n)
  BY <1>1, <1>3, ConcatIs
<1>5. /\ joined[0] = <<>>
      /\ \A i \in 1 .. n : joined[i] = joined[i - 1] \o f[i]
  BY <1>1, <1>4 DEF Joins
<1> DEFINE T == {m \in Nat : m <= n =>
                   /\ Sq(joined[m])
                   /\ ReadsOn(none, joined[m], Reading(prefix(m), "plain"))}
<1>6. 0 \in T
  <2>1. prefix(0) = <<>>
    OBVIOUS
  <2>2. Reading(prefix(0), "plain") = none
    BY <2>1 DEF none
  <2>. QED BY <1>5, <2>2, ReadsOnNone, SqNone
<1>7. ASSUME NEW m \in Nat, m \in T PROVE m + 1 \in T
  <2> SUFFICES ASSUME m + 1 <= n
               PROVE  /\ Sq(joined[m + 1])
                      /\ ReadsOn(none, joined[m + 1],
                                 Reading(prefix(m + 1), "plain"))
    OBVIOUS
  <2>1. m + 1 \in 1 .. n /\ (m + 1) - 1 = m /\ m <= n
    BY <1>1
  <2>2. /\ Sq(joined[m])
        /\ ReadsOn(none, joined[m], Reading(prefix(m), "plain"))
    BY <1>7, <2>1
  <2> DEFINE c == text[m + 1]
             x == prefix(m)
  <2>3. joined[m + 1] = joined[m] \o Piece(c) /\ c \notin Control
    BY <1>1, <1>3, <1>5, <2>1
  <2>4. prefix(m + 1) = Append(x, c)
    <3>1. Listed(x, m) /\ \A i \in 1 .. m : x[i] = text[i]
      BY DEF Listed
    <3>2. /\ Listed(prefix(m + 1), m + 1)
          /\ \A i \in 1 .. m + 1 : prefix(m + 1)[i] = text[i]
      BY DEF Listed
    <3> DEFINE y == prefix(m + 1)
               z == Append(x, c)
    <3> HIDE DEF x, y, c
    <3>3. Sq(x) /\ Len(x) = m
      BY <3>1, SqFunction
    <3>4. Sq(y) /\ Len(y) = m + 1 /\ \A i \in 1 .. m + 1 : y[i] = text[i]
      <4>1. Listed(y, m + 1) /\ \A i \in 1 .. m + 1 : y[i] = text[i]
        BY <3>2 DEF y
      <4>. QED BY <4>1, SqFunction
    <3>5. /\ Sq(z) /\ Len(z) = m + 1 /\ z[m + 1] = c
          /\ \A i \in 1 .. m : z[i] = x[i]
      <4>1. Longer(z, x, c)
        BY DEF Longer
      <4> HIDE DEF z
      <4>. QED BY <3>3, <4>1, LongerList
    <3> HIDE DEF z
    <3>6. ASSUME NEW i \in 1 .. m + 1 PROVE y[i] = z[i]
      <4>1. CASE i = m + 1
        BY <3>4, <3>5, <4>1 DEF c
      <4>2. CASE i # m + 1
        BY <3>1, <3>4, <3>5, <4>2
      <4>. QED BY <4>1, <4>2
    <3>7. y = z
      BY <3>4, <3>5, <3>6, SqEqual
    <3>. QED BY <3>7 DEF y, z
  <2> HIDE DEF c, x
  <2>5. /\ Sq(Piece(c))
        /\ ReadsOn(Reading(x, "plain"), Piece(c), Reading(Append(x, c), "plain"))
    BY <2>3, PieceReads
  <2>6. ReadsOn(none, joined[m], Reading(x, "plain"))
    BY <2>2 DEF x
  <2>7. /\ Sq(joined[m] \o Piece(c))
        /\ ReadsOn(none, joined[m] \o Piece(c), Reading(Append(x, c), "plain"))
    BY <2>2, <2>5, <2>6, SqJoined, ReadsOnJoined
  <2>. QED BY <2>3, <2>4, <2>7
<1>8. n \in T
  <2> HIDE DEF T
  <2>. QED BY <1>1, <1>6, <1>7, SetInduction
<1>9. prefix(n) = text
  <2>1. text = [i \in 1 .. n |-> text[i]]
    BY <1>1, SqIs DEF n
  <2>. QED BY <2>1
<1>10. Sq(joined[n]) /\ ReadsOn(none, joined[n], Reading(text, "plain"))
  BY <1>1, <1>8, <1>9
<1>11. Unquoted(joined[n]) = Reading(text, "plain")
  BY <1>10, UnquotedIs DEF none
<1>. QED BY <1>2, <1>4, <1>11

LEMMA QuotedReads ==
  ASSUME NEW text, Clean(text)
  PROVE  Reads(Quoted(Escape(text)), Quoted(text))
<1> DEFINE x == Token("quoted", 0, Escape(text))
<1>1. Unquoted(Escape(text)) = Reading(text, "plain")
  BY EscapeReads
<1>2. ReadToken(x) = Token("quoted", 0, text)
  BY <1>1 DEF ReadToken, Token, Reading
<1>3. Quoted(Escape(text)) = <<x>>
  BY DEF Quoted
<1> HIDE DEF x
<1>4. Sq(<<x>>) /\ Read(<<x>>) = <<ReadToken(x)>>
  BY ReadOneIs
<1>. QED BY <1>2, <1>3, <1>4 DEF Reads, Quoted
-------------------------------------------------------------------------------
(***************************************************************************)
(* A tree that shows a value is printed as the value is, level by level.   *)
(***************************************************************************)
\* The nodes show the values V, and f tells what each is printed as.
Displays(h, t, P, W, Q, V, j, mode, f) ==
  /\ Tree(h, t, P, W, Q, V) /\ NULL \notin DOMAIN h
  /\ Prints(h, t, j, mode, f, DOMAIN h)

LEMMA DisplaysIs ==
  ASSUME NEW h, NEW t, NEW P, NEW W, NEW Q, NEW V, NEW j, NEW mode, NEW f,
         Displays(h, t, P, W, Q, V, j, mode, f), NEW a \in DOMAIN h
  PROVE  f[a] = PrintStep(h, t, j, mode, f, a)
BY DEF Displays, Prints

\* The i-th member of a map or array, and what comes next.
MemberAt(h, V, a, i, e, x) ==
  /\ e \in DOMAIN h /\ h[e].type = EntryType(V[a].kind) /\ h[e].value = x
  /\ x \in Owners(h)
  /\ V[a].members[i][1] = h[e].string /\ V[a].members[i][2] = V[x]

LEMMA MemberIs ==
  ASSUME NEW h, NEW t, NEW P, NEW W, NEW Q, NEW V, Tree(h, t, P, W, Q, V),
         NEW a \in Owners(h), NEW i \in 1 .. Len(V[a].members)
  PROVE  /\ MemberAt(h, V, a, i, P[a][i + 1], h[P[a][i + 1]].value)
         /\ h[P[a][i + 1]].next = IF i = Len(V[a].members) THEN NULL
                                  ELSE P[a][(i + 1) + 1]
PROOF
<1> DEFINE n == Len(V[a].members)
           e == P[a][i + 1]
           x == h[e].value
<1>1. /\ Placed(h, P, W, Q) /\ Chained(h, P, W, Q) /\ HungYounger(h, P, W, Q)
      /\ Told(h, t, P, V)
  BY DEF Tree
<1>2. Len(P[a]) \in Nat /\ Len(P[a]) >= 1 /\ n = Len(P[a]) - 1
  BY <1>1, OwnerFirst DEF Told
<1>3. i + 1 \in 1 .. Len(P[a]) /\ i \in 1 .. Len(P[a]) - 1
      /\ (i + 1 = Len(P[a]) <=> i = n)
  BY <1>2
<1>4. e \in DOMAIN h /\ W[e] = a /\ Q[e] = i + 1
  BY <1>1, <1>3 DEF Chained
<1>5. h[e].next = IF i = n THEN NULL ELSE P[a][(i + 1) + 1]
  BY <1>1, <1>3, <1>4 DEF Placed
<1>6. Holds(h[e], V, V[a].kind, V[a].members[i])
  BY <1>1, <1>3 DEF Told
<1> HIDE DEF e
<1>7. /\ h[e].type = EntryType(V[a].kind)
      /\ V[a].members[i] = <<h[e].string, V[x]>>
  BY <1>6 DEF Holds
<1>8. IsEntry(h[e])
  BY <1>7 DEF IsEntry, EntryType
<1>9. x \in Owners(h)
  BY <1>1, <1>4, <1>8 DEF HungYounger
<1>10. V[a].members[i][1] = h[e].string /\ V[a].members[i][2] = V[x]
  BY <1>7
<1>11. MemberAt(h, V, a, i, e, x)
  BY <1>4, <1>7, <1>9, <1>10 DEF MemberAt
<1>. QED BY <1>5, <1>11 DEF e

LEMMA FirstMemberIs ==
  ASSUME NEW h, NEW t, NEW P, NEW W, NEW Q, NEW V, Tree(h, t, P, W, Q, V),
         NEW a \in Owners(h)
  PROVE  /\ Len(V[a].members) \in Nat /\ Sq(V[a].members)
         /\ h[a].next = IF Len(V[a].members) = 0 THEN NULL ELSE P[a][2]
         /\ Len(V[a].members) >= 1 => P[a][2] \in DOMAIN h
<1>1. /\ Placed(h, P, W, Q) /\ Chained(h, P, W, Q) /\ Told(h, t, P, V)
      /\ a \in DOMAIN h /\ ~IsEntry(h[a])
  BY DEF Tree, Owners
<1>2. /\ Len(P[a]) \in Nat /\ Len(P[a]) >= 1
      /\ Len(V[a].members) = Len(P[a]) - 1 /\ Sq(V[a].members)
  BY <1>1, OwnerFirst DEF Told, IsValue
<1>3. W[a] = a /\ Q[a] = 1
      /\ h[a].next = IF Q[a] = Len(P[W[a]]) THEN NULL ELSE P[W[a]][Q[a] + 1]
  BY <1>1 DEF Placed
<1>4. h[a].next = IF Len(P[a]) = 1 THEN NULL ELSE P[a][2]
  BY <1>3
<1>5. Len(P[a]) >= 2 => P[a][2] \in DOMAIN h
  <2>1. Len(P[a]) >= 2 => 2 \in 1 .. Len(P[a])
    BY <1>2
  <2>. QED BY <1>1, <2>1 DEF Chained
<1>6. /\ Len(V[a].members) = 0 <=> Len(P[a]) = 1
      /\ Len(V[a].members) >= 1 => Len(P[a]) >= 2
      /\ Len(V[a].members) \in Nat
  BY <1>2
<1>. QED BY <1>2, <1>4, <1>5, <1>6

\* The members of a list, with marks between them.
ListReads(h, f, a, list) ==
  /\ Reads(PrintNext(h[a], f, <<>>), list)
  /\ h[a].next # NULL => Reads(f[h[a].next], list)

\* From each entry in the list of a on: what it is printed as, a mark, and the rest.
Lists(h, P, V, f, a, X, parts, mark) ==
  /\ Listed(parts, Len(V[a].members)) /\ Same(mark)
  /\ \A i \in 1 .. Len(V[a].members) :
       /\ f[P[a][i + 1]] = X[i] \o PrintNext(h[P[a][i + 1]], f, mark)
       /\ Reads(X[i], parts[i])

\* Such a list is printed as its parts joined.
LEMMA ListPrinted ==
  ASSUME NEW h, NEW t, NEW P, NEW W, NEW Q, NEW V, Tree(h, t, P, W, Q, V),
         NULL \notin DOMAIN h, NEW a \in Owners(h), NEW f, NEW X, NEW parts,
         NEW mark, Lists(h, P, V, f, a, X, parts, mark)
  PROVE  ListReads(h, f, a, Join(parts, mark))
PROOF
<1> USE DEF Lists
<1> DEFINE n == Len(V[a].members)
           J == [i \in 1 .. n |-> f[P[a][i + 1]]]
<1>1. /\ n \in Nat /\ h[a].next = IF n = 0 THEN NULL ELSE P[a][2]
      /\ n >= 1 => P[a][2] \in DOMAIN h
  BY FirstMemberIs
<1>2. CASE n = 0
  <2>1. Listed(parts, 0)
    BY <1>2
  <2>2. Join(parts, mark) = <<>>
    BY <2>1, JoinOfNone
  <2>3. h[a].next = NULL /\ PrintNext(h[a], f, <<>>) = <<>>
    BY <1>1, <1>2 DEF PrintNext
  <2>4. Reads(<<>>, <<>>)
    <3>1. Sq(Read(<<>>)) /\ Len(Read(<<>>)) = 0
      BY SqNone, ReadIs
    <3>2. Read(<<>>) = <<>>
      <4> DEFINE r == Read(<<>>)
      <4> HIDE DEF r
      <4>1. Sq(r) /\ Len(r) = 0
        BY <3>1 DEF r
      <4>2. r = <<>>
        BY <4>1 DEF Sq
      <4>. QED BY <4>2 DEF r
    <3>. QED BY <3>2, SqNone DEF Reads
  <2>. QED BY <2>2, <2>3, <2>4 DEF ListReads
<1>3. CASE n # 0
  <2>1. ASSUME NEW i \in 1 .. n
        PROVE  J[i] = X[i] \o (IF i = n THEN <<>> ELSE mark \o J[i + 1])
    <3> DEFINE e == P[a][i + 1]
    <3>1. f[e] = X[i] \o PrintNext(h[e], f, mark)
      OBVIOUS
    <3>2. /\ e \in DOMAIN h
          /\ h[e].next = IF i = n THEN NULL ELSE P[a][(i + 1) + 1]
      BY MemberIs DEF MemberAt
    <3>3. J[i] = f[e]
      OBVIOUS
    <3>4. CASE i = n
      BY <3>1, <3>2, <3>3, <3>4 DEF PrintNext
    <3>5. CASE i # n
      <4>1. i + 1 \in 1 .. n
        BY <1>1, <3>5
      <4>2. J[i + 1] = f[P[a][(i + 1) + 1]]
        BY <4>1
      <4>3. P[a][(i + 1) + 1] \in DOMAIN h
        BY <4>1, MemberIs DEF MemberAt
      <4>4. h[e].next = P[a][(i + 1) + 1] /\ h[e].next # NULL
        BY <3>2, <3>5, <4>3
      <4> HIDE DEF J, e
      <4>. QED BY <3>1, <3>3, <3>5, <4>2, <4>4 DEF PrintNext
    <3>. QED BY <3>4, <3>5
  <2>2. n >= 1 /\ 1 \in 1 .. n /\ 1 + 1 = 2
    BY <1>1, <1>3
  <2>3. J[1] = f[P[a][2]]
    BY <2>2
  <2>4. \A i \in 1 .. n : Reads(X[i], parts[i])
    OBVIOUS
  <2> HIDE DEF J
  <2>5. Listing(J, X, n, mark)
    BY <2>1 DEF Listing
  <2> HIDE DEF n
  <2>6. Listed(parts, n)
    BY DEF n
  <2>7. Reads(J[1], Join(parts, mark))
    BY <1>1, <2>2, <2>4, <2>5, <2>6, JoinReads
  <2>8. h[a].next = P[a][2] /\ h[a].next # NULL
    BY <1>1, <1>3, <2>2
  <2>9. PrintNext(h[a], f, <<>>) = f[P[a][2]]
    <3>1. <<>> \o f[P[a][2]] = f[P[a][2]]
      BY <2>3, <2>7, SqEmpty DEF Reads
    <3>. QED BY <2>8, <3>1 DEF PrintNext
  <2>. QED BY <2>3, <2>7, <2>8, <2>9 DEF ListReads
<1>. QED BY <1>2, <1>3
-------------------------------------------------------------------------------
\* The mark between the entries of a map, and what its list is made of.
MarkOf(mode) == IF mode = "json" THEN Mark(",") ELSE Mark("\n")
Keyed(v, R) == [i \in DOMAIN v.members |-> Key(v.members[i][1]) \o R[i]]
ListOf(v, R) == [i \in DOMAIN v.members |-> R[i]]

LEMMA KeyedReads ==
  ASSUME NEW k, NEW s, NEW r, Reads(s, r) PROVE Reads(Key(k) \o s, Key(k) \o r)
<1>1. Sq(Key(k)) /\ Read(Key(k)) = Key(k)
  BY TokensAreSame DEF Same
<1>. QED BY <1>1, ReadJoined DEF Reads

\* What the list of a map is printed as, and the list of an array.
LEMMA MapPrinted ==
  ASSUME NEW h, NEW t, NEW P, NEW W, NEW Q, NEW V, NEW j, NEW mode, NEW f,
         Displays(h, t, P, W, Q, V, j, mode, f),
         NEW a \in Owners(h), V[a].kind = "map", NEW R,
         \A i \in 1 .. Len(V[a].members) :
           Reads(f[h[P[a][i + 1]].value], R[i])
  PROVE  ListReads(h, f, a, Join(Keyed(V[a], R), MarkOf(mode)))
PROOF
<1> DEFINE n == Len(V[a].members)
           parts == Keyed(V[a], R)
           X == [i \in 1 .. n |->
                   Key(V[a].members[i][1]) \o f[h[P[a][i + 1]].value]]
<1>1. Tree(h, t, P, W, Q, V) /\ NULL \notin DOMAIN h
  BY DEF Displays
<1>2. n \in Nat /\ Sq(V[a].members) /\ DOMAIN V[a].members = 1 .. n
  BY <1>1, FirstMemberIs, SqIs
<1>3. /\ Listed(parts, n)
      /\ \A i \in 1 .. n : parts[i] = Key(V[a].members[i][1]) \o R[i]
  BY <1>2 DEF Listed, Keyed
<1>4. Same(MarkOf(mode))
  BY TokensAreSame DEF MarkOf
<1>5. ASSUME NEW i \in 1 .. n
      PROVE  /\ f[P[a][i + 1]]
                  = X[i] \o PrintNext(h[P[a][i + 1]], f, MarkOf(mode))
             /\ Reads(X[i], parts[i])
  <2> DEFINE e == P[a][i + 1]
             x == h[e].value
  <2>1. MemberAt(h, V, a, i, e, x)
    BY <1>1, MemberIs
  <2>2. X[i] = Key(V[a].members[i][1]) \o f[x]
    OBVIOUS
  <2>3. Reads(f[x], R[i])
    OBVIOUS
  <2> HIDE DEF e, x, X, parts
  <2>4. /\ e \in DOMAIN h /\ h[e].type = "NT_MAP_ENTRY" /\ h[e].value = x
        /\ V[a].members[i][1] = h[e].string
    BY <2>1 DEF MemberAt, EntryType
  <2>5. f[e] = PrintStep(h, t, j, mode, f, e)
    BY <2>4, DisplaysIs
  <2>6. f[e] = Key(h[e].string) \o f[h[e].value]
                 \o PrintNext(h[e], f, MarkOf(mode))
    BY <2>4, <2>5 DEF PrintStep, MarkOf
  <2>7. f[e] = X[i] \o PrintNext(h[e], f, MarkOf(mode))
    BY <2>2, <2>4, <2>6
  <2>8. Reads(X[i], Key(V[a].members[i][1]) \o R[i])
    BY <2>2, <2>3, KeyedReads
  <2>. QED BY <1>3, <2>7, <2>8 DEF e
<1> HIDE DEF parts, X, n
<1>6. Lists(h, P, V, f, a, X, parts, MarkOf(mode))
  BY <1>3, <1>4, <1>5 DEF n, Lists
<1> DEFINE mark == MarkOf(mode)
<1> HIDE DEF mark
<1>7. Lists(h, P, V, f, a, X, parts, mark)
  BY <1>6 DEF mark
<1>8. ListReads(h, f, a, Join(parts, mark))
  BY <1>1, <1>7, ListPrinted
<1>. QED BY <1>8 DEF parts, mark

LEMMA ArrayPrinted ==
  ASSUME NEW h, NEW t, NEW P, NEW W, NEW Q, NEW V, NEW j, NEW mode, NEW f,
         Displays(h, t, P, W, Q, V, j, mode, f),
         NEW a \in Owners(h), V[a].kind = "array", NEW R,
         \A i \in 1 .. Len(V[a].members) :
           Reads(f[h[P[a][i + 1]].value], R[i])
  PROVE  ListReads(h, f, a, Join(ListOf(V[a], R), Mark(",")))
PROOF
<1> DEFINE n == Len(V[a].members)
           parts == ListOf(V[a], R)
           X == [i \in 1 .. n |-> f[h[P[a][i + 1]].value]]
<1>1. Tree(h, t, P, W, Q, V) /\ NULL \notin DOMAIN h
  BY DEF Displays
<1>2. n \in Nat /\ Sq(V[a].members) /\ DOMAIN V[a].members = 1 .. n
  BY <1>1, FirstMemberIs, SqIs
<1>3. Listed(parts, n) /\ \A i \in 1 .. n : parts[i] = R[i]
  BY <1>2 DEF Listed, ListOf
<1>4. Same(Mark(","))
  BY TokensAreSame
<1>5. ASSUME NEW i \in 1 .. n
      PROVE  /\ f[P[a][i + 1]] = X[i] \o PrintNext(h[P[a][i + 1]], f, Mark(","))
             /\ Reads(X[i], parts[i])
  <2> DEFINE e == P[a][i + 1]
             x == h[e].value
  <2>1. MemberAt(h, V, a, i, e, x)
    BY <1>1, MemberIs
  <2>2. X[i] = f[x]
    OBVIOUS
  <2>3. Reads(f[x], R[i])
    OBVIOUS
  <2> HIDE DEF e, x, X, parts
  <2>4. e \in DOMAIN h /\ h[e].type = "NT_ARRAY_ELEMENT" /\ h[e].value = x
    BY <2>1 DEF MemberAt, EntryType
  <2>5. f[e] = PrintStep(h, t, j, mode, f, e)
    BY <2>4, DisplaysIs
  <2>6. f[e] = f[h[e].value] \o PrintNext(h[e], f, Mark(","))
    BY <2>4, <2>5 DEF PrintStep
  <2>7. f[e] = X[i] \o PrintNext(h[e], f, Mark(","))
    BY <2>2, <2>4, <2>6
  <2>. QED BY <1>3, <2>2, <2>3, <2>7 DEF e
<1> HIDE DEF parts, X, n
<1>6. Lists(h, P, V, f, a, X, parts, Mark(","))
  BY <1>3, <1>4, <1>5 DEF n, Lists
<1> DEFINE mark == Mark(",")
<1> HIDE DEF mark
<1>7. Lists(h, P, V, f, a, X, parts, mark)
  BY <1>6 DEF mark
<1>8. ListReads(h, f, a, Join(parts, mark))
  BY <1>1, <1>7, ListPrinted
<1>. QED BY <1>8 DEF parts, mark

\* What is printed between two marks.
LEMMA MarkedReads ==
  ASSUME NEW c, NEW d, NEW s, NEW r, Reads(s, r)
  PROVE  Reads(Mark(c) \o s \o Mark(d), Mark(c) \o r \o Mark(d))
<1>1. /\ Sq(Mark(c)) /\ Read(Mark(c)) = Mark(c)
      /\ Sq(Mark(d)) /\ Read(Mark(d)) = Mark(d)
  BY TokensAreSame DEF Same
<1> DEFINE u == Mark(c) \o s
<1>2. Sq(u) /\ Read(u) = Mark(c) \o r
  BY <1>1, ReadJoined DEF Reads
<1> HIDE DEF u
<1>3. Sq(u \o Mark(d)) /\ Read(u \o Mark(d)) = Read(u) \o Mark(d)
  BY <1>1, <1>2, ReadJoined
<1>. QED BY <1>2, <1>3 DEF Reads, u
-------------------------------------------------------------------------------
\* The values of a tree, by level; mode tells whether what is to be quoted can be.
ScalarIn(v, mode) ==
  \/ v.kind = "int"
  \/ v.kind = "string" /\ (mode = "json" => Clean(v.text))
LevelIn(v, mode) ==
  \/ ScalarIn(v, mode)
  \/ /\ v.kind = "map" /\ Len(v.members) >= 1
     /\ \A i \in 1 .. Len(v.members) : ScalarIn(v.members[i][2], "json")
FieldIn(v, mode) ==
  \/ ScalarIn(v, mode)
  \/ /\ v.kind = "array"
     /\ \A i \in 1 .. Len(v.members) : LevelIn(v.members[i][2], mode)
RootIn(v, mode) ==
  /\ v.kind = "map"
  /\ \A i \in 1 .. Len(v.members) : FieldIn(v.members[i][2], mode)

ScalarAs(v, mode) == IF mode = "json" THEN Scalar(v) ELSE PlainScalar(v)
LevelAs(v, mode) == IF mode = "json" THEN Level(v) ELSE PlainLevel(v)
FieldAs(v, mode) == IF mode = "json" THEN Field(v) ELSE PlainField(v)

\* A number or string is printed as it is.
LEMMA ScalarPrinted ==
  ASSUME NEW h, NEW t, NEW P, NEW W, NEW Q, NEW V, NEW j, NEW mode, NEW f,
         Displays(h, t, P, W, Q, V, j, mode, f),
         NEW a \in Owners(h), ScalarIn(V[a], mode)
  PROVE  Reads(f[a], ScalarAs(V[a], mode))
<1>1. a \in DOMAIN h /\ Shows(h[a], t, V[a])
  BY DEF Displays, Tree, Told, Owners
<1>2. f[a] = PrintStep(h, t, j, mode, f, a)
  BY <1>1, DisplaysIs
<1>3. CASE V[a].kind = "int"
  <2>1. h[a].type = "NT_INT" /\ h[a].integer = V[a].number
    BY <1>1, <1>3 DEF Shows
  <2>2. f[a] = Number(V[a].number)
    BY <1>2, <2>1 DEF PrintStep
  <2>3. Reads(Number(V[a].number), Number(V[a].number))
    BY TokensAreSame DEF Same, Reads
  <2>4. ScalarAs(V[a], mode) = Number(V[a].number)
    BY <1>3 DEF ScalarAs, Scalar, PlainScalar
  <2>. QED BY <2>2, <2>3, <2>4
<1>4. CASE V[a].kind = "string"
  <2>1. h[a].type = "NT_STRING" /\ StringIn(t, h[a]) = V[a].text
    BY <1>1, <1>4 DEF Shows
  <2>2. CASE mode = "json"
    <3>1. f[a] = Quoted(Escape(V[a].text))
      BY <1>2, <2>1, <2>2 DEF PrintStep
    <3>2. Clean(V[a].text)
      BY <1>4, <2>2 DEF ScalarIn
    <3>3. ScalarAs(V[a], mode) = Quoted(V[a].text)
      BY <1>4, <2>2 DEF ScalarAs, Scalar
    <3>. QED BY <3>1, <3>2, <3>3, QuotedReads
  <2>3. CASE mode # "json"
    <3>1. f[a] = Plain(V[a].text)
      BY <1>2, <2>1, <2>3 DEF PrintStep
    <3>2. Reads(Plain(V[a].text), Plain(V[a].text))
      BY TokensAreSame DEF Same, Reads
    <3>3. ScalarAs(V[a], mode) = Plain(V[a].text)
      BY <1>4, <2>3 DEF ScalarAs, PlainScalar
    <3>. QED BY <3>1, <3>2, <3>3
  <2>. QED BY <2>2, <2>3
<1>. QED BY <1>3, <1>4 DEF ScalarIn

\* The i-th node in the list of a refers to its i-th member.
HasMember(h, P, V, a, i) ==
  LET x == h[P[a][i + 1]].value
  IN  x \in Owners(h) /\ V[x] = V[a].members[i][2]

LEMMA ValueOfMember ==
  ASSUME NEW h, NEW t, NEW P, NEW W, NEW Q, NEW V, NEW j, NEW mode, NEW f,
         Displays(h, t, P, W, Q, V, j, mode, f),
         NEW a \in Owners(h), NEW i \in 1 .. Len(V[a].members)
  PROVE  HasMember(h, P, V, a, i)
<1>1. Tree(h, t, P, W, Q, V)
  BY DEF Displays
<1>2. MemberAt(h, V, a, i, P[a][i + 1], h[P[a][i + 1]].value)
  BY <1>1, MemberIs
<1>. QED BY <1>2 DEF MemberAt, HasMember

\* The list of a map of scalars, in JSON.
LEMMA LevelListPrinted ==
  ASSUME NEW h, NEW t, NEW P, NEW W, NEW Q, NEW V, NEW f,
         Displays(h, t, P, W, Q, V, <<>>, "json", f),
         NEW a \in Owners(h), V[a].kind = "map",
         \A i \in 1 .. Len(V[a].members) : ScalarIn(V[a].members[i][2], "json"),
         NEW list,
         list = Join([i \in DOMAIN V[a].members |->
                        Key(V[a].members[i][1]) \o Scalar(V[a].members[i][2])],
                     Mark(","))
  PROVE  ListReads(h, f, a, list)
<1> DEFINE n == Len(V[a].members)
           R == [i \in 1 .. n |-> Scalar(V[a].members[i][2])]
<1>1. DOMAIN V[a].members = 1 .. n
  BY FirstMemberIs, SqIs DEF Displays
<1>2. \A i \in 1 .. n : R[i] = Scalar(V[a].members[i][2])
  OBVIOUS
<1>3. list = Join(Keyed(V[a], R), MarkOf("json"))
  <2> HIDE DEF R
  <2>1. Keyed(V[a], R) = [i \in DOMAIN V[a].members |->
                            Key(V[a].members[i][1]) \o Scalar(V[a].members[i][2])]
    BY <1>1, <1>2 DEF Keyed
  <2>. QED BY <2>1 DEF MarkOf
<1> HIDE DEF R
<1>4. ASSUME NEW i \in 1 .. n
      PROVE  Reads(f[h[P[a][i + 1]].value], R[i])
  <2>0. i \in 1 .. Len(V[a].members)
    BY DEF n
  <2>1. PICK x \in Owners(h) : x = h[P[a][i + 1]].value /\ V[x] = V[a].members[i][2]
    <3>1. HasMember(h, P, V, a, i)
      BY <2>0, ValueOfMember
    <3>. QED BY <3>1 DEF HasMember
  <2>2. ScalarIn(V[x], "json")
    BY <2>1
  <2>3. Reads(f[x], ScalarAs(V[x], "json"))
    BY <2>1, <2>2, ScalarPrinted
  <2>4. ScalarAs(V[x], "json") = R[i]
    BY <1>2, <2>1 DEF ScalarAs
  <2>. QED BY <2>1, <2>3, <2>4
<1> HIDE DEF n
<1>5. \A i \in 1 .. Len(V[a].members) : Reads(f[h[P[a][i + 1]].value], R[i])
  BY <1>4 DEF n
<1>. QED BY <1>3, <1>5, MapPrinted
-------------------------------------------------------------------------------
\* The members of a map of scalars, with commas between them.
LevelMembers(v) ==
  Join([i \in DOMAIN v.members |-> Key(v.members[i][1]) \o Scalar(v.members[i][2])],
       Mark(","))

\* A level in JSON.
LEMMA JsonLevelPrinted ==
  ASSUME NEW h, NEW t, NEW P, NEW W, NEW Q, NEW V, NEW f,
         Displays(h, t, P, W, Q, V, <<>>, "json", f),
         NEW a \in Owners(h), LevelIn(V[a], "json")
  PROVE  Reads(f[a], Level(V[a]))
<1>1. a \in DOMAIN h /\ Shows(h[a], t, V[a])
  BY DEF Displays, Tree, Told, Owners
<1>2. CASE ScalarIn(V[a], "json")
  <2>1. Reads(f[a], ScalarAs(V[a], "json"))
    BY <1>2, ScalarPrinted
  <2>2. V[a].kind # "map"
    BY <1>2 DEF ScalarIn
  <2>. QED BY <2>1, <2>2 DEF ScalarAs, Level
<1>3. CASE ~ScalarIn(V[a], "json")
  <2>1. /\ V[a].kind = "map"
        /\ \A i \in 1 .. Len(V[a].members) : ScalarIn(V[a].members[i][2], "json")
    BY <1>3 DEF LevelIn
  <2> DEFINE list == LevelMembers(V[a])
  <2>2. list = Join([i \in DOMAIN V[a].members |->
                       Key(V[a].members[i][1]) \o Scalar(V[a].members[i][2])],
                    Mark(","))
    BY DEF LevelMembers
  <2> HIDE DEF list
  <2>3. ListReads(h, f, a, list)
    BY <2>1, <2>2, LevelListPrinted
  <2>4. h[a].type = "NT_MAP"
    BY <1>1, <2>1 DEF Shows
  <2>5. f[a] = PrintStep(h, t, <<>>, "json", f, a)
    BY <1>1, DisplaysIs
  <2>6. f[a] = Mark("{") \o PrintNext(h[a], f, <<>>) \o Mark("}")
    BY <2>4, <2>5 DEF PrintStep
  <2>7. Level(V[a]) = Mark("{") \o list \o Mark("}")
    BY <2>1, <2>2 DEF Level
  <2>8. Reads(PrintNext(h[a], f, <<>>), list)
    BY <2>3 DEF ListReads
  <2> DEFINE s == PrintNext(h[a], f, <<>>)
  <2> HIDE DEF s
  <2>9. Reads(Mark("{") \o s \o Mark("}"), Mark("{") \o list \o Mark("}"))
    BY <2>8, MarkedReads DEF s
  <2>. QED BY <2>6, <2>7, <2>9 DEF s
<1>. QED BY <1>2, <1>3

\* In text, a map in an array is as it is in JSON.
LEMMA TextLevelPrinted ==
  ASSUME NEW h, NEW t, NEW P, NEW W, NEW Q, NEW V, NEW j, NEW f,
         Displays(h, t, P, W, Q, V, <<>>, "json", j),
         Displays(h, t, P, W, Q, V, j, "text", f),
         NEW a \in Owners(h), LevelIn(V[a], "text")
  PROVE  Reads(f[a], PlainLevel(V[a]))
<1>1. /\ a \in DOMAIN h /\ Shows(h[a], t, V[a]) /\ Tree(h, t, P, W, Q, V)
      /\ NULL \notin DOMAIN h
  BY DEF Displays, Tree, Told, Owners
<1>2. CASE ScalarIn(V[a], "text")
  <2>1. Reads(f[a], ScalarAs(V[a], "text"))
    BY <1>2, ScalarPrinted
  <2>2. V[a].kind # "map"
    BY <1>2 DEF ScalarIn
  <2>. QED BY <2>1, <2>2 DEF ScalarAs, PlainLevel
<1>3. CASE ~ScalarIn(V[a], "text")
  <2>1. /\ V[a].kind = "map" /\ Len(V[a].members) >= 1
        /\ \A i \in 1 .. Len(V[a].members) : ScalarIn(V[a].members[i][2], "json")
    BY <1>3 DEF LevelIn
  <2> DEFINE list == LevelMembers(V[a])
  <2>2. list = Join([i \in DOMAIN V[a].members |->
                       Key(V[a].members[i][1]) \o Scalar(V[a].members[i][2])],
                    Mark(","))
    BY DEF LevelMembers
  <2> HIDE DEF list
  <2>3. ListReads(h, j, a, list)
    BY <2>1, <2>2, LevelListPrinted
  <2>4. h[a].type = "NT_MAP"
    BY <1>1, <2>1 DEF Shows
  <2>5. f[a] = PrintStep(h, t, j, "text", f, a)
    BY <1>1, DisplaysIs
  <2>6. h[a].next # NULL
    <3>1. /\ h[a].next = IF Len(V[a].members) = 0 THEN NULL ELSE P[a][2]
          /\ Len(V[a].members) >= 1 => P[a][2] \in DOMAIN h
      BY <1>1, FirstMemberIs
    <3>2. h[a].next = P[a][2] /\ P[a][2] \in DOMAIN h
      BY <2>1, <3>1
    <3>. QED BY <1>1, <3>2
  <2>7. f[a] = Mark("{") \o j[h[a].next] \o Mark("}")
    BY <2>4, <2>5, <2>6 DEF PrintStep
  <2>8. PlainLevel(V[a]) = Mark("{") \o list \o Mark("}")
    BY <2>1, <2>2 DEF Level, PlainLevel
  <2>9. Reads(j[h[a].next], list)
    BY <2>3, <2>6 DEF ListReads
  <2> DEFINE s == j[h[a].next]
  <2> HIDE DEF s
  <2>10. Reads(Mark("{") \o s \o Mark("}"), Mark("{") \o list \o Mark("}"))
    BY <2>9, MarkedReads DEF s
  <2>. QED BY <2>7, <2>8, <2>10 DEF s
<1>. QED BY <1>2, <1>3
-------------------------------------------------------------------------------
\* A tree, with what is printed of its nodes in one of the two forms.
Printed(h, t, P, W, Q, V, j, mode, f) ==
  /\ mode \in {"json", "text"}
  /\ mode = "json" => j = <<>>
  /\ mode = "text" => Displays(h, t, P, W, Q, V, <<>>, "json", j)
  /\ Displays(h, t, P, W, Q, V, j, mode, f)

\* A level in either form, a list of levels, and a field.
LEMMA LevelPrinted ==
  ASSUME NEW h, NEW t, NEW P, NEW W, NEW Q, NEW V, NEW j, NEW mode, NEW f,
         Printed(h, t, P, W, Q, V, j, mode, f),
         NEW a \in Owners(h), LevelIn(V[a], mode)
  PROVE  Reads(f[a], LevelAs(V[a], mode))
<1>1. CASE mode = "json"
  <2>1. Displays(h, t, P, W, Q, V, <<>>, "json", f) /\ LevelIn(V[a], "json")
    BY <1>1 DEF Printed
  <2>2. Reads(f[a], Level(V[a]))
    BY <2>1, JsonLevelPrinted
  <2>. QED BY <1>1, <2>2 DEF LevelAs
<1>2. CASE mode = "text"
  <2>1. /\ Displays(h, t, P, W, Q, V, <<>>, "json", j)
        /\ Displays(h, t, P, W, Q, V, j, "text", f) /\ LevelIn(V[a], "text")
    BY <1>2 DEF Printed
  <2>2. Reads(f[a], PlainLevel(V[a]))
    BY <2>1, TextLevelPrinted
  <2>. QED BY <1>2, <2>2 DEF LevelAs
<1>. QED BY <1>1, <1>2 DEF Printed

LevelList(v, mode) == [i \in DOMAIN v.members |-> LevelAs(v.members[i][2], mode)]
FieldList(v, mode) == [i \in DOMAIN v.members |-> FieldAs(v.members[i][2], mode)]

LEMMA FieldListPrinted ==
  ASSUME NEW h, NEW t, NEW P, NEW W, NEW Q, NEW V, NEW j, NEW mode, NEW f,
         Printed(h, t, P, W, Q, V, j, mode, f),
         NEW a \in Owners(h), V[a].kind = "array",
         \A i \in 1 .. Len(V[a].members) : LevelIn(V[a].members[i][2], mode)
  PROVE  ListReads(h, f, a, Join(LevelList(V[a], mode), Mark(",")))
<1> DEFINE R == LevelList(V[a], mode)
<1>1. Displays(h, t, P, W, Q, V, j, mode, f)
  BY DEF Printed
<1>2. DOMAIN V[a].members = 1 .. Len(V[a].members)
  BY <1>1, FirstMemberIs, SqIs DEF Displays
<1>3. \A i \in 1 .. Len(V[a].members) : R[i] = LevelAs(V[a].members[i][2], mode)
  BY <1>2 DEF LevelList
<1>4. ListOf(V[a], R) = R
  BY DEF ListOf, LevelList
<1> HIDE DEF R
<1>5. ASSUME NEW i \in 1 .. Len(V[a].members)
      PROVE  Reads(f[h[P[a][i + 1]].value], R[i])
  <2>1. PICK x \in Owners(h) : x = h[P[a][i + 1]].value /\ V[x] = V[a].members[i][2]
    <3>1. HasMember(h, P, V, a, i)
      BY <1>1, ValueOfMember
    <3>. QED BY <3>1 DEF HasMember
  <2>2. LevelIn(V[x], mode)
    BY <2>1
  <2>3. Reads(f[x], LevelAs(V[x], mode))
    BY <2>2, LevelPrinted
  <2>. QED BY <1>3, <2>1, <2>3
<1>6. ListReads(h, f, a, Join(ListOf(V[a], R), Mark(",")))
  BY <1>1, <1>5, ArrayPrinted
<1>. QED BY <1>4, <1>6 DEF R

LEMMA FieldPrinted ==
  ASSUME NEW h, NEW t, NEW P, NEW W, NEW Q, NEW V, NEW j, NEW mode, NEW f,
         Printed(h, t, P, W, Q, V, j, mode, f),
         NEW a \in Owners(h), FieldIn(V[a], mode)
  PROVE  Reads(f[a], FieldAs(V[a], mode))
<1>1. /\ a \in DOMAIN h /\ Shows(h[a], t, V[a])
      /\ Displays(h, t, P, W, Q, V, j, mode, f)
  BY DEF Printed, Displays, Tree, Told, Owners
<1>2. CASE ScalarIn(V[a], mode)
  <2>1. Reads(f[a], ScalarAs(V[a], mode))
    BY <1>1, <1>2, ScalarPrinted
  <2>2. V[a].kind # "array"
    BY <1>2 DEF ScalarIn
  <2>. QED BY <2>1, <2>2 DEF ScalarAs, FieldAs, Field, PlainField
<1>3. CASE ~ScalarIn(V[a], mode)
  <2>1. /\ V[a].kind = "array"
        /\ \A i \in 1 .. Len(V[a].members) : LevelIn(V[a].members[i][2], mode)
    BY <1>3 DEF FieldIn
  <2> DEFINE list == Join(LevelList(V[a], mode), Mark(","))
             s == PrintNext(h[a], f, <<>>)
  <2>2. ListReads(h, f, a, list)
    BY <2>1, FieldListPrinted
  <2>3. h[a].type = "NT_ARRAY"
    BY <1>1, <2>1 DEF Shows
  <2>4. f[a] = PrintStep(h, t, j, mode, f, a)
    BY <1>1, DisplaysIs
  <2>5. Reads(s, list)
    BY <2>2 DEF ListReads
  <2>6. FieldAs(V[a], mode)
          = IF mode = "json" THEN Mark("[") \o list \o Mark("]") ELSE list
    <3>1. CASE mode = "json"
      BY <2>1, <3>1 DEF FieldAs, Field, LevelList, LevelAs
    <3>2. CASE mode # "json"
      BY <2>1, <3>2 DEF FieldAs, PlainField, LevelList, LevelAs
    <3>. QED BY <3>1, <3>2
  <2>7. f[a] = IF mode = "json" THEN Mark("[") \o s \o Mark("]") ELSE s
    BY <2>3, <2>4 DEF PrintStep
  <2> HIDE DEF s, list
  <2>8. Reads(Mark("[") \o s \o Mark("]"), Mark("[") \o list \o Mark("]"))
    BY <2>5, MarkedReads
  <2>. QED BY <2>5, <2>6, <2>7, <2>8
<1>. QED BY <1>2, <1>3

\* The root.
RootListOf(v, mode) == Join(Keyed(v, FieldList(v, mode)), MarkOf(mode))

\* The list of the root, and the root in either form.
LEMMA RootListPrinted ==
  ASSUME NEW h, NEW t, NEW P, NEW W, NEW Q, NEW V, NEW j, NEW mode, NEW f,
         Printed(h, t, P, W, Q, V, j, mode, f),
         NEW a \in Owners(h), RootIn(V[a], mode)
  PROVE  ListReads(h, f, a, RootListOf(V[a], mode))
<1> DEFINE R == FieldList(V[a], mode)
<1>1. Displays(h, t, P, W, Q, V, j, mode, f)
  BY DEF Printed
<1>2. DOMAIN V[a].members = 1 .. Len(V[a].members)
  BY <1>1, FirstMemberIs, SqIs DEF Displays
<1>3. \A i \in 1 .. Len(V[a].members) : R[i] = FieldAs(V[a].members[i][2], mode)
  BY <1>2 DEF FieldList
<1>4. RootListOf(V[a], mode) = Join(Keyed(V[a], R), MarkOf(mode))
  BY DEF RootListOf
<1> HIDE DEF R
<1>5. ASSUME NEW i \in 1 .. Len(V[a].members)
      PROVE  Reads(f[h[P[a][i + 1]].value], R[i])
  <2>1. PICK x \in Owners(h) : x = h[P[a][i + 1]].value /\ V[x] = V[a].members[i][2]
    <3>1. HasMember(h, P, V, a, i)
      BY <1>1, ValueOfMember
    <3>. QED BY <3>1 DEF HasMember
  <2>2. FieldIn(V[x], mode)
    BY <2>1 DEF RootIn
  <2>3. Reads(f[x], FieldAs(V[x], mode))
    BY <2>2, FieldPrinted
  <2>. QED BY <1>3, <2>1, <2>3
<1>6. V[a].kind = "map"
  BY DEF RootIn
<1>7. ListReads(h, f, a, Join(Keyed(V[a], R), MarkOf(mode)))
  BY <1>1, <1>5, <1>6, MapPrinted
<1>. QED BY <1>4, <1>7

LEMMA JsonPrinted ==
  ASSUME NEW h, NEW t, NEW P, NEW W, NEW Q, NEW V, NEW j,
         Displays(h, t, P, W, Q, V, <<>>, "json", j),
         NEW a \in Owners(h), RootIn(V[a], "json")
  PROVE  Reads(j[a], AsJson(V[a]))
<1>1. Printed(h, t, P, W, Q, V, <<>>, "json", j)
  BY DEF Printed
<1> DEFINE list == RootListOf(V[a], "json")
           s == PrintNext(h[a], j, <<>>)
<1>2. ListReads(h, j, a, list)
  BY <1>1, RootListPrinted
<1>3. a \in DOMAIN h /\ Shows(h[a], t, V[a]) /\ V[a].kind = "map"
  BY DEF Displays, Tree, Told, Owners, RootIn
<1>4. h[a].type = "NT_MAP"
  BY <1>3 DEF Shows
<1>5. j[a] = PrintStep(h, t, <<>>, "json", j, a)
  BY <1>3, DisplaysIs
<1>6. j[a] = Mark("{") \o s \o Mark("}")
  BY <1>4, <1>5 DEF PrintStep
<1>7. Reads(s, list)
  BY <1>2 DEF ListReads
<1>8. AsJson(V[a]) = Mark("{") \o list \o Mark("}")
  <2>1. Keyed(V[a], FieldList(V[a], "json"))
          = [i \in DOMAIN V[a].members |->
               Key(V[a].members[i][1]) \o Field(V[a].members[i][2])]
    BY DEF Keyed, FieldList, FieldAs
  <2>. QED BY <2>1 DEF AsJson, RootListOf, MarkOf
<1> HIDE DEF s, list
<1>9. Reads(Mark("{") \o s \o Mark("}"), Mark("{") \o list \o Mark("}"))
  BY <1>7, MarkedReads
<1>. QED BY <1>6, <1>8, <1>9

LEMMA TextPrintedRoot ==
  ASSUME NEW h, NEW t, NEW P, NEW W, NEW Q, NEW V, NEW j, NEW f,
         Displays(h, t, P, W, Q, V, <<>>, "json", j),
         Displays(h, t, P, W, Q, V, j, "text", f),
         NEW a \in Owners(h), RootIn(V[a], "text")
  PROVE  ListReads(h, f, a, AsText(V[a]))
<1>1. Printed(h, t, P, W, Q, V, j, "text", f)
  BY DEF Printed
<1>2. ListReads(h, f, a, RootListOf(V[a], "text"))
  BY <1>1, RootListPrinted
<1>3. AsText(V[a]) = RootListOf(V[a], "text")
  <2>1. Keyed(V[a], FieldList(V[a], "text"))
          = [i \in DOMAIN V[a].members |->
               Key(V[a].members[i][1]) \o PlainField(V[a].members[i][2])]
    BY DEF Keyed, FieldList, FieldAs
  <2>. QED BY <2>1 DEF AsText, RootListOf, MarkOf
<1>. QED BY <1>2, <1>3
-------------------------------------------------------------------------------
(***************************************************************************)
(* The value of a processor is no deeper than what is printed.             *)
(***************************************************************************)
\* Members that are all scalars, or all fields.
Scalars(s) ==
  Sq(s) /\ Len(s) >= 1 /\ \A k \in 1 .. Len(s) : ScalarIn(s[k][2], "json")
FieldsIn(s, mode) == Sq(s) /\ \A k \in 1 .. Len(s) : FieldIn(s[k][2], mode)

LEMMA ScalarsJoined ==
  ASSUME NEW s, NEW t, Scalars(s), Scalars(t) PROVE Scalars(s \o t)
<1> DEFINE r == s \o t
<1>1. /\ Sq(r) /\ Len(r) = Len(s) + Len(t)
      /\ \A i \in 1 .. Len(s) : r[i] = s[i]
      /\ \A i \in 1 .. Len(t) : r[Len(s) + i] = t[i]
  BY SqJoined DEF Scalars
<1>2. Len(s) \in Nat /\ Len(t) \in Nat /\ Len(s) >= 1 /\ Len(t) >= 1
  BY SqIs DEF Scalars
<1> HIDE DEF r
<1>3. ASSUME NEW k \in 1 .. Len(r) PROVE ScalarIn(r[k][2], "json")
  <2>1. CASE k \in 1 .. Len(s)
    <3>1. r[k] = s[k]
      BY <1>1, <2>1
    <3>. QED BY <2>1, <3>1 DEF Scalars
  <2>2. CASE k \notin 1 .. Len(s)
    <3> DEFINE i == k - Len(s)
    <3>1. i \in 1 .. Len(t) /\ k = Len(s) + i
      BY <1>1, <1>2, <2>2
    <3>2. r[k] = t[i]
      BY <1>1, <3>1
    <3> HIDE DEF i
    <3>. QED BY <3>1, <3>2 DEF Scalars
  <2>. QED BY <2>1, <2>2
<1>4. Len(r) >= 1
  BY <1>1, <1>2
<1>. QED BY <1>1, <1>3, <1>4 DEF Scalars, r

LEMMA FieldsJoined ==
  ASSUME NEW mode, NEW s, NEW t, FieldsIn(s, mode), FieldsIn(t, mode)
  PROVE  FieldsIn(s \o t, mode)
<1> DEFINE r == s \o t
<1>1. /\ Sq(r) /\ Len(r) = Len(s) + Len(t)
      /\ \A i \in 1 .. Len(s) : r[i] = s[i]
      /\ \A i \in 1 .. Len(t) : r[Len(s) + i] = t[i]
  BY SqJoined DEF FieldsIn
<1>2. Len(s) \in Nat /\ Len(t) \in Nat
  BY SqIs DEF FieldsIn
<1> HIDE DEF r
<1>3. ASSUME NEW k \in 1 .. Len(r) PROVE FieldIn(r[k][2], mode)
  <2>1. CASE k \in 1 .. Len(s)
    <3>1. r[k] = s[k]
      BY <1>1, <2>1
    <3>. QED BY <2>1, <3>1 DEF FieldsIn
  <2>2. CASE k \notin 1 .. Len(s)
    <3> DEFINE i == k - Len(s)
    <3>1. i \in 1 .. Len(t) /\ k = Len(s) + i
      BY <1>1, <1>2, <2>2
    <3>2. r[k] = t[i]
      BY <1>1, <3>1
    <3> HIDE DEF i
    <3>. QED BY <3>1, <3>2 DEF FieldsIn
  <2>. QED BY <2>1, <2>2
<1>. QED BY <1>1, <1>3 DEF FieldsIn, r

\* The one member of an entry.
LEMMA EntryIs ==
  ASSUME NEW key, NEW v
  PROVE  Sq(Entry(key, v)) /\ Len(Entry(key, v)) = 1 /\ Entry(key, v)[1][2] = v
<1> DEFINE x == <<<<key>>, v>>
<1>1. x[2] = v /\ Entry(key, v) = <<x>>
  BY DEF Entry
<1> HIDE DEF x
<1>2. Sq(<<x>>) /\ Len(<<x>>) = 1 /\ <<x>>[1] = x
  BY SqOne
<1>. QED BY <1>1, <1>2

LEMMA EntryScalars ==
  ASSUME NEW key, NEW v, ScalarIn(v, "json") PROVE Scalars(Entry(key, v))
<1> DEFINE e == Entry(key, v)
<1>1. Sq(e) /\ Len(e) = 1 /\ e[1][2] = v
  BY EntryIs
<1> HIDE DEF e
<1>2. \A k \in 1 .. Len(e) : k = 1
  BY <1>1
<1>. QED BY <1>1, <1>2 DEF Scalars, e

LEMMA EntryField ==
  ASSUME NEW mode, NEW key, NEW v, FieldIn(v, mode)
  PROVE  FieldsIn(Entry(key, v), mode)
<1> DEFINE e == Entry(key, v)
<1>1. Sq(e) /\ Len(e) = 1 /\ e[1][2] = v
  BY EntryIs
<1> HIDE DEF e
<1>2. \A k \in 1 .. Len(e) : k = 1
  BY <1>1
<1>. QED BY <1>1, <1>2 DEF FieldsIn, e

\* What the scalars of a processor are.
LEMMA IntegerIn == ASSUME NEW n, NEW mode PROVE ScalarIn(Integer(n), mode)
BY DEF ScalarIn, Integer, Leaf

LEMMA TextIn ==
  ASSUME NEW mode, NEW text, mode = "json" => Clean(text)
  PROVE  ScalarIn(Text(text), mode)
BY DEF ScalarIn, Text, Leaf

LEMMA WordClean == ASSUME NEW w, w \notin Escaped PROVE Clean(<<w>>)
<1>1. Sq(<<w>>) /\ Len(<<w>>) = 1 /\ <<w>>[1] = w
  BY SqOne
<1> DEFINE s == <<w>>
<1> HIDE DEF s
<1>2. Sq(s) /\ Len(s) = 1 /\ s[1] = w
  BY <1>1 DEF s
<1>3. \A i \in 1 .. Len(s) : s[i] = w
  <2>1. \A i \in 1 .. 1 : i = 1
    OBVIOUS
  <2>. QED BY <1>2, <2>1
<1>4. w \notin Control
  BY DEF Control
<1>5. Clean(s)
  BY <1>2, <1>3, <1>4 DEF Clean
<1>. QED BY <1>5 DEF s

\* A cache level is a map of scalars, of which there are seven.
LEMMA LevelValueIn ==
  ASSUME NEW l, l.cache_type \notin Escaped, NEW mode
  PROVE  LevelIn(LevelValue(l), mode)
<1> DEFINE e1 == Entry("level", Integer(l.level))
           e2 == Entry("cache_type", Text(<<l.cache_type>>))
           e3 == Entry("cache_size", Integer(l.cache_size))
           e4 == Entry("ways", Integer(l.ways))
           e5 == Entry("line_size", Integer(l.line_size))
           e6 == Entry("tlb_entries", Integer(l.tlb_entries))
           e7 == Entry("partitioning", Integer(l.partitioning))
           all == (((((e1 \o e2) \o e3) \o e4) \o e5) \o e6) \o e7
<1>1. LevelValue(l) = Container("map", all)
  BY DEF LevelValue
<1>2. Scalars(e1) /\ Scalars(e3) /\ Scalars(e4) /\ Scalars(e5) /\ Scalars(e6)
      /\ Scalars(e7)
  BY IntegerIn, EntryScalars
<1>3. Scalars(e2)
  <2>1. Clean(<<l.cache_type>>)
    BY WordClean
  <2> DEFINE text == <<l.cache_type>>
  <2> HIDE DEF text
  <2>2. Clean(text)
    BY <2>1 DEF text
  <2>3. ScalarIn(Text(text), "json")
    BY <2>2, TextIn
  <2>. QED BY <2>3, EntryScalars DEF text
<1> HIDE DEF e1, e2, e3, e4, e5, e6, e7
<1>4. Scalars(e1 \o e2)
  BY <1>2, <1>3, ScalarsJoined
<1>5. Scalars((e1 \o e2) \o e3)
  BY <1>2, <1>4, ScalarsJoined
<1>6. Scalars(((e1 \o e2) \o e3) \o e4)
  BY <1>2, <1>5, ScalarsJoined
<1>7. Scalars((((e1 \o e2) \o e3) \o e4) \o e5)
  BY <1>2, <1>6, ScalarsJoined
<1>8. Scalars(((((e1 \o e2) \o e3) \o e4) \o e5) \o e6)
  BY <1>2, <1>7, ScalarsJoined
<1>9. Scalars(all)
  BY <1>2, <1>8, ScalarsJoined
<1> HIDE DEF all
<1> DEFINE v == Container("map", all)
<1>10. v.kind = "map" /\ v.members = all
  BY DEF Container
<1> HIDE DEF v
<1>11. LevelIn(v, mode)
  BY <1>9, <1>10 DEF LevelIn, Scalars
<1>. QED BY <1>1, <1>11 DEF v

\* An array of levels, of which the flags and the caches are ones.
LEMMA ElementsIn ==
  ASSUME NEW mode, NEW n \in Nat, NEW s, Listed(s, n),
         \A k \in 1 .. n : LevelIn(s[k][2], mode)
  PROVE  FieldIn(Container("array", s), mode)
<1>1. Len(s) = n
  BY SqFunction
<1> DEFINE v == Container("array", s)
<1>2. v.kind = "array" /\ v.members = s
  BY DEF Container
<1> HIDE DEF v
<1>3. FieldIn(v, mode)
  BY <1>1, <1>2 DEF FieldIn
<1>. QED BY <1>3 DEF v

FlagElements(names) == [k \in DOMAIN names |-> Element(Text(<<names[k]>>))]

LEMMA FlagsIn ==
  ASSUME NEW i \in Infos, NEW mode
  PROVE  FieldIn(Container("array", FlagElements(InOrder(i.flags))), mode)
<1> DEFINE names == InOrder(i.flags)
           s == FlagElements(names)
<1>1. PICK n \in 0 .. MAX_FLAGS : DOMAIN i.flags = 1 .. n
  BY LimitAssumption
<1>2. n \in Nat
  BY DEF MAX_FLAGS
<1>3. Distinct(i.flags, n)
  <2>1. \A j, k \in DOMAIN i.flags :
          /\ Rank[i.flags[j]] \in Nat
          /\ Rank[i.flags[j]] = Rank[i.flags[k]] => j = k
    BY NameAssumption
  <2>. QED BY <1>1, <2>1 DEF Distinct
<1>4. DOMAIN names = 1 .. n /\ \A k \in 1 .. n : names[k] \in UpTo(i.flags, n)
  BY <1>2, <1>3, SortedInOrder
<1>5. \A k \in 1 .. n : names[k] \notin Escaped
  BY <1>1, <1>4, NameAssumption DEF UpTo
<1> HIDE DEF names
<1>6. Listed(s, n) /\ \A k \in 1 .. n : s[k] = Element(Text(<<names[k]>>))
  BY <1>4 DEF Listed, FlagElements
<1> HIDE DEF s
<1>7. ASSUME NEW k \in 1 .. n PROVE LevelIn(s[k][2], mode)
  <2> DEFINE text == <<names[k]>>
  <2>1. Clean(text)
    BY <1>5, WordClean
  <2>2. s[k][2] = Text(text)
    BY <1>6 DEF Element
  <2> HIDE DEF text
  <2>3. ScalarIn(Text(text), mode)
    BY <2>1, TextIn
  <2>. QED BY <2>2, <2>3 DEF LevelIn
<1>8. FieldIn(Container("array", s), mode)
  BY <1>2, <1>6, <1>7, ElementsIn
<1>. QED BY <1>8 DEF s, names

LevelElements(levels) == [k \in DOMAIN levels |-> Element(LevelValue(levels[k]))]

LEMMA CacheIn ==
  ASSUME NEW i \in Infos, NEW mode
  PROVE  FieldIn(Container("array", LevelElements(i.levels)), mode)
<1> DEFINE s == LevelElements(i.levels)
<1>1. PICK n \in 0 .. CPU_FEATURES_MAX_CACHE_LEVEL : DOMAIN i.levels = 1 .. n
  BY LimitAssumption
<1>2. n \in Nat
  BY DEF CPU_FEATURES_MAX_CACHE_LEVEL
<1>3. \A k \in 1 .. n : i.levels[k].cache_type \notin Escaped
  BY <1>1, NameAssumption
<1>4. Listed(s, n) /\ \A k \in 1 .. n : s[k] = Element(LevelValue(i.levels[k]))
  BY <1>1 DEF Listed, LevelElements
<1> HIDE DEF s
<1>5. ASSUME NEW k \in 1 .. n PROVE LevelIn(s[k][2], mode)
  <2>1. s[k][2] = LevelValue(i.levels[k])
    BY <1>4 DEF Element
  <2>2. LevelIn(LevelValue(i.levels[k]), mode)
    BY <1>3, LevelValueIn
  <2>. QED BY <2>1, <2>2
<1>6. FieldIn(Container("array", s), mode)
  BY <1>2, <1>4, <1>5, ElementsIn
<1>. QED BY <1>6 DEF s

\* The strings that the library tells of a processor.
StringsOf(i) == {i.name} \cup {i.string[key] : key \in Strings \cup {"model"}}

\* A string of the processor can be quoted if it has no control characters.
LEMMA StringsClean ==
  ASSUME NEW i \in Infos, NEW mode, NEW text \in StringsOf(i),
         mode = "json" => \A k \in DOMAIN text : text[k] \notin Control
  PROVE  ScalarIn(Text(text), mode)
<1>1. text \in Seq(Words)
  BY LimitAssumption DEF StringsOf
<1>2. Sq(text) /\ DOMAIN text = 1 .. Len(text)
  BY <1>1 DEF Sq
<1>3. mode = "json" => Clean(text)
  BY <1>2 DEF Clean
<1>. QED BY <1>3, TextIn

\* What is to be read from JSON has no control characters.
CanBeRead(i, mode) ==
  mode = "json" =>
    \A text \in StringsOf(i) : \A k \in DOMAIN text : text[k] \notin Control

FieldElements(i, keys) ==
  [k \in DOMAIN keys |-> <<<<keys[k]>>, FieldValue(i, keys[k])>>]

LEMMA FieldElementsIn ==
  ASSUME NEW i \in Infos, NEW mode, CanBeRead(i, mode)
  PROVE  FieldsIn(FieldElements(i, Fields[i.arch]), mode)
<1> DEFINE keys == Fields[i.arch]
           s == FieldElements(i, keys)
<1>1. i.arch \in DOMAIN Fields
  BY LimitAssumption
<1>2. PICK n \in 0 .. 6 : DOMAIN keys = 1 .. n
  BY <1>1, FieldsLimited
<1>3. n \in Nat
  OBVIOUS
<1> HIDE DEF keys
<1>4. Listed(s, n)
      /\ \A k \in 1 .. n : s[k] = <<<<keys[k]>>, FieldValue(i, keys[k])>>
  BY <1>2 DEF Listed, FieldElements
<1> HIDE DEF s
<1>5. Sq(s) /\ Len(s) = n
  BY <1>3, <1>4, SqFunction
<1>6. ASSUME NEW key PROVE FieldIn(FieldValue(i, key), mode)
  <2>1. CASE IsString(i.arch, key)
    <3>1. key \in Strings \cup {"model"}
      BY <2>1 DEF IsString
    <3> DEFINE text == i.string[key]
    <3>2. text \in StringsOf(i)
      BY <3>1 DEF StringsOf
    <3>3. FieldValue(i, key) = Text(text)
      BY <2>1 DEF FieldValue
    <3> HIDE DEF text
    <3>4. ScalarIn(Text(text), mode)
      BY <3>2, StringsClean DEF CanBeRead
    <3>. QED BY <3>3, <3>4 DEF FieldIn
  <2>2. CASE ~IsString(i.arch, key)
    BY <2>2, IntegerIn DEF FieldValue, FieldIn
  <2>. QED BY <2>1, <2>2
<1>7. ASSUME NEW k \in 1 .. n PROVE FieldIn(s[k][2], mode)
  <2>1. s[k][2] = FieldValue(i, keys[k])
    BY <1>4
  <2>. QED BY <1>6, <2>1
<1>8. FieldsIn(s, mode)
  BY <1>5, <1>7 DEF FieldsIn
<1>. QED BY <1>8 DEF s, keys

\* All of it: the name, the fields, the flags and the caches.
LEMMA ValueIn ==
  ASSUME NEW i \in Infos, NEW mode, CanBeRead(i, mode)
  PROVE  RootIn(ValueOf(i), mode)
<1> DEFINE e1 == Entry("arch", Text(i.name))
           e2 == FieldElements(i, Fields[i.arch])
           e3 == Entry("flags", Container("array", FlagElements(InOrder(i.flags))))
           e4 == IF i.arch = "x86"
                 THEN Entry("cache_info", Container("array", LevelElements(i.levels)))
                 ELSE <<>>
           all == ((e1 \o e2) \o e3) \o e4
<1>1. ValueOf(i) = Container("map", all)
  BY DEF ValueOf, FieldElements, FlagElements, LevelElements
<1>2. FieldsIn(e1, mode)
  <2> DEFINE text == i.name
  <2>1. text \in StringsOf(i)
    BY DEF StringsOf
  <2> HIDE DEF text
  <2>2. ScalarIn(Text(text), mode)
    BY <2>1, StringsClean DEF CanBeRead
  <2>3. FieldIn(Text(text), mode)
    BY <2>2 DEF FieldIn
  <2>. QED BY <2>3, EntryField DEF text
<1>3. FieldsIn(e2, mode)
  BY FieldElementsIn
<1>4. FieldsIn(e3, mode)
  BY FlagsIn, EntryField
<1>5. FieldsIn(e4, mode)
  <2>1. CASE i.arch = "x86"
    BY <2>1, CacheIn, EntryField
  <2>2. CASE i.arch # "x86"
    BY <2>2, SqNone DEF FieldsIn
  <2>. QED BY <2>1, <2>2
<1> HIDE DEF e1, e2, e3, e4
<1>6. FieldsIn(e1 \o e2, mode)
  BY <1>2, <1>3, FieldsJoined
<1>7. FieldsIn((e1 \o e2) \o e3, mode)
  BY <1>4, <1>6, FieldsJoined
<1>8. FieldsIn(all, mode)
  BY <1>5, <1>7, FieldsJoined
<1> HIDE DEF all
<1> DEFINE v == Container("map", all)
<1>9. v.kind = "map" /\ v.members = all
  BY DEF Container
<1> HIDE DEF v
<1>10. RootIn(v, mode)
  BY <1>8, <1>9 DEF RootIn, FieldsIn
<1>. QED BY <1>1, <1>10 DEF v
-------------------------------------------------------------------------------
(***************************************************************************)
(* The steps of the program.                                               *)
(***************************************************************************)
\* The inductive invariant.  While the program runs, the memory holds values from
\* which the operations to come make the value of the processor.
Building ==
  \E u : Holding(heap, texts, stack, ptr, u) /\ Runs(u, todo, <<ValueOf(info)>>)
Consistent ==
  /\ pc # "exit" => Building
  /\ pc = "print" => todo = <<>>
  /\ OutputFaithful
TreeInv ==
  info \in Infos /\ AllocatorInv /\ TodoType /\ Consistent

\* What is held at p is held when the allocator has gone further.
LEMMA HoldingLater ==
  ASSUME NEW h, NEW t, NEW s, NEW p, NEW u, Holding(h, t, s, p, u),
         NEW p2 \in Nat, p <= p2
  PROVE  Holding(h, t, s, p2, u)
<1>1. PICK P, W, Q, V : Represents(h, t, s, p, P, W, Q, V, u)
  BY DEF Holding
<1>2. Tree(h, t, P, W, Q, V) /\ Held(h, t, s, P, V, u) /\ Addressed(h, t, p)
  BY <1>1 DEF Represents
<1>3. Addressed(h, t, p2)
  <2>1. p \in Nat
    BY <1>2 DEF Addressed
  <2>2. 1 .. p - 1 \subseteq 1 .. p2 - 1
    BY <2>1
  <2>. QED BY <1>2, <2>2 DEF Addressed
<1>4. Represents(h, t, s, p2, P, W, Q, V, u)
  BY <1>2, <1>3 DEF Represents
<1>. QED BY <1>4 DEF Holding

\* A call of the allocator that succeeds hands out an address that is not NULL, and
\* goes on behind it.
LEMMA PtrGrows ==
  ASSUME AllocatorInv, NEW n \in Nat, n >= 1, Reserve(n), allocator = "ready",
         allocator' # "failed"
  PROVE  ptr # NULL /\ ptr' \in Nat /\ ptr < ptr'
<1>1. ptr \in Nat /\ ptr >= 1
  BY BufferAssumption DEF AllocatorInv, Free
<1>2. ptr' = ptr + RoundUp(n)
  BY DEF Reserve, internal_error
<1>3. RoundUp(n) \in Nat /\ n <= RoundUp(n)
  BY RoundUpReaches
<1>. QED BY <1>1, <1>2, <1>3 DEF NULL

\* An operation ends the program, or leaves what the rest goes on from.
LEMMA BuildsOn ==
  ASSUME NEW nodes, NEW strings, NEW addresses,
         Builds(nodes, strings, addresses),
         NEW v, Runs(v, Tail(todo), <<ValueOf(info)>>),
         allocator' # "failed" => Holding(nodes, strings, addresses, ptr', v)
  PROVE  Consistent'
<1>1. CASE allocator' = "failed"
  <2>1. pc' = "exit" /\ status' = "EXIT_FAILURE"
    BY <1>1 DEF Builds, Proceed
  <2>. QED BY <2>1 DEF Consistent, OutputFaithful
<1>2. CASE allocator' # "failed"
  <2>1. /\ pc' = "build" /\ todo' = Tail(todo) /\ heap' = nodes
        /\ texts' = strings /\ stack' = addresses /\ info' = info
    BY <1>2 DEF Builds, Proceed
  <2>2. Holding(heap', texts', stack', ptr', v)
        /\ Runs(v, todo', <<ValueOf(info')>>)
    BY <1>2, <2>1
  <2>3. Building'
    BY <2>2 DEF Building
  <2>. QED BY <2>1, <2>3 DEF Consistent, OutputFaithful
<1>. QED BY <1>1, <1>2

\* What an operation is to do.
LEMMA NextActs ==
  ASSUME TreeInv, pc = "build", todo # <<>>
  PROVE  \E u, v : /\ Holding(heap, texts, stack, ptr, u) /\ Acts(u, Head(todo), v)
                   /\ Runs(v, Tail(todo), <<ValueOf(info)>>)
<1>1. Sq(todo)
  BY DEF TreeInv, TodoType, Sq
<1>2. PICK u : Holding(heap, texts, stack, ptr, u)
               /\ Runs(u, todo, <<ValueOf(info)>>)
  BY DEF TreeInv, Consistent, Building
<1> DEFINE w == <<ValueOf(info)>>
<1> HIDE DEF w
<1>3. Runs(u, todo, w)
  BY <1>2 DEF w
<1>4. PICK v : Acts(u, Head(todo), v) /\ Runs(v, Tail(todo), w)
  BY <1>1, <1>3, RunsNext
<1>. QED BY <1>2, <1>4 DEF w

LEMMA PushedAlone ==
  ASSUME NEW ops, NEW x, Push(ops, x) PROVE Runs(<<>>, ops, <<x>>)
<1>1. Runs(<<>>, ops, <<x>> \o <<>>)
  BY SqNone DEF Push
<1>2. <<x>> \o <<>> = <<x>>
  BY SqOne, SqEmpty
<1>. QED BY <1>1, <1>2

LEMMA NodeSizeIs == NodeSize \in Nat /\ NodeSize >= 1
BY ListAssumption

\* The steps one by one.
LEMMA InitConsistent == Init => info \in Infos /\ Consistent
<1> SUFFICES ASSUME Init PROVE info \in Infos /\ Consistent
  OBVIOUS
<1>1. /\ info \in Infos /\ pc = "align" /\ todo = CreateTree(info)
      /\ stack = <<>> /\ heap = <<>> /\ texts = <<>>
  BY DEF Init
<1>2. ptr \in Nat
  BY BufferAssumption DEF Init, BAInit
<1>3. Holding(heap, texts, stack, ptr, <<>>)
  BY <1>1, <1>2, HoldsNone
<1>4. Runs(<<>>, CreateTree(info), <<ValueOf(info)>>)
  BY <1>1, TreePushes, PushedAlone
<1>. QED BY <1>1, <1>3, <1>4 DEF Consistent, Building, OutputFaithful

LEMMA AlignConsistent ==
  ASSUME TreeInv, Align PROVE Consistent'
<1>1. CASE allocator' = "failed"
  <2>1. pc' = "exit" /\ status' = "EXIT_FAILURE"
    BY <1>1 DEF Align, Proceed
  <2>. QED BY <2>1 DEF Consistent, OutputFaithful
<1>2. CASE allocator' # "failed"
  <2>1. /\ pc' = "build" /\ pc = "align" /\ ptr' = ptr + Skipped
        /\ todo' = todo /\ stack' = stack /\ heap' = heap /\ texts' = texts
        /\ info' = info
    BY <1>2 DEF Align, BA_Align, Proceed, tree
  <2>2. ptr \in Nat /\ size \in Nat
    BY DEF TreeInv, AllocatorInv, Free
  <2>3. Skipped \in Nat
    BY <2>2 DEF Skipped, ALIGN
  <2>4. ptr' \in Nat /\ ptr <= ptr'
    BY <2>1, <2>2, <2>3
  <2>5. PICK u : Holding(heap, texts, stack, ptr, u)
                 /\ Runs(u, todo, <<ValueOf(info)>>)
    BY <2>1 DEF TreeInv, Consistent, Building
  <2>6. Holding(heap, texts, stack, ptr', u)
    BY <2>4, <2>5, HoldingLater
  <2>7. Building'
    BY <2>1, <2>5, <2>6 DEF Building
  <2>. QED BY <2>1, <2>7 DEF Consistent, OutputFaithful
<1>. QED BY <1>1, <1>2

LEMMA CreateNodeConsistent ==
  ASSUME TreeInv, BA_CreateNode PROVE Consistent'
<1> DEFINE o == Head(todo)
           node == Node(NodeType[o.op], o.number, o.text, NULL, NULL)
<1>1. /\ pc = "build" /\ todo # <<>> /\ o.op \in DOMAIN NodeType
      /\ allocator = "ready" /\ Reserve(NodeSize)
      /\ Builds(Stored(heap, ptr, node), texts, <<ptr>> \o stack)
  BY DEF BA_CreateNode, Does, BA_Bump
<1>2. PICK u, v : /\ Holding(heap, texts, stack, ptr, u) /\ Acts(u, o, v)
                  /\ Runs(v, Tail(todo), <<ValueOf(info)>>)
  BY <1>1, NextActs
<1>3. allocator' # "failed" => ptr # NULL /\ ptr' \in Nat /\ ptr < ptr'
  BY <1>1, NodeSizeIs, PtrGrows DEF TreeInv
<1> HIDE DEF node
<1>4. node = Node(NodeType[o.op], o.number, o.text, NULL, NULL)
  BY DEF node
<1> HIDE DEF o
<1>5. allocator' # "failed"
        => Holding(Stored(heap, ptr, node), texts, <<ptr>> \o stack, ptr', v)
  BY <1>1, <1>2, <1>3, <1>4, NodeCreated
<1>. QED BY <1>1, <1>2, <1>5, BuildsOn

LEMMA PrintedStringConsistent ==
  ASSUME TreeInv, CreatePrintedString PROVE Consistent'
<1> DEFINE o == Head(todo)
           node == Node("NT_STRING", 0, <<>>, stack[1], NULL)
           below == SubSeq(stack, 1 + 1, Len(stack))
<1>1. /\ pc = "build" /\ todo # <<>> /\ o.op = "printed"
      /\ allocator = "ready" /\ Reserve(NodeSize)
      /\ Builds(Stored(heap, ptr, node), texts, <<ptr>> \o below)
  BY DEF CreatePrintedString, Does, BA_Bump, Below
<1>2. PICK u, v : /\ Holding(heap, texts, stack, ptr, u) /\ Acts(u, o, v)
                  /\ Runs(v, Tail(todo), <<ValueOf(info)>>)
  BY <1>1, NextActs
<1>3. allocator' # "failed" => ptr # NULL /\ ptr' \in Nat /\ ptr < ptr'
  BY <1>1, NodeSizeIs, PtrGrows DEF TreeInv
<1> HIDE DEF node
<1>4. node = Node("NT_STRING", 0, <<>>, stack[1], NULL)
  BY DEF node
<1> HIDE DEF o
<1>5. allocator' # "failed"
        => Holding(Stored(heap, ptr, node), texts, <<ptr>> \o below, ptr', v)
  BY <1>1, <1>2, <1>3, <1>4, StringNamed
<1>. QED BY <1>1, <1>2, <1>5, BuildsOn

LEMMA PrintfStringConsistent ==
  ASSUME TreeInv, CreatePrintfString PROVE Consistent'
<1> DEFINE o == Head(todo)
           n == Len(o.text) + 1
<1>1. /\ pc = "build" /\ todo # <<>> /\ o.op = "print"
      /\ allocator = "ready" /\ BA_Print(Len(o.text))
      /\ Builds(heap, Stored(texts, ptr, o.text), <<ptr>> \o stack)
  BY DEF CreatePrintfString, Does, BA_Print
<1>2. PICK u, v : /\ Holding(heap, texts, stack, ptr, u) /\ Acts(u, o, v)
                  /\ Runs(v, Tail(todo), <<ValueOf(info)>>)
  BY <1>1, NextActs
<1>3. allocator' # "failed" => ptr # NULL /\ ptr' \in Nat /\ ptr < ptr'
  <2> SUFFICES ASSUME allocator' # "failed"
               PROVE  ptr # NULL /\ ptr' \in Nat /\ ptr < ptr'
    OBVIOUS
  <2>1. Reserve(n)
    BY <1>1 DEF BA_Print, internal_error
  <2>2. o \in OpType
    BY <1>1 DEF TreeInv, TodoType
  <2>3. o.text \in Seq(Words)
    BY <2>2 DEF OpType
  <2>4. n \in Nat /\ n >= 1
    BY <2>3
  <2> HIDE DEF n
  <2>. QED BY <1>1, <2>1, <2>4, PtrGrows DEF TreeInv
<1> HIDE DEF o
<1>4. allocator' # "failed"
        => Holding(heap, Stored(texts, ptr, o.text), <<ptr>> \o stack, ptr', v)
  BY <1>1, <1>2, <1>3, TextPrinted
<1>. QED BY <1>1, <1>2, <1>4, BuildsOn

LEMMA AppendConsistent ==
  ASSUME TreeInv, NEW kind \in {"map", "array"}, pc = "build", todo # <<>>,
         Head(todo).op = (IF kind = "map" THEN "entry" ELSE "element"),
         AppendTo(EntryType(kind))
  PROVE  Consistent'
<1> DEFINE o == Head(todo)
           node == Node(EntryType(kind), 0, o.text, NULL, stack[1])
           g == [heap EXCEPT ![LastOf(heap, stack[2])].next = ptr]
           below == SubSeq(stack, 1 + 1, Len(stack))
<1>1. /\ allocator = "ready" /\ Reserve(NodeSize)
      /\ Builds(Stored(g, ptr, node), texts, below)
  BY DEF AppendTo, BA_Bump, Below
<1>2. PICK u, v : /\ Holding(heap, texts, stack, ptr, u) /\ Acts(u, o, v)
                  /\ Runs(v, Tail(todo), <<ValueOf(info)>>)
  BY NextActs
<1>3. allocator' # "failed" => ptr # NULL /\ ptr' \in Nat /\ ptr < ptr'
  BY <1>1, NodeSizeIs, PtrGrows DEF TreeInv
<1>4. Sq(v) /\ Hangs(u, kind, o.text, v)
  BY <1>2 DEF Acts
<1> HIDE DEF node, g
<1>5. /\ node = Node(EntryType(kind), 0, o.text, NULL, stack[1])
      /\ g = [heap EXCEPT ![LastOf(heap, stack[2])].next = ptr]
  BY DEF node, g
<1> HIDE DEF o
<1>6. allocator' # "failed"
        => Holding(Stored(g, ptr, node), texts, below, ptr', v)
  BY <1>2, <1>3, <1>4, <1>5, EntryAppended
<1>. QED BY <1>1, <1>2, <1>6, BuildsOn

LEMMA EntryConsistent ==
  ASSUME TreeInv, AddEntry \/ AddElement PROVE Consistent'
<1>1. CASE AddEntry
  <2>1. /\ pc = "build" /\ todo # <<>> /\ Head(todo).op = "entry"
        /\ AppendTo(EntryType("map"))
    BY <1>1 DEF AddEntry, Does, EntryType
  <2>. QED BY <2>1, AppendConsistent
<1>2. CASE AddElement
  <2>1. /\ pc = "build" /\ todo # <<>> /\ Head(todo).op = "element"
        /\ AppendTo(EntryType("array"))
    BY <1>2 DEF AddElement, Does, EntryType
  <2>. QED BY <2>1, AppendConsistent
<1>. QED BY <1>1, <1>2
-------------------------------------------------------------------------------
\* When everything has been built, the root is all that is held.
LEMMA RootHeld ==
  ASSUME TreeInv, pc = "print"
  PROVE  \E P, W, Q, V :
           /\ Tree(heap, texts, P, W, Q, V) /\ Addressed(heap, texts, ptr)
           /\ stack[1] \in Owners(heap) /\ V[stack[1]] = ValueOf(info)
<1> DEFINE x == ValueOf(info)
           w == <<x>>
<1>1. todo = <<>> /\ info \in Infos
  BY DEF TreeInv, Consistent
<1>2. PICK u : Holding(heap, texts, stack, ptr, u) /\ Runs(u, todo, w)
  BY DEF TreeInv, Consistent, Building
<1>3. Sq(w) /\ Len(w) = 1 /\ w[1] = x
  BY SqOne
<1> HIDE DEF w
<1>4. Runs(u, <<>>, w)
  BY <1>1, <1>2
<1>5. w = u
  BY <1>4, RunsOver
<1>6. PICK P, W, Q, V : Represents(heap, texts, stack, ptr, P, W, Q, V, w)
  BY <1>2, <1>5 DEF Holding
<1>7. x.kind # "text"
  BY DEF ValueOf, Container
<1> HIDE DEF x
<1>8. Stands(heap, texts, V, stack[1], w[1])
  <2>1. 1 \in 1 .. Len(w)
    BY <1>3
  <2>. QED BY <1>6, <2>1 DEF Represents, Held
<1>9. stack[1] \in Owners(heap) /\ V[stack[1]] = x
  BY <1>3, <1>7, <1>8 DEF Stands
<1>. QED BY <1>6, <1>9 DEF Represents, x

\* A line that is printed ends with a mark.
LEMMA LineReads ==
  ASSUME NEW s, NEW r, Reads(s, r)
  PROVE  Read(s \o Mark("\n")) = r \o Mark("\n")
<1>1. Sq(Mark("\n")) /\ Read(Mark("\n")) = Mark("\n")
  BY TokensAreSame DEF Same
<1>. QED BY <1>1, ReadJoined DEF Reads

\* What is printed of the tree reads as the value of the processor.
LEMMA JsonFaithful ==
  ASSUME TreeInv, pc = "print", Readable
  PROVE  Reads(JsonOf(stack[1]), AsJson(ValueOf(info)))
<1> DEFINE a == stack[1]
<1>1. PICK P, W, Q, V :
        /\ Tree(heap, texts, P, W, Q, V) /\ Addressed(heap, texts, ptr)
        /\ a \in Owners(heap) /\ V[a] = ValueOf(info)
  BY RootHeld
<1>2. ptr \in Nat /\ DOMAIN heap \subseteq 1 .. ptr - 1
  BY <1>1 DEF Addressed
<1>3. NULL \notin DOMAIN heap
  BY <1>2 DEF NULL
<1>4. PICK j : /\ Prints(heap, texts, <<>>, "json", j, DOMAIN heap)
               /\ \A b : JsonOf(b) = j[b]
  BY <1>1, <1>2, JsonIs
<1>5. Displays(heap, texts, P, W, Q, V, <<>>, "json", j)
  BY <1>1, <1>3, <1>4 DEF Displays
<1>6. CanBeRead(info, "json")
  BY DEF CanBeRead, Readable, StringsOf
<1>7. RootIn(V[a], "json")
  <2>1. info \in Infos
    BY DEF TreeInv
  <2>2. RootIn(ValueOf(info), "json")
    BY <1>6, <2>1, ValueIn
  <2>. QED BY <1>1, <2>2
<1> HIDE DEF a
<1>8. Reads(j[a], AsJson(V[a]))
  BY <1>1, <1>5, <1>7, JsonPrinted
<1>. QED BY <1>1, <1>4, <1>8 DEF a

LEMMA TextFaithful ==
  ASSUME TreeInv, pc = "print"
  PROVE  Reads(printTextRoot(stack[1]), AsText(ValueOf(info)))
<1> DEFINE a == stack[1]
<1>1. PICK P, W, Q, V :
        /\ Tree(heap, texts, P, W, Q, V) /\ Addressed(heap, texts, ptr)
        /\ a \in Owners(heap) /\ V[a] = ValueOf(info)
  BY RootHeld
<1>2. ptr \in Nat /\ DOMAIN heap \subseteq 1 .. ptr - 1
  BY <1>1 DEF Addressed
<1>3. NULL \notin DOMAIN heap
  BY <1>2 DEF NULL
<1>4. PICK j : /\ Prints(heap, texts, <<>>, "json", j, DOMAIN heap)
               /\ \A b : JsonOf(b) = j[b]
  BY <1>1, <1>2, JsonIs
<1>5. PICK f : /\ Prints(heap, texts, j, "text", f, DOMAIN heap)
               /\ \A b : TextFieldOf(b) = f[b]
  BY <1>1, <1>2, <1>4, TextFieldIs
<1>6. Displays(heap, texts, P, W, Q, V, <<>>, "json", j)
  BY <1>1, <1>3, <1>4 DEF Displays
<1>7. Displays(heap, texts, P, W, Q, V, j, "text", f)
  BY <1>1, <1>3, <1>5 DEF Displays
<1>8. RootIn(V[a], "text")
  <2>1. info \in Infos /\ CanBeRead(info, "text")
    BY DEF TreeInv, CanBeRead
  <2>2. RootIn(ValueOf(info), "text")
    BY <2>1, ValueIn
  <2>. QED BY <1>1, <2>2
<1> HIDE DEF a
<1>9. ListReads(heap, f, a, AsText(V[a]))
  BY <1>1, <1>6, <1>7, <1>8, TextPrintedRoot
<1>10. Reads(printTextRoot(a), AsText(V[a]))
  <2>1. CASE heap[a].next = NULL
    BY <1>9, <2>1 DEF ListReads, PrintNext, printTextRoot
  <2>2. CASE heap[a].next # NULL
    BY <1>5, <1>9, <2>2 DEF ListReads, printTextRoot
  <2>. QED BY <2>1, <2>2
<1>. QED BY <1>1, <1>10 DEF a

LEMMA PrintConsistent ==
  ASSUME TreeInv, PrintTree PROVE Consistent'
<1>1. /\ pc = "print" /\ pc' = "exit" /\ info' = info /\ argv' = argv
      /\ output' = (IF argv # <<>> THEN JsonOf(stack[1])
                    ELSE printTextRoot(stack[1])) \o Mark("\n")
  BY DEF PrintTree
<1>2. ASSUME argv # <<>>, Readable
      PROVE  Read(output') = AsJson(ValueOf(info)) \o Mark("\n")
  <2>1. Reads(JsonOf(stack[1]), AsJson(ValueOf(info)))
    BY <1>1, <1>2, JsonFaithful
  <2>2. output' = JsonOf(stack[1]) \o Mark("\n")
    BY <1>1, <1>2
  <2>. QED BY <2>1, <2>2, LineReads
<1>3. ASSUME argv = <<>>
      PROVE  Read(output') = AsText(ValueOf(info)) \o Mark("\n")
  <2>1. Reads(printTextRoot(stack[1]), AsText(ValueOf(info)))
    BY <1>1, TextFaithful
  <2>2. output' = printTextRoot(stack[1]) \o Mark("\n")
    BY <1>1, <1>3
  <2>. QED BY <2>1, <2>2, LineReads
<1>4. Readable' <=> Readable
  BY <1>1 DEF Readable
<1>5. OutputFaithful'
  BY <1>1, <1>2, <1>3, <1>4 DEF OutputFaithful
<1>. QED BY <1>1, <1>5 DEF Consistent

LEMMA UsageConsistent == ASSUME TreeInv, ShowUsage PROVE Consistent'
<1>1. pc' = "exit" /\ Unknown' = Unknown /\ Unknown # {}
  BY DEF ShowUsage, Unknown
<1>. QED BY <1>1 DEF Consistent, OutputFaithful

LEMMA BuiltConsistent == ASSUME TreeInv, TreeBuilt PROVE Consistent'
<1>1. /\ pc = "build" /\ pc' = "print" /\ todo = <<>> /\ todo' = todo
      /\ stack' = stack /\ heap' = heap /\ texts' = texts /\ ptr' = ptr
      /\ info' = info
  BY DEF TreeBuilt, tree, bavars
<1>2. Building'
  BY <1>1 DEF TreeInv, Consistent, Building
<1>. QED BY <1>1, <1>2 DEF Consistent, OutputFaithful

LEMMA StutterConsistent == ASSUME TreeInv, UNCHANGED vars PROVE Consistent'
<1>1. /\ pc' = pc /\ todo' = todo /\ info' = info /\ argv' = argv
      /\ stack' = stack /\ heap' = heap /\ texts' = texts /\ ptr' = ptr
      /\ status' = status /\ output' = output
  BY DEF vars, tree, bavars
<1>2. pc' # "exit" => Building'
  BY <1>1 DEF TreeInv, Consistent, Building
<1>3. (Readable' <=> Readable) /\ Unknown' = Unknown
  BY <1>1 DEF Readable, Unknown
<1>4. OutputFaithful'
  BY <1>1, <1>3 DEF TreeInv, Consistent, OutputFaithful
<1>. QED BY <1>1, <1>2, <1>4 DEF TreeInv, Consistent

\* Every step keeps the invariant.
LEMMA NextTreeInv == TreeInv /\ [Next]_vars => TreeInv'
<1> SUFFICES ASSUME TreeInv, [Next]_vars PROVE TreeInv'
  OBVIOUS
<1>1. AllocatorInv' /\ TodoType'
  <2>1. [BANext]_bavars
    BY StepIsACall DEF TreeInv
  <2>2. AllocatorInv'
    BY <2>1, CallKeeps DEF TreeInv
  <2>. QED BY <2>2, NextTodoType DEF TreeInv
<1>2. info' \in Infos
  <2>1. info' = info
    BY DEF Next, Align, CreatesTree, BA_CreateNode, CreatePrintfString,
       CreatePrintedString, AddEntry, AddElement, AppendTo, Builds, TreeBuilt,
       ShowUsage, PrintTree, vars
  <2>. QED BY <2>1 DEF TreeInv
<1>3. Consistent'
  BY AlignConsistent, CreateNodeConsistent, PrintfStringConsistent,
     PrintedStringConsistent, EntryConsistent, BuiltConsistent, UsageConsistent,
     PrintConsistent, StutterConsistent DEF Next, CreatesTree
<1>. QED BY <1>1, <1>2, <1>3 DEF TreeInv

\* Whatever is known of the processor, its output reads back as what the library
\* has told, for every processor, all arguments and every buffer in which the
\* tree is built (list_cpu_features.c:62-474).
THEOREM OutputFaithfulCorrect == Spec => []OutputFaithful
<1>1. Init => TreeInv
  BY InitAllocatorInv, InitTodoType, InitConsistent DEF Init, TreeInv
<1>2. TreeInv => OutputFaithful
  BY DEF TreeInv, Consistent
<1>. QED BY <1>1, <1>2, NextTreeInv, PTL DEF Spec
===============================================================================
