----------------------------- MODULE BumpAllocator -----------------------------
(***************************************************************************)
(* The bump allocator of src/src/utils/list_cpu_features.c: blocks of a    *)
(* global buffer, handed out one after the other and never taken back, and *)
(* the formatted strings that are printed into what is left of the buffer  *)
(* before their space is reserved.                                         *)
(***************************************************************************)
EXTENDS Integers, FiniteSets

CONSTANT Buffers   \* Addresses and sizes that gGlobalBuffer may have.

ALIGN == 8

ASSUME BufferAssumption == Buffers \subseteq [at : Nat \ {0}, capacity : Nat]

VARIABLES
  buffer,     \* gGlobalBuffer
  ptr, size,  \* gBumpAllocator: the free part of the buffer.
  allocator,  \* "new", "ready", or "failed": internal_error has ended it all.
  blocks,     \* The blocks handed out: where, and the bytes asked for.
  latest      \* The bytes last written, of a block or by vsnprintf.

bavars == <<buffer, ptr, size, allocator, blocks, latest>>

BAInit ==
  /\ buffer \in Buffers
  /\ ptr = buffer.at /\ size = buffer.capacity
  /\ allocator = "new"
  /\ blocks = {}
  /\ latest = [at |-> buffer.at, used |-> 0]

internal_error == allocator' = "failed"

\* The loop goes on while there is room and ptr is not aligned.
Skipped == LET gap == (ALIGN - (ptr % ALIGN)) % ALIGN
           IN  IF gap <= size THEN gap ELSE size

BA_Align ==
  /\ allocator = "new"
  /\ ptr' = ptr + Skipped
  /\ size' = size - Skipped
  /\ IF ptr' % ALIGN # 0 THEN internal_error ELSE allocator' = "ready"
  /\ UNCHANGED <<buffer, blocks, latest>>

RoundUp(n) == ((n + ALIGN - 1) \div ALIGN) * ALIGN

\* The checks and assignments of BA_Bump, for n bytes.
Reserve(n) ==
  IF ptr % ALIGN # 0 \/ size < RoundUp(n)
  THEN internal_error /\ UNCHANGED <<ptr, size, blocks>>
  ELSE /\ blocks' = blocks \cup {[at |-> ptr, used |-> n]}
       /\ ptr' = ptr + RoundUp(n)
       /\ size' = size - RoundUp(n)
       /\ UNCHANGED allocator

\* A block that is asked for is also written.
BA_Bump(n) ==
  /\ allocator = "ready"
  /\ Reserve(n)
  /\ latest' = IF allocator' = "failed" THEN latest
               ELSE [at |-> ptr, used |-> n]
  /\ UNCHANGED buffer

\* Mutant: everything that vsnprintf was offered is reserved.
BA_PrintReservesAll(length) ==
  /\ allocator = "ready"
  /\ latest' = [at |-> ptr, used |-> IF length < size THEN length + 1 ELSE size]
  /\ IF length >= size THEN internal_error /\ UNCHANGED <<ptr, size, blocks>>
     ELSE Reserve(size)
  /\ UNCHANGED buffer

\* Mutant: no space is reserved for the terminator.
BA_PrintNoTerminator(length) ==
  /\ allocator = "ready"
  /\ latest' = [at |-> ptr, used |-> IF length < size THEN length + 1 ELSE size]
  /\ IF length >= size THEN internal_error /\ UNCHANGED <<ptr, size, blocks>>
     ELSE Reserve(length)
  /\ UNCHANGED buffer

\* CreatePrintfString: vsnprintf cuts the text to what is left, terminator
\* included, and only a text that fits is given a block.
BA_Print(length) ==
  /\ allocator = "ready"
  /\ latest' = [at |-> ptr, used |-> IF length < size THEN length + 1 ELSE size]
  /\ IF length >= size THEN internal_error /\ UNCHANGED <<ptr, size, blocks>>
     ELSE Reserve(length + 1)
  /\ UNCHANGED buffer

BANext == BA_Align \/ \E n \in Nat \ {0} : BA_Bump(n) \/ BA_Print(n - 1)

BASpec == BAInit /\ [][BANext]_bavars

-------------------------------------------------------------------------------
Apart(b, c) == b.at + b.used <= c.at \/ c.at + c.used <= b.at
Inside(b) == buffer.at <= b.at /\ b.at + b.used <= buffer.at + buffer.capacity

\* What is written, by a block's owner or by vsnprintf ahead of the
\* reservation, stays inside the buffer and out of every block handed out
\* before, and blocks are aligned for a Node (list_cpu_features.c:77-159).
BlocksDisjoint ==
  /\ Inside(latest)
  /\ \A b \in blocks \ {latest} : Apart(b, latest)
  /\ \A b \in blocks : b.at % ALIGN = 0 /\ Inside(b)
===============================================================================
