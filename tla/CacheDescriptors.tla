--------------------------- MODULE CacheDescriptors ----------------------------
(***************************************************************************)
(* The table of GetCacheLevelInfo (impl_x86__base_implementation.inl):     *)
(* what a one-byte descriptor of CPUID leaf 2 stands for.  The case for    *)
(* 0x149 is left out, no byte reaches it.                                  *)
(***************************************************************************)
EXTENDS Integers

KiB == 1024
MiB == 1024 * KiB
UNDEF == -1
FULL == 255   \* 0xFF: fully associative.

CacheLevelInfo(level, type, size, ways, line, tlb, part) ==
  [level |-> level, cache_type |-> type, cache_size |-> size, ways |-> ways,
   line_size |-> line, tlb_entries |-> tlb, partitioning |-> part]

kEmptyCacheLevelInfo == CacheLevelInfo(0, "NULL", 0, 0, 0, 0, 0)

\* The shapes that the rows of the table have.
Data(level, size, ways, line) ==
  CacheLevelInfo(level, "DATA", size, ways, line, UNDEF, 0)
Sectored(level, size, ways) ==
  CacheLevelInfo(level, "DATA", size, ways, 64, UNDEF, 2)
Code(size, ways, line) ==
  CacheLevelInfo(1, "INSTRUCTION", size, ways, line, UNDEF, 0)
Tlb(type, page, ways, entries) ==
  CacheLevelInfo(UNDEF, type, page, ways, UNDEF, entries, 0)
Prefetch(size) ==
  CacheLevelInfo(UNDEF, "PREFETCH", size, UNDEF, UNDEF, UNDEF, 0)
NullDescriptor ==
  CacheLevelInfo(UNDEF, "NULL", UNDEF, UNDEF, UNDEF, UNDEF, 0)

Descriptors01to24 ==
  { <<\h01, Tlb("TLB", 4 * KiB, 4, 32)>>,
    <<\h02, Tlb("TLB", 4 * MiB, FULL, 2)>>,
    <<\h03, Tlb("TLB", 4 * KiB, 4, 64)>>,
    <<\h04, Tlb("TLB", 4 * MiB, 4, 8)>>,
    <<\h05, Tlb("TLB", 4 * MiB, 4, 32)>>, <<\h06, Code(8 * KiB, 4, 32)>>,
    <<\h08, Code(16 * KiB, 4, 32)>>, <<\h09, Code(32 * KiB, 4, 64)>>,
    <<\h0A, Data(1, 8 * KiB, 2, 32)>>, <<\h0B, Tlb("TLB", 4 * MiB, 4, 4)>>,
    <<\h0C, Data(1, 16 * KiB, 4, 32)>>, <<\h0D, Data(1, 16 * KiB, 4, 64)>>,
    <<\h0E, Data(1, 24 * KiB, 6, 64)>>, <<\h1D, Data(2, 128 * KiB, 2, 64)>>,
    <<\h21, Data(2, 256 * KiB, 8, 64)>>,
    <<\h22, Sectored(3, 512 * KiB, 4)>>, <<\h23, Sectored(3, 1 * MiB, 8)>>,
    <<\h24, Data(2, 1 * MiB, 16, 64)>> }

Descriptors25to4D ==
  { <<\h25, Sectored(3, 2 * MiB, 8)>>, <<\h29, Sectored(3, 4 * MiB, 8)>>,
    <<\h2C, Data(1, 32 * KiB, 8, 64)>>, <<\h30, Code(32 * KiB, 8, 64)>>,
    <<\h40, Data(UNDEF, UNDEF, UNDEF, UNDEF)>>,
    <<\h41, Data(2, 128 * KiB, 4, 32)>>,
    <<\h42, Data(2, 256 * KiB, 4, 32)>>,
    <<\h43, Data(2, 512 * KiB, 4, 32)>>, <<\h44, Data(2, 1 * MiB, 4, 32)>>,
    <<\h45, Data(2, 2 * MiB, 4, 32)>>, <<\h46, Data(3, 4 * MiB, 4, 64)>>,
    <<\h47, Data(3, 8 * MiB, 8, 64)>>, <<\h48, Data(2, 3 * MiB, 12, 64)>>,
    <<\h49, Data(2, 4 * MiB, 16, 64)>>, <<\h4A, Data(3, 6 * MiB, 12, 64)>>,
    <<\h4B, Data(3, 8 * MiB, 16, 64)>>, <<\h4C, Data(3, 12 * MiB, 12, 64)>>,
    <<\h4D, Data(3, 16 * MiB, 16, 64)>> }

Descriptors4Eto67 ==
  { <<\h4E, Data(2, 6 * MiB, 24, 64)>>,
    <<\h4F, Tlb("TLB", 4 * KiB, UNDEF, 32)>>,
    <<\h50, Tlb("TLB", 4 * KiB, UNDEF, 64)>>,
    <<\h51, Tlb("TLB", 4 * KiB, UNDEF, 128)>>,
    <<\h52, Tlb("TLB", 4 * KiB, UNDEF, 256)>>,
    <<\h55, Tlb("TLB", 2 * MiB, FULL, 7)>>,
    <<\h56, Tlb("TLB", 4 * MiB, 4, 16)>>,
    <<\h57, Tlb("TLB", 4 * KiB, 4, 16)>>,
    <<\h59, Tlb("TLB", 4 * KiB, FULL, 16)>>,
    <<\h5A, Tlb("TLB", 2 * MiB, 4, 32)>>,
    <<\h5B, Tlb("TLB", 4 * KiB, UNDEF, 64)>>,
    <<\h5C, Tlb("TLB", 4 * KiB, UNDEF, 128)>>,
    <<\h5D, Tlb("TLB", 4, UNDEF, 256)>>, <<\h60, Data(1, 16 * KiB, 8, 64)>>,
    <<\h61, Tlb("TLB", 4 * KiB, FULL, 48)>>,
    <<\h63, Tlb("TLB", 2 * MiB, 4, 4)>>, <<\h66, Data(1, 8 * KiB, 4, 64)>>,
    <<\h67, Data(1, 16 * KiB, 4, 64)>> }

Descriptors68to86 ==
  { <<\h68, Data(1, 32 * KiB, 4, 64)>>, <<\h70, Code(12 * KiB, 8, UNDEF)>>,
    <<\h71, Code(16 * KiB, 8, UNDEF)>>, <<\h72, Code(32 * KiB, 8, UNDEF)>>,
    <<\h76, Tlb("TLB", 2 * MiB, FULL, 8)>>,
    <<\h78, Data(2, 1 * MiB, 4, 64)>>, <<\h79, Sectored(2, 128 * KiB, 8)>>,
    <<\h7A, Sectored(2, 256 * KiB, 8)>>,
    <<\h7B, Sectored(2, 512 * KiB, 8)>>, <<\h7C, Sectored(2, 1 * MiB, 8)>>,
    <<\h7D, Data(2, 2 * MiB, 8, 64)>>, <<\h7F, Data(2, 512 * KiB, 2, 64)>>,
    <<\h80, Data(2, 512 * KiB, 8, 64)>>,
    <<\h82, Data(2, 256 * KiB, 8, 32)>>,
    <<\h83, Data(2, 512 * KiB, 8, 32)>>, <<\h84, Data(2, 1 * MiB, 8, 32)>>,
    <<\h85, Data(2, 2 * MiB, 8, 32)>>, <<\h86, Data(2, 512 * KiB, 4, 32)>> }

Descriptors87toD2 ==
  { <<\h87, Data(2, 1 * MiB, 8, 64)>>,
    <<\hA0, Tlb("DTLB", 4 * KiB, FULL, 32)>>,
    <<\hB0, Tlb("TLB", 4 * KiB, 4, 128)>>,
    <<\hB1, Tlb("TLB", 2 * MiB, 4, 8)>>,
    <<\hB2, Tlb("TLB", 4 * KiB, 4, 64)>>,
    <<\hB3, Tlb("TLB", 4 * KiB, 4, 128)>>,
    <<\hB4, Tlb("TLB", 4 * KiB, 4, 256)>>,
    <<\hB5, Tlb("TLB", 4 * KiB, 8, 64)>>,
    <<\hB6, Tlb("TLB", 4 * KiB, 8, 128)>>,
    <<\hBA, Tlb("TLB", 4 * KiB, 4, 64)>>,
    <<\hC0, Tlb("TLB", 4 * KiB, 4, 8)>>,
    <<\hC1, Tlb("STLB", 4 * KiB, 8, 1024)>>,
    <<\hC2, Tlb("DTLB", 4 * KiB, 4, 16)>>,
    <<\hC3, Tlb("STLB", 4 * KiB, 6, 1536)>>,
    <<\hCA, Tlb("STLB", 4 * KiB, 4, 512)>>,
    <<\hD0, Data(3, 512 * KiB, 4, 64)>>, <<\hD1, Data(3, 1 * MiB, 4, 64)>>,
    <<\hD2, Data(3, 2 * MiB, 4, 64)>> }

DescriptorsD6toFF ==
  { <<\hD6, Data(3, 1 * MiB, 8, 64)>>, <<\hD7, Data(3, 2 * MiB, 8, 64)>>,
    <<\hD8, Data(3, 4 * MiB, 8, 64)>>,
    <<\hDC, Data(3, 1536 * KiB, 12, 64)>>,
    <<\hDD, Data(3, 3 * MiB, 12, 64)>>, <<\hDE, Data(3, 6 * MiB, 12, 64)>>,
    <<\hE2, Data(3, 2 * MiB, 16, 64)>>, <<\hE3, Data(3, 4 * MiB, 16, 64)>>,
    <<\hE4, Data(3, 8 * MiB, 16, 64)>>, <<\hEA, Data(3, 12 * MiB, 24, 64)>>,
    <<\hEB, Data(3, 18 * MiB, 24, 64)>>,
    <<\hEC, Data(3, 24 * MiB, 24, 64)>>, <<\hF0, Prefetch(64 * KiB)>>,
    <<\hF1, Prefetch(128 * KiB)>>, <<\hFF, NullDescriptor>> }

Table == UNION {Descriptors01to24, Descriptors25to4D, Descriptors4Eto67,
                Descriptors68to86, Descriptors87toD2, DescriptorsD6toFF}

Known == {row[1] : row \in Table}

GetCacheLevelInfo(descriptor) ==
  IF descriptor \in Known
  THEN (CHOOSE row \in Table : row[1] = descriptor)[2]
  ELSE kEmptyCacheLevelInfo
===============================================================================
