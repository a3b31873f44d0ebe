------------------------------ MODULE RiscvProofs -------------------------------
(***************************************************************************)
(* Proofs about GetRiscvInfo, for every /proc/cpuinfo.  The loop over the  *)
(* lines keeps what the last isa line declares and the halves of the last  *)
(* uarch line that has two.  The loop over the flags inside an isa line    *)
(* consumes the line as it goes along: the names of the flags that are     *)
(* still to be looked for stand behind what it has consumed.               *)
(***************************************************************************)
EXTENDS RiscvInfo, StringViewProofs

\* A name is a few fragments.
LEMMA FlagName ==
  ASSUME NEW f \in Flags
  PROVE  LET name == kCpuInfoFlags[f]
         IN  /\ name \in Seq({name[i] : i \in 1 .. Len(name)})
             /\ Len(name) \in Nat /\ Len(name) >= 1 /\ name # <<>>
<1> DEFINE IsName(name) ==
             /\ name \in Seq({name[i] : i \in 1 .. Len(name)})
             /\ Len(name) \in Nat /\ Len(name) >= 1 /\ name # <<>>
<1>1. \A a : IsName(<<a>>)
  OBVIOUS
<1>2. \A a, b : IsName(<<a, b>>)
  OBVIOUS
<1>3. \A a, b, c, d : IsName(<<a, b, c, d>>)
  OBVIOUS
<1>4. \A a, b, c, d, e, g : IsName(<<a, b, c, d, e, g>>)
  OBVIOUS
<1>5. f \in 1 .. 11
  BY DEF Flags, kCpuInfoFlags
<1>6. \/ \E a : kCpuInfoFlags[f] = <<a>>
      \/ \E a, b : kCpuInfoFlags[f] = <<a, b>>
      \/ \E a, b, c, d : kCpuInfoFlags[f] = <<a, b, c, d>>
      \/ \E a, b, c, d, e, g : kCpuInfoFlags[f] = <<a, b, c, d, e, g>>
  BY <1>5 DEF kCpuInfoFlags
<1> HIDE DEF IsName
<1>7. IsName(kCpuInfoFlags[f])
  BY <1>1, <1>2, <1>3, <1>4, <1>6, Zenon
<1>8. QED
  BY <1>7 DEF IsName

LEMMA FlagNumbers == Flags = 1 .. 11 /\ Len(kCpuInfoFlags) = 11
  BY DEF Flags, kCpuInfoFlags

-------------------------------------------------------------------------------
(* The halves of a text at a character.                                    *)

LEMMA Halves ==
  ASSUME NEW S, NEW v \in Seq(S), NEW c, \A k \in 1 .. Len(v) : v[k] # NUL
  PROVE  LET at == IndexOfChar(v, c)
         IN  IF at = -1 THEN ~\E k \in DOMAIN v : v[k] = c
             ELSE /\ \E k \in DOMAIN v : v[k] = c
                  /\ KeepFront(v, at) \o <<c>> \o PopFront(v, at + 1) = v
<1>1. CASE /\ IndexOfChar(v, c) = -1
           /\ \A k \in 1 .. Len(v) : v[k] = c => \E j \in 1 .. k - 1 : v[j] = NUL
  <2>1. ASSUME NEW k \in 1 .. Len(v), v[k] = c PROVE FALSE
    <3>1. PICK j \in 1 .. k - 1 : v[j] = NUL
      BY <1>1, <2>1
    <3>2. j \in 1 .. Len(v)
      OBVIOUS
    <3>3. QED
      BY <3>1, <3>2
  <2>2. QED
    BY <1>1, <2>1
<1>2. ASSUME NEW k \in 1 .. Len(v), IndexOfChar(v, c) = k - 1, v[k] = c
      PROVE  /\ IndexOfChar(v, c) # -1 /\ \E i \in DOMAIN v : v[i] = c
             /\ KeepFront(v, IndexOfChar(v, c)) \o <<c>>
                  \o PopFront(v, IndexOfChar(v, c) + 1) = v
  <2>1. k \in Nat /\ k <= Len(v) /\ Len(v) \in Nat /\ k - 1 \in Nat /\ (k - 1) + 1 = k
    OBVIOUS
  <2>2. PICK a : a = KeepFront(v, k - 1)
    OBVIOUS
  <2>3. /\ a \in Seq(S) /\ Len(a) = k - 1
        /\ \A i \in 1 .. k - 1 : a[i] = v[i]
    <3>1. a = SubSeq(v, 1, k - 1)
      BY <2>1, <2>2 DEF KeepFront
    <3>2. QED
      BY <2>1, <3>1
  <2>4. PICK b : b = PopFront(v, k)
    OBVIOUS
  <2>5. /\ b \in Seq(S) /\ Len(b) = Len(v) - k
        /\ \A i \in 1 .. Len(v) - k : b[i] = v[k + i]
    BY <2>1, <2>4, Popped
  <2>6. c \in S
    BY <1>2
  <2>7. PICK u : u = a \o <<c>>
    OBVIOUS
  <2>8. /\ u \in Seq(S) /\ Len(u) = k
        /\ \A i \in 1 .. k : u[i] = v[i]
    BY <1>2, <2>1, <2>3, <2>6, <2>7
  <2>9. PICK w : w = u \o b
    OBVIOUS
  <2>10. w \in Seq(S) /\ Len(w) = Len(v)
    BY <2>1, <2>5, <2>8, <2>9
  <2>11. ASSUME NEW i \in 1 .. Len(v) PROVE w[i] = v[i]
    <3>1. CASE i <= k
      BY <2>5, <2>8, <2>9, <3>1
    <3>2. CASE i > k
      <4>1. PICK j : j = i - k
        OBVIOUS
      <4>2. j \in 1 .. Len(v) - k /\ k + j = i
        BY <2>1, <3>2, <4>1
      <4>3. w[i] = b[j]
        BY <2>5, <2>8, <2>9, <4>2
      <4>4. QED
        BY <2>5, <4>2, <4>3
    <3>3. QED
      BY <2>1, <3>1, <3>2
  <2>12. w = v
    BY <2>10, <2>11
  <2>13. IndexOfChar(v, c) # -1 /\ k \in DOMAIN v
    BY <1>2, <2>1
  <2>14. QED
    BY <1>2, <2>1, <2>2, <2>4, <2>7, <2>9, <2>12, <2>13
<1>3. \/ /\ IndexOfChar(v, c) = -1
         /\ \A k \in 1 .. Len(v) : v[k] = c => \E j \in 1 .. k - 1 : v[j] = NUL
      \/ \E k \in 1 .. Len(v) : IndexOfChar(v, c) = k - 1 /\ v[k] = c
  BY CharFound
<1>4. QED
  BY <1>1, <1>2, <1>3

-------------------------------------------------------------------------------
(* One flag of an isa line.                                                *)

\* What FileAssumption says of an isa line.
IsIsa(line) ==
  /\ line.value \in Seq({line.value[j] : j \in DOMAIN line.value} \ {NUL})
  /\ line.extensions \in Nat
  /\ line.declared = {g \in Flags : Places(line, g) # {}}
  /\ \A g, h \in Flags : \A s \in Places(line, g), t \in Places(line, h) :
       /\ g = h => s = t
       /\ g < h => s + Len(kCpuInfoFlags[g]) <= t

\* The names to be looked for from f on stand behind the first d fragments.
Ahead(line, f, d) == \A h \in Flags : \A s \in Places(line, h) : f <= h => d <= s

\* Where a flag that is declared is found, and that one that is not is not found.
LEMMA FlagFound ==
  ASSUME NEW line, IsIsa(line), Unambiguous(line), NEW f \in Flags,
         NEW d \in 0 .. Len(line.value), Ahead(line, f, d)
  PROVE  LET remaining == SubSeq(line.value, d + 1, Len(line.value))
             at == IndexOf(remaining, kCpuInfoFlags[f])
         IN  /\ f \notin line.declared => at = -1
             /\ f \in line.declared => at \in Nat /\ d + at \in Places(line, f)
<1> DEFINE v == line.value
           name == kCpuInfoFlags[f]
           r == SubSeq(v, d + 1, Len(v))
           m == Len(name)
           S == {v[j] : j \in DOMAIN v} \ {NUL}
           T == S \cup {name[i] : i \in 1 .. m}
           R == Reached(r, name, 0)
<1>1. /\ name \in Seq({name[i] : i \in 1 .. m}) /\ m \in Nat /\ m >= 1 /\ name # <<>>
      /\ v \in Seq(S) /\ line.extensions \in Nat
  BY FlagName DEF IsIsa
<1>2. v \in Seq(T) /\ name \in Seq(T)
  BY <1>1
<1>3. \A k \in 1 .. Len(v) : v[k] # NUL
  BY <1>1
<1> HIDE DEF T, S, name
<1>4. /\ r \in Seq(T) /\ Len(r) = Len(v) - d /\ Len(v) \in Nat
      /\ \A i \in 1 .. Len(v) - d : r[i] = v[d + i]
  BY <1>2
<1>5. \A k \in 1 .. Len(r) : r[k] # NUL
  BY <1>3, <1>4
<1>6. IndexOf(r, name) = First(R)
  <2>1. Searchable(r, name)
    BY <1>1, <1>5 DEF Searchable
  <2>2. QED
    BY <1>2, <1>4, <2>1, WordFound
\* An occurrence in the rest is one in the line.
<1>7. ASSUME NEW p \in 0 .. Len(r) - m
      PROVE  SubSeq(r, p + 1, p + m) = SubSeq(v, (d + p) + 1, (d + p) + m)
  BY <1>1, <1>2, <1>4, SMTT(30)
<1> HIDE DEF r, v
<1>8. R = {p \in 0 .. Len(r) - m :
             SubSeq(v, (d + p) + 1, (d + p) + m) = name}
  <2>1. \A p \in 0 .. Len(r) - m : \A j \in 0 + 1 .. p : r[j] # NUL
    BY <1>1, <1>4, <1>5
  <2>2. R = {p \in Occurrences(r, name) : 0 <= p /\ \A j \in 0 + 1 .. p : r[j] # NUL}
    BY DEF Reached
  <2>3. Occurrences(r, name) = {p \in 0 .. Len(r) - m : SubSeq(r, p + 1, p + m) = name}
    BY DEF Occurrences
  <2> HIDE DEF R, m
  <2>4. Occurrences(r, name) = {p \in 0 .. Len(r) - m :
                                 SubSeq(v, (d + p) + 1, (d + p) + m) = name}
    BY <1>7, <2>3
  <2>5. QED
    BY <2>1, <2>2, <2>3, <2>4
<1> DEFINE P == Places(line, f)
<1>9. P = {s \in 0 .. Len(v) - m :
             SubSeq(v, s + 1, s + m) = name /\ (m = 1 => s < line.extensions)}
  BY DEF Places, name, v
<1>10. f \in line.declared <=> P # {}
  BY DEF IsIsa
<1>11. \A s \in P : d <= s
  BY FlagNumbers DEF Ahead
<1>12. \A s, t \in P : s = t
  BY DEF IsIsa
\* What is found is a place of its own, or lies in the extensions.
<1>13. ASSUME NEW p \in R, d + p \notin P
       PROVE  m = 1 /\ d + p >= line.extensions /\ v[(d + p) + 1] = name[1]
  <2>1. /\ p \in Nat /\ d + p \in 0 .. Len(v) - m
        /\ SubSeq(v, (d + p) + 1, (d + p) + m) = name
    <3>1. p \in 0 .. Len(r) - m /\ Len(r) = Len(v) - d /\ Len(v) \in Nat /\ d \in Nat
      BY <1>4, <1>8 DEF v
    <3>2. p \in Nat /\ d + p \in 0 .. Len(v) - m
      BY <1>1, <3>1
    <3>3. QED
      BY <1>8, <3>2
  <2>2. m = 1 /\ d + p >= line.extensions
    BY <1>1, <1>9, <1>13, <2>1
  <2>3. SubSeq(v, (d + p) + 1, (d + p) + m)[1] = v[(d + p) + 1]
    BY <1>1, <1>2, <2>1
  <2>4. QED
    BY <2>1, <2>2, <2>3
<1> HIDE DEF R, P
<1>14. CASE f \notin line.declared
  <2>1. ASSUME NEW p \in R PROVE FALSE
    <3>1. P = {}
      BY <1>10, <1>14
    <3>2. m = 1 /\ d + p >= line.extensions /\ v[(d + p) + 1] = name[1]
      BY <1>13, <3>1
    <3>3. (d + p) + 1 \in line.extensions + 1 .. Len(v)
      BY <1>1, <1>4, <1>8, <3>2
    <3>4. QED
      BY <1>14, <3>2, <3>3 DEF Unambiguous, name, v
  <2>2. QED
    BY <1>6, <1>14, <2>1 DEF First, r, name, v
<1>15. CASE f \in line.declared
  <2>1. PICK s \in P : TRUE
    BY <1>10, <1>15
  <2>2. /\ s \in 0 .. Len(v) - m /\ d <= s
        /\ SubSeq(v, s + 1, s + m) = name /\ (m = 1 => s < line.extensions)
    BY <1>9, <1>11
  <2>3. PICK q : q = s - d
    OBVIOUS
  <2>4. q \in R /\ d + q = s /\ q \in Nat
    BY <1>1, <1>4, <1>8, <2>2, <2>3
  <2>5. ASSUME NEW p \in R PROVE q <= p
    <3>1. p \in Nat
      BY <1>8
    <3>2. CASE d + p \in P
      BY <1>12, <2>4, <3>1, <3>2
    <3>3. CASE d + p \notin P
      BY <1>1, <1>13, <2>2, <2>4, <3>1, <3>3
    <3>4. QED
      BY <3>2, <3>3
  <2>6. First(R) = q
    BY <1>1, <1>2, <1>4, <2>4, <2>5, FirstReached DEF R
  <2>7. QED
    BY <1>6, <1>15, <2>4, <2>6 DEF r, name, P, v
<1>16. QED
  BY <1>14, <1>15

\* Looking for one flag leaves the names of the flags after it ahead.
LEMMA FlagPassed ==
  ASSUME NEW line, IsIsa(line), Unambiguous(line), NEW f \in Flags,
         NEW d \in 0 .. Len(line.value), Ahead(line, f, d)
  PROVE  LET remaining == SubSeq(line.value, d + 1, Len(line.value))
             at == IndexOf(remaining, kCpuInfoFlags[f])
             e == IF at = -1 THEN d ELSE d + (at + Len(kCpuInfoFlags[f]))
         IN  /\ e \in 0 .. Len(line.value) /\ Ahead(line, f + 1, e)
             /\ f \in line.declared <=> at # -1
             /\ at # -1 => at \in Nat
<1>1. PICK at : at = IndexOf(SubSeq(line.value, d + 1, Len(line.value)), kCpuInfoFlags[f])
  OBVIOUS
<1>2. /\ f \notin line.declared => at = -1
      /\ f \in line.declared => at \in Nat /\ d + at \in Places(line, f)
  BY <1>1, FlagFound
<1>3. CASE f \notin line.declared
  <2>1. Ahead(line, f + 1, d)
    <3>1. \A h \in Flags : f + 1 <= h => f <= h
      BY FlagNumbers
    <3>2. QED
      BY <3>1 DEF Ahead
  <2>2. QED
    BY <1>1, <1>2, <1>3, <2>1
<1>4. CASE f \in line.declared
  <2>1. PICK s : s = d + at
    OBVIOUS
  <2>2. PICK m : m = Len(kCpuInfoFlags[f])
    OBVIOUS
  <2>3. s \in Places(line, f) /\ m \in Nat /\ at \in Nat
    BY <1>2, <1>4, <2>1, <2>2, FlagName
  <2>4. s \in 0 .. Len(line.value) - m
    BY <2>2, <2>3 DEF Places
  <2>5. Len(line.value) \in Nat
    BY DEF IsIsa
  <2>6. s + m \in 0 .. Len(line.value)
    BY <2>3, <2>4, <2>5
  <2>7. Ahead(line, f + 1, s + m)
    <3>1. \A h \in Flags : f + 1 <= h => f < h
      BY FlagNumbers
    <3>2. \A h \in Flags : \A t \in Places(line, h) : f < h => s + m <= t
      BY <2>2, <2>3 DEF IsIsa
    <3>3. QED
      BY <3>1, <3>2 DEF Ahead
  <2>8. d + (at + m) = s + m
    BY <2>1, <2>3
  <2>9. QED
    BY <1>1, <1>4, <2>2, <2>3, <2>6, <2>7, <2>8
<1>5. QED
  BY <1>3, <1>4

-------------------------------------------------------------------------------
(* The loop over the lines.                                                *)

NumLines == Len(file.lines)
HasComma(v) == \E k \in DOMAIN v : v[k] = ","

\* The lines among the first n that say something, and what the last of each
\* kind says is what is filled in.
IsaUpTo(n) == {i \in 1 .. n : file.lines[i].key = "isa"}
PairsUpTo(n) == {i \in 1 .. n : /\ file.lines[i].key = "uarch"
                                /\ HasComma(file.lines[i].value)}
IsaFilled(n) ==
  IsaUpTo(n) # {} =>
    LET line == file.lines[LastOf(IsaUpTo(n))]
    IN  Unambiguous(line) => features = line.declared
PairFilled(n) ==
  PairsUpTo(n) # {} =>
    vendor \o <<",">> \o uarch = file.lines[LastOf(PairsUpTo(n))].value
Filled(n) == IsaFilled(n) /\ PairFilled(n)

\* Line n has been read.
HasRead(n) ==
  /\ n \in 1 .. NumLines
  /\ result.line = file.lines[n] /\ result.pos = pos
  /\ IF result.eof THEN n = NumLines /\ pos = n ELSE pos = n + 1

\* Line n is being handled; or, at the end of the file, the empty line is.
HandlesLine(n) == HasRead(n) /\ Filled(n - 1)
HandlesBlank == result.line = Blank /\ result.eof /\ Filled(NumLines)

\* The flags before the current one are those that the line declares, and the
\* names of the others stand in what is left of it.
Searched(line, d) ==
  /\ rest = SubSeq(line.value, d + 1, Len(line.value))
  /\ Ahead(line, flag, d)
  /\ \A g \in Flags : g < flag => (g \in features <=> g \in line.declared)
SearchesLine(n) ==
  /\ HasRead(n) /\ file.lines[n].key = "isa" /\ PairFilled(n)
  /\ flag \in Flags /\ features \subseteq Flags
  /\ Unambiguous(file.lines[n]) =>
       \E d \in 0 .. Len(file.lines[n].value) : Searched(file.lines[n], d)

\* The inductive invariant of GetRiscvInfo.
RiscvInv ==
  /\ file \in Files
  /\ pos \in 1 .. NumLines + 1
  /\ features \subseteq Flags
  /\ pc \in {"open", "read", "handle", "isa", "done"}
  /\ pc = "open" => pos = 1 /\ result = NotRead
  /\ pc \in {"handle", "isa"} => Opened
  /\ pc = "read" => Filled(pos - 1) /\ (result.eof => HasRead(NumLines))
  /\ pc = "handle" => (\E n \in 1 .. NumLines : HandlesLine(n)) \/ HandlesBlank
  /\ pc = "isa" => \E n \in 1 .. NumLines : SearchesLine(n)
  /\ pc = "done" /\ Opened => Filled(NumLines)

\* The last of some numbers up to n + 1.
LEMMA LastIs ==
  ASSUME NEW n \in Nat, NEW T, T \subseteq 1 .. n + 1, n + 1 \in T
  PROVE  LastOf(T) = n + 1
<1>1. \A j \in T : j \in Int /\ j <= n + 1
  OBVIOUS
<1>2. (\A j \in T : j <= n + 1) /\ \A i \in T : (\A j \in T : j <= i) => i = n + 1
  BY <1>1
<1>3. QED
  BY <1>2 DEF LastOf

LEMMA UpToNext ==
  ASSUME NEW n \in Nat, NEW m, m = n + 1
  PROVE  /\ file.lines[m].key = "isa" => IsaUpTo(m) # {} /\ LastOf(IsaUpTo(m)) = m
         /\ file.lines[m].key # "isa" => IsaUpTo(m) = IsaUpTo(n)
         /\ file.lines[m].key = "uarch" /\ HasComma(file.lines[m].value) =>
              PairsUpTo(m) # {} /\ LastOf(PairsUpTo(m)) = m
         /\ file.lines[m].key # "uarch" \/ ~HasComma(file.lines[m].value) =>
              PairsUpTo(m) = PairsUpTo(n)
<1>1. 1 .. m = (1 .. n) \cup {m}
  OBVIOUS
<1> HIDE DEF HasComma
<1>2. file.lines[m].key = "isa" => m \in IsaUpTo(m)
  BY <1>1 DEF IsaUpTo
<1>3. file.lines[m].key = "uarch" /\ HasComma(file.lines[m].value) => m \in PairsUpTo(m)
  BY <1>1 DEF PairsUpTo
<1>4. IsaUpTo(m) \subseteq 1 .. m /\ PairsUpTo(m) \subseteq 1 .. m
  BY DEF IsaUpTo, PairsUpTo
<1>5. /\ m \in IsaUpTo(m) => LastOf(IsaUpTo(m)) = m
      /\ m \in PairsUpTo(m) => LastOf(PairsUpTo(m)) = m
  BY <1>4, LastIs
<1>6. file.lines[m].key # "isa" => IsaUpTo(m) = IsaUpTo(n)
  BY <1>1 DEF IsaUpTo
<1>7. file.lines[m].key # "uarch" \/ ~HasComma(file.lines[m].value) =>
        PairsUpTo(m) = PairsUpTo(n)
  BY <1>1 DEF PairsUpTo
<1>8. QED
  BY <1>2, <1>3, <1>5, <1>6, <1>7

\* A file is a sequence, and its lines are text.
LEMMA FileLines ==
  ASSUME file \in Files
  PROVE  /\ NumLines \in Nat /\ DOMAIN file.lines = 1 .. NumLines
         /\ Len(file.lines) = NumLines
<1>1. PICK S : file.lines \in Seq(S)
  BY FileAssumption DEF FileAssumption
<1>2. QED
  BY <1>1 DEF NumLines

LEMMA FileText ==
  ASSUME file \in Files, NEW n \in 1 .. NumLines
  PROVE  LET line == file.lines[n]
         IN  /\ line.key \in {"isa", "uarch"} =>
                  /\ line.value \in Seq({line.value[j] : j \in DOMAIN line.value})
                  /\ \A k \in 1 .. Len(line.value) : line.value[k] # NUL
             /\ line.key = "isa" => IsIsa(line)
<1>1. n \in DOMAIN file.lines
  BY FileLines
<1>2. PICK line : line = file.lines[n]
  OBVIOUS
<1> DEFINE IsText(l) == l.key \in {"isa", "uarch"} =>
             l.value \in Seq({l.value[j] : j \in DOMAIN l.value} \ {NUL})
           IsIsaLine(l) == l.key = "isa" => IsIsa(l)
<1>3. \A i \in DOMAIN file.lines : IsText(file.lines[i]) /\ IsIsaLine(file.lines[i])
  BY FileAssumption, Zenon DEF FileAssumption, IsIsa
<1>4. IsText(line) /\ IsIsaLine(line)
  BY <1>1, <1>2, <1>3, Zenon
<1>5. QED
  BY <1>2, <1>4

\* What is read is told apart from nothing read by its position or its eof.
LEMMA ReadLine ==
  ASSUME file \in Files, pos \in 1 .. NumLines + 1, result.eof => HasRead(NumLines),
         NEW r \in Results(file, pos, result)
  PROVE  /\ r # NotRead
         /\ r.pos \in 1 .. NumLines + 1
         /\ \/ r.line = Blank /\ r.eof /\ pos = NumLines + 1
            \/ /\ pos \in 1 .. NumLines /\ r.line = file.lines[pos]
               /\ IF r.eof THEN pos = NumLines /\ r.pos = pos ELSE r.pos = pos + 1
<1>1. CASE result.eof
  BY <1>1, FileLines DEF Results, HasRead, NotRead, Result
<1>2. CASE ~result.eof
  BY <1>2, FileLines DEF Results, Result, NotRead
<1>3. QED
  BY <1>1, <1>2

LEMMA InitRiscv == ASSUME Init PROVE RiscvInv
<1>1. NumLines \in Nat
  BY FileLines DEF Init
<1>2. QED
  BY <1>1 DEF Init, RiscvInv

\* What stays when the file and what is read of it do.
LEMMA SameFile ==
  ASSUME file' = file
  PROVE  /\ NumLines' = NumLines
         /\ \A n : IsaUpTo(n)' = IsaUpTo(n) /\ PairsUpTo(n)' = PairsUpTo(n)
         /\ features' = features => \A n : IsaFilled(n)' = IsaFilled(n)
         /\ vendor' = vendor /\ uarch' = uarch =>
              \A n : PairFilled(n)' = PairFilled(n)
<1>1. NumLines' = NumLines
  BY DEF NumLines
<1>2. \A n : IsaUpTo(n)' = IsaUpTo(n) /\ PairsUpTo(n)' = PairsUpTo(n)
  BY DEF IsaUpTo, PairsUpTo
<1>3. features' = features => \A n : IsaFilled(n)' = IsaFilled(n)
  BY <1>2 DEF IsaFilled
<1>4. vendor' = vendor /\ uarch' = uarch => \A n : PairFilled(n)' = PairFilled(n)
  BY <1>2 DEF PairFilled
<1>5. QED
  BY <1>1, <1>2, <1>3, <1>4

\* Once line n has been handled, the machine goes on behind it.
LEMMA LineHandled ==
  ASSUME RiscvInv, Opened, NEW n \in 1 .. NumLines, HasRead(n), Filled(n)',
         pc' = AfterLine, features' \subseteq Flags, UNCHANGED <<file, pos, result>>
  PROVE  RiscvInv'
<1>1. NumLines \in Nat /\ NumLines' = NumLines /\ Opened' = Opened
  BY FileLines, SameFile DEF RiscvInv, Opened
<1>2. CASE result.eof
  BY <1>1, <1>2 DEF RiscvInv, AfterLine, HasRead, Opened
<1>3. CASE ~result.eof
  <2>1. pos - 1 = n /\ pc' = "read"
    BY <1>1, <1>3 DEF HasRead, AfterLine
  <2>2. QED
    BY <1>1, <1>3, <2>1 DEF RiscvInv
<1>4. QED
  BY <1>2, <1>3

\* The empty line is of no kind.
LEMMA LineOfKind ==
  ASSUME RiscvInv, pc = "handle", result.line.key \in {"isa", "uarch"}
  PROVE  \E n \in 1 .. NumLines : HandlesLine(n)
<1>1. result.line # Blank
  BY FileAssumption DEF FileAssumption
<1>2. QED
  BY <1>1 DEF RiscvInv, HandlesBlank

LEMMA OpenKeeps == ASSUME RiscvInv, Open PROVE RiscvInv'
<1>1. /\ pos = 1 /\ result = NotRead /\ pc' \in {"read", "done"}
      /\ UNCHANGED <<file, pos, result, features, vendor, uarch>>
  BY DEF Open, RiscvInv, info
<1>2. ~Opened' /\ NumLines' = NumLines /\ ~result'.eof
  BY <1>1, SameFile DEF Opened, NotRead, Result
<1>3. IsaUpTo(0)' = {} /\ PairsUpTo(0)' = {}
  BY DEF IsaUpTo, PairsUpTo
<1>4. Filled(0)'
  BY <1>3 DEF Filled, IsaFilled, PairFilled
<1>5. QED
  BY <1>1, <1>2, <1>4 DEF RiscvInv

LEMMA NextLineKeeps == ASSUME RiscvInv, NextLine PROVE RiscvInv'
<1>1. /\ result' \in Results(file, pos, result) /\ pos' = result'.pos /\ pc' = "handle"
      /\ Filled(pos - 1) /\ pos \in 1 .. NumLines + 1
      /\ result.eof => HasRead(NumLines)
      /\ UNCHANGED <<file, features, vendor, uarch>>
  BY DEF NextLine, RiscvInv, info
<1>2. NumLines \in Nat /\ NumLines' = NumLines /\ \A n : Filled(n)' = Filled(n)
  BY <1>1, SameFile, FileLines DEF RiscvInv, Filled
<1>3. /\ Opened' /\ pos' \in 1 .. NumLines + 1
      /\ \/ result'.line = Blank /\ result'.eof /\ pos = NumLines + 1
         \/ /\ pos \in 1 .. NumLines /\ result'.line = file.lines[pos]
            /\ IF result'.eof THEN pos = NumLines /\ pos' = pos ELSE pos' = pos + 1
  BY <1>1, ReadLine DEF RiscvInv, Opened
<1>4. CASE result'.line = Blank /\ result'.eof /\ pos = NumLines + 1
  <2>1. pos - 1 = NumLines
    BY <1>2, <1>4
  <2>2. HandlesBlank'
    BY <1>1, <1>2, <1>4, <2>1 DEF HandlesBlank
  <2>3. QED
    BY <1>1, <1>2, <1>3, <2>2 DEF RiscvInv
<1>5. CASE /\ pos \in 1 .. NumLines /\ result'.line = file.lines[pos]
           /\ IF result'.eof THEN pos = NumLines /\ pos' = pos ELSE pos' = pos + 1
  <2>1. PICK n : n = pos
    OBVIOUS
  <2>2. n \in 1 .. NumLines' /\ HasRead(n)'
    BY <1>1, <1>2, <1>5, <2>1 DEF HasRead
  <2>3. HandlesLine(n)'
    BY <1>1, <1>2, <2>1, <2>2 DEF HandlesLine
  <2>4. QED
    BY <1>1, <1>2, <1>3, <2>2, <2>3 DEF RiscvInv
<1>6. QED
  BY <1>3, <1>4, <1>5

LEMMA HandleIsaKeeps == ASSUME RiscvInv, HandleIsa PROVE RiscvInv'
<1>1. /\ pc = "handle" /\ result.line.key = "isa" /\ pc' = "isa"
      /\ rest' = result.line.value /\ flag' = 1
      /\ UNCHANGED <<file, pos, result, features, vendor, uarch>>
  BY DEF HandleIsa, info
<1>2. PICK n \in 1 .. NumLines : HandlesLine(n)
  BY <1>1, LineOfKind
<1>3. /\ NumLines' = NumLines /\ HasRead(n)' = HasRead(n) /\ NumLines \in Nat
      /\ PairFilled(n)' = PairFilled(n)
  BY <1>1, SameFile, FileLines DEF HasRead, RiscvInv
<1>4. PICK line : line = file.lines[n]
  OBVIOUS
<1>5. HasRead(n) /\ PairFilled(n - 1) /\ line.key = "isa" /\ rest' = line.value
  BY <1>1, <1>2, <1>4 DEF HandlesLine, HasRead, Filled
<1>6. PairFilled(n)
  <2>1. n - 1 \in Nat /\ n = (n - 1) + 1
    BY <1>3
  <2>2. PairsUpTo(n) = PairsUpTo(n - 1)
    BY <1>4, <1>5, <2>1, UpToNext
  <2>3. QED
    BY <1>5, <2>2 DEF PairFilled
<1>7. line.value \in Seq({line.value[j] : j \in DOMAIN line.value})
  BY <1>4, <1>5, FileText DEF RiscvInv
<1>8. rest' = SubSeq(line.value, 0 + 1, Len(line.value)) /\ 0 \in 0 .. Len(line.value)
  BY <1>5, <1>7
<1>9. Ahead(line, 1, 0)
  BY DEF Ahead, Places
<1>10. Searched(line, 0)'
  <2>1. \A g \in Flags : ~(g < 1)
    BY FlagNumbers
  <2>2. QED
    BY <1>1, <1>8, <1>9, <2>1 DEF Searched
<1>11. SearchesLine(n)'
  <2>1. flag' \in Flags /\ features' \subseteq Flags
    BY <1>1, FlagNumbers DEF RiscvInv
  <2>2. \E d \in 0 .. Len(line.value) : Searched(line, d)'
    BY <1>8, <1>10
  <2>3. line = file'.lines[n] /\ HasRead(n)' /\ PairFilled(n)'
    BY <1>1, <1>3, <1>4, <1>5, <1>6
  <2>4. QED
    BY <1>5, <2>1, <2>2, <2>3 DEF SearchesLine
<1>12. QED
  BY <1>1, <1>3, <1>11 DEF RiscvInv, Opened

LEMMA IsaFlagKeeps == ASSUME RiscvInv, IsaFlag PROVE RiscvInv'
<1>1. PICK n \in 1 .. NumLines : SearchesLine(n)
  BY DEF RiscvInv, IsaFlag
<1>2. PICK line : line = file.lines[n]
  OBVIOUS
<1>3. /\ HasRead(n) /\ line.key = "isa" /\ PairFilled(n) /\ IsIsa(line)
      /\ flag \in Flags /\ features \subseteq Flags
      /\ Unambiguous(line) => \E d \in 0 .. Len(line.value) : Searched(line, d)
  BY <1>1, <1>2, FileText DEF SearchesLine, RiscvInv
<1>5. /\ UNCHANGED <<file, pos, result, vendor, uarch>>
      /\ pc' = (IF flag = Len(kCpuInfoFlags) THEN AfterLine ELSE "isa")
      /\ flag' = flag + 1
  BY DEF IsaFlag
<1>6. PICK at : at = IndexOf(rest, kCpuInfoFlags[flag])
  OBVIOUS
<1>7. /\ at # -1 => /\ features' = features \cup {flag}
                    /\ rest' = PopFront(rest, at + Len(kCpuInfoFlags[flag]))
      /\ at = -1 => features' = features \ {flag} /\ rest' = rest
  BY <1>6 DEF IsaFlag
<1>8. features' \subseteq Flags /\ (flag \in features' <=> at # -1)
      /\ \A g \in Flags : g # flag => (g \in features' <=> g \in features)
  BY <1>3, <1>7
<1>9. ASSUME Unambiguous(line) PROVE \E e \in 0 .. Len(line.value) : Searched(line, e)'
  <2>1. PICK d \in 0 .. Len(line.value) : Searched(line, d)
    BY <1>3, <1>9
  <2>2. /\ rest = SubSeq(line.value, d + 1, Len(line.value))
        /\ Ahead(line, flag, d)
        /\ \A g \in Flags : g < flag => (g \in features <=> g \in line.declared)
    BY <2>1 DEF Searched
  <2>3. PICK m : m = Len(kCpuInfoFlags[flag])
    OBVIOUS
  <2>4. PICK e : e = IF at = -1 THEN d ELSE d + (at + m)
    OBVIOUS
  <2>5. /\ e \in 0 .. Len(line.value) /\ Ahead(line, flag + 1, e)
        /\ flag \in line.declared <=> at # -1
        /\ at # -1 => at \in Nat
    BY <1>3, <1>6, <1>9, <2>2, <2>3, <2>4, FlagPassed
  <2>6. rest' = SubSeq(line.value, e + 1, Len(line.value))
    <3>1. CASE at = -1
      BY <1>7, <2>2, <2>4, <3>1
    <3>2. CASE at # -1
      <4>1. line.value \in Seq({line.value[j] : j \in DOMAIN line.value})
        BY <1>2, <1>3, FileText DEF RiscvInv
      <4>2. /\ m \in Nat /\ at \in Nat /\ at + m \in Nat /\ d \in Nat
            /\ e = d + (at + m) /\ d + (at + m) <= Len(line.value)
            /\ d <= Len(line.value) /\ e \in Nat
        BY <1>3, <2>3, <2>4, <2>5, <3>2, <4>1, FlagName, SMTT(30)
      <4>3. rest = PopFront(line.value, d) /\ PopFront(line.value, e) =
              SubSeq(line.value, e + 1, Len(line.value))
        BY <2>2, <4>1, <4>2 DEF PopFront
      <4>4. rest' = PopFront(PopFront(line.value, d), at + m)
        BY <1>7, <2>3, <3>2, <4>3
      <4>5. rest' = PopFront(line.value, e)
        BY <4>1, <4>2, <4>4, PoppedTwice
      <4>6. QED
        BY <4>3, <4>5
    <3>3. QED
      BY <3>1, <3>2
  <2>7. \A g \in Flags : g < flag + 1 => (g \in features' <=> g \in line.declared)
    <3>1. \A g \in Flags : g < flag + 1 => g < flag \/ g = flag
      BY <1>3, FlagNumbers
    <3>2. \A g \in Flags : g < flag => g # flag
      BY <1>3, FlagNumbers
    <3>3. QED
      BY <1>3, <1>8, <2>2, <2>5, <3>1, <3>2
  <2>8. Searched(line, e)'
    BY <1>5, <2>5, <2>6, <2>7 DEF Searched
  <2>9. QED
    BY <2>5, <2>8
<1>10. \A k : PairFilled(k)' = PairFilled(k)
  BY <1>5, SameFile
<1>11. CASE flag = Len(kCpuInfoFlags)
  <2>1. IsaFilled(n)'
    <3>1. n - 1 \in Nat /\ n = (n - 1) + 1
      BY FileLines DEF RiscvInv
    <3>2. IsaUpTo(n) # {} /\ LastOf(IsaUpTo(n)) = n
      BY <1>2, <1>3, <3>1, UpToNext
    <3>3. IsaUpTo(n)' = IsaUpTo(n)
      BY <1>5, SameFile
    <3>4. ASSUME Unambiguous(line) PROVE features' = line.declared
      <4>1. PICK e \in 0 .. Len(line.value) : Searched(line, e)'
        BY <1>9, <3>4
      <4>2. \A g \in Flags : g < flag'
        BY <1>5, <1>11, FlagNumbers
      <4>3. \A g \in Flags : g \in features' <=> g \in line.declared
        BY <4>1, <4>2 DEF Searched
      <4>4. line.declared \subseteq Flags
        BY <1>3 DEF IsIsa
      <4>5. QED
        BY <1>8, <4>3, <4>4
    <3>5. QED
      BY <1>2, <1>5, <3>2, <3>3, <3>4 DEF IsaFilled
  <2>2. Filled(n)'
    BY <1>3, <1>10, <2>1 DEF Filled
  <2>3. QED
    BY <1>3, <1>5, <1>8, <1>11, <2>2, LineHandled DEF RiscvInv, IsaFlag
<1>12. CASE flag # Len(kCpuInfoFlags)
  <2>1. flag' \in Flags /\ pc' = "isa"
    BY <1>3, <1>5, <1>12, FlagNumbers
  <2>2. SearchesLine(n)'
    <3>1. HasRead(n)' /\ PairFilled(n)' /\ line = file'.lines[n]
      BY <1>2, <1>3, <1>5, SameFile DEF HasRead
    <3>2. QED
      BY <1>3, <1>8, <1>9, <2>1, <3>1 DEF SearchesLine
  <2>3. NumLines' = NumLines /\ Opened' /\ n \in 1 .. NumLines'
    BY <1>5, SameFile DEF Opened, RiscvInv, IsaFlag
  <2>4. QED
    BY <1>5, <1>8, <2>1, <2>2, <2>3 DEF RiscvInv
<1>13. QED
  BY <1>11, <1>12

LEMMA HandleUarchKeeps == ASSUME RiscvInv, HandleUarch PROVE RiscvInv'
<1>1. /\ pc = "handle" /\ result.line.key = "uarch"
      /\ UNCHANGED <<file, pos, result, features>>
  BY DEF HandleUarch
<1>2. PICK n \in 1 .. NumLines : HandlesLine(n)
  BY <1>1, LineOfKind
<1>3. PICK line : line = file.lines[n]
  OBVIOUS
<1>4. PICK v : v = line.value
  OBVIOUS
<1>5. HasRead(n) /\ Filled(n - 1) /\ line = result.line /\ line.key = "uarch"
  BY <1>1, <1>2, <1>3 DEF HandlesLine, HasRead
<1>6. /\ v \in Seq({v[j] : j \in DOMAIN v})
      /\ \A k \in 1 .. Len(v) : v[k] # NUL
  BY <1>3, <1>4, <1>5, FileText DEF RiscvInv
<1>7. PICK c : c = ","
  OBVIOUS
<1>8. PICK at : at = IndexOfChar(v, c)
  OBVIOUS
<1>9. IF at = -1 THEN ~HasComma(v)
      ELSE HasComma(v) /\ KeepFront(v, at) \o <<c>> \o PopFront(v, at + 1) = v
  <2>1. IF at = -1 THEN ~\E k \in DOMAIN v : v[k] = c
        ELSE /\ \E k \in DOMAIN v : v[k] = c
             /\ KeepFront(v, at) \o <<c>> \o PopFront(v, at + 1) = v
    BY <1>6, <1>8, Halves
  <2>2. QED
    BY <1>7, <2>1, Zenon DEF HasComma
<1>10. /\ at = -1 => pc' = "read" /\ UNCHANGED <<vendor, uarch>>
       /\ at # -1 => /\ vendor' = KeepFront(v, at) /\ uarch' = PopFront(v, at + 1)
                     /\ pc' = AfterLine
  BY <1>4, <1>5, <1>7, <1>8, Zenon DEF HandleUarch
<1>11. /\ n - 1 \in Nat /\ n = (n - 1) + 1 /\ NumLines \in Nat
       /\ NumLines' = NumLines /\ Opened /\ Opened'
       /\ (\A k : PairsUpTo(k)' = PairsUpTo(k)) /\ \A k : IsaFilled(k)' = IsaFilled(k)
       /\ features' \subseteq Flags
  BY <1>1, FileLines, SameFile DEF RiscvInv, Opened
<1>12. IsaFilled(n)'
  <2>1. IsaUpTo(n) = IsaUpTo(n - 1)
    BY <1>3, <1>5, <1>11, UpToNext
  <2>2. QED
    BY <1>5, <1>11, <2>1 DEF Filled, IsaFilled
<1> HIDE DEF HasComma
<1>13. CASE at = -1
  <2>1. /\ ~HasComma(v) /\ pc' = "read"
        /\ UNCHANGED <<vendor, uarch>>
    BY <1>9, <1>10, <1>13
  <2>2. PairsUpTo(n) = PairsUpTo(n - 1)
    BY <1>3, <1>4, <1>11, <2>1, UpToNext
  <2>3. \A k : PairFilled(k)' = PairFilled(k)
    BY <1>1, <2>1, SameFile
  <2>4. PairFilled(n)' /\ Filled(n - 1)'
    BY <1>5, <1>11, <2>2, <2>3 DEF Filled, PairFilled
  <2>5. Filled(pos - 1)'
    <3>1. pos - 1 = n \/ pos - 1 = n - 1
      BY <1>5, <1>11 DEF HasRead
    <3>2. pos' = pos
      BY <1>1
    <3>3. Filled(n)'
      BY <1>12, <2>4 DEF Filled
    <3>4. CASE pos - 1 = n
      BY <3>2, <3>3, <3>4 DEF Filled, IsaFilled, PairFilled
    <3>5. CASE pos - 1 = n - 1
      BY <2>4, <3>2, <3>5 DEF Filled, IsaFilled, PairFilled
    <3>6. QED
      BY <3>1, <3>4, <3>5
  <2>6. result'.eof => HasRead(NumLines)'
    BY <1>1, <1>5, <1>11 DEF HasRead
  <2>7. QED
    BY <1>1, <1>11, <2>1, <2>5, <2>6 DEF RiscvInv
<1>14. CASE at # -1
  <2>1. /\ HasComma(v) /\ vendor' \o <<c>> \o uarch' = v /\ pc' = AfterLine
    BY <1>9, <1>10, <1>14
  <2>2. PairsUpTo(n) # {} /\ LastOf(PairsUpTo(n)) = n
    BY <1>3, <1>4, <1>5, <1>11, <2>1, UpToNext
  <2>3. v = file'.lines[LastOf(PairsUpTo(n)')].value
    BY <1>1, <1>3, <1>4, <1>11, <2>2
  <2>4. PairFilled(n)'
    BY <1>7, <2>1, <2>3, Zenon DEF PairFilled
  <2>5. Filled(n)'
    BY <1>12, <2>4 DEF Filled
  <2>6. QED
    BY <1>1, <1>5, <1>11, <2>1, <2>5, LineHandled
<1>15. QED
  BY <1>13, <1>14

LEMMA HandleOtherKeeps == ASSUME RiscvInv, HandleOther PROVE RiscvInv'
<1>1. /\ pc = "handle" /\ result.line.key \notin {"isa", "uarch"} /\ pc' = AfterLine
      /\ UNCHANGED <<file, pos, result, features, vendor, uarch>>
  BY DEF HandleOther, info
<1>2. /\ NumLines' = NumLines /\ NumLines \in Nat /\ Opened /\ Opened'
      /\ \A n : Filled(n)' = Filled(n)
  BY <1>1, SameFile, FileLines DEF RiscvInv, Filled, Opened
<1>3. CASE HandlesBlank
  BY <1>1, <1>2, <1>3 DEF HandlesBlank, RiscvInv, AfterLine
<1>4. ASSUME NEW n \in 1 .. NumLines, HandlesLine(n) PROVE RiscvInv'
  <2>1. n - 1 \in Nat /\ n = (n - 1) + 1
    BY <1>2
  <2>2. file.lines[n].key \notin {"isa", "uarch"} /\ HasRead(n) /\ Filled(n - 1)
    BY <1>1, <1>4 DEF HandlesLine, HasRead
  <2>3. IsaUpTo(n) = IsaUpTo(n - 1) /\ PairsUpTo(n) = PairsUpTo(n - 1)
    BY <2>1, <2>2, UpToNext
  <2>4. Filled(n)
    BY <2>2, <2>3 DEF Filled, IsaFilled, PairFilled
  <2>5. QED
    BY <1>1, <1>2, <2>2, <2>4, LineHandled DEF RiscvInv
<1>5. QED
  BY <1>1, <1>3, <1>4 DEF RiscvInv

LEMMA StepRiscv == ASSUME RiscvInv, [Next]_vars PROVE RiscvInv'
<1>1. CASE UNCHANGED vars
  <2>1. UNCHANGED <<file, pc, pos, result, rest, flag, features, vendor, uarch>>
    BY <1>1 DEF vars, info
  <2>2. /\ NumLines' = NumLines
        /\ \A n : Filled(n)' = Filled(n) /\ PairFilled(n)' = PairFilled(n)
    BY <2>1, SameFile DEF Filled
  <2>3. \A n : HasRead(n)' = HasRead(n) /\ Opened' = Opened
    BY <2>1, <2>2 DEF HasRead, Opened
  <2>4. \A n : HandlesLine(n)' = HandlesLine(n) /\ HandlesBlank' = HandlesBlank
    BY <2>1, <2>2, <2>3 DEF HandlesLine, HandlesBlank
  <2>5. \A line, d : Searched(line, d)' = Searched(line, d)
    BY <2>1 DEF Searched
  <2>6. \A n : SearchesLine(n)' = SearchesLine(n)
    BY <2>1, <2>2, <2>3, <2>5 DEF SearchesLine
  <2>7. QED
    BY <2>1, <2>2, <2>3, <2>4, <2>6 DEF RiscvInv
<1>2. QED
  BY <1>1, OpenKeeps, NextLineKeeps, HandleIsaKeeps, IsaFlagKeeps, HandleUarchKeeps,
     HandleOtherKeeps DEF Next

LEMMA RiscvAlways == Spec => []RiscvInv
  BY InitRiscv, StepRiscv, PTL DEF Spec

\* The features are those that the last isa line declares (IsaExact), for every
\* file and whatever lies between and behind the flags.
THEOREM IsaExactCorrect == Spec => []IsaExact
<1>1. RiscvInv => IsaExact
  <2> SUFFICES ASSUME RiscvInv, Done, Opened, IsaLines # {},
                      Unambiguous(file.lines[LastOf(IsaLines)])
               PROVE  features = file.lines[LastOf(IsaLines)].declared
    BY DEF IsaExact
  <2>1. Filled(NumLines)
    BY DEF RiscvInv, Done
  <2>2. IsaLines = IsaUpTo(NumLines)
    BY FileLines DEF RiscvInv, IsaLines, LinesWith, IsaUpTo
  <2>3. QED
    BY <2>1, <2>2 DEF Filled, IsaFilled
<1>2. QED
  BY <1>1, RiscvAlways, PTL

\* Vendor and uarch are the halves of one line (UarchPair), for every file.
THEOREM UarchPairCorrect == Spec => []UarchPair
<1>1. RiscvInv => UarchPair
  <2> DEFINE pairs == {i \in LinesWith(file, {"uarch"}) :
                         \E k \in DOMAIN file.lines[i].value :
                           file.lines[i].value[k] = ","}
  <2> SUFFICES ASSUME RiscvInv, Done, Opened, pairs # {}
               PROVE  vendor \o <<",">> \o uarch = file.lines[LastOf(pairs)].value
    BY DEF UarchPair
  <2>1. Filled(NumLines)
    BY DEF RiscvInv, Done
  <2>2. DOMAIN file.lines = 1 .. NumLines
    BY FileLines DEF RiscvInv
  <2>3. pairs = PairsUpTo(NumLines)
    <3>1. LinesWith(file, {"uarch"}) = {i \in 1 .. NumLines : file.lines[i].key = "uarch"}
      BY <2>2 DEF LinesWith
    <3>2. QED
      BY <3>1, Zenon DEF PairsUpTo, HasComma
  <2> HIDE DEF pairs
  <2>4. QED
    BY <2>1, <2>3, Zenon DEF Filled, PairFilled
<1>2. QED
  BY <1>1, RiscvAlways, PTL
===============================================================================
