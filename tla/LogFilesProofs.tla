--------------------------- MODULE LogFilesProofs ---------------------------
(***************************************************************************)
(* Proofs about LogFiles, for any limit, lengths of records and numbers of *)
(* records, rotations, crashes and failures of the disk: records are in    *)
(* one piece, those whose Log returned are kept once and in order, the     *)
(* files are bounded, and a start is refused only for want of a whole      *)
(* record.                                                                 *)
(***************************************************************************)
EXTENDS LogFiles, FiniteSetTheorems, SequenceTheorems, TLAPS

Spec == FilesInit /\ [][FilesNext]_fileVars

Byte == [rec : Nat, at : Nat, newline : BOOLEAN]
Most == Max(Lengths)

\* The bytes of one file: what LinesWhole says of them when the records x are
\* torn, and the order in it.
Lines(bytes, x) ==
    \A i \in 1..Len(bytes) :
        IF bytes[i].at = 1 THEN i = 1 \/ bytes[i - 1].newline \/ bytes[i - 1].rec \in x
        ELSE i > 1 /\ bytes[i - 1].rec = bytes[i].rec /\ bytes[i - 1].at = bytes[i].at - 1
Ordered(bytes) ==
    \A i, j \in 1..Len(bytes) : i < j =>
        /\ bytes[i].rec <= bytes[j].rec
        /\ bytes[i].newline => bytes[i].rec < bytes[j].rec
UpTo(bytes, r) == \A i \in 1..Len(bytes) : bytes[i].rec <= r
Ended(bytes, x) == bytes = <<>> \/ bytes[Len(bytes)].newline \/ bytes[Len(bytes)].rec \in x

\* The files: the bytes of each, and no record in two of them.
Written == IF writing = <<>> THEN records ELSE records - 1
Contents(f, r, x) ==
    /\ f \in [DOMAIN f -> Seq(Byte)]
    /\ \A t \in DOMAIN f : Lines(f[t], x) /\ Ordered(f[t]) /\ UpTo(f[t], r)
Apart(f) ==
    \A t, u \in DOMAIN f : t < u =>
        \A i \in 1..Len(f[t]), j \in 1..Len(f[u]) : f[t][i].rec < f[u][j].rec
Holds(f, r) == \E t \in DOMAIN f : \E i \in 1..Len(f[t]) : f[t][i].newline /\ f[t][i].rec = r

Types ==
    /\ DOMAIN files \subseteq 0..MaxTime
    /\ proc \in {"up", "down", "refused"}
    /\ counter \in [w : DOMAIN files \cup {None}, count : Nat]
    /\ now \in 0..MaxTime /\ records \in Nat
    /\ opens \in [0..MaxTime -> Nat]
    /\ writing = <<>> \/ \E length \in Lengths : writing = Format(records, length)
    /\ writing # <<>> => records > 0

\* The open file is the newest one and ends with a line or a torn record;
\* without one, the next one is newer than all, because the clock has moved on
\* since a crash, or the count says that the file was full when the next one
\* could not be opened.
Opening ==
    /\ \A t \in DOMAIN files : t <= now
    /\ proc # "up" => counter.w = None /\ counter.count = 0
    /\ counter.w = None => writing = <<>> /\ (counter.count <= Limit => \A t \in DOMAIN files : t < now)
    /\ counter.w # None =>
          /\ proc = "up" /\ Ended(files[counter.w], torn)
          /\ \A t \in DOMAIN files : t <= counter.w

\* The size of a file by how often it was opened and by what was counted since.
Sized ==
    /\ \A t \in DOMAIN files : opens[t] >= 1 /\ Len(files[t]) <= opens[t] * (Limit + Most)
    /\ counter.w # None =>
          /\ Len(files[counter.w]) <= (opens[counter.w] - 1) * (Limit + Most) + counter.count
          /\ counter.count <= Limit + Most
          /\ writing # <<>> => counter.count <= Limit

Inv ==
    /\ Types
    /\ Opening
    /\ Contents(files, Written, torn)
    /\ Apart(files)
    /\ \A r \in acked : Holds(files, r)
    /\ Sized
    /\ proc = "refused" => DOMAIN files # {}
    /\ RefusesOnlyEmpty

-----------------------------------------------------------------------------
\* Induction on the natural numbers, for a set of them: otherwise the numbers
\* up to which all are in the set are finitely many, and adding one to each
\* of them would map them one to one to those of them that are not 0.
LEMMA SetInduction ==
    ASSUME NEW D, 0 \in D, \A k \in Nat : k \in D => k + 1 \in D
    PROVE  \A n \in Nat : n \in D
<1>. SUFFICES ASSUME NEW n \in Nat, n \notin D PROVE FALSE
  OBVIOUS
<1> DEFINE E == {k \in Nat : \A j \in 0..k : j \in D}
           Successor == [k \in E |-> k + 1]
<1>1. 0 \in E /\ \A k \in E : k + 1 \in E
  <2>1. 0..0 = {0}
    OBVIOUS
  <2>2. ASSUME NEW k \in E PROVE \A j \in 0..(k + 1) : j \in D
    <3>1. \A j \in 0..(k + 1) : j \in 0..k \/ j = k + 1
      OBVIOUS
    <3>. QED
      BY <3>1
  <2>. QED
    BY <2>1, <2>2
<1>2. \A k \in E : k <= n
  <2>1. ASSUME NEW k \in E, ~(k <= n) PROVE FALSE
    <3>1. n \in 0..k
      BY <2>1
    <3>. QED
      BY <3>1
  <2>. QED
    BY <2>1
<1>3. IsFiniteSet(E)
  BY <1>2, FS_BoundedSetOfNaturals, E \in SUBSET Nat
<1>4. /\ IsFiniteSet(E \ {0}) /\ Cardinality(E) \in Nat
      /\ Cardinality(E \ {0}) = Cardinality(E) - 1
  BY <1>1, <1>3, FS_RemoveElement, FS_CardinalityType
<1>5. Successor \in Injection(E, E \ {0})
  BY <1>1 DEF Injection, IsInjective
<1>. HIDE DEF Successor, E
<1>. QED
  BY <1>3, <1>4, <1>5, FS_Injection

\* A bounded set of numbers has a greatest one.
LEMMA Greatest ==
    ASSUME NEW S, S \subseteq Nat, S # {}, NEW b \in Nat, \A s \in S : s <= b
    PROVE  Max(S) \in S /\ \A s \in S : s <= Max(S)
<1> DEFINE D == {k \in Nat : \A T : T \subseteq 0..k /\ T # {} => \E m \in T : \A s \in T : s <= m}
<1>1. 0 \in D
  OBVIOUS
<1>2. ASSUME NEW k \in Nat, k \in D PROVE k + 1 \in D
  <2>1. ASSUME NEW T, T \subseteq 0..(k + 1), T # {} PROVE \E m \in T : \A s \in T : s <= m
    <3>1. CASE k + 1 \in T
      BY <2>1, <3>1
    <3>2. CASE k + 1 \notin T
      <4>1. T \subseteq 0..k
        BY <2>1, <3>2
      <4>. QED
        BY <1>2, <2>1, <4>1
    <3>. QED
      BY <3>1, <3>2
  <2>. QED
    BY <2>1
<1>3. b \in D
  <2>. HIDE DEF D
  <2>. QED
    BY <1>1, <1>2, SetInduction
<1>4. S \subseteq 0..b
  OBVIOUS
<1>5. \E m \in S : \A s \in S : m >= s
  <2>1. \E m \in S : \A s \in S : s <= m
    BY <1>3, <1>4
  <2>. QED
    BY <2>1
<1>. QED
  BY <1>5 DEF Max

\* The longest record.
LEMMA MostIs == Most \in Lengths /\ Most \in Nat \ {0} /\ \A length \in Lengths : length <= Most
<1>1. PICK most \in Lengths : \A length \in Lengths : length <= most
  BY FileConstants
<1>2. Lengths \subseteq Nat /\ most \in Nat
  BY FileConstants
<1>. QED
  BY <1>1, <1>2, Greatest, FileConstants DEF Most

\* The bytes of a formatted record.
Formatted(s, r, length) ==
    /\ s \in Seq(Byte) /\ Len(s) = length /\ s # <<>>
    /\ \A i \in 1..length : s[i].rec = r /\ s[i].at = i
    /\ \A i \in 1..length : s[i].newline => i = length
    /\ \A i \in 1..length : i = length => s[i].newline
\* Format gives such bytes.
LEMMA FormatIs ==
    ASSUME NEW r \in Nat, NEW length \in Nat \ {0}
    PROVE  Formatted(Format(r, length), r, length)
<1>0. PICK s : s = Format(r, length)
  OBVIOUS
<1>1. s \in [1..length -> Byte]
  BY <1>0 DEF Format, Byte
<1>2. s \in Seq(Byte)
  BY <1>1, SeqDef
<1>3. Len(s) = length
  BY <1>1, <1>2, LenProperties
<1>4. s # <<>>
  BY <1>3, EmptySeq
<1>5. \A i \in 1..length : s[i].rec = r /\ s[i].at = i
  BY <1>0 DEF Format
<1>6. \A i \in 1..length : s[i].newline => i = length
  BY <1>0 DEF Format
<1>7. \A i \in 1..length : i = length => s[i].newline
  BY <1>0 DEF Format
<1>. QED
  BY <1>0, <1>2, <1>3, <1>4, <1>5, <1>6, <1>7 DEF Formatted

\* The bytes of a file.
LEMMA Bytes ==
    ASSUME NEW b \in Seq(Byte)
    PROVE  Len(b) \in Nat /\ DOMAIN b = 1..Len(b) /\ \A i \in 1..Len(b) : b[i] \in Byte /\ b[i].rec \in Nat
<1>1. Len(b) \in Nat /\ DOMAIN b = 1..Len(b) /\ b \in [1..Len(b) -> Byte]
  BY LenProperties
<1>2. \A i \in 1..Len(b) : b[i] \in Byte
  BY <1>1
<1>. QED
  BY <1>1, <1>2 DEF Byte

\* What is left of a file that is cut.
LEMMA Cut ==
    ASSUME NEW x, NEW b \in Seq(Byte), NEW m \in 0..Len(b), NEW c, c = SubSeq(b, 1, m)
    PROVE  /\ c \in Seq(Byte) /\ Len(c) = m /\ \A i \in 1..m : c[i] = b[i]
           /\ Lines(b, x) => Lines(c, x)
           /\ Ordered(b) => Ordered(c)
<1>1. Len(b) \in Nat /\ \A i \in 1..m : b[i] \in Byte
  BY LenProperties, ElementOfSeq
<1>2. c \in Seq(Byte) /\ Len(c) = m /\ \A i \in 1..m : c[i] = b[i]
  BY <1>1, SubSeqProperties
<1>3. Lines(b, x) => Lines(c, x)
  BY <1>1, <1>2 DEF Lines
<1>4. Ordered(b) => Ordered(c)
  BY <1>1, <1>2 DEF Ordered
<1>. QED
  BY <1>2, <1>3, <1>4

\* A file that ends with a line, with the first n bytes of the next record.
Extended(b, c, r, length, n, x) ==
    /\ c \in Seq(Byte) /\ Len(c) = Len(b) + n
    /\ \A i \in 1..Len(b) : c[i] = b[i]
    /\ \A i \in Len(b) + 1..Len(c) : c[i].rec = r
    /\ Lines(c, x) /\ Ordered(c) /\ UpTo(c, r)
    /\ Ended(c, x \cup {r})
    /\ n = length => Ended(c, x) /\ Len(c) \in 1..Len(c) /\ c[Len(c)].newline /\ c[Len(c)].rec = r
\* The first bytes of a new record go to the end of whole lines.
LEMMA Extend ==
    ASSUME NEW x, NEW b \in Seq(Byte), Lines(b, x), Ordered(b), Ended(b, x), NEW r \in Nat \ {0}, UpTo(b, r - 1),
           NEW length \in Nat \ {0}, NEW n \in 0..length,
           NEW c, c = b \o SubSeq(Format(r, length), 1, n)
    PROVE  Extended(b, c, r, length, n, x)
<1>1. PICK s : s = Format(r, length)
  OBVIOUS
<1>2. /\ s \in Seq(Byte) /\ Len(s) = length
      /\ \A i \in 1..length : s[i].rec = r /\ s[i].at = i
      /\ \A i \in 1..length : s[i].newline => i = length
      /\ \A i \in 1..length : i = length => s[i].newline
  <2>1. Formatted(s, r, length)
    BY <1>1, FormatIs
  <2>. QED
    BY <2>1 DEF Formatted
<1>3. PICK d : d = SubSeq(s, 1, n)
  OBVIOUS
<1>4. d \in Seq(Byte) /\ Len(d) = n /\ \A i \in 1..n : d[i] = s[i]
  BY <1>2, <1>3, Cut
<1>5. c = b \o d /\ Len(b) \in Nat /\ \A i \in 1..Len(b) : b[i] \in Byte
  BY <1>1, <1>3, LenProperties, ElementOfSeq
<1>6. /\ c \in Seq(Byte) /\ Len(c) = Len(b) + n
      /\ \A i \in 1..Len(b) + n : c[i] = IF i <= Len(b) THEN b[i] ELSE d[i - Len(b)]
  <2>1. /\ b \o d \in Seq(Byte) /\ Len(b \o d) = Len(b) + Len(d)
        /\ \A i \in 1..Len(b) + Len(d) : (b \o d)[i] = IF i <= Len(b) THEN b[i] ELSE d[i - Len(b)]
    BY <1>4, ConcatProperties
  <2>. QED
    BY <2>1, <1>4, <1>5
<1>7. \A i \in 1..Len(b) : c[i] = b[i]
  BY <1>5, <1>6
<1>8. ASSUME NEW i \in Len(b) + 1..Len(b) + n
      PROVE  c[i] = s[i - Len(b)] /\ i - Len(b) \in 1..n /\ i - Len(b) \in 1..length
  <2>1. i \in 1..Len(b) + n /\ ~(i <= Len(b)) /\ i - Len(b) \in 1..n /\ i - Len(b) \in 1..length
    BY <1>5
  <2>2. c[i] = d[i - Len(b)]
    BY <1>6, <2>1
  <2>. QED
    BY <1>4, <2>1, <2>2
<1>9. \A i \in Len(b) + 1..Len(b) + n :
          /\ c[i].rec = r /\ c[i].at = i - Len(b)
          /\ c[i].newline => i - Len(b) = length
  <2>1. ASSUME NEW i \in Len(b) + 1..Len(b) + n
        PROVE  c[i].rec = r /\ c[i].at = i - Len(b)
    BY <1>2, <1>8
  <2>2. ASSUME NEW i \in Len(b) + 1..Len(b) + n, c[i].newline
        PROVE  i - Len(b) = length
    BY <1>2, <1>8, <2>2
  <2>. QED
    BY <2>1, <2>2
<1>10. \A i \in Len(b) + 1..Len(b) + n : i - Len(b) = length => c[i].newline
  BY <1>2, <1>8
<1>11. Lines(c, x)
  <2>1. ASSUME NEW i \in 1..Len(b) + n
        PROVE  IF c[i].at = 1 THEN i = 1 \/ c[i - 1].newline \/ c[i - 1].rec \in x
               ELSE i > 1 /\ c[i - 1].rec = c[i].rec /\ c[i - 1].at = c[i].at - 1
    <3>1. CASE i <= Len(b)
      <4>1. i \in 1..Len(b) /\ (i > 1 => i - 1 \in 1..Len(b))
        BY <1>5, <3>1
      <4>. QED
        BY <1>5, <1>7, <4>1 DEF Lines
    <3>2. CASE i = Len(b) + 1
      <4>1. c[i].at = 1
        <5>1. i \in Len(b) + 1..Len(b) + n /\ i - Len(b) = 1
          BY <1>5, <3>2
        <5>2. c[i].at = i - Len(b)
          BY <1>9, <5>1
        <5>. QED
          BY <5>1, <5>2
      <4>2. CASE Len(b) = 0
        BY <3>2, <4>1, <4>2
      <4>3. CASE Len(b) # 0
        <5>1. b # <<>> /\ Len(b) \in 1..Len(b)
          BY <1>5, <4>3, EmptySeq
        <5>2. c[Len(b)].newline \/ c[Len(b)].rec \in x
          BY <1>7, <5>1 DEF Ended
        <5>. QED
          BY <1>5, <3>2, <4>1, <5>2
      <4>. QED
        BY <4>2, <4>3
    <3>3. CASE i > Len(b) + 1
      <4>1. i \in Len(b) + 1..Len(b) + n /\ i - 1 \in Len(b) + 1..Len(b) + n
        BY <1>5, <3>3
      <4>2. c[i].at = i - Len(b) /\ c[i].rec = r /\ c[i - 1].at = i - 1 - Len(b) /\ c[i - 1].rec = r
        BY <1>9, <4>1
      <4>. QED
        BY <1>5, <3>3, <4>2
    <3>4. i <= Len(b) \/ i = Len(b) + 1 \/ i > Len(b) + 1
      BY <1>5
    <3>. QED
      BY <3>1, <3>2, <3>3, <3>4, Zenon
  <2>. QED
    BY <2>1, <1>6 DEF Lines
<1>12. Ordered(c)
  <2>1. ASSUME NEW i \in 1..Len(b) + n, NEW j \in 1..Len(b) + n, i < j
        PROVE  c[i].rec <= c[j].rec /\ (c[i].newline => c[i].rec < c[j].rec)
    <3>1. CASE j <= Len(b)
      <4>1. i \in 1..Len(b) /\ j \in 1..Len(b)
        BY <1>5, <2>1, <3>1
      <4>. QED
        BY <1>7, <2>1, <4>1 DEF Ordered
    <3>2. CASE j > Len(b) /\ i <= Len(b)
      <4>1. i \in 1..Len(b) /\ j \in Len(b) + 1..Len(b) + n
        BY <1>5, <3>2
      <4>2. c[i].rec <= r - 1 /\ c[i].rec \in Nat /\ c[j].rec = r
        BY <1>5, <1>7, <1>9, <4>1 DEF UpTo, Byte
      <4>3. c[i].rec < c[j].rec /\ c[i].rec <= c[j].rec
        BY <4>2, SMTT(90)
      <4>. QED
        BY <4>3
    <3>3. CASE j > Len(b) /\ i > Len(b)
      <4>1. i \in Len(b) + 1..Len(b) + n /\ j \in Len(b) + 1..Len(b) + n
        BY <1>5, <3>3
      <4>2. c[i].rec = r /\ c[j].rec = r /\ ~ c[i].newline
        BY <1>5, <1>9, <2>1, <4>1, SMTT(90)
      <4>3. c[i].rec <= c[j].rec
        <5>1. r <= r
          OBVIOUS
        <5>. QED
          BY <4>2, <5>1, Zenon
      <4>. QED
        BY <4>2, <4>3
    <3>. QED
      BY <1>5, <3>1, <3>2, <3>3
  <2>. QED
    BY <2>1, <1>6 DEF Ordered
<1>13. UpTo(c, r)
  <2>1. ASSUME NEW i \in 1..Len(b) + n PROVE c[i].rec <= r
    <3>1. CASE i <= Len(b)
      <4>1. i \in 1..Len(b)
        BY <1>5, <3>1
      <4>2. c[i].rec <= r - 1 /\ c[i].rec \in Nat
        BY <1>5, <1>7, <4>1 DEF UpTo, Byte
      <4>. QED
        BY <4>2
    <3>2. CASE i > Len(b)
      BY <1>5, <1>9, <3>2
    <3>. QED
      BY <1>5, <3>1, <3>2
  <2>. QED
    BY <2>1, <1>6 DEF UpTo
<1>14. n = length => Ended(c, x) /\ Len(c) \in 1..Len(c) /\ c[Len(c)].newline /\ c[Len(c)].rec = r
  <2>1. ASSUME n = length PROVE c[Len(c)].newline /\ c[Len(c)].rec = r /\ Len(c) \in 1..Len(c)
    BY <2>1, <1>5, <1>6, <1>9, <1>10
  <2>. QED
    BY <2>1 DEF Ended
<1>15. Ended(c, x \cup {r})
  <2>1. CASE n = 0
    <3>1. Len(c) = Len(b)
      BY <1>5, <1>6, <2>1
    <3>2. CASE b = <<>>
      <4>1. c = <<>>
        BY <1>6, <3>1, <3>2, EmptySeq
      <4>. QED
        BY <4>1 DEF Ended
    <3>3. CASE b # <<>>
      <4>1. Len(b) \in 1..Len(b)
        BY <1>5, <3>3, EmptySeq
      <4>2. c[Len(c)] = b[Len(b)]
        BY <1>7, <3>1, <4>1
      <4>. QED
        BY <3>3, <4>2 DEF Ended
    <3>. QED
      BY <3>2, <3>3
  <2>2. CASE n # 0
    <3>1. Len(c) \in Len(b) + 1..Len(b) + n
      BY <1>5, <1>6, <2>2
    <3>2. c[Len(c)].rec = r
      BY <1>9, <3>1
    <3>. QED
      BY <3>2 DEF Ended
  <2>. QED
    BY <2>1, <2>2
<1>. QED
  BY <1>6, <1>7, <1>9, <1>11, <1>12, <1>13, <1>14, <1>15 DEF Extended

-----------------------------------------------------------------------------
\* What an action on one file does to the files: the other files stay.
Others(f, g, w, c) == DOMAIN g = DOMAIN f /\ g[w] = c /\ \A t \in DOMAIN f : t # w => g[t] = f[t]
\* One file with whole lines takes the place of another.
LEMMA OneFile ==
    ASSUME NEW x, NEW f, NEW r \in Nat, NEW q \in Nat, Contents(f, r, x), r <= q, NEW w \in DOMAIN f,
           NEW c \in Seq(Byte), Lines(c, x), Ordered(c), UpTo(c, q), NEW g, g = [f EXCEPT ![w] = c]
    PROVE  Contents(g, q, x) /\ Others(f, g, w, c)
<1>1. DOMAIN g = DOMAIN f /\ g[w] = c /\ \A t \in DOMAIN f : t # w => g[t] = f[t]
  BY DEF Contents
<1>2. g \in [DOMAIN g -> Seq(Byte)]
  BY <1>1 DEF Contents
<1>3. ASSUME NEW t \in DOMAIN f PROVE Lines(g[t], x) /\ Ordered(g[t]) /\ UpTo(g[t], q)
  <2>1. CASE t = w
    BY <1>1, <2>1
  <2>2. CASE t # w
    <3>1. g[t] = f[t] /\ f[t] \in Seq(Byte) /\ Lines(f[t], x) /\ Ordered(f[t]) /\ UpTo(f[t], r)
      BY <1>1, <2>2 DEF Contents
    <3>2. \A i \in 1..Len(f[t]) : f[t][i].rec \in Nat
      BY <3>1, Bytes
    <3>. QED
      BY <3>1, <3>2 DEF UpTo
  <2>. QED
    BY <2>1, <2>2
<1>. QED
  BY <1>1, <1>2, <1>3 DEF Contents, Others

\* More torn records leave files as they are.
LEMMA TornMore ==
    ASSUME NEW x, NEW y, x \subseteq y, NEW f, NEW r, Contents(f, r, x)
    PROVE  Contents(f, r, y)
<1>1. ASSUME NEW t \in DOMAIN f PROVE Lines(f[t], y)
  <2>1. Lines(f[t], x)
    BY DEF Contents
  <2>. QED
    BY <2>1 DEF Lines
<1>. QED
  BY <1>1 DEF Contents

\* A file that is cut loses no newline, and the records stay apart.
CutTo(f, g, w, m) ==
    /\ DOMAIN g = DOMAIN f /\ Len(g[w]) = m /\ \A i \in 1..m : g[w][i] = f[w][i]
    /\ \A t \in DOMAIN f : t # w => g[t] = f[t]
    /\ \A q : Holds(f, q) => Holds(g, q)
\* Cutting a file behind its last newline loses no record.
LEMMA CutFile ==
    ASSUME NEW x, NEW f, NEW r \in Nat, Contents(f, r, x), Apart(f), NEW w \in DOMAIN f, NEW m \in 0..Len(f[w]),
           \A i \in 1..Len(f[w]) : f[w][i].newline => i <= m,
           NEW g, g = [f EXCEPT ![w] = SubSeq(f[w], 1, m)]
    PROVE  Contents(g, r, x) /\ Apart(g) /\ CutTo(f, g, w, m)
<1>0. PICK b : b = f[w]
  OBVIOUS
<1>1. PICK c : c = SubSeq(b, 1, m)
  OBVIOUS
<1>2. f[w] \in Seq(Byte) /\ Lines(f[w], x) /\ Ordered(f[w]) /\ UpTo(f[w], r) /\ Len(f[w]) \in Nat
  BY LenProperties DEF Contents
<1>3. /\ c \in Seq(Byte) /\ Len(c) = m /\ \A i \in 1..m : c[i] = f[w][i]
      /\ Lines(c, x) /\ Ordered(c)
  <2>1. b \in Seq(Byte) /\ Lines(b, x) /\ Ordered(b) /\ m \in 0..Len(b)
    BY <1>0, <1>2
  <2>2. /\ c \in Seq(Byte) /\ Len(c) = m /\ \A i \in 1..m : c[i] = b[i]
        /\ Lines(b, x) => Lines(c, x)
        /\ Ordered(b) => Ordered(c)
    BY <1>1, <2>1, Cut, Zenon
  <2>. QED
    BY <1>0, <2>1, <2>2
<1>4. UpTo(c, r)
  BY <1>2, <1>3 DEF UpTo
<1>5. /\ Contents(g, r, x) /\ DOMAIN g = DOMAIN f /\ g[w] = c
      /\ \A t \in DOMAIN f : t # w => g[t] = f[t]
  <2>1. g = [f EXCEPT ![w] = c]
    BY <1>0, <1>1
  <2>2. r <= r
    OBVIOUS
  <2>3. Contents(g, r, x) /\ Others(f, g, w, c)
    BY <1>3, <1>4, <2>1, <2>2, OneFile
  <2>. QED
    BY <2>3 DEF Others
<1>6. ASSUME NEW t \in DOMAIN f
      PROVE  Len(g[t]) \in Nat /\ 1..Len(g[t]) \subseteq 1..Len(f[t]) /\ \A i \in 1..Len(g[t]) : g[t][i] = f[t][i]
  <2>1. CASE t = w
    BY <1>2, <1>3, <1>5, <2>1
  <2>2. CASE t # w
    <3>1. g[t] = f[t] /\ f[t] \in Seq(Byte)
      BY <1>5, <2>2 DEF Contents
    <3>. QED
      BY <3>1, LenProperties
  <2>. QED
    BY <2>1, <2>2
<1>7. Apart(g)
  <2>1. ASSUME NEW t \in DOMAIN g, NEW u \in DOMAIN g, t < u, NEW i \in 1..Len(g[t]), NEW j \in 1..Len(g[u])
        PROVE  g[t][i].rec < g[u][j].rec
    <3>1. i \in 1..Len(f[t]) /\ j \in 1..Len(f[u]) /\ g[t][i] = f[t][i] /\ g[u][j] = f[u][j]
      BY <1>5, <1>6
    <3>. QED
      BY <1>5, <2>1, <3>1 DEF Apart
  <2>. QED
    BY <2>1 DEF Apart
<1>8. ASSUME NEW q, Holds(f, q) PROVE Holds(g, q)
  <2>0. PICK t \in DOMAIN f : \E i \in 1..Len(f[t]) : f[t][i].newline /\ f[t][i].rec = q
    BY <1>8 DEF Holds
  <2>1. PICK i \in 1..Len(f[t]) : f[t][i].newline /\ f[t][i].rec = q
    BY <2>0
  <2>2. i \in 1..Len(g[t]) /\ g[t][i] = f[t][i]
    <3>1. CASE t = w
      BY <1>2, <1>3, <1>5, <2>1, <3>1
    <3>2. CASE t # w
      BY <1>5, <3>2
    <3>. QED
      BY <3>1, <3>2
  <2>3. t \in DOMAIN g /\ g[t][i].newline /\ g[t][i].rec = q
    BY <1>5, <2>1, <2>2
  <2>. QED
    BY <2>2, <2>3 DEF Holds
<1>. QED
  BY <1>3, <1>5, <1>7, <1>8 DEF CutTo

\* The first n bytes of record r go to the end of the newest file.
GrownBy(f, g, w, n) ==
    /\ DOMAIN g = DOMAIN f /\ Len(g[w]) = Len(f[w]) + n
    /\ \A t \in DOMAIN f : t # w => g[t] = f[t]
    /\ \A q : Holds(f, q) => Holds(g, q)
Appended(f, g, r, w, length, n, x) ==
    /\ r \in Nat \ {0} /\ Contents(f, r - 1, x) /\ Apart(f) /\ DOMAIN f \subseteq Nat
    /\ w \in DOMAIN f /\ (\A t \in DOMAIN f : t <= w) /\ Ended(f[w], x)
    /\ length \in Nat \ {0} /\ n \in 0..length
    /\ g = [f EXCEPT ![w] = @ \o SubSeq(Format(r, length), 1, n)]
Grown(f, g, r, w, n, length, x) ==
    /\ Contents(g, r, x) /\ Apart(g) /\ GrownBy(f, g, w, n)
    /\ Ended(g[w], x \cup {r})
    /\ n = length => Ended(g[w], x) /\ Holds(g, r)
\* Appending to the newest file keeps all files lines, in order.
LEMMA ExtendFile ==
    ASSUME NEW x, NEW f, NEW g, NEW r, NEW w, NEW length, NEW n, Appended(f, g, r, w, length, n, x)
    PROVE  Grown(f, g, r, w, n, length, x)
<1>. /\ r \in Nat \ {0} /\ Contents(f, r - 1, x) /\ Apart(f) /\ DOMAIN f \subseteq Nat /\ w \in DOMAIN f
     /\ Ended(f[w], x) /\ length \in Nat \ {0} /\ n \in 0..length
  BY DEF Appended
<1>. \A t \in DOMAIN f : t <= w
  BY DEF Appended
<1>. g = [f EXCEPT ![w] = @ \o SubSeq(Format(r, length), 1, n)]
  BY DEF Appended
<1>0. PICK b : b = f[w]
  OBVIOUS
<1>1. PICK c : c = b \o SubSeq(Format(r, length), 1, n)
  OBVIOUS
<1>2. /\ f[w] \in Seq(Byte) /\ Lines(f[w], x) /\ Ordered(f[w]) /\ UpTo(f[w], r - 1) /\ Len(f[w]) \in Nat
      /\ r - 1 \in Nat /\ r \in Nat
  BY LenProperties DEF Contents
<1>3. /\ c \in Seq(Byte) /\ Len(c) = Len(f[w]) + n
      /\ \A i \in 1..Len(f[w]) : c[i] = f[w][i]
      /\ \A i \in Len(f[w]) + 1..Len(c) : c[i].rec = r
      /\ Lines(c, x) /\ Ordered(c) /\ UpTo(c, r) /\ Ended(c, x \cup {r})
      /\ n = length => Ended(c, x) /\ Len(c) \in 1..Len(c) /\ c[Len(c)].newline /\ c[Len(c)].rec = r
  <2>1. b \in Seq(Byte) /\ Lines(b, x) /\ Ordered(b) /\ UpTo(b, r - 1) /\ Ended(b, x)
    BY <1>0, <1>2
  <2>2. Extended(b, c, r, length, n, x)
    BY <1>1, <2>1, Extend
  <2>. QED
    BY <1>0, <2>2 DEF Extended
<1>4. /\ Contents(g, r, x) /\ DOMAIN g = DOMAIN f /\ g[w] = c
      /\ \A t \in DOMAIN f : t # w => g[t] = f[t]
  <2>1. g = [f EXCEPT ![w] = c]
    BY <1>0, <1>1
  <2>2. r - 1 <= r
    BY <1>2
  <2>3. Contents(g, r, x) /\ Others(f, g, w, c)
    BY <1>2, <1>3, <2>1, <2>2, OneFile
  <2>. QED
    BY <2>3 DEF Others
<1>5. Apart(g)
  <2>1. ASSUME NEW t \in DOMAIN f, NEW u \in DOMAIN f, t < u, NEW i \in 1..Len(g[t]), NEW j \in 1..Len(g[u])
        PROVE  g[t][i].rec < g[u][j].rec
    <3>1. t # w /\ g[t] = f[t] /\ i \in 1..Len(f[t])
      BY <1>4, <2>1
    <3>2. CASE u # w
      BY <1>4, <2>1, <3>1, <3>2 DEF Apart
    <3>3. CASE u = w /\ j <= Len(f[w])
      <4>1. j \in 1..Len(f[w]) /\ g[u][j] = f[w][j]
        BY <1>2, <1>3, <1>4, <3>3
      <4>. QED
        BY <2>1, <3>1, <3>3, <4>1 DEF Apart
    <3>4. CASE u = w /\ ~(j <= Len(f[w]))
      <4>1. g[u][j].rec = r
        <5>1. g[u] = c /\ j \in Len(f[w]) + 1..Len(c)
          BY <1>2, <1>4, <3>4, SMTT(90)
        <5>. QED
          BY <1>3, <5>1
      <4>2. f[t] \in Seq(Byte) /\ UpTo(f[t], r - 1)
        BY DEF Contents
      <4>3. f[t][i].rec <= r - 1 /\ f[t][i].rec \in Nat
        BY <3>1, <4>2, Bytes DEF UpTo
      <4>4. g[t][i].rec = f[t][i].rec
        BY <3>1
      <4>5. \A k \in Nat : k <= r - 1 => k < r
        BY <1>2
      <4>. QED
        BY <4>1, <4>3, <4>4, <4>5
    <3>. QED
      BY <3>2, <3>3, <3>4
  <2>2. \A t, u \in DOMAIN f : t < u =>
           \A i \in 1..Len(g[t]), j \in 1..Len(g[u]) : g[t][i].rec < g[u][j].rec
    BY <2>1, Zenon
  <2>3. ASSUME NEW t \in DOMAIN g, NEW u \in DOMAIN g, t < u, NEW i \in 1..Len(g[t]), NEW j \in 1..Len(g[u])
        PROVE  g[t][i].rec < g[u][j].rec
    BY <1>4, <2>2, <2>3
  <2>. QED
    BY <2>3, Zenon DEF Apart
<1>6. ASSUME NEW q, Holds(f, q) PROVE Holds(g, q)
  <2>0. PICK t \in DOMAIN f : \E i \in 1..Len(f[t]) : f[t][i].newline /\ f[t][i].rec = q
    BY <1>6 DEF Holds
  <2>1. PICK i \in 1..Len(f[t]) : f[t][i].newline /\ f[t][i].rec = q
    BY <2>0
  <2>2. i \in 1..Len(g[t]) /\ g[t][i] = f[t][i]
    <3>1. CASE t = w
      BY <1>2, <1>3, <1>4, <2>1, <3>1
    <3>2. CASE t # w
      BY <1>4, <3>2
    <3>. QED
      BY <3>1, <3>2
  <2>3. t \in DOMAIN g /\ g[t][i].newline /\ g[t][i].rec = q
    BY <1>4, <2>1, <2>2
  <2>. QED
    BY <2>2, <2>3 DEF Holds
<1>7. ASSUME n = length PROVE Ended(g[w], x) /\ Holds(g, r)
  <2>1. Ended(c, x) /\ Len(c) \in 1..Len(c) /\ c[Len(c)].newline /\ c[Len(c)].rec = r
    BY <1>3, <1>7
  <2>2. w \in DOMAIN g
    BY <1>4
  <2>3. g[w] = c
    BY <1>4
  <2>. QED
    BY <2>1, <2>2, <2>3, Zenon DEF Holds
<1>. QED
  BY <1>3, <1>4, <1>5, <1>6, <1>7 DEF GrownBy, Grown

-----------------------------------------------------------------------------
\* The newest file is the greatest name.
LEMMA NewestIs ==
    ASSUME Types
    PROVE  /\ DOMAIN files = {} => Newest = None
           /\ DOMAIN files # {} => /\ Newest \in DOMAIN files /\ Newest \in Nat /\ Newest # None
                                   /\ \A t \in DOMAIN files : t <= Newest
<1>1. DOMAIN files \subseteq Nat /\ MaxTime \in Nat /\ \A t \in DOMAIN files : t <= MaxTime
  BY FileConstants DEF Types
<1>2. CASE DOMAIN files = {}
  BY <1>2 DEF Newest
<1>3. CASE DOMAIN files # {}
  <2>1. Newest = Max(DOMAIN files)
    BY <1>3 DEF Newest
  <2>2. Max(DOMAIN files) \in DOMAIN files /\ \A t \in DOMAIN files : t <= Max(DOMAIN files)
    BY <1>1, <1>3, Greatest
  <2>. QED
    BY <1>1, <1>3, <2>1, <2>2 DEF None
<1>. QED
  BY <1>2, <1>3

\* prepFile fails without a newline, and else cuts behind the last one.
LEMMA PrepareIs ==
    ASSUME NEW b \in Seq(Byte)
    PROVE  /\ prepFile(b).ok \in BOOLEAN
           /\ ~ prepFile(b).ok => \A i \in 1..Len(b) : ~ b[i].newline
           /\ prepFile(b).ok =>
                 \E m \in 1..Len(b) : /\ b[m].newline /\ prepFile(b).bytes = SubSeq(b, 1, m)
                                      /\ \A i \in 1..Len(b) : b[i].newline => i <= m
<1>1. PICK ends : ends = {i \in DOMAIN b : b[i].newline}
  OBVIOUS
<1>2. Len(b) \in Nat /\ DOMAIN b = 1..Len(b)
  BY Bytes
<1>3. ASSUME ends = {} PROVE prepFile(b).ok = FALSE /\ \A i \in 1..Len(b) : ~ b[i].newline
  <2>1. prepFile(b) = [ok |-> FALSE, bytes |-> b]
    BY <1>1, <1>3 DEF prepFile
  <2>2. prepFile(b).ok = FALSE
    BY <2>1
  <2>3. \A i \in 1..Len(b) : ~ b[i].newline
    BY <1>1, <1>2, <1>3
  <2>. QED
    BY <2>2, <2>3
<1>4. ASSUME ends # {}
      PROVE  /\ prepFile(b).ok = TRUE
             /\ \E m \in 1..Len(b) : /\ b[m].newline /\ prepFile(b).bytes = SubSeq(b, 1, m)
                                     /\ \A i \in 1..Len(b) : b[i].newline => i <= m
  <2>1. ends \subseteq Nat /\ \A i \in ends : i <= Len(b)
    BY <1>1, <1>2
  <2>2. Max(ends) \in ends /\ \A i \in ends : i <= Max(ends)
    BY <1>2, <1>4, <2>1, Greatest
  <2>3. PICK cut : cut = SubSeq(b, 1, Max(ends))
    OBVIOUS
  <2>5. prepFile(b) = [ok |-> TRUE, bytes |-> cut]
    BY <1>1, <1>4, <2>3 DEF prepFile
  <2>6. [ok |-> TRUE, bytes |-> cut].ok = TRUE /\ [ok |-> TRUE, bytes |-> cut].bytes = cut
    OBVIOUS
  <2>7. prepFile(b).ok = TRUE
    BY <2>5, <2>6, Zenon
  <2>8. prepFile(b).bytes = cut
    BY <2>5, <2>6, Zenon
  <2>4. prepFile(b).ok = TRUE /\ prepFile(b).bytes = SubSeq(b, 1, Max(ends))
    BY <2>3, <2>7, <2>8, Zenon
  <2>. QED
    BY <1>1, <1>2, <2>2, <2>4
<1>. QED
  BY <1>3, <1>4

\* The program starts without a file.
LEMMA InitInv == ASSUME FilesInit PROVE Inv
<1>1. DOMAIN files = {}
  BY DEF FilesInit
<1>2. counter.w = None /\ counter.count = 0 /\ writing = <<>> /\ proc = "up" /\ acked = {} /\ records = 0
  BY DEF FilesInit
<1>3. Types
  <2>1. counter \in [w : DOMAIN files \cup {None}, count : Nat]
    BY DEF FilesInit
  <2>. QED
    BY <1>1, <1>2, <2>1, FileConstants DEF FilesInit, Types
<1>4. Opening /\ Apart(files) /\ Sized
  BY <1>1, <1>2 DEF Opening, Apart, Sized
<1>5. Contents(files, Written, torn)
  BY <1>1 DEF Contents, FilesInit
<1>. QED
  BY <1>1, <1>2, <1>3, <1>4, <1>5 DEF Inv, RefusesOnlyEmpty

\* A start after a crash: the newest file is continued behind its last line,
\* or left, or the start is refused.
LEMMA StartInv == ASSUME Inv, Start PROVE Inv'
<1>1. /\ Types /\ Opening /\ Contents(files, Written, torn) /\ Apart(files) /\ Sized
      /\ \A r \in acked : Holds(files, r)
      /\ counter.w = None /\ proc = "down" /\ writing = <<>>
      /\ counter.count = 0 /\ Limit \in Nat
      /\ UNCHANGED <<writing, now, records, acked, torn, opens>>
  BY FileConstants DEF Inv, Start, Opening
<1>2. Written' = Written /\ Written = records /\ records \in Nat
  BY <1>1 DEF Written, Types
<1>3. CASE /\ Newest # None /\ Len(files[Newest]) < Limit /\ prepFile(files[Newest]).ok
  <2>1. PICK w : w = Newest
    OBVIOUS
  <2>2. w \in DOMAIN files /\ w \in Nat /\ w # None /\ (\A t \in DOMAIN files : t <= w)
    BY <1>1, <1>3, <2>1, NewestIs
  <2>3. files[w] \in Seq(Byte) /\ Len(files[w]) \in Nat
    BY <1>1, <2>2, Bytes DEF Contents
  <2>4. PICK m \in 1..Len(files[w]) : /\ files[w][m].newline /\ prepFile(files[w]).bytes = SubSeq(files[w], 1, m)
                                      /\ \A i \in 1..Len(files[w]) : files[w][i].newline => i <= m
    BY <1>3, <2>1, <2>3, PrepareIs
  <2>5. PICK g : g = [files EXCEPT ![w] = SubSeq(files[w], 1, m)]
    OBVIOUS
  <2>6. files' = g /\ proc' = "up" /\ counter' = [w |-> w, count |-> Len(SubSeq(files[w], 1, m))]
    BY <1>3, <2>1, <2>4, <2>5 DEF Start, Continued
  <2>7. /\ Contents(g, records, torn) /\ Apart(g) /\ DOMAIN g = DOMAIN files
        /\ Len(g[w]) = m /\ \A i \in 1..m : g[w][i] = files[w][i]
        /\ \A t \in DOMAIN files : t # w => g[t] = files[t]
        /\ \A q : Holds(files, q) => Holds(g, q)
    <3>1. m \in 0..Len(files[w])
      BY <2>3
    <3>2. Contents(files, records, torn) /\ \A i \in 1..Len(files[w]) : files[w][i].newline => i <= m
      BY <1>1, <1>2, <2>4
    <3>3. Contents(g, records, torn) /\ Apart(g) /\ CutTo(files, g, w, m)
      BY <1>1, <1>2, <2>2, <2>5, <3>1, <3>2, CutFile
    <3>. QED
      BY <3>3 DEF CutTo
  <2>8. counter' = [w |-> w, count |-> m]
    BY <2>3, <2>6, SubSeqProperties, Bytes
  <2>9. Types'
    BY <1>1, <2>2, <2>3, <2>6, <2>7, <2>8 DEF Types
  <2>10. Opening'
    <3>1. Ended(g[w], torn)
      BY <2>4, <2>7 DEF Ended
    <3>. QED
      BY <1>1, <2>2, <2>6, <2>7, <2>8, <3>1 DEF Opening
  <2>11. Sized'
    <3>1. \A t \in DOMAIN g : opens[t] >= 1 /\ Len(g[t]) <= opens[t] * (Limit + Most)
      <4>1. Len(g[w]) <= Len(files[w])
        BY <2>3, <2>7
      <4>2. opens[w] >= 1 /\ Len(files[w]) <= opens[w] * (Limit + Most)
        BY <1>1, <2>2 DEF Sized
      <4>3. opens[w] * (Limit + Most) \in Int
        BY <1>1, <2>2, MostIs, FileConstants DEF Types
      <4>. QED
        BY <1>1, <2>2, <2>3, <2>7, <4>1, <4>2, <4>3 DEF Sized
    <3>2. m <= (opens[w] - 1) * (Limit + Most) + m
      <4>1. (opens[w] - 1) * (Limit + Most) \in Nat
        <5>1. opens[w] \in Nat /\ opens[w] >= 1
          BY <1>1, <2>2 DEF Types, Sized
        <5>2. opens[w] - 1 \in Nat /\ Limit + Most \in Nat
          BY <5>1, MostIs, FileConstants
        <5>. QED
          BY <5>2
      <4>. QED
        BY <4>1
    <3>3. m <= Limit + Most
      BY <1>3, <2>1, <2>3, MostIs, FileConstants
    <3>. QED
      BY <1>1, <2>2, <2>6, <2>7, <2>8, <3>1, <3>2, <3>3 DEF Sized
  <2>. QED
    BY <1>1, <1>2, <2>6, <2>7, <2>9, <2>10, <2>11 DEF Inv, RefusesOnlyEmpty
<1>4. CASE /\ Newest # None /\ Len(files[Newest]) < Limit /\ ~ prepFile(files[Newest]).ok
  <2>1. proc' = "refused" /\ UNCHANGED <<files, counter>>
    BY <1>4 DEF Start
  <2>2. Newest \in DOMAIN files
    BY <1>1, <1>4, NewestIs
  <2>3. files[Newest] \in Seq(Byte)
    BY <1>1, <2>2 DEF Contents
  <2>4. \A i \in DOMAIN files[Newest] : ~ files[Newest][i].newline
    BY <1>4, <2>3, PrepareIs, Bytes
  <2>5. Newest' = Newest
    BY <2>1 DEF Newest
  <2>6. RefusesOnlyEmpty'
    BY <2>1, <2>4, <2>5 DEF RefusesOnlyEmpty
  <2>7. Types' /\ Opening' /\ Sized'
    BY <1>1, <2>1 DEF Types, Opening, Sized
  <2>. QED
    BY <1>1, <1>2, <2>1, <2>2, <2>6, <2>7 DEF Inv
<1>5. CASE ~(Newest # None /\ Len(files[Newest]) < Limit)
  <2>1. proc' = "up" /\ counter' = [w |-> None, count |-> 0] /\ files' = files
    BY <1>5 DEF Start
  <2>2. Types' /\ Opening' /\ Sized'
    BY <1>1, <2>1 DEF Types, Opening, Sized
  <2>. QED
    BY <1>1, <1>2, <2>1, <2>2 DEF Inv, RefusesOnlyEmpty
<1>. QED
  BY <1>3, <1>4, <1>5

\* Log opens the file of the time, unless the open one has room.
LEMMA LogInv == ASSUME Inv, NEW length \in Lengths, Log(length) PROVE Inv'
<1>1. /\ Types /\ Opening /\ Contents(files, Written, torn) /\ Apart(files) /\ Sized
      /\ \A r \in acked : Holds(files, r)
      /\ proc = "up" /\ writing = <<>>
      /\ counter.count > Limit => counter.w # None
      /\ UNCHANGED <<proc, now, acked, torn, faults>>
  BY DEF Inv, Log, Idle, Full
<1>2. /\ records' = records + 1 /\ records \in Nat /\ writing' = Format(records + 1, length)
      /\ length \in Nat \ {0}
  BY <1>1, FileConstants DEF Log, Types
<1>3. writing' # <<>>
  BY <1>2, FormatIs DEF Formatted
<1>4. Written = records /\ Written' = records
  BY <1>1, <1>2, <1>3 DEF Written
<1>5. CASE counter.count > Limit \/ counter.w = None
  <2>1. /\ files' = Opened /\ counter' = [w |-> now, count |-> 0]
        /\ opens' = [opens EXCEPT ![now] = @ + 1]
    BY <1>5 DEF Log, Full
  <2>2. now \in 0..MaxTime /\ now \in Nat /\ now # None /\ MaxTime \in Nat /\ DOMAIN files \subseteq 0..MaxTime
        /\ opens \in [0..MaxTime -> Nat]
    BY <1>1, FileConstants DEF Types, None
  <2>3. PICK g : g = Opened
    OBVIOUS
  <2>4. /\ DOMAIN g = DOMAIN files \cup {now}
        /\ \A t \in DOMAIN files : g[t] = files[t]
        /\ now \notin DOMAIN files => g[now] = <<>>
        /\ g \in [DOMAIN g -> Seq(Byte)]
    <3>1. files \in [DOMAIN files -> Seq(Byte)] /\ <<>> \in Seq(Byte)
      BY <1>1, EmptySeq DEF Contents
    <3>. QED
      BY <2>3, <3>1 DEF Opened
  <2>5. Len(<<>>) = 0 /\ 1..0 = {}
    OBVIOUS
  <2>6. Contents(g, records, torn)
    <3>1. Lines(<<>>, torn) /\ Ordered(<<>>) /\ UpTo(<<>>, records)
      BY <2>5 DEF Lines, Ordered, UpTo
    <3>. QED
      BY <1>1, <1>4, <2>4, <3>1 DEF Contents
  <2>7. Apart(g)
    <3>1. ASSUME NEW t \in DOMAIN g, NEW u \in DOMAIN g, t < u, NEW i \in 1..Len(g[t]), NEW j \in 1..Len(g[u])
          PROVE  g[t][i].rec < g[u][j].rec
      <4>1. t \in DOMAIN files /\ u \in DOMAIN files
        BY <2>4, <2>5
      <4>. QED
        BY <1>1, <2>4, <3>1, <4>1 DEF Apart
    <3>. QED
      BY <3>1, Zenon DEF Apart
  <2>8. \A q : Holds(files, q) => Holds(g, q)
    BY <2>4 DEF Holds
  <2>9. Types'
    BY <1>1, <1>2, <2>1, <2>2, <2>3, <2>4, SMTT(90) DEF Types
  <2>10. now \in DOMAIN files => now = counter.w /\ Ended(files[now], torn)
    <3>1. counter.w = None => counter.count <= Limit
      BY <1>1, FileConstants DEF Types
    <3>. QED
      BY <1>1, <2>2, <3>1 DEF Opening, Types
  <2>11. Opening'
    <3>1. Ended(g[now], torn)
      BY <2>4, <2>10 DEF Ended
    <3>2. \A t \in DOMAIN g : t <= now
      BY <1>1, <2>2, <2>4 DEF Opening
    <3>. QED
      BY <1>1, <2>1, <2>2, <2>3, <3>1, <3>2 DEF Opening
  <2>12. Sized'
    <3>1. Limit \in Nat /\ Most \in Nat
      BY MostIs, FileConstants
    <3>2. /\ opens'[now] = opens[now] + 1 /\ opens[now] \in Nat
          /\ \A t \in DOMAIN files : opens[t] \in Nat /\ (t # now => opens'[t] = opens[t])
      BY <2>1, <2>2
    <3>3. Len(g[now]) <= opens[now] * (Limit + Most)
      <4>1. CASE now \in DOMAIN files
        BY <1>1, <2>4, <4>1 DEF Sized
      <4>2. CASE now \notin DOMAIN files
        <5>1. opens[now] * (Limit + Most) \in Nat
          BY <3>1, <3>2
        <5>. QED
          BY <2>4, <2>5, <4>2, <5>1
      <4>. QED
        BY <4>1, <4>2
    <3>4. /\ opens[now] * (Limit + Most) <= (opens[now] + 1) * (Limit + Most)
          /\ opens[now] * (Limit + Most) = (opens'[now] - 1) * (Limit + Most) + 0
          /\ opens[now] * (Limit + Most) \in Nat /\ (opens[now] + 1) * (Limit + Most) \in Nat
      BY <3>1, <3>2
    <3>5. Len(g[now]) \in Nat
      BY <2>4, Bytes
    <3>6. \A t \in DOMAIN g : opens'[t] >= 1 /\ Len(g[t]) <= opens'[t] * (Limit + Most)
      <4>1. ASSUME NEW t \in DOMAIN g, t # now PROVE opens'[t] >= 1 /\ Len(g[t]) <= opens'[t] * (Limit + Most)
        <5>1. t \in DOMAIN files /\ opens'[t] = opens[t] /\ g[t] = files[t]
          BY <2>4, <3>2, <4>1
        <5>. QED
          BY <1>1, <5>1 DEF Sized
      <4>2. opens'[now] >= 1 /\ Len(g[now]) <= opens'[now] * (Limit + Most)
        BY <3>2, <3>3, <3>4, <3>5
      <4>. QED
        BY <4>1, <4>2
    <3>7. Len(g[now]) <= (opens'[now] - 1) * (Limit + Most) + 0 /\ 0 <= Limit + Most /\ 0 <= Limit
      BY <3>1, <3>3, <3>4
    <3>. QED
      BY <2>1, <2>3, <3>6, <3>7 DEF Sized, Most
  <2>. QED
    BY <1>1, <1>4, <2>1, <2>3, <2>6, <2>7, <2>8, <2>9, <2>11, <2>12 DEF Inv, RefusesOnlyEmpty
<1>6. CASE ~(counter.count > Limit \/ counter.w = None)
  <2>1. UNCHANGED <<files, counter, opens>>
    BY <1>6 DEF Log, Full
  <2>2. counter.w # None /\ counter.count <= Limit
    BY <1>1, <1>6, FileConstants DEF Types
  <2>3. Types'
    BY <1>1, <1>2, <2>1 DEF Types
  <2>4. Opening'
    BY <1>1, <2>1, <2>2 DEF Opening
  <2>5. Sized'
    BY <1>1, <2>1, <2>2 DEF Sized
  <2>. QED
    BY <1>1, <1>4, <2>1, <2>3, <2>4, <2>5 DEF Inv, RefusesOnlyEmpty
<1>. QED
  BY <1>5, <1>6

\* A record that is being written: the file, its place and its bytes.
LEMMA WritingIs ==
    ASSUME Inv, writing # <<>>
    PROVE  /\ counter.w \in DOMAIN files /\ counter.w # None /\ records \in Nat \ {0} /\ Written = records - 1
           /\ DOMAIN files \subseteq Nat
           /\ \E length \in Lengths : /\ writing = Format(records, length) /\ length \in Nat \ {0}
                                      /\ Len(writing) = length /\ writing[1].rec = records
                                      /\ SubSeq(writing, 1, length) = writing
<1>1. PICK length \in Lengths : writing = Format(records, length)
  BY DEF Inv, Types
<1>2. records \in Nat \ {0} /\ length \in Nat \ {0}
  BY FileConstants DEF Inv, Types
<1>3. Formatted(writing, records, length)
  BY <1>1, <1>2, FormatIs
<1>4. Len(writing) = length /\ writing[1].rec = records /\ writing \in Seq(Byte)
  BY <1>2, <1>3 DEF Formatted
<1>5. SubSeq(writing, 1, length) = writing
  BY <1>4, SubSeqFull
<1>6. counter.w \in DOMAIN files /\ counter.w # None
  BY DEF Inv, Types, Opening
<1>7. DOMAIN files \subseteq Nat
  BY FileConstants DEF Inv, Types
<1>. QED
  BY <1>1, <1>2, <1>4, <1>5, <1>6, <1>7 DEF Written

\* The file grows by n bytes of the record: whatever n, the files stay lines.
LEMMA Growth ==
    ASSUME Inv, writing # <<>>, NEW length \in Nat \ {0}, writing = Format(records, length),
           NEW n \in 0..length, NEW g, g = [files EXCEPT ![counter.w] = @ \o SubSeq(writing, 1, n)]
    PROVE  /\ Contents(g, records, torn) /\ Apart(g) /\ GrownBy(files, g, counter.w, n)
           /\ Ended(g[counter.w], torn \cup {records})
           /\ n = length => Ended(g[counter.w], torn) /\ Holds(g, records)
<1>1. PICK w : w = counter.w
  OBVIOUS
<1>2. /\ w \in DOMAIN files /\ records \in Nat \ {0} /\ Written = records - 1 /\ DOMAIN files \subseteq Nat
      /\ w # None
  BY <1>1, WritingIs
<1>3. Contents(files, records - 1, torn) /\ Apart(files)
  BY <1>2 DEF Inv
<1>4. Ended(files[w], torn) /\ \A t \in DOMAIN files : t <= w
  BY <1>1, <1>2 DEF Inv, Opening
<1>5. g = [files EXCEPT ![w] = @ \o SubSeq(Format(records, length), 1, n)]
  BY <1>1
<1>6. Appended(files, g, records, w, length, n, torn)
  BY <1>2, <1>3, <1>4, <1>5 DEF Appended
<1>7. Grown(files, g, records, w, n, length, torn)
  BY <1>6, ExtendFile, Zenon
<1>. QED
  BY <1>1, <1>7 DEF Grown

\* The sizes after the file has grown.
LEMMA GrowthSized ==
    ASSUME Inv, writing # <<>>, NEW n \in 0..Most, NEW g, GrownBy(files, g, counter.w, n)
    PROVE  /\ \A t \in DOMAIN g : opens[t] >= 1 /\ Len(g[t]) <= opens[t] * (Limit + Most)
           /\ Len(g[counter.w]) <= (opens[counter.w] - 1) * (Limit + Most) + (counter.count + n)
           /\ counter.count + n <= Limit + Most
<1>1. PICK w : w = counter.w
  OBVIOUS
<1>2. PICK o : o = opens[w]
  OBVIOUS
<1>3. PICK k : k = Limit + Most
  OBVIOUS
<1>4. Limit \in Nat /\ Most \in Nat /\ k \in Nat
  BY <1>3, MostIs, FileConstants
<1>5. w \in DOMAIN files /\ w # None
  BY <1>1, WritingIs
<1>6. o \in Nat /\ o >= 1 /\ counter.count \in Nat /\ counter.count <= Limit
  BY <1>1, <1>2, <1>5 DEF Inv, Types, Sized
<1>7. Len(files[w]) <= (o - 1) * k + counter.count
  BY <1>1, <1>2, <1>3, <1>5 DEF Inv, Sized
<1>8. Len(files[w]) \in Nat
  <2>1. files[w] \in Seq(Byte)
    BY <1>5 DEF Inv, Contents
  <2>. QED
    BY <2>1, Bytes
<1>9. (o - 1) * k \in Nat /\ o * k = (o - 1) * k + k
  BY <1>4, <1>6
<1>10. Len(g[w]) = Len(files[w]) + n /\ DOMAIN g = DOMAIN files /\ \A t \in DOMAIN files : t # w => g[t] = files[t]
  BY <1>1 DEF GrownBy
<1>11. counter.count + n <= k
  BY <1>3, <1>4, <1>6
<1>12. Len(g[w]) <= (o - 1) * k + (counter.count + n)
  BY <1>4, <1>6, <1>7, <1>8, <1>9, <1>10
<1>13. Len(g[w]) <= o * k
  BY <1>4, <1>6, <1>8, <1>9, <1>10, <1>11, <1>12
<1>14. ASSUME NEW t \in DOMAIN g PROVE opens[t] >= 1 /\ Len(g[t]) <= opens[t] * k
  <2>1. CASE t = w
    BY <1>2, <1>6, <1>13, <2>1
  <2>2. CASE t # w
    BY <1>3, <1>10, <2>2 DEF Inv, Sized
  <2>. QED
    BY <2>1, <2>2
<1>. QED
  BY <1>1, <1>2, <1>3, <1>11, <1>12, <1>14

\* The full file is closed, and the next one cannot be opened.
LEMMA OpenFailsInv == ASSUME Inv, OpenFails PROVE Inv'
<1>1. /\ proc = "up" /\ writing = <<>>
      /\ counter.count > Limit => counter.w # None
      /\ counter.count > Limit \/ counter.w = None
      /\ counter' = [counter EXCEPT !.w = None]
      /\ UNCHANGED <<files, proc, writing, now, records, acked, torn, opens>>
  BY DEF OpenFails, Idle, Full
<1>2. /\ counter \in [w : DOMAIN files \cup {None}, count : Nat]
      /\ counter'.w = None /\ counter'.count = counter.count
      /\ counter' \in [w : DOMAIN files \cup {None}, count : Nat]
  BY <1>1 DEF Inv, Types
<1>3. Types'
  BY <1>1, <1>2 DEF Inv, Types
<1>4. Opening'
  <2>1. counter.count <= Limit => counter.w = None
    BY <1>1, <1>2, FileConstants
  <2>. QED
    BY <1>1, <1>2, <2>1 DEF Inv, Opening
<1>5. Sized' /\ Written' = Written
  BY <1>1, <1>2 DEF Inv, Sized, Written
<1>. QED
  BY <1>1, <1>3, <1>4, <1>5 DEF Inv, RefusesOnlyEmpty

\* The process ends when the file is closed twice.
LEMMA PanicInv == ASSUME Inv, LogPanics PROVE Inv'
<1>1. /\ proc = "up" /\ proc' = "down" /\ writing = <<>> /\ now < MaxTime /\ now' = now + 1
      /\ counter' = [w |-> None, count |-> 0]
      /\ UNCHANGED <<files, writing, records, acked, torn, opens>>
  BY DEF LogPanics, Idle
<1>2. now \in Nat /\ now \in 0..MaxTime /\ MaxTime \in Nat /\ \A t \in DOMAIN files : t \in Nat /\ t <= now
  BY FileConstants DEF Inv, Types, Opening
<1>3. Types'
  BY <1>1, <1>2 DEF Inv, Types
<1>4. Opening'
  <2>1. \A t \in DOMAIN files : t <= now + 1 /\ t < now + 1
    BY <1>2
  <2>. QED
    BY <1>1, <2>1 DEF Opening
<1>5. Sized' /\ Written' = Written
  BY <1>1 DEF Inv, Sized, Written
<1>. QED
  BY <1>1, <1>3, <1>4, <1>5 DEF Inv, RefusesOnlyEmpty

\* A record or a part of it is written; when it is a part, the record is torn.
LEMMA WriteBytesInv ==
    ASSUME Inv, NEW length \in Nat \ {0}, writing = Format(records, length), writing # <<>>,
           NEW n \in 0..length, length <= Most, WriteBytes(n),
           \/ n = length /\ acked' = acked \cup {records} /\ torn' = torn
           \/ acked' = acked /\ torn' = torn \cup {records}
    PROVE  Inv'
<1>1. /\ proc = "up" /\ proc' = proc /\ writing' = <<>>
      /\ files' = [files EXCEPT ![counter.w] = @ \o SubSeq(writing, 1, n)]
      /\ counter' = [counter EXCEPT !.count = @ + n]
      /\ UNCHANGED <<now, records, opens>>
  BY DEF WriteBytes
<1>3. counter.w \in DOMAIN files /\ counter.w # None /\ records \in Nat \ {0} /\ DOMAIN files \subseteq Nat
  BY WritingIs
<1>4. PICK g : g = [files EXCEPT ![counter.w] = @ \o SubSeq(writing, 1, n)]
  OBVIOUS
<1>5. files' = g
  BY <1>1, <1>4
<1>6. n \in 0..Most
  BY MostIs
<1>7. /\ Contents(g, records, torn) /\ Apart(g) /\ GrownBy(files, g, counter.w, n)
      /\ Ended(g[counter.w], torn \cup {records})
      /\ n = length => Ended(g[counter.w], torn) /\ Holds(g, records)
  BY <1>4, Growth
<1>8. counter \in [w : DOMAIN files \cup {None}, count : Nat]
  BY DEF Inv, Types
<1>9. counter'.w = counter.w /\ counter'.count = counter.count + n /\ counter.count \in Nat
      /\ counter' \in [w : DOMAIN files \cup {None}, count : Nat]
  BY <1>1, <1>8
<1>10. DOMAIN g = DOMAIN files /\ \A q : Holds(files, q) => Holds(g, q)
  BY <1>7 DEF GrownBy
<1>11. Types'
  BY <1>1, <1>5, <1>9, <1>10 DEF Inv, Types
<1>12. Contents(g, records, torn') /\ Ended(g[counter.w], torn')
  <2>1. torn \subseteq torn \cup {records}
    OBVIOUS
  <2>2. Contents(g, records, torn \cup {records})
    BY <1>7, <2>1, TornMore
  <2>. QED
    BY <1>7, <2>2
<1>13. Opening'
  <2>1. /\ \A t \in DOMAIN files : t <= now
        /\ \A t \in DOMAIN files : t <= counter.w
    BY <1>3 DEF Inv, Opening
  <2>. QED
    BY <1>1, <1>3, <1>5, <1>9, <1>10, <1>12, <2>1 DEF Opening
<1>14. Sized'
  <2>1. /\ \A t \in DOMAIN g : opens[t] >= 1 /\ Len(g[t]) <= opens[t] * (Limit + Most)
        /\ Len(g[counter.w]) <= (opens[counter.w] - 1) * (Limit + Most) + (counter.count + n)
        /\ counter.count + n <= Limit + Most
    BY <1>6, <1>7, GrowthSized
  <2>. QED
    BY <1>1, <1>5, <1>9, <2>1 DEF Sized
<1>15. \A r \in acked' : Holds(g, r)
  <2>1. \A r \in acked : Holds(files, r)
    BY DEF Inv
  <2>. QED
    BY <1>7, <1>10, <2>1
<1>16. Written' = records
  BY <1>1 DEF Written
<1>. QED
  BY <1>1, <1>5, <1>7, <1>11, <1>12, <1>13, <1>14, <1>15, <1>16 DEF Inv, RefusesOnlyEmpty

\* Log returns, with or without an error of the write.
LEMMA WriteInv == ASSUME Inv, CountingWrite PROVE Inv'
<1>1. writing # <<>>
  BY DEF CountingWrite, WriteBytes
<1>2. PICK length \in Lengths : /\ writing = Format(records, length) /\ length \in Nat \ {0}
                                /\ Len(writing) = length /\ writing[1].rec = records
  BY <1>1, WritingIs
<1>3. length <= Most /\ length \in 0..length
  BY <1>2, MostIs
<1>4. CASE WriteBytes(Len(writing)) /\ acked' = acked \cup {writing[1].rec} /\ torn' = torn
  BY <1>1, <1>2, <1>3, <1>4, WriteBytesInv
<1>5. ASSUME NEW n \in 0..Len(writing) - 1, WriteBytes(n), torn' = torn \cup {writing[1].rec}, acked' = acked
      PROVE  Inv'
  <2>1. n \in 0..length
    BY <1>2
  <2>. QED
    BY <1>1, <1>2, <1>3, <1>5, <2>1, WriteBytesInv
<1>. QED
  BY <1>4, <1>5 DEF CountingWrite

\* The process ends in the middle of a write or between two.
LEMMA CrashInv == ASSUME Inv, Crash PROVE Inv'
<1>1. /\ proc = "up" /\ proc' = "down" /\ now' = now + 1 /\ now < MaxTime
      /\ writing' = <<>> /\ counter' = [w |-> None, count |-> 0]
      /\ UNCHANGED <<records, acked, torn, opens>>
  BY DEF Crash
<1>2. Types /\ Opening /\ Contents(files, Written, torn) /\ Apart(files) /\ Sized /\ \A r \in acked : Holds(files, r)
  BY DEF Inv
<1>3. /\ DOMAIN files' = DOMAIN files
      /\ Contents(files', records, torn) /\ Apart(files') /\ \A q : Holds(files, q) => Holds(files', q)
      /\ \A t \in DOMAIN files' : opens[t] >= 1 /\ Len(files'[t]) <= opens[t] * (Limit + Most)
  <2>1. PICK n \in 0..Len(writing) :
            files' = IF counter.w = None THEN files
                     ELSE [files EXCEPT ![counter.w] = @ \o SubSeq(writing, 1, n)]
    BY DEF Crash
  <2>2. CASE writing # <<>>
    <3>1. PICK length \in Lengths : /\ writing = Format(records, length) /\ length \in Nat \ {0}
                                    /\ Len(writing) = length
      BY <2>2, WritingIs
    <3>2. counter.w # None /\ n \in 0..length /\ n \in 0..Most
      BY <2>2, <3>1, WritingIs, MostIs
    <3>3. PICK g : g = [files EXCEPT ![counter.w] = @ \o SubSeq(writing, 1, n)]
      OBVIOUS
    <3>4. files' = g
      BY <2>1, <3>2, <3>3
    <3>5. Contents(g, records, torn) /\ Apart(g) /\ GrownBy(files, g, counter.w, n)
      BY <2>2, <3>1, <3>2, <3>3, Growth
    <3>6. \A t \in DOMAIN g : opens[t] >= 1 /\ Len(g[t]) <= opens[t] * (Limit + Most)
      BY <2>2, <3>2, <3>5, GrowthSized
    <3>. QED
      BY <3>4, <3>5, <3>6 DEF GrownBy
  <2>3. CASE writing = <<>>
    <3>1. Written = records
      BY <2>3 DEF Written
    <3>2. files' = files
      <4>1. CASE counter.w = None
        BY <2>1, <4>1
      <4>2. CASE counter.w # None
        <5>1. n = 0
          BY <2>3
        <5>2. SubSeq(writing, 1, n) = <<>>
          BY <5>1, SubSeqEmpty
        <5>3. PICK w : w = counter.w
          OBVIOUS
        <5>4. w \in DOMAIN files /\ files[w] \in Seq(Byte) /\ files \in [DOMAIN files -> Seq(Byte)]
          BY <1>2, <4>2, <5>3 DEF Types, Contents
        <5>5. files[w] \o <<>> = files[w]
          BY <5>4, ConcatEmptySeq
        <5>6. files' = [files EXCEPT ![w] = files[w] \o <<>>]
          BY <2>1, <4>2, <5>2, <5>3
        <5>. QED
          BY <5>4, <5>5, <5>6
      <4>. QED
        BY <4>1, <4>2
    <3>. QED
      BY <1>2, <3>1, <3>2 DEF Sized
  <2>. QED
    BY <2>2, <2>3
<1>4. Types'
  BY <1>1, <1>2, <1>3, FileConstants DEF Types
<1>5. Opening'
  <2>1. now \in Nat /\ \A t \in DOMAIN files : t \in Nat /\ t <= now
    BY <1>2, FileConstants DEF Types, Opening
  <2>2. \A t \in DOMAIN files : t < now + 1 /\ t <= now + 1
    BY <2>1
  <2>. QED
    BY <1>1, <1>3, <2>2 DEF Opening
<1>6. Sized'
  BY <1>1, <1>3 DEF Sized
<1>7. Written' = records
  BY <1>1 DEF Written
<1>. QED
  BY <1>1, <1>2, <1>3, <1>4, <1>5, <1>6, <1>7 DEF Inv, RefusesOnlyEmpty

\* The clock.
LEMMA TickInv == ASSUME Inv, Tick PROVE Inv'
<1>1. /\ proc = "up" /\ now < MaxTime /\ now' = now + 1
      /\ UNCHANGED <<files, proc, counter, writing, records, acked, torn, opens>>
  BY DEF Tick
<1>2. now \in Nat /\ now \in 0..MaxTime /\ MaxTime \in Nat /\ \A t \in DOMAIN files : t \in Nat /\ t <= now
  BY FileConstants DEF Inv, Types, Opening
<1>3. Types'
  BY <1>1, <1>2 DEF Inv, Types
<1>4. Opening'
  <2>1. \A t \in DOMAIN files : t <= now + 1 /\ (t < now => t < now + 1)
    BY <1>2
  <2>. QED
    BY <1>1, <2>1 DEF Inv, Opening
<1>5. Sized' /\ Written' = Written
  BY <1>1 DEF Inv, Sized, Written
<1>. QED
  BY <1>1, <1>3, <1>4, <1>5 DEF Inv, RefusesOnlyEmpty

\* Every step keeps the invariant.
LEMMA NextInv == ASSUME Inv, [FilesNext]_fileVars PROVE Inv'
<1>1. CASE UNCHANGED fileVars
  BY <1>1 DEF fileVars, Inv, Types, Opening, Sized, Written, RefusesOnlyEmpty, Newest
<1>2. CASE FilesNext
  BY <1>2, StartInv, LogInv, OpenFailsInv, PanicInv, WriteInv, CrashInv, TickInv DEF FilesNext
<1>. QED
  BY <1>1, <1>2

-----------------------------------------------------------------------------
\* Invariance of the inductive invariant: where the open file stands, what is
\* in the files, and how long they are, between any two steps.
THEOREM Invariance == Spec => []Inv
<1>1. FilesInit => Inv
  BY InitInv
<1>2. Inv /\ [FilesNext]_fileVars => Inv'
  BY NextInv
<1>. QED
  BY <1>1, <1>2, PTL DEF Spec

\* The bytes of a file, by its length.
LEMMA FilesAre ==
    ASSUME Inv, NEW t \in DOMAIN files
    PROVE  files[t] \in Seq(Byte) /\ Len(files[t]) \in Nat /\ DOMAIN files[t] = 1..Len(files[t]) /\ t \in Nat
<1>1. files[t] \in Seq(Byte)
  BY DEF Inv, Contents
<1>2. t \in Nat
  BY FileConstants DEF Inv, Types
<1>. QED
  BY <1>1, <1>2, Bytes

\* The bytes of a record follow each other, from the start of a file, a newline
\* or the part of a torn record on, whatever writes a crash interrupted.
THEOREM LinesAreWhole == Spec => []LinesWhole
<1>1. ASSUME Inv, NEW t \in DOMAIN files, NEW i \in DOMAIN files[t]
      PROVE  LET before == files[t][i - 1]
                 byte == files[t][i]
             IN IF byte.at = 1 THEN i = 1 \/ before.newline \/ before.rec \in torn
                ELSE i > 1 /\ before.rec = byte.rec /\ before.at = byte.at - 1
  <2>1. i \in 1..Len(files[t]) /\ Lines(files[t], torn)
    BY <1>1, FilesAre DEF Inv, Contents
  <2>. QED
    BY <2>1 DEF Lines
<1>2. Inv => LinesWhole
  BY <1>1 DEF LinesWhole
<1>. QED
  BY <1>2, Invariance, PTL

\* A record whose Log returned is in the files once, and the records, read file
\* by file, are in the order they were logged, over crashes and restarts.
THEOREM RecordsAreKept == Spec => []RecordsKept
<1>1. ASSUME Inv, NEW t \in DOMAIN files, NEW u \in DOMAIN files, NEW i \in Newlines(t), NEW j \in Newlines(u),
             t < u \/ (t = u /\ i < j)
      PROVE  files[t][i].rec < files[u][j].rec
  <2>1. i \in 1..Len(files[t]) /\ j \in 1..Len(files[u]) /\ files[t][i].newline
    BY <1>1, FilesAre DEF Newlines
  <2>2. CASE t < u
    BY <1>1, <2>1, <2>2 DEF Inv, Apart
  <2>3. CASE t = u /\ i < j
    <3>1. Ordered(files[t])
      BY <1>1 DEF Inv, Contents
    <3>. QED
      BY <2>1, <2>3, <3>1 DEF Ordered
  <2>. QED
    BY <1>1, <2>2, <2>3
<1>2. ASSUME Inv, NEW r \in acked
      PROVE  \E t \in DOMAIN files : \E i \in Newlines(t) : files[t][i].rec = r
  <2>1. PICK t \in DOMAIN files : \E i \in 1..Len(files[t]) : files[t][i].newline /\ files[t][i].rec = r
    BY <1>2 DEF Inv, Holds
  <2>2. PICK i \in 1..Len(files[t]) : files[t][i].newline /\ files[t][i].rec = r
    BY <2>1
  <2>3. i \in Newlines(t)
    BY <1>2, <2>2, FilesAre DEF Newlines
  <2>. QED
    BY <2>2, <2>3
<1>3. Inv => RecordsKept
  BY <1>1, <1>2, Zenon DEF RecordsKept
<1>. QED
  BY <1>3, Invariance, PTL

\* A file exceeds the limit by one record at most for each time the rotation
\* opened it.
THEOREM SizeIsBounded == Spec => []SizeBounded
<1>1. Inv => SizeBounded
  BY DEF Inv, Sized, SizeBounded, Most
<1>. QED
  BY <1>1, Invariance, PTL

\* All that the RotatingFileHandler keeps over crashes and restarts.
THEOREM FilesAreKept == Spec => []FilesKept
<1>1. Inv => RefusesOnlyEmpty
  BY DEF Inv
<1>2. LinesWhole /\ RecordsKept /\ SizeBounded /\ RefusesOnlyEmpty => FilesKept
  BY DEF FilesKept
<1>. QED
  BY <1>1, <1>2, Invariance, LinesAreWhole, RecordsAreKept, SizeIsBounded, PTL
=============================================================================
