------------------------- MODULE MarcSectorsProofs --------------------------
(***************************************************************************)
(* The sectors of MARC records hold what was committed, whatever writes,   *)
(* compactions, reads and failures interleave.  First the layout: the      *)
(* bytes of a sector, cut where the index says, are the records.  Then the *)
(* invariant: what is stored of a sector is the image of its records, and  *)
(* what a session is about to commit is the image of its records with the  *)
(* new ones, because it has read what is still committed and nobody else   *)
(* can change the sector before it ends.                                   *)
(***************************************************************************)
EXTENDS MarcSectors, FiniteSetTheorems, SequenceTheorems, TLAPS

\* The first n numbers are n.
LEMMA FirstN ==
  ASSUME NEW n \in Nat
  PROVE  IsFiniteSet(1..n) /\ Cardinality(1..n) = n
BY FS_Interval

\* A record's bytes, as many as there are, are finite.
LEMMA BytesFinite ==
  ASSUME NEW B, NEW D, IsFiniteSet(D), NEW records \in [D -> Seq(B)], NEW S \in SUBSET D
  PROVE  /\ IsFiniteSet(BytesOf(records, S))
         /\ Cardinality(BytesOf(records, S)) \in Nat
<1> DEFINE part == [x \in S |-> {x} \X (1..Len(records[x]))]
           parts == {part[x] : x \in S}
<1>1. IsFiniteSet(S)
  BY FS_Subset
<1>2. part \in Surjection(S, parts)
  BY DEF Surjection
<1>3. IsFiniteSet(parts)
  BY <1>1, <1>2, FS_Surjection
<1>4. ASSUME NEW x \in S PROVE IsFiniteSet(part[x])
  <2>1. Len(records[x]) \in Nat
    BY LenProperties
  <2>2. IsFiniteSet(1..Len(records[x]))
    BY <2>1, FirstN
  <2>3. IsFiniteSet({x})
    BY FS_Singleton
  <2> QED BY <2>2, <2>3, FS_Product
<1>5. \A T \in parts : IsFiniteSet(T)
  BY <1>4
<1>6. IsFiniteSet(UNION parts)
  BY <1>3, <1>5, FS_UNION
<1>7. UNION parts = BytesOf(records, S)
  BY DEF BytesOf
<1> QED BY <1>6, <1>7, FS_CardinalityType

\* The place of byte b = <<r, i>> in the concatenation, and the bytes up to it.
Below(records, r) == {x \in DOMAIN records : x < r}
Upto(records, b) == BytesOf(records, Below(records, b[1])) \cup ({b[1]} \X (1..b[2]))
Position(records, b) == Offset(records, b[1]) + b[2]

\* An offset is a number.
LEMMA OffsetNat ==
  ASSUME NEW B, NEW D \in SUBSET Nat, IsFiniteSet(D), NEW records \in [D -> Seq(B)], NEW r \in D
  PROVE  Offset(records, r) \in Nat
BY BytesFinite DEF Offset

\* What the bytes of some records are.
LEMMA InBytes ==
  ASSUME NEW B, NEW D, NEW records \in [D -> Seq(B)], NEW S \in SUBSET D
  PROVE  \A b : b \in BytesOf(records, S) <=>
           b = <<b[1], b[2]>> /\ b[1] \in S /\ b[2] \in 1..Len(records[b[1]])
BY DEF BytesOf

\* The place of a byte is the number of bytes up to it.
LEMMA PositionCounts ==
  ASSUME NEW B, NEW D \in SUBSET Nat, IsFiniteSet(D), NEW records \in [D -> Seq(B)],
         NEW b \in BytesOf(records, D)
  PROVE  /\ IsFiniteSet(Upto(records, b))
         /\ Position(records, b) = Cardinality(Upto(records, b))
         /\ Upto(records, b) \subseteq BytesOf(records, D)
<1> DEFINE r == b[1]  i == b[2]
           low == BytesOf(records, Below(records, r))
           own == {r} \X (1..i)
<1>1. r \in D /\ i \in 1..Len(records[r]) /\ Len(records[r]) \in Nat
  BY InBytes, LenProperties
<1>2. Below(records, r) \in SUBSET D
  BY DEF Below
<1>3. IsFiniteSet(low) /\ Cardinality(low) \in Nat
  BY <1>2, BytesFinite
<1>4. IsFiniteSet(own) /\ Cardinality(own) = i
  <2>1. i \in Nat BY <1>1
  <2>2. IsFiniteSet(1..i) /\ Cardinality(1..i) = i
    BY <2>1, FirstN
  <2>3. IsFiniteSet({r}) /\ Cardinality({r}) = 1
    BY FS_Singleton
  <2>4. Cardinality({r} \X (1..i)) = Cardinality({r}) * Cardinality(1..i) /\ IsFiniteSet(own)
    BY <2>2, <2>3, FS_Product
  <2> QED BY <2>1, <2>2, <2>3, <2>4
<1>5. low \cap own = {}
  <2> SUFFICES ASSUME NEW c \in low, c \in own PROVE FALSE
    OBVIOUS
  <2>1. c[1] \in Below(records, r)
    BY <1>2, InBytes
  <2>2. c[1] < r /\ c[1] = r
    BY <2>1 DEF Below
  <2> QED BY <2>2, <1>1
<1>6. IsFiniteSet(low \cup own) /\ Cardinality(low \cup own) = Cardinality(low) + i
  <2>1. Cardinality(low \cap own) = 0
    BY <1>5, FS_EmptySet
  <2>2. i \in Nat
    BY <1>1
  <2> HIDE DEF low, own, i
  <2>3. /\ IsFiniteSet(low \cup own)
        /\ Cardinality(low \cup own) = Cardinality(low) + Cardinality(own) - Cardinality(low \cap own)
    BY <1>3, <1>4, FS_Union
  <2> QED BY <2>1, <2>2, <2>3, <1>3, <1>4
<1>7. low \subseteq BytesOf(records, D)
  BY <1>2 DEF BytesOf
<1>8. own \subseteq BytesOf(records, D)
  <2> SUFFICES ASSUME NEW j \in 1..i PROVE <<r, j>> \in BytesOf(records, D)
    OBVIOUS
  <2>1. j \in 1..Len(records[r])
    BY <1>1
  <2> QED BY <1>1, <2>1, InBytes
<1> QED BY <1>6, <1>7, <1>8 DEF Upto, Position, Offset, Below

\* Every byte has a place within the concatenation,
LEMMA PositionRange ==
  ASSUME NEW B, NEW D \in SUBSET Nat, IsFiniteSet(D), NEW records \in [D -> Seq(B)],
         NEW b \in BytesOf(records, D)
  PROVE  Position(records, b) \in 1..Cardinality(BytesOf(records, D))
<1>1. b[1] \in D /\ b[2] \in 1..Len(records[b[1]]) /\ Len(records[b[1]]) \in Nat
  BY InBytes, LenProperties
<1>2. Position(records, b) >= 1 /\ Position(records, b) \in Nat
  <2>1. Offset(records, b[1]) \in Nat
    BY <1>1, OffsetNat
  <2> QED BY <2>1, <1>1 DEF Position
<1>3. Cardinality(Upto(records, b)) <= Cardinality(BytesOf(records, D))
  BY PositionCounts, BytesFinite, FS_Subset
<1> QED BY <1>2, <1>3, PositionCounts, BytesFinite

\* no two bytes have the same,
LEMMA PositionInjective ==
  ASSUME NEW B, NEW D \in SUBSET Nat, IsFiniteSet(D), NEW records \in [D -> Seq(B)],
         NEW b \in BytesOf(records, D), NEW c \in BytesOf(records, D),
         Position(records, b) = Position(records, c)
  PROVE  b = c
<1>1. ASSUME NEW x \in BytesOf(records, D), NEW y \in BytesOf(records, D), x[1] < y[1]
      PROVE  Position(records, x) < Position(records, y)
  <2>1. /\ x[1] \in D /\ x[2] \in 1..Len(records[x[1]]) /\ Len(records[x[1]]) \in Nat
        /\ y[1] \in D /\ y[2] \in 1..Len(records[y[1]]) /\ Len(records[y[1]]) \in Nat
    BY InBytes, LenProperties
  <2>2. Below(records, y[1]) \in SUBSET D /\ Below(records, x[1]) \in SUBSET Below(records, y[1])
    <3>1. DOMAIN records = D /\ D \subseteq Nat
      OBVIOUS
    <3>2. x[1] \in Nat /\ y[1] \in Nat
      BY <2>1
    <3>3. \A z \in D : z < x[1] => z < y[1]
      BY <1>1, <3>2, <3>1
    <3> QED BY <3>1, <3>3 DEF Below
  <2>3. BytesOf(records, Below(records, x[1])) \subseteq BytesOf(records, Below(records, y[1]))
    BY <2>2 DEF BytesOf
  <2>4. {x[1]} \X (1..x[2]) \subseteq BytesOf(records, Below(records, y[1]))
    <3> SUFFICES ASSUME NEW j \in 1..x[2] PROVE <<x[1], j>> \in BytesOf(records, Below(records, y[1]))
      OBVIOUS
    <3>1. x[1] \in Below(records, y[1]) /\ j \in 1..Len(records[x[1]])
      <4>1. x[1] \in DOMAIN records /\ x[1] < y[1]
        BY <2>1, <1>1
      <4>2. x[1] \in Below(records, y[1])
        BY <4>1 DEF Below
      <4> QED BY <4>2, <2>1
    <3> QED BY <2>2, <3>1, InBytes
  <2>5. Cardinality(Upto(records, x)) <= Offset(records, y[1])
    <3>1. Upto(records, x) \subseteq BytesOf(records, Below(records, y[1]))
      BY <2>3, <2>4 DEF Upto
    <3>2. IsFiniteSet(BytesOf(records, Below(records, y[1])))
      BY <2>2, BytesFinite
    <3> QED BY <3>1, <3>2, FS_Subset DEF Offset, Below
  <2>6. Position(records, x) = Cardinality(Upto(records, x))
    BY PositionCounts
  <2>7. Offset(records, x[1]) \in Nat /\ Offset(records, y[1]) \in Nat
    BY <2>1, OffsetNat
  <2> QED BY <2>1, <2>5, <2>6, <2>7 DEF Position
<1>2. /\ b = <<b[1], b[2]>> /\ b[1] \in D /\ b[2] \in Nat
      /\ c = <<c[1], c[2]>> /\ c[1] \in D /\ c[2] \in Nat
  BY InBytes, LenProperties
<1>3. Position(records, b) \in Nat /\ Position(records, c) \in Nat
  BY PositionRange, BytesFinite
<1>4. b[1] = c[1]
  <2>1. ~(b[1] < c[1]) BY <1>1, <1>3
  <2>2. ~(c[1] < b[1]) BY <1>1, <1>3
  <2> QED BY <1>2, <2>1, <2>2
<1>5. b[2] = c[2]
  BY <1>2, <1>4, OffsetNat DEF Position
<1> QED BY <1>2, <1>4, <1>5

\* and no place is empty.
LEMMA PositionOnto ==
  ASSUME NEW B, NEW D \in SUBSET Nat, IsFiniteSet(D), NEW records \in [D -> Seq(B)],
         NEW k \in 1..Cardinality(BytesOf(records, D))
  PROVE  \E b \in BytesOf(records, D) : Position(records, b) = k
<1> DEFINE bytes == BytesOf(records, D)
           n == Cardinality(bytes)
           place == [b \in bytes |-> Position(records, b)]
<1>1. n \in Nat
  BY BytesFinite
<1>2. place \in Injection(bytes, 1..n)
  <2>1. place \in [bytes -> 1..n]
    BY PositionRange
  <2>2. IsInjective(place)
    BY PositionInjective DEF IsInjective
  <2> QED BY <2>1, <2>2 DEF Injection
<1>3. IsFiniteSet(1..n) /\ Cardinality(1..n) = n
  BY <1>1, FS_Interval
<1> HIDE DEF place, bytes
<1>4. place \in Surjection(bytes, 1..n)
  BY <1>2, <1>3, FS_Injection
<1>5. \E b \in bytes : place[b] = k
  BY <1>4 DEF Surjection, bytes
<1> QED BY <1>5 DEF place, bytes

\* The concatenation holds every byte at its place, and nothing else.
LEMMA ConcatenatedIs ==
  ASSUME NEW B, NEW D \in SUBSET Nat, IsFiniteSet(D), NEW records \in [D -> Seq(B)]
  PROVE  /\ Concatenated(records) \in Seq(B)
         /\ Len(Concatenated(records)) = Cardinality(BytesOf(records, D))
         /\ \A b \in BytesOf(records, D) :
              Concatenated(records)[Position(records, b)] = records[b[1]][b[2]]
<1> DEFINE bytes == BytesOf(records, D)
           n == Cardinality(bytes)
           At(k) == CHOOSE b \in bytes : Position(records, b) = k
<1>1. n \in Nat /\ DOMAIN records = D
  BY BytesFinite
<1>2. Concatenated(records) = [k \in 1..n |-> LET b == At(k) IN records[b[1]][b[2]]]
  <2>1. \A b \in bytes : Rows(records)[b[1]].offset + b[2] = Position(records, b)
    <3> TAKE b \in bytes
    <3>1. b[1] \in D
      BY InBytes
    <3> QED BY <3>1 DEF Rows, Position
  <2>2. ASSUME NEW k \in 1..n
        PROVE  (CHOOSE b \in bytes : Rows(records)[b[1]].offset + b[2] = k) = At(k)
    BY <2>1
  <2>3. Concatenated(records) =
          [k \in 1..n |-> LET b == CHOOSE b \in bytes : Rows(records)[b[1]].offset + b[2] = k
                          IN records[b[1]][b[2]]]
    BY <1>1 DEF Concatenated
  <2> QED BY <2>2, <2>3
<1>3. ASSUME NEW k \in 1..n PROVE At(k) \in bytes /\ Position(records, At(k)) = k
  BY PositionOnto
<1>4. ASSUME NEW b \in bytes PROVE records[b[1]][b[2]] \in B
  BY InBytes, LenProperties
<1> HIDE DEF At, bytes
<1>5. Concatenated(records) \in [1..n -> B]
  BY <1>2, <1>3, <1>4
<1>6. Concatenated(records) \in Seq(B) /\ Len(Concatenated(records)) = n
  BY <1>1, <1>5
<1>7. ASSUME NEW b \in bytes PROVE Concatenated(records)[Position(records, b)] = records[b[1]][b[2]]
  <2>1. Position(records, b) \in 1..n
    BY PositionRange DEF bytes
  <2>2. At(Position(records, b)) = b
    BY <2>1, <1>3, PositionInjective DEF bytes
  <2> QED BY <1>2, <2>1, <2>2
<1> QED BY <1>6, <1>7 DEF bytes

\* What is sliced from the image of some records by their rows are the records.
LEMMA SliceOfImage ==
  ASSUME NEW B, NEW D \in SUBSET Nat, IsFiniteSet(D), NEW records \in [D -> Seq(B)], NEW r \in D
  PROVE  Slice(Image(records).data, Rows(records)[r]) = records[r]
<1> DEFINE data == Concatenated(records)
           off == Offset(records, r)
           len == Len(records[r])
<1>1. off \in Nat /\ len \in Nat /\ Rows(records)[r] = [offset |-> off, length |-> len]
  BY OffsetNat, LenProperties DEF Rows
<1>2. data \in Seq(B) /\ Len(data) \in Nat /\ Len(data) = Cardinality(BytesOf(records, D))
  BY ConcatenatedIs, LenProperties
<1>3. ASSUME NEW i \in 1..len
      PROVE  off + i \in 1..Len(data) /\ data[off + i] = records[r][i]
  <2>1. <<r, i>> \in BytesOf(records, D)
    BY InBytes
  <2>2. Position(records, <<r, i>>) = off + i
    BY DEF Position
  <2>3. Position(records, <<r, i>>) \in 1..Len(data)
    BY <2>1, <1>2, PositionRange
  <2>4. data[Position(records, <<r, i>>)] = records[<<r, i>>[1]][<<r, i>>[2]]
    BY <2>1, ConcatenatedIs
  <2> QED BY <2>2, <2>3, <2>4
<1>4. off + len <= Len(data)
  <2>1. CASE len = 0
    <3>1. BytesOf(records, Below(records, r)) \subseteq BytesOf(records, D)
      BY DEF BytesOf, Below
    <3>2. off <= Len(data)
      BY <3>1, <1>2, BytesFinite, FS_Subset DEF Offset, Below
    <3> QED BY <3>2, <2>1, <1>1, <1>2
  <2>2. CASE len # 0
    BY <2>2, <1>1, <1>3
  <2> QED BY <2>1, <2>2
<1>5. Slice(Image(records).data, Rows(records)[r]) = SubSeq(data, off + 1, off + len)
  BY <1>1, <1>4 DEF Slice, Image
<1>6. /\ SubSeq(data, off + 1, off + len) \in Seq(B)
      /\ Len(SubSeq(data, off + 1, off + len)) = len
      /\ \A i \in 1..len : SubSeq(data, off + 1, off + len)[i] = records[r][i]
  <2>1. \A i \in (off + 1)..(off + len) : data[i] \in B
    BY <1>1, <1>2, <1>4, LenProperties
  <2>2. /\ SubSeq(data, off + 1, off + len) \in Seq(B)
        /\ Len(SubSeq(data, off + 1, off + len)) = IF off + 1 <= off + len THEN off + len - (off + 1) + 1 ELSE 0
        /\ \A i \in 1..(off + len - (off + 1) + 1) : SubSeq(data, off + 1, off + len)[i] = data[off + 1 + i - 1]
    BY <2>1, <1>1, SubSeqProperties
  <2>3. off + len - (off + 1) + 1 = len /\ (\A i \in 1..len : off + 1 + i - 1 = off + i)
    BY <1>1
  <2> HIDE DEF data, off, len
  <2> QED BY <2>2, <2>3, <1>1, <1>3
<1> HIDE DEF data, off
<1> QED BY <1>5, <1>6, SeqEqual
-------------------------------------------------------------------------------
(* The inductive invariant *)

\* Functions on a part of D.
Partial(D, V) == UNION {[A -> V] : A \in SUBSET D}

Bytes == Seq(Records \X Versions)
Row == [offset : Nat, length : Nat]
SectorRow == [data : Bytes, count : 0..SectorSize]

Sessions ==
  [at : {"idle", "begun", "half", "ready", "commit", "done", "failed"},
   kind : {"put", "compact"}, todo : Seq(Sectors), put : Puts \cup {<<>>},
   seen : SectorRow, loaded : Partial(Records, Row),
   dirty : Partial(Sectors, SectorRow), rows : Partial(Records, [row : Row, was : Row])]

Reads ==
  [at : {"idle", "looked", "sliced"}, of : Records \cup {0}, row : Row, bytes : Bytes]

Types ==
  /\ sectors \in [Sectors -> SectorRow]
  /\ index \in [Records -> Row]
  /\ cache \in [Records -> Bytes]
  /\ session \in [Writers -> Sessions]
  /\ read \in [Readers -> Reads]
  /\ stored \in [Records -> Versions \cup {0}]
  /\ raced \in SUBSET Sectors
  /\ crossed \in SUBSET Records
  /\ uncleared \in SUBSET Records

\* What is still to do has not been written; rows loaded are of the sector in hand.
Planned(x) ==
  /\ IsInjective(x.todo)
  /\ x.at \in {"begun", "half", "ready"} => x.todo # <<>>
  /\ \A i \in 1..Len(x.todo) :
       x.todo[i] \notin DOMAIN x.dirty /\ DOMAIN x.rows \cap InSector(x.todo[i]) = {}
  /\ x.at = "ready" \/ (x.at = "half" /\ x.kind = "compact") =>
       DOMAIN x.loaded \subseteq InSector(Head(x.todo))

Plans == \A w \in Writers : Planned(session[w])

\* An uncommitted change of a sector keeps the other sessions out.
OneAtWork ==
  \A v, w \in Writers : v # w => DOMAIN session[v].dirty \cap DOMAIN session[w].dirty = {}

\* The index rows of a sector with these versions of its records.
RowOf(version, r) ==
  IF version[r] = 0 THEN NoRow ELSE Rows(Contents(version, SectorOf(r)))[r]

\* The committed rows of a sector are those of its records.
Tables ==
  \A s \in Sectors \ raced :
    /\ sectors[s] = Image(Contents(stored, s))
    /\ \A r \in InSector(s) : index[r] = RowOf(stored, r)

\* The versions stored once the session with this put commits.
After(put, version) == [r \in Records |-> IF r \in DOMAIN put THEN put[r] ELSE version[r]]

\* An uncommitted image is that of the sector with the new records, and its
\* rows were read as they still are; an image that was not to change leaves
\* the rows as they are.
Pending(x, s) ==
  IF s \in DOMAIN x.dirty
  THEN /\ x.dirty[s] = Image(Contents(After(x.put, stored), s))
       /\ \A r \in InSector(s) :
            IF r \in DOMAIN x.rows
            THEN x.rows[r] = [row |-> RowOf(After(x.put, stored), r), was |-> index[r]]
            ELSE After(x.put, stored)[r] = 0
  ELSE \A r \in InSector(s) \cap DOMAIN x.rows : x.rows[r].row = x.rows[r].was /\ x.rows[r].was # NoRow

Changes == \A s \in Sectors \ raced : \A w \in Writers : Pending(session[w], s)

\* What is committed of a record is cached, or nothing, as while it is written.
Fresh(r) ==
  /\ cache[r] \in {NoBytes, Marc(r, stored[r])}
  /\ \A w \in Writers :
       SectorOf(r) \in DOMAIN session[w].dirty /\ r \in DOMAIN session[w].rows => cache[r] = NoBytes

\* So it is unless the entry could not be deleted; and a read under way has
\* seen what is committed.
Cached(r) ==
  /\ r \notin uncleared => Fresh(r)
  /\ \A q \in Readers : read[q].at # "idle" /\ read[q].of = r =>
       read[q].row = index[r] /\ (read[q].at = "sliced" => read[q].bytes = Marc(r, stored[r]))

CacheFits ==
  /\ \A q \in Readers : read[q].at # "idle" => read[q].of \in Records
  /\ \A r \in Records \ crossed : SectorOf(r) \notin raced => Cached(r)

MarcInv == Types /\ Plans /\ OneAtWork /\ Tables /\ Changes /\ CacheFits
-------------------------------------------------------------------------------
(* Lemmas about the operators *)

\* Every record is in one sector.
LEMMA RecordInSector ==
  /\ \A r \in Records : SectorOf(r) \in Sectors /\ r \in InSector(SectorOf(r))
  /\ \A s \in Sectors : \A r \in InSector(s) : r \in Records /\ SectorOf(r) = s
BY DEF Sectors, InSector

\* A sector has at most SECTOR_SIZE system numbers.
LEMMA SectorIsSmall ==
  ASSUME NEW s \in Sectors, NEW D \in SUBSET InSector(s)
  PROVE  /\ D \in SUBSET Nat /\ D \in SUBSET Records
         /\ IsFiniteSet(D) /\ Cardinality(D) \in 0..SectorSize
<1>1. D \in SUBSET Records /\ D \in SUBSET Nat
  BY RecordsAssumption DEF InSector
<1>2. IsFiniteSet(D) /\ Cardinality(D) \in Nat
  BY <1>1, RecordsAssumption, FS_Subset, FS_CardinalityType
<1>3. s \in Nat /\ SectorSize \in Nat \ {0}
  BY SizesAssumption, RecordsAssumption DEF Sectors, SectorOf
<1> DEFINE first == s * SectorSize
<1>4. first \in Nat
  BY <1>3
<1>5. ASSUME NEW r \in D PROVE r \in first..(first + SectorSize - 1)
  <2>1. r \in Nat /\ r \div SectorSize = s
    BY <1>1 DEF InSector, SectorOf
  <2> QED BY <2>1, <1>3
<1>6. /\ IsFiniteSet(first..(first + SectorSize - 1))
      /\ Cardinality(first..(first + SectorSize - 1)) = SectorSize
  <2> HIDE DEF first
  <2> DEFINE last == first + SectorSize - 1
  <2>1. first \in Int /\ last \in Int /\ ~(first > last) /\ last - first + 1 = SectorSize
    BY <1>3, <1>4
  <2> HIDE DEF last
  <2>2. /\ IsFiniteSet(first..last)
        /\ Cardinality(first..last) = IF first > last THEN 0 ELSE last - first + 1
    BY <2>1, FS_Interval
  <2>3. IsFiniteSet(first..last) /\ Cardinality(first..last) = SectorSize
    BY <2>1, <2>2
  <2> QED BY <2>3 DEF last
<1> HIDE DEF first
<1>7. Cardinality(D) <= SectorSize
  <2>1. D \subseteq first..(first + SectorSize - 1)
    BY <1>5
  <2> QED BY <2>1, <1>6, FS_Subset
<1> QED BY <1>1, <1>2, <1>3, <1>7

\* The image of records of a sector is a row of marc_sectors.
LEMMA ImageType ==
  ASSUME NEW s \in Sectors, NEW D \in SUBSET InSector(s), NEW records \in [D -> Bytes]
  PROVE  Image(records) \in SectorRow /\ Rows(records) \in [D -> Row]
<1>1. D \in SUBSET Nat /\ IsFiniteSet(D) /\ Cardinality(D) \in 0..SectorSize
  BY SectorIsSmall
<1>2. Concatenated(records) \in Bytes
  BY <1>1, ConcatenatedIs DEF Bytes
<1>3. \A r \in D : Offset(records, r) \in Nat /\ Len(records[r]) \in Nat
  BY <1>1, OffsetNat, LenProperties DEF Bytes
<1> QED BY <1>1, <1>2, <1>3 DEF Image, SectorRow, Rows, Row

\* A slice is bytes, whether or not it fits.
LEMMA SliceType ==
  ASSUME NEW data \in Bytes, NEW row \in Row
  PROVE  Slice(data, row) \in Bytes
<1> DEFINE end == IF row.offset + row.length <= Len(data) THEN row.offset + row.length ELSE Len(data)
<1>1. row.offset \in Nat /\ row.length \in Nat
  BY DEF Row
<1>2. Len(data) \in Nat /\ DOMAIN data = 1..Len(data) /\ data \in [1..Len(data) -> Records \X Versions]
  BY LenProperties DEF Bytes
<1>3. end \in Int /\ end <= Len(data) /\ row.offset + 1 \in Int
  BY <1>1, <1>2
<1>4. \A i \in (row.offset + 1)..end : data[i] \in Records \X Versions
  BY <1>1, <1>2, <1>3
<1>5. Slice(data, row) = SubSeq(data, row.offset + 1, end)
  BY DEF Slice
<1> HIDE DEF end
<1> QED BY <1>3, <1>4, <1>5, SubSeqProperties DEF Bytes

\* What may be stored, and the records of a sector that are.
Version == [Records -> Versions \cup {0}]
Present(version, s) == {r \in InSector(s) : version[r] # 0}

\* The bytes of a version tell record and version apart.
LEMMA MarcType ==
  ASSUME NEW r \in Records, NEW v \in Versions \cup {0}
  PROVE  /\ Marc(r, v) \in Bytes /\ Len(Marc(r, v)) = v /\ v \in Nat
         /\ v = 0 => Marc(r, v) = <<>>
         /\ v # 0 => Marc(r, v)[1] = <<r, v>>
<1>1. v \in Nat /\ (v # 0 => v \in Versions /\ v > 0)
  BY SizesAssumption
<1>2. Marc(r, v) \in [1..v -> Records \X Versions]
  BY <1>1 DEF Marc
<1>3. Marc(r, v) \in Bytes /\ Len(Marc(r, v)) = v
  BY <1>1, <1>2 DEF Bytes
<1>4. v = 0 => Marc(r, v) = <<>>
  BY <1>3, EmptySeq DEF Bytes
<1>5. v # 0 => Marc(r, v)[1] = <<r, v>>
  BY <1>1 DEF Marc
<1> QED BY <1>1, <1>3, <1>4, <1>5

\* The contents of a sector are the bytes of the versions stored.
LEMMA ContentsType ==
  ASSUME NEW version \in Version, NEW s \in Sectors
  PROVE  /\ Contents(version, s) \in [Present(version, s) -> Bytes]
         /\ Present(version, s) \in SUBSET InSector(s)
         /\ \A r \in Present(version, s) : Contents(version, s)[r] = Marc(r, version[r])
         /\ Image(Contents(version, s)) \in SectorRow
         /\ Rows(Contents(version, s)) \in [Present(version, s) -> Row]
<1>1. Present(version, s) \in SUBSET InSector(s)
  BY DEF Present
<1>2. ASSUME NEW r \in Present(version, s)
      PROVE  Marc(r, version[r]) \in Bytes
  BY <1>1, RecordInSector, MarcType DEF Version
<1>3. /\ Contents(version, s) \in [Present(version, s) -> Bytes]
      /\ \A r \in Present(version, s) : Contents(version, s)[r] = Marc(r, version[r])
  BY <1>2 DEF Contents, Present
<1> QED BY <1>1, <1>3, ImageType

\* They depend on the versions of its own records only.
LEMMA ContentsSame ==
  ASSUME NEW s \in Sectors, NEW u, NEW v, \A r \in InSector(s) : u[r] = v[r]
  PROVE  /\ Contents(u, s) = Contents(v, s)
         /\ \A r \in InSector(s) : RowOf(u, r) = RowOf(v, r)
<1>1. {r \in InSector(s) : u[r] # 0} = {r \in InSector(s) : v[r] # 0}
  OBVIOUS
<1>2. Contents(u, s) = Contents(v, s)
  BY <1>1 DEF Contents
<1> QED BY <1>2, RecordInSector DEF RowOf

\* A record that is stored has a row, one that is not has none.
LEMMA RowOfIs ==
  ASSUME NEW version \in Version, NEW r \in Records
  PROVE  /\ RowOf(version, r) \in Row
         /\ version[r] # 0 => /\ RowOf(version, r) = Rows(Contents(version, SectorOf(r)))[r]
                               /\ RowOf(version, r) # NoRow
         /\ version[r] = 0 => RowOf(version, r) = NoRow
<1> DEFINE s == SectorOf(r)
<1>1. s \in Sectors /\ r \in InSector(s)
  BY RecordInSector
<1>2. ASSUME version[r] # 0
      PROVE  Rows(Contents(version, s))[r] \in Row /\ Rows(Contents(version, s))[r].length # 0
  <2>1. r \in Present(version, s)
    BY <1>1, <1>2 DEF Present
  <2>2. Len(Contents(version, s)[r]) = version[r]
    BY <2>1, <1>1, ContentsType, MarcType DEF Version
  <2>3. DOMAIN Contents(version, s) = Present(version, s)
    BY <1>1, ContentsType
  <2>4. Rows(Contents(version, s))[r].length = Len(Contents(version, s)[r])
    BY <2>1, <2>3 DEF Rows
  <2> QED BY <2>1, <2>2, <2>4, <1>1, <1>2, ContentsType
<1>3. NoRow \in Row /\ NoRow.length = 0
  BY DEF NoRow, Row
<1> QED BY <1>2, <1>3 DEF RowOf

\* The bytes sliced for a record are those of its version.
LEMMA RecordSliced ==
  ASSUME NEW version \in Version, NEW r \in Records
  PROVE  Slice(Image(Contents(version, SectorOf(r))).data, RowOf(version, r)) = Marc(r, version[r])
<1> DEFINE s == SectorOf(r)
<1>1. s \in Sectors /\ r \in InSector(s)
  BY RecordInSector
<1>2. CASE version[r] # 0
  <2>1. r \in Present(version, s) /\ Present(version, s) \in SUBSET InSector(s)
    BY <1>1, <1>2 DEF Present
  <2>2. Present(version, s) \in SUBSET Nat /\ IsFiniteSet(Present(version, s))
    BY <2>1, <1>1, SectorIsSmall
  <2>3. Contents(version, s) \in [Present(version, s) -> Seq(Records \X Versions)]
    BY <1>1, ContentsType DEF Bytes
  <2>4. Slice(Image(Contents(version, s)).data, Rows(Contents(version, s))[r]) = Contents(version, s)[r]
    BY <2>1, <2>2, <2>3, SliceOfImage
  <2> QED BY <2>1, <2>4, <1>1, <1>2, ContentsType, RowOfIs
<1>3. CASE version[r] = 0
  <2>1. RowOf(version, r) = [offset |-> 0, length |-> 0]
    BY <1>3, RowOfIs DEF NoRow
  <2> DEFINE data == Image(Contents(version, s)).data
  <2>2. data \in Bytes
    BY <1>1, ContentsType DEF SectorRow
  <2>3. Len(data) \in Nat
    BY <2>2, LenProperties DEF Bytes
  <2>4. Slice(data, RowOf(version, r)) = SubSeq(data, 1, 0)
    BY <2>1, <2>3 DEF Slice
  <2>5. SubSeq(data, 1, 0) = <<>>
    BY SubSeqEmpty
  <2> QED BY <2>4, <2>5, <1>3, MarcType
<1> QED BY <1>2, <1>3

\* record_count is the number of rows.
LEMMA CountOf ==
  ASSUME NEW version \in Version, NEW s \in Sectors
  PROVE  Image(Contents(version, s)).count = Cardinality({r \in InSector(s) : RowOf(version, r) # NoRow})
<1>1. {r \in InSector(s) : RowOf(version, r) # NoRow} = Present(version, s)
  BY RowOfIs, RecordInSector DEF Present
<1> QED BY <1>1, ContentsType DEF Image
\* A put writes real versions of real records.
LEMMA PutType ==
  ASSUME NEW put \in Puts \cup {<<>>}
  PROVE  /\ DOMAIN put \subseteq Records
         /\ \A r \in DOMAIN put : put[r] \in Versions /\ put[r] # 0
<1>1. put \in [DOMAIN put -> Versions] /\ DOMAIN put \subseteq Records
  <2>1. CASE put \in Puts
    BY <2>1, InputsAssumption
  <2>2. CASE put = <<>>
    BY <2>2
  <2> QED BY <2>1, <2>2
<1>2. \A r \in DOMAIN put : put[r] \in Versions /\ put[r] # 0
  BY <1>1, SizesAssumption
<1> QED BY <1>1, <1>2

\* With a put there are still versions.
LEMMA AfterType ==
  ASSUME NEW version \in Version, NEW put \in Puts \cup {<<>>}
  PROVE  After(put, version) \in Version
BY PutType DEF After, Version

\* An image that a write does not change tells that the records written were
\* there already: each has a byte of its own in it.
LEMMA SameImage ==
  ASSUME NEW version \in Version, NEW put \in Puts \cup {<<>>}, NEW s \in Sectors,
         Image(Contents(After(put, version), s)) = Image(Contents(version, s))
  PROVE  \A r \in InSector(s) : After(put, version)[r] = version[r]
<1> DEFINE next == After(put, version)
           old == Contents(version, s)
           new == Contents(next, s)
<1>1. next \in Version
  BY AfterType
<1> HIDE DEF next
<1>2. /\ old \in [Present(version, s) -> Bytes] /\ Present(version, s) \in SUBSET InSector(s)
      /\ \A r \in Present(version, s) : old[r] = Marc(r, version[r])
  BY ContentsType
<1>3. /\ new \in [Present(next, s) -> Bytes] /\ Present(next, s) \in SUBSET InSector(s)
      /\ \A r \in Present(next, s) : new[r] = Marc(r, next[r])
  BY <1>1, ContentsType
<1>4. /\ Present(version, s) \in SUBSET Nat /\ IsFiniteSet(Present(version, s))
      /\ Present(next, s) \in SUBSET Nat /\ IsFiniteSet(Present(next, s))
  <2> HIDE DEF old, new
  <2>1. Present(version, s) \in SUBSET Nat /\ IsFiniteSet(Present(version, s))
    BY <1>2, SectorIsSmall
  <2>2. Present(next, s) \in SUBSET Nat /\ IsFiniteSet(Present(next, s))
    BY <1>3, SectorIsSmall
  <2> QED BY <2>1, <2>2
<1>5. Concatenated(new) = Concatenated(old) /\ Cardinality(Present(next, s)) = Cardinality(Present(version, s))
  <2>1. Image(new) = Image(old)
    BY DEF next
  <2> HIDE DEF new, old
  <2>2. Image(new).data = Concatenated(new) /\ Image(old).data = Concatenated(old)
        /\ Image(new).count = Cardinality(Present(next, s)) /\ Image(old).count = Cardinality(Present(version, s))
    BY <1>2, <1>3 DEF Image
  <2> QED BY <2>1, <2>2
<1>6. Present(version, s) \subseteq Present(next, s)
  BY PutType, RecordInSector DEF Present, next, After
<1>7. Present(next, s) = Present(version, s)
  BY <1>4, <1>5, <1>6, FS_Subset
<1> HIDE DEF new, old
<1>8. ASSUME NEW r \in Present(version, s)
      PROVE  next[r] = version[r]
  <2>1. /\ r \in Records /\ next[r] \in Nat \ {0} /\ Len(new[r]) = next[r] /\ new[r][1] = <<r, next[r]>>
    BY <1>1, <1>3, <1>7, MarcType, RecordInSector DEF Version, Present
  <2>2. <<r, 1>> \in BytesOf(new, Present(next, s))
    <3>1. new \in [Present(next, s) -> Seq(Records \X Versions)]
      BY <1>3 DEF Bytes
    <3>2. r \in Present(next, s) /\ 1 \in 1..Len(new[r])
      BY <2>1, <1>7
    <3> DEFINE b == <<r, 1>>
    <3>3. b = <<b[1], b[2]>> /\ b[1] \in Present(next, s) /\ b[2] \in 1..Len(new[b[1]])
      BY <3>2
    <3> HIDE DEF b
    <3>4. b \in BytesOf(new, Present(next, s))
      BY <3>1, <3>3, InBytes
    <3> QED BY <3>4 DEF b
  <2> DEFINE k == Position(new, <<r, 1>>)
  <2>3. /\ k \in 1..Cardinality(BytesOf(new, Present(next, s)))
        /\ Concatenated(new)[k] = <<r, next[r]>>
    <3>1. new \in [Present(next, s) -> Seq(Records \X Versions)]
      BY <1>3 DEF Bytes
    <3>2. k \in 1..Cardinality(BytesOf(new, Present(next, s)))
      BY <2>2, <3>1, <1>4, PositionRange
    <3>3. Concatenated(new)[k] = new[<<r, 1>>[1]][<<r, 1>>[2]]
      <4>1. \A b \in BytesOf(new, Present(next, s)) :
              Concatenated(new)[Position(new, b)] = new[b[1]][b[2]]
        BY <3>1, <1>4, ConcatenatedIs
      <4> QED BY <4>1, <2>2
    <3> QED BY <3>2, <3>3, <2>1
  <2>4. Cardinality(BytesOf(new, Present(next, s))) = Cardinality(BytesOf(old, Present(version, s)))
    <3>1. /\ Len(Concatenated(new)) = Cardinality(BytesOf(new, Present(next, s)))
          /\ Len(Concatenated(old)) = Cardinality(BytesOf(old, Present(version, s)))
      BY <1>2, <1>3, <1>4, ConcatenatedIs DEF Bytes
    <3> QED BY <3>1, <1>5
  <2> HIDE DEF k
  <2>5. PICK b \in BytesOf(old, Present(version, s)) : Position(old, b) = k
    <3>1. old \in [Present(version, s) -> Seq(Records \X Versions)]
      BY <1>2 DEF Bytes
    <3>2. k \in 1..Cardinality(BytesOf(old, Present(version, s)))
      BY <2>3, <2>4
    <3> QED BY <3>1, <3>2, <1>4, PositionOnto
  <2>6. Concatenated(old)[k] = old[b[1]][b[2]] /\ b[1] \in Present(version, s) /\ b[2] \in 1..Len(old[b[1]])
    <3>1. old \in [Present(version, s) -> Seq(Records \X Versions)]
      BY <1>2 DEF Bytes
    <3>2. Concatenated(old)[Position(old, b)] = old[b[1]][b[2]]
      BY <3>1, <1>4, ConcatenatedIs
    <3> QED BY <3>1, <3>2, <2>5, InBytes
  <2>7. old[b[1]][b[2]] = <<b[1], version[b[1]]>>
    <3>1. old[b[1]] = Marc(b[1], version[b[1]])
      BY <1>2, <2>6
    <3>2. b[1] \in Records
      BY <1>2, <2>6, RecordInSector
    <3>3. Len(old[b[1]]) = version[b[1]]
      BY <3>1, <3>2, MarcType DEF Version
    <3> QED BY <3>1, <3>3, <2>6 DEF Marc
  <2>8. <<r, next[r]>> = <<b[1], version[b[1]]>>
    BY <1>5, <2>3, <2>6, <2>7
  <2> QED BY <2>8
<1> SUFFICES ASSUME NEW r \in InSector(s) PROVE next[r] = version[r]
  BY DEF next
<1>9. CASE r \in Present(version, s)
  BY <1>8, <1>9
<1>10. CASE r \notin Present(version, s)
  BY <1>7, <1>10 DEF Present
<1> QED BY <1>9, <1>10
-------------------------------------------------------------------------------
(* The initial states *)

\* The empty values are of their types.
LEMMA Empty ==
  /\ DOMAIN <<>> = {}
  /\ \A D, V : <<>> \in Partial(D, V)
  /\ NoBytes \in Bytes
  /\ NoRow \in Row
  /\ NoSector \in SectorRow
<1>1. DOMAIN <<>> = {}
  OBVIOUS
<1>2. ASSUME NEW D, NEW V PROVE <<>> \in Partial(D, V)
  <2>1. <<>> \in [{} -> V]
    OBVIOUS
  <2> QED BY <2>1 DEF Partial
<1>3. <<>> \in Bytes
  BY EmptySeq DEF Bytes
<1>4. NoRow \in Row
  BY DEF NoRow, Row
<1>5. NoSector \in SectorRow
  BY <1>3, SizesAssumption DEF NoSector, SectorRow
<1> QED BY <1>1, <1>2, <1>3, <1>4, <1>5 DEF NoBytes

\* Membership in Partial.
LEMMA InPartial ==
  ASSUME NEW D, NEW V, NEW f
  PROVE  f \in Partial(D, V) <=> f \in [DOMAIN f -> V] /\ DOMAIN f \subseteq D
BY DEF Partial

\* A session that has not begun or has ended has nothing pending.
LEMMA IdleSessions ==
  /\ Idle \in Sessions /\ Committed \in Sessions /\ RolledBack \in Sessions
  /\ Planned(Idle) /\ Planned(Committed) /\ Planned(RolledBack)
  /\ Idle.dirty = <<>> /\ Committed.dirty = <<>> /\ RolledBack.dirty = <<>>
  /\ Idle.rows = <<>> /\ Committed.rows = <<>> /\ RolledBack.rows = <<>>
<1>1. <<>> \in Seq(Sectors) /\ Len(<<>>) = 0
  BY EmptySeq
<1>2. Idle \in Sessions
  BY <1>1, Empty DEF Idle, Sessions
<1>3. Committed \in Sessions /\ RolledBack \in Sessions
  BY <1>2 DEF Committed, RolledBack, Sessions
<1>4. /\ Idle.dirty = <<>> /\ Committed.dirty = <<>> /\ RolledBack.dirty = <<>>
      /\ Idle.rows = <<>> /\ Committed.rows = <<>> /\ RolledBack.rows = <<>>
      /\ Idle.todo = <<>> /\ Committed.todo = <<>> /\ RolledBack.todo = <<>>
      /\ Idle.at = "idle" /\ Committed.at = "done" /\ RolledBack.at = "failed"
  BY DEF Idle, Committed, RolledBack
<1>5. IsInjective(<<>>)
  BY Empty DEF IsInjective
<1> QED BY <1>1, <1>2, <1>3, <1>4, <1>5 DEF Planned

\* A sector without records has no row.
LEMMA EmptyImage ==
  ASSUME NEW version \in Version, NEW s \in Sectors, DOMAIN Contents(version, s) = {}
  PROVE  Image(Contents(version, s)) = NoSector
<1> DEFINE c == Contents(version, s)
<1>1. Present(version, s) = {} /\ c \in [{} -> Bytes]
  BY ContentsType
<1> HIDE DEF c
<1>2. BytesOf(c, {}) = {}
  BY DEF BytesOf
<1>3. Concatenated(c) \in Seq(Records \X Versions) /\ Len(Concatenated(c)) = 0
  BY <1>1, <1>2, FS_EmptySet, ConcatenatedIs DEF Bytes
<1>4. Concatenated(c) = <<>>
  BY <1>3, EmptySeq
<1>5. Cardinality(DOMAIN c) = 0
  BY <1>1, FS_EmptySet
<1>6. Image(c) = NoSector
  BY <1>4, <1>5 DEF Image, NoSector
<1> QED BY <1>6 DEF c

\* The database may start with any contents, written properly.
LEMMA InitInv == Init => MarcInv
<1> SUFFICES ASSUME Init PROVE MarcInv
  OBVIOUS
<1> USE DEF Init
<1>1. stored \in Version
  BY InputsAssumption DEF Version
<1>2. PICK version \in Version : version = stored
  BY <1>1
<1>3. ASSUME NEW s \in Sectors PROVE sectors[s] = Image(Contents(version, s)) /\ sectors[s] \in SectorRow
  <2>1. DOMAIN Contents(version, s) = {} => Image(Contents(version, s)) = NoSector
    BY EmptyImage
  <2> QED BY <2>1, <1>2, ContentsType
<1>4. ASSUME NEW r \in Records PROVE index[r] = RowOf(version, r) /\ index[r] \in Row
  <2>1. index[r] = RowOf(version, r)
    BY <1>2 DEF RowOf
  <2> QED BY <2>1, RowOfIs
<1>5. Types
  <2>1. NoRead \in Reads
    BY Empty DEF NoRead, Reads
  <2>2. sectors \in [Sectors -> SectorRow] /\ index \in [Records -> Row]
    BY <1>3, <1>4
  <2> QED BY <2>1, <2>2, <1>1, IdleSessions, Empty DEF Types, Version
<1>6. Plans /\ OneAtWork
  BY IdleSessions, Empty DEF Plans, OneAtWork
<1>7. Tables
  BY <1>2, <1>3, <1>4, RecordInSector DEF Tables
<1>8. Changes
  BY IdleSessions, Empty DEF Changes, Pending
<1>9. CacheFits
  BY IdleSessions, Empty DEF CacheFits, Cached, Fresh, NoRead
<1> QED BY <1>5, <1>6, <1>7, <1>8, <1>9 DEF MarcInv

-------------------------------------------------------------------------------
(* Steps of a session that write nothing *)

\* A session that changes neither what it has written nor, unless it drops
\* that, what it is to write disturbs nobody.
LEMMA SessionStep ==
  ASSUME MarcInv, NEW w \in Writers, NEW q \in Sessions,
         session' = [session EXCEPT ![w] = q], Planned(q),
         \/ q.dirty = session[w].dirty /\ q.rows = session[w].rows /\ q.put = session[w].put
         \/ q.dirty = <<>> /\ q.rows = <<>>,
         UNCHANGED <<sectors, index, stored, cache, read, raced, crossed, uncleared>>
  PROVE  MarcInv'
<1>1. session \in [Writers -> Sessions]
  BY DEF MarcInv, Types
<1>2. /\ session' \in [Writers -> Sessions] /\ session'[w] = q
      /\ \A v \in Writers \ {w} : session'[v] = session[v]
  BY <1>1
<1>3. \A v \in Writers :
        \/ /\ session'[v].dirty = session[v].dirty /\ session'[v].rows = session[v].rows
           /\ session'[v].put = session[v].put
        \/ session'[v].dirty = <<>> /\ session'[v].rows = <<>>
  BY <1>2
<1>4. Types'
  BY <1>2 DEF MarcInv, Types
<1>5. Plans'
  BY <1>2 DEF MarcInv, Plans
<1>6. OneAtWork'
  BY <1>3, Empty DEF MarcInv, OneAtWork
<1>7. Tables'
  BY DEF MarcInv, Tables
<1>8. Changes'
  <2> SUFFICES ASSUME NEW s \in Sectors \ raced, NEW v \in Writers
               PROVE  Pending(session[v], s)'
    BY DEF Changes
  <2>1. Pending(session[v], s)
    BY DEF MarcInv, Changes
  <2>2. CASE session'[v].dirty = <<>> /\ session'[v].rows = <<>>
    BY <2>2, Empty DEF Pending
  <2>3. CASE /\ session'[v].dirty = session[v].dirty /\ session'[v].rows = session[v].rows
             /\ session'[v].put = session[v].put
    BY <2>1, <2>3 DEF Pending
  <2> QED BY <1>3, <2>2, <2>3
<1>9. CacheFits'
  BY <1>3, Empty DEF MarcInv, CacheFits, Cached, Fresh
<1> QED BY <1>4, <1>5, <1>6, <1>7, <1>8, <1>9 DEF MarcInv

\* A transaction starts: a buffer of puts or a compaction.
LEMMA BeginInv == ASSUME MarcInv, NEW w \in Writers, Begin(w) PROVE MarcInv'
<1>1. ASSUME NEW put \in Puts, NEW order \in Orders({SectorOf(r) : r \in DOMAIN put}),
             session' = [session EXCEPT ![w] = [Idle EXCEPT !.at = "begun", !.todo = order, !.put = put]]
      PROVE  MarcInv'
  <2> DEFINE ids == {SectorOf(r) : r \in DOMAIN put}
             q == [Idle EXCEPT !.at = "begun", !.todo = order, !.put = put]
  <2>1. DOMAIN put \subseteq Records /\ DOMAIN put # {}
    BY InputsAssumption
  <2>2. ids \subseteq Sectors /\ ids # {}
    <3>1. PICK r \in DOMAIN put : TRUE
      BY <2>1
    <3>2. SectorOf(r) \in ids
      OBVIOUS
    <3>3. \A x \in DOMAIN put : SectorOf(x) \in Sectors
      BY <2>1, RecordInSector
    <3> QED BY <3>2, <3>3
  <2>3. IsFiniteSet(ids) /\ Cardinality(ids) \in Nat
    <3> DEFINE f == [r \in DOMAIN put |-> SectorOf(r)]
    <3>1. f \in Surjection(DOMAIN put, ids)
      BY DEF Surjection
    <3>2. IsFiniteSet(DOMAIN put)
      BY <2>1, RecordsAssumption, FS_Subset
    <3> HIDE DEF f
    <3> QED BY <3>1, <3>2, FS_Surjection, FS_CardinalityType
  <2>4. order \in [1..Cardinality(ids) -> ids] /\ IsInjective(order) /\ (\A t \in ids : \E i \in 1..Cardinality(ids) : order[i] = t)
    BY DEF Orders, Bijection, Injection, Surjection
  <2> HIDE DEF ids
  <2>5. order \in Seq(Sectors) /\ order # <<>>
    <3>1. PICK n \in Nat : n = Cardinality(ids)
      BY <2>3
    <3>2. order \in [1..n -> Sectors]
      BY <3>1, <2>2, <2>4
    <3>3. order \in Seq(Sectors) /\ Len(order) = n
      BY <3>2
    <3>4. PICK t \in ids : TRUE
      BY <2>2
    <3>5. \E i \in 1..n : order[i] = t
      BY <2>4, <3>1
    <3>6. n # 0
      BY <3>5
    <3> QED BY <3>3, <3>6, EmptySeq
  <2>6. /\ q \in Sessions /\ q.todo = order /\ q.at = "begun" /\ q.dirty = <<>> /\ q.rows = <<>>
    BY <2>5, IdleSessions DEF Idle, Sessions
  <2>7. session' = [session EXCEPT ![w] = q]
    BY <1>1
  <2> HIDE DEF q
  <2>8. Planned(q)
    BY <2>4, <2>5, <2>6, Empty DEF Planned
  <2> QED BY <2>6, <2>7, <2>8, SessionStep DEF Begin, tables
<1>2. ASSUME NEW s \in Sectors,
             session' = [session EXCEPT ![w] = [Idle EXCEPT !.at = "begun", !.todo = <<s>>, !.kind = "compact"]]
      PROVE  MarcInv'
  <2> DEFINE q == [Idle EXCEPT !.at = "begun", !.todo = <<s>>, !.kind = "compact"]
  <2>1. <<s>> \in Seq(Sectors) /\ <<s>> # <<>> /\ IsInjective(<<s>>) /\ Len(<<s>>) = 1
    <3>1. <<s>> \in Seq(Sectors) /\ Len(<<s>>) = 1
      OBVIOUS
    <3>2. DOMAIN <<s>> = {1}
      OBVIOUS
    <3>3. IsInjective(<<s>>)
      BY <3>2 DEF IsInjective
    <3> QED BY <3>1, <3>3, EmptySeq
  <2>2. /\ q \in Sessions /\ q.todo = <<s>> /\ q.at = "begun" /\ q.dirty = <<>> /\ q.rows = <<>>
    BY <2>1, IdleSessions DEF Idle, Sessions
  <2>3. session' = [session EXCEPT ![w] = q]
    BY <1>2
  <2> HIDE DEF q
  <2>4. Planned(q)
    BY <2>1, <2>2, Empty DEF Planned
  <2> QED BY <2>2, <2>3, <2>4, SessionStep DEF Begin, tables
<1> QED BY <1>1, <1>2 DEF Begin

\* The sector is read.
LEMMA SelectSectorInv == ASSUME MarcInv, NEW w \in Writers, SelectSector(w) PROVE MarcInv'
<1> PICK x \in Sessions : x = session[w]
  BY DEF MarcInv, Types
<1>1. Planned(x)
  BY DEF MarcInv, Plans
<1>2. x.todo # <<>> /\ Head(x.todo) \in Sectors
  BY <1>1, HeadTailProperties DEF SelectSector, Planned, Sessions
<1>3. PICK found \in SectorRow : found = sectors[Target(w)]
  BY <1>2 DEF MarcInv, Types, Target
<1> DEFINE q == [x EXCEPT !.seen = found,
                          !.loaded = IF x.kind = "put" THEN <<>> ELSE @,
                          !.at = IF x.kind = "put" /\ found # NoSector THEN "half" ELSE "ready"]
<1>4. session' = [session EXCEPT ![w] = q]
  <2>1. session' = [session EXCEPT ![w] = [session[w] EXCEPT
                      !.seen = sectors[Target(w)],
                      !.loaded = IF session[w].kind = "put" THEN <<>> ELSE @,
                      !.at = IF session[w].kind = "put" /\ sectors[Target(w)] # NoSector
                             THEN "half" ELSE "ready"]]
    BY DEF SelectSector
  <2>2. q = [session[w] EXCEPT
                      !.seen = sectors[Target(w)],
                      !.loaded = IF session[w].kind = "put" THEN <<>> ELSE @,
                      !.at = IF session[w].kind = "put" /\ sectors[Target(w)] # NoSector
                             THEN "half" ELSE "ready"]
    BY <1>3
  <2> QED BY <2>1, <2>2
<1>5. /\ q \in Sessions /\ q.dirty = x.dirty /\ q.rows = x.rows /\ q.put = x.put /\ q.todo = x.todo
      /\ q.loaded = (IF x.kind = "put" THEN <<>> ELSE x.loaded) /\ q.kind = x.kind
      /\ q.at \in {"half", "ready"}
      /\ q.at = "half" => q.kind = "put"
  BY Empty DEF Sessions
<1>6. x.kind # "put" => x.kind = "compact" /\ x.at = "half"
  BY DEF SelectSector, Sessions
<1> HIDE DEF q
<1>7. Planned(q)
  BY <1>1, <1>2, <1>5, <1>6, Empty DEF Planned
<1>8. UNCHANGED <<sectors, index, stored, cache, read, raced, crossed, uncleared>>
  BY DEF SelectSector, tables
<1> QED BY <1>4, <1>5, <1>7, <1>8, SessionStep

\* Its index rows are read.
LEMMA SelectRowsInv == ASSUME MarcInv, NEW w \in Writers, SelectRows(w) PROVE MarcInv'
<1> PICK x \in Sessions : x = session[w]
  BY DEF MarcInv, Types
<1>1. Planned(x)
  BY DEF MarcInv, Plans
<1>2. x.todo # <<>> /\ Head(x.todo) \in Sectors
  BY <1>1, HeadTailProperties DEF SelectRows, Planned, Sessions
<1>3. PICK loaded \in Partial(Records, Row) :
        /\ loaded = Restrict(index, {r \in InSector(Target(w)) : index[r] # NoRow})
        /\ DOMAIN loaded \subseteq InSector(Head(x.todo))
  <2> DEFINE found == {r \in InSector(Target(w)) : index[r] # NoRow}
             f == [r \in found |-> index[r]]
  <2>1. found \subseteq InSector(Head(x.todo))
    BY DEF Target
  <2>2. found \subseteq Records
    BY <1>2, <2>1, RecordInSector
  <2>3. \A r \in found : index[r] \in Row
    BY <2>2 DEF MarcInv, Types
  <2> HIDE DEF found
  <2>4. f \in [found -> Row] /\ DOMAIN f = found
    BY <2>3
  <2>5. f \in Partial(Records, Row)
    BY <2>2, <2>4, InPartial
  <2>6. f = Restrict(index, found)
    BY DEF Restrict
  <2> HIDE DEF f
  <2> QED BY <2>1, <2>4, <2>5, <2>6 DEF found
<1> DEFINE q == [x EXCEPT !.loaded = loaded,
                          !.at = IF x.kind = "put" THEN "ready" ELSE "half"]
<1>4. session' = [session EXCEPT ![w] = q]
  BY <1>3 DEF SelectRows
<1>5. /\ q \in Sessions /\ q.dirty = x.dirty /\ q.rows = x.rows /\ q.put = x.put /\ q.todo = x.todo
      /\ q.loaded = loaded /\ q.at \in {"half", "ready"}
  BY DEF Sessions
<1> HIDE DEF q
<1>6. Planned(q)
  BY <1>1, <1>2, <1>3, <1>5 DEF Planned
<1>7. UNCHANGED <<sectors, index, stored, cache, read, raced, crossed, uncleared>>
  BY DEF SelectRows, tables
<1> QED BY <1>4, <1>5, <1>6, <1>7, SessionStep

\* A transaction that ends without a change.
LEMMA EndInv ==
  ASSUME MarcInv, NEW w \in Writers, Skip(w) \/ Conflict(w) \/ Victim(w) \/ Abort(w)
  PROVE  MarcInv'
<1>1. /\ session' = [session EXCEPT ![w] = Committed] \/ session' = [session EXCEPT ![w] = RolledBack]
      /\ UNCHANGED <<sectors, index, stored, cache, read, raced, crossed, uncleared>>
  BY DEF Skip, Conflict, Victim, Abort, tables
<1> QED BY <1>1, IdleSessions, SessionStep
-------------------------------------------------------------------------------
(* Writing *)

\* What a session makes of its sector, whatever it has read.
LEMMA NewRecordsType ==
  ASSUME MarcInv, NEW w \in Writers, session[w].at = "ready"
  PROVE  /\ session[w].todo # <<>> /\ Target(w) \in Sectors
         /\ DOMAIN NewRecords(w) \in SUBSET InSector(Target(w))
         /\ NewRecords(w) \in [DOMAIN NewRecords(w) -> Bytes]
<1> PICK x \in Sessions : x = session[w]
  BY DEF MarcInv, Types
<1>1. Planned(x) /\ x.at = "ready"
  BY DEF MarcInv, Plans
<1>2. x.todo # <<>> /\ Head(x.todo) \in Sectors
  BY <1>1, HeadTailProperties DEF Planned, Sessions
<1>3. PICK t \in Sectors : t = Target(w) /\ t = Head(x.todo)
  BY <1>2 DEF Target
<1> DEFINE P == {r \in DOMAIN x.put : SectorOf(r) = t}
           fresh == [r \in P |-> Marc(r, x.put[r])]
           kept == [r \in DOMAIN x.loaded |-> Slice(x.seen.data, x.loaded[r])]
<1>4. NewRecords(w) = Over(fresh, kept)
  BY <1>3 DEF NewRecords, Buffered, Parsed
<1>5. P \subseteq InSector(t) /\ fresh \in [P -> Bytes]
  <2>1. P \subseteq InSector(t)
    BY PutType DEF InSector, Sessions
  <2>2. ASSUME NEW r \in P PROVE Marc(r, x.put[r]) \in Bytes
    <3>1. r \in Records /\ x.put[r] \in Versions
      BY PutType DEF Sessions
    <3> QED BY <3>1, MarcType
  <2> QED BY <2>1, <2>2
<1>6. DOMAIN x.loaded \subseteq InSector(t) /\ kept \in [DOMAIN x.loaded -> Bytes]
  <2>1. DOMAIN x.loaded \subseteq InSector(t)
    BY <1>1, <1>3 DEF Planned
  <2>2. x.loaded \in [DOMAIN x.loaded -> Row] /\ x.seen.data \in Bytes
    BY InPartial DEF Sessions, SectorRow
  <2>3. ASSUME NEW r \in DOMAIN x.loaded PROVE Slice(x.seen.data, x.loaded[r]) \in Bytes
    BY <2>2, SliceType
  <2> QED BY <2>1, <2>3
<1> HIDE DEF P, fresh, kept
<1>7. Over(fresh, kept) \in [P \cup DOMAIN x.loaded -> Bytes]
  BY <1>5, <1>6 DEF Over
<1> QED BY <1>2, <1>3, <1>4, <1>5, <1>6, <1>7

\* A session that has read what is committed makes of its sector what is
\* stored there with the new records.
LEMMA NewRecordsAre ==
  ASSUME MarcInv, NEW w \in Writers, session[w].at = "ready",
         Current(w), Target(w) \notin raced, NEW version \in Version, version = stored
  PROVE  NewRecords(w) = Contents(After(session[w].put, version), Target(w))
<1> PICK x \in Sessions : x = session[w]
  BY DEF MarcInv, Types
<1>1. PICK t \in Sectors : t = Target(w)
  BY NewRecordsType
<1> DEFINE old == Contents(version, t)
           P == {r \in DOMAIN x.put : SectorOf(r) = t}
           fresh == [r \in P |-> Marc(r, x.put[r])]
           next == After(x.put, version)
<1>2. /\ x.seen = Image(old)
      /\ x.loaded = Restrict(index, {r \in InSector(t) : index[r] # NoRow})
      /\ \A r \in InSector(t) : index[r] = RowOf(version, r)
  <2>1. sectors[t] = Image(old) /\ (\A r \in InSector(t) : index[r] = RowOf(stored, r))
    BY <1>1 DEF MarcInv, Tables
  <2>2. x.seen = sectors[t] /\ x.loaded = Restrict(index, {r \in InSector(t) : index[r] # NoRow})
    BY <1>1 DEF Current
  <2> QED BY <2>1, <2>2
<1>3. old \in [Present(version, t) -> Bytes] /\ (\A r \in Present(version, t) : old[r] = Marc(r, version[r]))
  BY ContentsType
<1>4. {r \in InSector(t) : index[r] # NoRow} = Present(version, t)
  BY <1>2, RowOfIs, RecordInSector DEF Present
<1>5. /\ DOMAIN x.loaded = Present(version, t)
      /\ \A r \in Present(version, t) : x.loaded[r] = RowOf(version, r)
  <2>1. x.loaded = [r \in Present(version, t) |-> index[r]]
    BY <1>2, <1>4 DEF Restrict
  <2> QED BY <2>1, <1>2 DEF Present
<1>6. Parsed(x.seen, x.loaded) = old
  <2>1. ASSUME NEW r \in Present(version, t) PROVE Slice(x.seen.data, x.loaded[r]) = old[r]
    <3>1. r \in Records /\ SectorOf(r) = t
      BY RecordInSector DEF Present
    <3> QED BY <3>1, <1>2, <1>3, <1>5, RecordSliced
  <2>2. Parsed(x.seen, x.loaded) = [r \in Present(version, t) |-> Slice(x.seen.data, x.loaded[r])]
    BY <1>5 DEF Parsed
  <2> HIDE DEF old
  <2> QED BY <2>1, <2>2, <1>3
<1>7. NewRecords(w) = Over(fresh, old)
  <2>1. NewRecords(w) = Over(fresh, Parsed(x.seen, x.loaded))
    BY <1>1 DEF NewRecords, Buffered
  <2> QED BY <2>1, <1>6
<1>8. next \in Version /\ DOMAIN x.put \subseteq Records /\ (\A r \in DOMAIN x.put : x.put[r] # 0)
  BY AfterType, PutType DEF Sessions
<1>9. P \cup Present(version, t) = Present(next, t)
  BY <1>8 DEF Present, After, InSector
<1>10. ASSUME NEW r \in Present(next, t)
       PROVE  Over(fresh, old)[r] = Contents(next, t)[r]
  <2>1. Contents(next, t)[r] = Marc(r, next[r])
    BY <1>8, ContentsType
  <2>2. r \in P \cup Present(version, t) /\ r \in Records
    BY <1>9, RecordInSector DEF Present
  <2>3. CASE r \in P
    BY <2>1, <2>2, <2>3 DEF Over, After
  <2>4. CASE r \notin P
    <3>1. r \notin DOMAIN x.put
      BY <2>4, RecordInSector DEF Present
    <3>2. r \in Present(version, t) /\ old[r] = Marc(r, version[r]) /\ next[r] = version[r]
      BY <2>2, <2>4, <3>1, <1>3 DEF After
    <3>3. Over(fresh, old)[r] = old[r]
      BY <3>2, <2>4, <1>3 DEF Over
    <3> QED BY <3>2, <3>3, <2>1
  <2> QED BY <2>3, <2>4
<1>11. DOMAIN fresh = P /\ DOMAIN old = Present(version, t)
  BY <1>3
<1> HIDE DEF fresh, old, next
<1>12. Over(fresh, old) = [r \in Present(next, t) |-> Over(fresh, old)[r]]
  BY <1>9, <1>11 DEF Over
<1>13. Contents(next, t) = [r \in Present(next, t) |-> Contents(next, t)[r]]
  BY <1>8, ContentsType
<1> QED BY <1>1, <1>7, <1>10, <1>12, <1>13 DEF next

\* The UPDATE or INSERT of a sector: what is to be committed is the sector with
\* the new records if what was read is still committed; if not, the sector is raced.
LEMMA WriteInv == ASSUME MarcInv, NEW w \in Writers, Write(w) PROVE MarcInv'
<1>1. session[w].at = "ready"
  BY DEF Write, CanWrite
<1> PICK x \in Sessions : x = session[w]
  BY DEF MarcInv, Types
<1> PICK version \in Version : version = stored
  BY DEF MarcInv, Types, Version
<1>2. Planned(x) /\ x.at = "ready" /\ x.todo # <<>>
  BY <1>1 DEF MarcInv, Plans, Planned
<1>3. PICK t \in Sectors : t = Target(w) /\ t = Head(x.todo)
  BY <1>1, NewRecordsType DEF Target
<1>4. PICK new : new = NewRecords(w)
  OBVIOUS
<1>5. DOMAIN new \in SUBSET InSector(t) /\ new \in [DOMAIN new -> Bytes]
  BY <1>1, <1>3, <1>4, NewRecordsType
<1>6. Image(new) \in SectorRow /\ Rows(new) \in [DOMAIN new -> Row] /\ DOMAIN new \subseteq Records
  BY <1>5, ImageType, RecordInSector
<1>7. PICK rows : rows = RowsToWrite(w, new)
  OBVIOUS
<1>8. /\ rows \in [DOMAIN new -> [row : Row, was : Row]]
      /\ \A r \in DOMAIN new :
           rows[r] = [row |-> Rows(new)[r], was |-> IF r \in DOMAIN x.loaded THEN x.loaded[r] ELSE index[r]]
  <2>1. x.loaded \in [DOMAIN x.loaded -> Row]
    BY InPartial DEF Sessions
  <2>2. index \in [Records -> Row]
    BY DEF MarcInv, Types
  <2>3. DOMAIN Rows(new) = DOMAIN new
    BY <1>6
  <2>4. rows = [r \in DOMAIN new |->
                  [row |-> Rows(new)[r], was |-> IF r \in DOMAIN x.loaded THEN x.loaded[r] ELSE index[r]]]
    BY <1>7, <2>3 DEF RowsToWrite
  <2> QED BY <1>6, <2>1, <2>2, <2>4
<1> DEFINE changed == Image(new) # x.seen
           y == [x EXCEPT !.dirty = IF changed THEN Over([s \in {t} |-> Image(new)], x.dirty) ELSE @,
                          !.rows = Over(rows, x.rows),
                          !.todo = Tail(x.todo),
                          !.at = IF Len(x.todo) > 1 THEN "begun" ELSE "commit"]
<1>9. /\ session' = [session EXCEPT ![w] = y]
      /\ cache' \in {cache, [r \in Records |-> IF r \in DOMAIN new THEN NoBytes ELSE cache[r]]}
      /\ \A r \in Records \ uncleared' :
           /\ cache'[r] = IF r \in DOMAIN new THEN NoBytes ELSE cache[r]
           /\ r \in DOMAIN new \/ r \notin uncleared
      /\ uncleared' \in SUBSET Records
      /\ raced' = IF Current(w) THEN raced ELSE raced \cup {t}
      /\ UNCHANGED <<sectors, index, stored, read, crossed>>
  <2>1. session' = Written(w) /\ UNCHANGED <<sectors, index, stored, read, crossed>>
    BY DEF Write, tables
  <2>2. session' = [session EXCEPT ![w] = y]
    BY <2>1, <1>3, <1>4, <1>7 DEF Written
  <2>3. raced' = IF Current(w) THEN raced ELSE raced \cup {t}
    BY <1>3 DEF Write
  <2>4. \/ /\ cache' = [r \in Records |-> IF r \in DOMAIN new THEN NoBytes ELSE cache[r]]
           /\ uncleared' = uncleared \ DOMAIN new
        \/ /\ uncleared' = uncleared \cup {r \in DOMAIN new : cache[r] # NoBytes}
           /\ cache' = cache
    BY <1>4 DEF Write
  <2>5. uncleared \in SUBSET Records /\ cache \in [Records -> Bytes] /\ DOMAIN new \subseteq Records
    BY <1>6 DEF MarcInv, Types
  <2> QED BY <2>1, <2>2, <2>3, <2>4, <2>5
<1>10. /\ x.dirty \in [DOMAIN x.dirty -> SectorRow] /\ DOMAIN x.dirty \subseteq Sectors
       /\ x.rows \in [DOMAIN x.rows -> [row : Row, was : Row]] /\ DOMAIN x.rows \subseteq Records
       /\ t \notin DOMAIN x.dirty /\ DOMAIN x.rows \cap InSector(t) = {}
  <2>1. Len(x.todo) \in Nat /\ 1 \in 1..Len(x.todo) /\ x.todo[1] = t
    BY <1>2, <1>3, EmptySeq, LenProperties DEF Sessions
  <2>2. t \notin DOMAIN x.dirty /\ DOMAIN x.rows \cap InSector(t) = {}
    BY <2>1, <1>2 DEF Planned
  <2>3. x.dirty \in Partial(Sectors, SectorRow) /\ x.rows \in Partial(Records, [row : Row, was : Row])
    BY DEF Sessions
  <2>4. x.dirty \in [DOMAIN x.dirty -> SectorRow] /\ DOMAIN x.dirty \subseteq Sectors
    BY <2>3, InPartial
  <2>5. x.rows \in [DOMAIN x.rows -> [row : Row, was : Row]] /\ DOMAIN x.rows \subseteq Records
    BY <2>3, InPartial
  <2> QED BY <2>2, <2>4, <2>5
<1>11. PICK dirty : dirty = IF changed THEN Over([s \in {t} |-> Image(new)], x.dirty) ELSE x.dirty
  OBVIOUS
<1>12. /\ dirty \in Partial(Sectors, SectorRow)
       /\ DOMAIN dirty = IF changed THEN DOMAIN x.dirty \cup {t} ELSE DOMAIN x.dirty
       /\ changed => dirty[t] = Image(new)
       /\ \A s \in DOMAIN x.dirty : dirty[s] = x.dirty[s]
  <2>1. CASE ~changed
    BY <2>1, <1>10, <1>11, InPartial
  <2>2. CASE changed
    <3>1. dirty = [s \in {t} \cup DOMAIN x.dirty |-> IF s \in {t} THEN Image(new) ELSE x.dirty[s]]
      BY <2>2, <1>11 DEF Over
    <3>2. dirty \in [{t} \cup DOMAIN x.dirty -> SectorRow] /\ DOMAIN dirty = DOMAIN x.dirty \cup {t}
      BY <3>1, <1>6, <1>10
    <3>3. dirty \in Partial(Sectors, SectorRow)
      BY <3>2, <1>10, InPartial
    <3> QED BY <2>2, <3>1, <3>2, <3>3, <1>10
  <2> QED BY <2>1, <2>2
<1>13. PICK all : all = Over(rows, x.rows)
  OBVIOUS
<1>14. /\ all \in Partial(Records, [row : Row, was : Row])
       /\ DOMAIN all = DOMAIN new \cup DOMAIN x.rows
       /\ \A r \in DOMAIN new : all[r] = rows[r]
       /\ \A r \in DOMAIN x.rows \ DOMAIN new : all[r] = x.rows[r]
  <2>1. all = [r \in DOMAIN new \cup DOMAIN x.rows |-> IF r \in DOMAIN new THEN rows[r] ELSE x.rows[r]]
    BY <1>8, <1>13 DEF Over
  <2>2. all \in [DOMAIN new \cup DOMAIN x.rows -> [row : Row, was : Row]] /\ DOMAIN all = DOMAIN new \cup DOMAIN x.rows
    BY <2>1, <1>8, <1>10
  <2>3. all \in Partial(Records, [row : Row, was : Row])
    BY <2>2, <1>6, <1>10, InPartial
  <2> QED BY <2>1, <2>2, <2>3
<1>15. /\ y \in Sessions /\ y.dirty = dirty /\ y.rows = all /\ y.put = x.put /\ y.todo = Tail(x.todo)
       /\ y.at \in {"begun", "commit"} /\ (y.at = "begun" => Len(x.todo) > 1)
  <2>1. Tail(x.todo) \in Seq(Sectors)
    BY <1>2, HeadTailProperties DEF Sessions
  <2>2. y = [x EXCEPT !.dirty = dirty, !.rows = all, !.todo = Tail(x.todo),
                      !.at = IF Len(x.todo) > 1 THEN "begun" ELSE "commit"]
    BY <1>11, <1>13
  <2> HIDE DEF y
  <2> QED BY <2>1, <2>2, <1>12, <1>14 DEF Sessions
<1> HIDE DEF y
<1>16. PICK z \in Sessions : z = y
  BY <1>15
<1>17. /\ session' \in [Writers -> Sessions] /\ session'[w] = z
       /\ \A v \in Writers \ {w} : session'[v] = session[v]
  BY <1>9, <1>16 DEF MarcInv, Types
<1>18. Types'
  <2>1. cache' \in [Records -> Bytes]
    BY <1>9, Empty DEF MarcInv, Types
  <2> QED BY <2>1, <1>9, <1>17 DEF MarcInv, Types
<1>19. Planned(z)
  <2>1. /\ Tail(x.todo) \in Seq(Sectors) /\ Len(Tail(x.todo)) = Len(x.todo) - 1 /\ Len(x.todo) \in Nat
        /\ DOMAIN x.todo = 1..Len(x.todo) /\ DOMAIN Tail(x.todo) = 1..Len(Tail(x.todo))
        /\ \A i \in 1..Len(Tail(x.todo)) : Tail(x.todo)[i] = x.todo[i + 1]
        /\ x.todo[1] = t
    BY <1>2, <1>3, HeadTailProperties, LenProperties DEF Sessions
  <2>2. ASSUME NEW i \in 1..Len(Tail(x.todo))
        PROVE  /\ i + 1 \in 1..Len(x.todo) /\ Tail(x.todo)[i] = x.todo[i + 1]
               /\ x.todo[i + 1] \in Sectors /\ x.todo[i + 1] # t
    <3>1. i + 1 \in 1..Len(x.todo) /\ 1 \in 1..Len(x.todo) /\ i + 1 # 1
      BY <2>1
    <3>2. x.todo[i + 1] # x.todo[1]
      BY <3>1, <2>1, <1>2 DEF Planned, IsInjective
    <3> QED BY <3>1, <3>2, <2>1, LenProperties DEF Sessions
  <2>3. IsInjective(Tail(x.todo))
    <3> SUFFICES ASSUME NEW i \in 1..Len(Tail(x.todo)), NEW j \in 1..Len(Tail(x.todo)),
                        Tail(x.todo)[i] = Tail(x.todo)[j]
                 PROVE  i = j
      BY <2>1 DEF IsInjective
    <3>1. x.todo[i + 1] = x.todo[j + 1] /\ i + 1 \in 1..Len(x.todo) /\ j + 1 \in 1..Len(x.todo)
      BY <2>2
    <3>2. i + 1 = j + 1
      BY <3>1, <2>1, <1>2 DEF Planned, IsInjective
    <3> QED BY <3>2
  <2>4. ASSUME NEW i \in 1..Len(Tail(x.todo))
        PROVE  Tail(x.todo)[i] \notin DOMAIN dirty /\ DOMAIN all \cap InSector(Tail(x.todo)[i]) = {}
    <3>1. PICK s \in Sectors : s = Tail(x.todo)[i] /\ s # t
      BY <2>2
    <3>2. s \notin DOMAIN x.dirty /\ DOMAIN x.rows \cap InSector(s) = {}
      BY <2>2, <3>1, <1>2 DEF Planned
    <3>3. DOMAIN new \cap InSector(s) = {}
      BY <1>5, <3>1, RecordInSector
    <3> QED BY <3>1, <3>2, <3>3, <1>12, <1>14
  <2>5. z.at = "begun" => Tail(x.todo) # <<>>
    <3>1. z.at = "begun" => Len(Tail(x.todo)) # 0
      BY <1>15, <1>16, <2>1
    <3> QED BY <3>1, EmptySeq
  <2> QED BY <2>3, <2>4, <2>5, <1>15, <1>16 DEF Planned
<1>20. Plans'
  BY <1>17, <1>19 DEF MarcInv, Plans
<1>21. OneAtWork'
  <2>1. ASSUME NEW v \in Writers \ {w} PROVE DOMAIN z.dirty \cap DOMAIN session[v].dirty = {}
    <3>1. DOMAIN x.dirty \cap DOMAIN session[v].dirty = {}
      BY DEF MarcInv, OneAtWork
    <3>2. changed => t \notin DOMAIN session[v].dirty
      BY <1>1, <1>3, <1>4 DEF Write, CanWrite, Blocked, WaitsFor, Updates
    <3> QED BY <3>1, <3>2, <1>12, <1>15, <1>16
  <2> QED BY <2>1, <1>17 DEF MarcInv, OneAtWork
<1>22. Tables'
  BY <1>9 DEF MarcInv, Tables
<1>23. Changes'
  <2> SUFFICES ASSUME NEW s \in Sectors, s \notin raced', NEW v \in Writers
               PROVE  Pending(session[v], s)'
    BY DEF Changes
  <2>0. s \notin raced /\ (s = t => Current(w))
    BY <1>9
  <2>1. CASE v # w
    BY <2>0, <2>1, <1>9, <1>17 DEF MarcInv, Changes, Pending
  <2>2. CASE v = w /\ s # t
    <3>1. Pending(x, s)
      BY <2>0 DEF MarcInv, Changes
    <3>2. s \in DOMAIN z.dirty <=> s \in DOMAIN x.dirty
      BY <2>2, <1>12, <1>15, <1>16
    <3>3. s \in DOMAIN x.dirty => z.dirty[s] = x.dirty[s]
      BY <1>12, <1>15, <1>16
    <3>4. ASSUME NEW r \in InSector(s)
          PROVE  (r \in DOMAIN z.rows <=> r \in DOMAIN x.rows) /\ (r \in DOMAIN x.rows => z.rows[r] = x.rows[r])
      <4>1. r \notin DOMAIN new
        BY <2>2, <1>5, RecordInSector
      <4> QED BY <4>1, <1>14, <1>15, <1>16
    <3>5. z.put = x.put
      BY <1>15, <1>16
    <3>6. Pending(z, s)
      BY <3>1, <3>2, <3>3, <3>4, <3>5 DEF Pending
    <3> QED BY <3>6, <2>2, <1>9, <1>17 DEF Pending
  <2>3. CASE v = w /\ s = t
    <3> DEFINE next == After(x.put, version)
    <3>1. new = Contents(next, t) /\ next \in Version
      BY <2>0, <2>3, <1>1, <1>3, <1>4, NewRecordsAre, AfterType DEF Sessions
    <3>2. DOMAIN new = Present(next, t)
      BY <3>1, ContentsType
    <3>3. \A r \in InSector(t) : index[r] = RowOf(version, r)
      BY <2>0, <2>3 DEF MarcInv, Tables
    <3>4. x.seen = Image(Contents(version, t)) /\ x.loaded = Restrict(index, {r \in InSector(t) : index[r] # NoRow})
      BY <2>0, <2>3, <1>3 DEF MarcInv, Tables, Current
    <3>5. ASSUME NEW r \in DOMAIN new
          PROVE  /\ r \in Records /\ SectorOf(r) = t /\ next[r] # 0
                 /\ z.rows[r] = [row |-> RowOf(next, r), was |-> index[r]]
      <4>1. r \in Records /\ SectorOf(r) = t /\ next[r] # 0 /\ r \in InSector(t)
        BY <3>2, RecordInSector DEF Present
      <4>2. Rows(new)[r] = RowOf(next, r)
        BY <4>1, <3>1, RowOfIs
      <4>3. r \in DOMAIN x.loaded => x.loaded[r] = index[r]
        BY <3>4 DEF Restrict
      <4>4. rows[r] = [row |-> RowOf(next, r), was |-> index[r]]
        BY <4>2, <4>3, <1>8
      <4> QED BY <4>1, <4>4, <1>14, <1>15, <1>16
    <3>6. \A r \in InSector(t) : r \in DOMAIN z.rows <=> r \in DOMAIN new
      BY <1>10, <1>14, <1>15, <1>16
    <3> HIDE DEF next
    <3>7. CASE changed
      <4>1. t \in DOMAIN z.dirty /\ z.dirty[t] = Image(new)
        BY <3>7, <1>12, <1>15, <1>16
      <4>2. ASSUME NEW r \in InSector(t)
            PROVE  IF r \in DOMAIN z.rows THEN z.rows[r] = [row |-> RowOf(next, r), was |-> index[r]]
                                           ELSE next[r] = 0
        BY <3>2, <3>5, <3>6 DEF Present
      <4>3. z.put = x.put
        BY <1>15, <1>16
      <4>4. Pending(z, t)
        BY <4>1, <4>2, <4>3, <3>1 DEF Pending, next
      <4> QED BY <4>4, <2>3, <1>9, <1>17 DEF Pending
    <3>8. CASE ~changed
      <4>1. t \notin DOMAIN z.dirty
        BY <3>8, <1>10, <1>12, <1>15, <1>16
      <4>2. Image(Contents(next, t)) = Image(Contents(version, t))
        BY <3>8, <3>1, <3>4
      <4>3. \A r \in InSector(t) : next[r] = version[r]
        BY <4>2, SameImage DEF Sessions, next
      <4>4. \A r \in InSector(t) : RowOf(next, r) = RowOf(version, r)
        BY <4>3, ContentsSame
      <4>5. ASSUME NEW r \in InSector(t) \cap DOMAIN z.rows
            PROVE  z.rows[r].row = z.rows[r].was /\ z.rows[r].was # NoRow
        <5>1. r \in DOMAIN new
          BY <3>6
        <5>2. RowOf(next, r) # NoRow
          BY <5>1, <3>1, <3>5, RowOfIs
        <5>3. z.rows[r].row = RowOf(next, r) /\ z.rows[r].was = index[r]
          <6>1. z.rows[r] = [row |-> RowOf(next, r), was |-> index[r]]
            BY <5>1, <3>5
          <6> QED BY <6>1
        <5>4. index[r] = RowOf(next, r)
          BY <3>3, <4>4
        <5> QED BY <5>2, <5>3, <5>4
      <4>6. Pending(z, t)
        BY <4>1, <4>5 DEF Pending
      <4> QED BY <4>6, <2>3, <1>9, <1>17 DEF Pending
    <3> QED BY <3>7, <3>8
  <2> QED BY <2>1, <2>2, <2>3
<1>24. CacheFits'
  <2>1. \A q \in Readers : read[q].at # "idle" => read[q].of \in Records
    BY DEF MarcInv, CacheFits
  <2> SUFFICES ASSUME NEW r \in Records, r \notin crossed', SectorOf(r) \notin raced'
               PROVE  Cached(r)'
    BY <2>1, <1>9 DEF CacheFits
  <2>2. Cached(r) /\ SectorOf(r) \in Sectors /\ r \in InSector(SectorOf(r))
    BY <1>9, RecordInSector DEF MarcInv, CacheFits
  <2>0. SUFFICES ASSUME r \notin uncleared' PROVE Fresh(r)'
    BY <2>2, <1>9 DEF Cached
  <2>3. /\ cache'[r] = IF r \in DOMAIN new THEN NoBytes ELSE cache[r]
        /\ r \in DOMAIN new \/ Fresh(r)
    BY <2>0, <2>2, <1>9 DEF Cached
  <2>4. ASSUME NEW v \in Writers, SectorOf(r) \in DOMAIN session'[v].dirty, r \in DOMAIN session'[v].rows
        PROVE  cache'[r] = NoBytes
    <3>1. CASE v # w
      BY <2>3, <2>4, <3>1, <1>17 DEF Fresh
    <3>2. CASE v = w /\ r \in DOMAIN new
      BY <2>3, <3>2
    <3>3. CASE v = w /\ r \notin DOMAIN new
      <4>1. SectorOf(r) \in DOMAIN dirty /\ r \in DOMAIN x.rows
        BY <2>4, <3>3, <1>14, <1>15, <1>16, <1>17
      <4>2. SectorOf(r) # t
        BY <4>1, <2>2, <1>10
      <4>3. SectorOf(r) \in DOMAIN x.dirty
        BY <4>1, <4>2, <1>12
      <4> QED BY <4>1, <4>3, <2>3, <3>3 DEF Fresh
    <3> QED BY <3>1, <3>2, <3>3
  <2> QED BY <2>3, <2>4, <1>9 DEF Fresh
<1> QED BY <1>18, <1>20, <1>21, <1>22, <1>23, <1>24 DEF MarcInv
-------------------------------------------------------------------------------
(* Committing *)

\* An index row flushed: the new one, or what is there now.
LEMMA FlushedIs ==
  ASSUME NEW r \in Records, index[r] \in Row, NEW change \in [row : Row, was : Row]
  PROVE  /\ Flushed(r, change) \in Row
         /\ change.was = index[r] => Flushed(r, change) = change.row
         /\ change.was # NoRow /\ change.row = change.was => Flushed(r, change) = index[r]
BY DEF Flushed, Column, Row

\* The commit makes what was pending the committed tables; other sessions have
\* nothing pending in the same sectors, and no read under way is trusted.
LEMMA CommitInv == ASSUME MarcInv, NEW w \in Writers, Commit(w) PROVE MarcInv'
<1> PICK x \in Sessions : x = session[w]
  BY DEF MarcInv, Types
<1> PICK old \in Version : old = stored
  BY DEF MarcInv, Types, Version
<1>1. /\ x.dirty \in [DOMAIN x.dirty -> SectorRow] /\ DOMAIN x.dirty \subseteq Sectors
      /\ x.rows \in [DOMAIN x.rows -> [row : Row, was : Row]] /\ DOMAIN x.rows \subseteq Records
      /\ DOMAIN x.put \subseteq Records /\ (\A r \in DOMAIN x.put : x.put[r] \in Versions /\ x.put[r] # 0)
  <2>1. x.dirty \in Partial(Sectors, SectorRow) /\ x.rows \in Partial(Records, [row : Row, was : Row])
    BY DEF Sessions
  <2>2. x.dirty \in [DOMAIN x.dirty -> SectorRow] /\ DOMAIN x.dirty \subseteq Sectors
    BY <2>1, InPartial
  <2>3. x.rows \in [DOMAIN x.rows -> [row : Row, was : Row]] /\ DOMAIN x.rows \subseteq Records
    BY <2>1, InPartial
  <2>4. DOMAIN x.put \subseteq Records /\ (\A r \in DOMAIN x.put : x.put[r] \in Versions /\ x.put[r] # 0)
    BY PutType DEF Sessions
  <2> QED BY <2>2, <2>3, <2>4
<1>2. /\ sectors' = Over(x.dirty, sectors)
      /\ index' = [r \in Records |-> IF r \in DOMAIN x.rows THEN Flushed(r, x.rows[r]) ELSE index[r]]
      /\ stored' = [r \in Records |->
           IF r \in DOMAIN x.put /\ SectorOf(r) \in DOMAIN x.dirty THEN x.put[r] ELSE stored[r]]
      /\ crossed' = crossed \cup {read[q].of : q \in {y \in Readers : read[y].at # "idle"}}
      /\ session' = [session EXCEPT ![w] = Committed]
      /\ UNCHANGED <<cache, read, raced, uncleared>>
  BY DEF Commit
<1>3. stored' \in Version
  BY <1>1, <1>2 DEF Version
<1>4. PICK new \in Version : new = stored'
  BY <1>3
<1>5. /\ session' \in [Writers -> Sessions] /\ session'[w] = Committed
      /\ \A v \in Writers \ {w} : session'[v] = session[v]
  BY <1>2, IdleSessions DEF MarcInv, Types
<1>6. /\ sectors' \in [Sectors -> SectorRow]
      /\ \A s \in Sectors : sectors'[s] = IF s \in DOMAIN x.dirty THEN x.dirty[s] ELSE sectors[s]
  BY <1>1, <1>2 DEF Over, MarcInv, Types
<1>7. index \in [Records -> Row]
  BY DEF MarcInv, Types
<1>8. index' \in [Records -> Row]
  BY <1>1, <1>2, <1>7, FlushedIs
<1>9. Types'
  <2>1. \A q \in Readers : read[q].at # "idle" => read[q].of \in Records
    BY DEF MarcInv, CacheFits
  <2>2. crossed' \in SUBSET Records
    BY <1>2, <2>1 DEF MarcInv, Types
  <2> QED BY <1>2, <1>3, <1>5, <1>6, <1>8, <2>2 DEF MarcInv, Types, Version
<1>10. Plans' /\ OneAtWork'
  BY <1>5, IdleSessions, Empty DEF MarcInv, Plans, OneAtWork
\* A sector the session has not changed stays as it is,
<1>11. ASSUME NEW s \in Sectors, s \notin raced, s \notin DOMAIN x.dirty
       PROVE  \A r \in InSector(s) : index'[r] = index[r] /\ new[r] = old[r]
  <2> TAKE r \in InSector(s)
  <2>1. r \in Records /\ SectorOf(r) = s
    BY RecordInSector
  <2>2. new[r] = old[r]
    BY <1>2, <1>4, <1>11, <2>1
  <2>3. CASE r \in DOMAIN x.rows
    <3>1. x.rows[r].row = x.rows[r].was /\ x.rows[r].was # NoRow
      BY <1>11, <2>3 DEF MarcInv, Changes, Pending
    <3>2. Flushed(r, x.rows[r]) = index[r]
      BY <3>1, <2>1, <2>3, <1>1, <1>7, FlushedIs
    <3> QED BY <3>2, <2>1, <2>2, <2>3, <1>2
  <2>4. CASE r \notin DOMAIN x.rows
    BY <2>1, <2>2, <2>4, <1>2
  <2> QED BY <2>3, <2>4
\* and one it has changed is as it has planned.
<1>12. ASSUME NEW s \in Sectors, s \notin raced, s \in DOMAIN x.dirty
       PROVE  /\ sectors'[s] = Image(Contents(new, s))
              /\ \A r \in InSector(s) : index'[r] = RowOf(new, r)
              /\ \A r \in InSector(s) \ DOMAIN x.rows : new[r] = old[r]
  <2> DEFINE next == After(x.put, old)
  <2>1. /\ x.dirty[s] = Image(Contents(next, s))
        /\ \A r \in InSector(s) :
             IF r \in DOMAIN x.rows THEN x.rows[r] = [row |-> RowOf(next, r), was |-> index[r]]
                                     ELSE next[r] = 0
    BY <1>12 DEF MarcInv, Changes, Pending
  <2>2. \A r \in InSector(s) : new[r] = next[r]
    BY <1>2, <1>4, <1>12, RecordInSector DEF After
  <2>3. next \in Version
    BY AfterType DEF Sessions
  <2>4. \A r \in InSector(s) \ DOMAIN x.rows : next[r] = 0 /\ old[r] = 0
    <3> TAKE r \in InSector(s) \ DOMAIN x.rows
    <3>1. next[r] = 0 /\ r \in Records
      BY <2>1, RecordInSector
    <3>2. r \notin DOMAIN x.put
      BY <3>1, <1>1 DEF After
    <3> QED BY <3>1, <3>2 DEF After
  <2> HIDE DEF next
  <2>5. Contents(new, s) = Contents(next, s) /\ (\A r \in InSector(s) : RowOf(new, r) = RowOf(next, r))
    BY <2>2, ContentsSame
  <2>6. ASSUME NEW r \in InSector(s) PROVE index'[r] = RowOf(next, r)
    <3>1. r \in Records
      BY RecordInSector
    <3>2. CASE r \in DOMAIN x.rows
      <4>1. x.rows[r].was = index[r] /\ x.rows[r].row = RowOf(next, r)
        <5>1. x.rows[r] = [row |-> RowOf(next, r), was |-> index[r]]
          BY <2>1, <3>2
        <5> QED BY <5>1
      <4>2. Flushed(r, x.rows[r]) = RowOf(next, r)
        BY <4>1, <3>1, <3>2, <1>1, <1>7, FlushedIs
      <4> QED BY <4>2, <3>1, <3>2, <1>2
    <3>3. CASE r \notin DOMAIN x.rows
      <4>1. index[r] = RowOf(old, r) /\ RowOf(old, r) = NoRow /\ RowOf(next, r) = NoRow
        BY <2>3, <2>4, <3>1, <3>3, <1>12, RowOfIs DEF MarcInv, Tables
      <4> QED BY <4>1, <3>1, <3>3, <1>2
    <3> QED BY <3>2, <3>3
  <2> QED BY <2>1, <2>2, <2>4, <2>5, <2>6, <1>6, <1>12
<1>13. Tables'
  <2> SUFFICES ASSUME NEW s \in Sectors, s \notin raced
               PROVE  /\ sectors'[s] = Image(Contents(new, s))
                      /\ \A r \in InSector(s) : index'[r] = RowOf(new, r)
    BY <1>2, <1>4 DEF Tables
  <2>1. CASE s \in DOMAIN x.dirty
    BY <2>1, <1>12
  <2>2. CASE s \notin DOMAIN x.dirty
    <3>1. sectors[s] = Image(Contents(old, s)) /\ (\A r \in InSector(s) : index[r] = RowOf(old, r))
      BY DEF MarcInv, Tables
    <3>2. Contents(new, s) = Contents(old, s) /\ (\A r \in InSector(s) : RowOf(new, r) = RowOf(old, r))
      BY <2>2, <1>11, ContentsSame
    <3> QED BY <3>1, <3>2, <2>2, <1>6, <1>11
  <2> QED BY <2>1, <2>2
<1>14. Changes'
  <2> SUFFICES ASSUME NEW s \in Sectors, s \notin raced, NEW v \in Writers
               PROVE  Pending(session[v], s)'
    BY <1>2 DEF Changes
  <2>1. CASE v = w
    BY <2>1, <1>5, IdleSessions, Empty DEF Pending
  <2>2. CASE v # w
    <3> PICK y \in Sessions : y = session[v] /\ y = session'[v]
      BY <2>2, <1>5 DEF MarcInv, Types
    <3>1. Pending(y, s)
      BY DEF MarcInv, Changes
    <3>2. CASE s \notin DOMAIN y.dirty
      BY <3>1, <3>2 DEF Pending
    <3>3. CASE s \in DOMAIN y.dirty
      <4>1. s \notin DOMAIN x.dirty
        BY <3>3, <2>2 DEF MarcInv, OneAtWork
      <4>2. \A r \in InSector(s) : index'[r] = index[r] /\ new[r] = old[r]
        BY <4>1, <1>11
      <4>3. \A r \in InSector(s) : After(y.put, new)[r] = After(y.put, old)[r]
        BY <4>2, RecordInSector DEF After
      <4>4. /\ Contents(After(y.put, new), s) = Contents(After(y.put, old), s)
            /\ \A r \in InSector(s) : RowOf(After(y.put, new), r) = RowOf(After(y.put, old), r)
        BY <4>3, ContentsSame
      <4>5. /\ y.dirty[s] = Image(Contents(After(y.put, new), s))
            /\ \A r \in InSector(s) :
                 IF r \in DOMAIN y.rows
                 THEN y.rows[r] = [row |-> RowOf(After(y.put, new), r), was |-> index'[r]]
                 ELSE After(y.put, new)[r] = 0
        BY <3>1, <3>3, <4>2, <4>3, <4>4 DEF Pending
      <4> QED BY <4>5, <3>3, <1>4 DEF Pending
    <3> QED BY <3>2, <3>3
  <2> QED BY <2>1, <2>2
<1>15. CacheFits'
  <2>1. \A q \in Readers : read[q].at # "idle" => read[q].of \in Records
    BY DEF MarcInv, CacheFits
  <2> SUFFICES ASSUME NEW r \in Records, r \notin crossed', SectorOf(r) \notin raced
               PROVE  Cached(r)'
    BY <2>1, <1>2 DEF CacheFits
  <2>2. Cached(r) /\ SectorOf(r) \in Sectors /\ r \in InSector(SectorOf(r))
    BY <1>2, RecordInSector DEF MarcInv, CacheFits
  <2>3. \A q \in Readers : ~(read[q].at # "idle" /\ read[q].of = r)
    BY <1>2
  <2>6. SUFFICES ASSUME r \notin uncleared PROVE Fresh(r)'
    BY <2>3, <1>2 DEF Cached
  <2>7. Fresh(r)
    BY <2>2, <2>6 DEF Cached
  <2>4. cache[r] \in {NoBytes, Marc(r, new[r])}
    <3>1. CASE SectorOf(r) \in DOMAIN x.dirty /\ r \in DOMAIN x.rows
      BY <2>7, <3>1 DEF Fresh
    <3>2. CASE SectorOf(r) \in DOMAIN x.dirty /\ r \notin DOMAIN x.rows
      <4>1. new[r] = old[r]
        BY <2>2, <3>2, <1>12
      <4> QED BY <4>1, <2>7 DEF Fresh
    <3>3. CASE SectorOf(r) \notin DOMAIN x.dirty
      <4>1. new[r] = old[r]
        BY <2>2, <3>3, <1>11
      <4> QED BY <4>1, <2>7 DEF Fresh
    <3> QED BY <3>1, <3>2, <3>3
  <2>5. ASSUME NEW v \in Writers, SectorOf(r) \in DOMAIN session'[v].dirty, r \in DOMAIN session'[v].rows
        PROVE  cache[r] = NoBytes
    <3>1. v # w
      BY <2>5, <1>5, IdleSessions, Empty
    <3> QED BY <3>1, <2>7, <2>5, <1>5 DEF Fresh
  <2> QED BY <2>4, <2>5, <1>2, <1>4 DEF Fresh
<1> QED BY <1>9, <1>10, <1>13, <1>14, <1>15 DEF MarcInv
-------------------------------------------------------------------------------
(* Reading, and the cache *)

\* A step that changes no table and no session disturbs neither.
LEMMA ReaderStep ==
  ASSUME MarcInv, UNCHANGED <<sectors, index, stored, session, raced>>,
         cache' \in [Records -> Bytes], read' \in [Readers -> Reads], crossed' \in SUBSET Records, uncleared' \in SUBSET Records, CacheFits'
  PROVE  MarcInv'
<1>1. Types'
  BY DEF MarcInv, Types
<1>2. Plans' /\ OneAtWork' /\ Tables'
  BY DEF MarcInv, Plans, OneAtWork, Tables
<1>3. Changes'
  BY DEF MarcInv, Changes, Pending
<1> QED BY <1>1, <1>2, <1>3 DEF MarcInv

\* A read starts from the committed row,
LEMMA LookInv == ASSUME MarcInv, NEW q \in Readers, Look(q) PROVE MarcInv'
<1>1. PICK r \in Records :
        /\ index[r] # NoRow
        /\ read' = [read EXCEPT ![q] = [NoRead EXCEPT !.at = "looked", !.of = r, !.row = index[r]]]
  BY DEF Look
<1>2. UNCHANGED <<sectors, index, stored, cache, session, raced, crossed, uncleared>>
  BY DEF Look, tables
<1> PICK x : x = [NoRead EXCEPT !.at = "looked", !.of = r, !.row = index[r]]
  OBVIOUS
<1>3. x \in Reads /\ x.at = "looked" /\ x.of = r /\ x.row = index[r]
  BY Empty DEF NoRead, Reads, MarcInv, Types
<1>4. /\ read' \in [Readers -> Reads] /\ read'[q] = x
      /\ \A p \in Readers \ {q} : read'[p] = read[p]
  BY <1>1, <1>3 DEF MarcInv, Types
<1>5. CacheFits'
  <2>1. \A p \in Readers : read'[p].at # "idle" => read'[p].of \in Records
    BY <1>3, <1>4 DEF MarcInv, CacheFits
  <2> SUFFICES ASSUME NEW a \in Records, a \notin crossed, SectorOf(a) \notin raced
               PROVE  Cached(a)'
    BY <2>1, <1>2 DEF CacheFits
  <2>2. Cached(a)
    BY DEF MarcInv, CacheFits
  <2>3. ASSUME NEW p \in Readers, read'[p].at # "idle", read'[p].of = a
        PROVE  read'[p].row = index[a] /\ (read'[p].at = "sliced" => read'[p].bytes = Marc(a, stored[a]))
    <3>1. CASE p = q
      BY <2>3, <3>1, <1>3, <1>4
    <3>2. CASE p # q
      BY <2>2, <2>3, <3>2, <1>4 DEF Cached
    <3> QED BY <3>1, <3>2
  <2> QED BY <2>2, <2>3, <1>2 DEF Cached, Fresh
<1> QED BY <1>2, <1>4, <1>5, ReaderStep DEF MarcInv, Types

\* cuts the committed sector,
LEMMA CutInv == ASSUME MarcInv, NEW q \in Readers, Cut(q) PROVE MarcInv'
<1> PICK y \in Reads : y = read[q]
  BY DEF MarcInv, Types
<1>1. y.at = "looked" /\ y.of \in Records
  BY DEF Cut, MarcInv, CacheFits
<1>2. PICK r \in Records : r = y.of
  BY <1>1
<1>3. PICK found : found = Slice(sectors[SectorOf(r)].data, y.row)
  OBVIOUS
<1>4. found \in Bytes
  <2>1. sectors[SectorOf(r)] \in SectorRow
    BY RecordInSector DEF MarcInv, Types
  <2>2. PICK data \in Bytes : data = sectors[SectorOf(r)].data
    BY <2>1 DEF SectorRow
  <2> QED BY <2>2, <1>3, SliceType DEF Reads
<1> PICK x : x = [y EXCEPT !.bytes = found, !.at = "sliced"]
  OBVIOUS
<1>5. read' = [read EXCEPT ![q] = x] /\ UNCHANGED <<sectors, index, stored, cache, session, raced, crossed, uncleared>>
  BY <1>2, <1>3 DEF Cut, tables
<1>6. x \in Reads /\ x.at = "sliced" /\ x.of = r /\ x.row = y.row /\ x.bytes = found
  BY <1>2, <1>4 DEF Reads
<1>7. /\ read' \in [Readers -> Reads] /\ read'[q] = x
      /\ \A p \in Readers \ {q} : read'[p] = read[p]
  BY <1>5, <1>6 DEF MarcInv, Types
<1>8. ASSUME r \notin crossed, SectorOf(r) \notin raced
      PROVE  x.row = index[r] /\ found = Marc(r, stored[r])
  <2>1. y.row = index[r]
    BY <1>1, <1>2, <1>8 DEF MarcInv, CacheFits, Cached
  <2>2. PICK version \in Version : version = stored
    BY DEF MarcInv, Types, Version
  <2>3. /\ sectors[SectorOf(r)] = Image(Contents(version, SectorOf(r)))
        /\ index[r] = RowOf(version, r)
    BY <1>8, <2>2, RecordInSector DEF MarcInv, Tables
  <2>4. found = Marc(r, version[r])
    BY <2>1, <2>3, <1>3, RecordSliced
  <2> QED BY <2>1, <2>2, <2>4, <1>6
<1>9. CacheFits'
  <2>1. \A p \in Readers : read'[p].at # "idle" => read'[p].of \in Records
    BY <1>6, <1>7 DEF MarcInv, CacheFits
  <2> SUFFICES ASSUME NEW a \in Records, a \notin crossed, SectorOf(a) \notin raced
               PROVE  Cached(a)'
    BY <2>1, <1>5 DEF CacheFits
  <2>2. Cached(a)
    BY DEF MarcInv, CacheFits
  <2>3. ASSUME NEW p \in Readers, read'[p].at # "idle", read'[p].of = a
        PROVE  read'[p].row = index[a] /\ (read'[p].at = "sliced" => read'[p].bytes = Marc(a, stored[a]))
    <3>1. CASE p = q
      BY <2>3, <3>1, <1>6, <1>7, <1>8
    <3>2. CASE p # q
      BY <2>2, <2>3, <3>2, <1>7 DEF Cached
    <3> QED BY <3>1, <3>2
  <2> QED BY <2>2, <2>3, <1>5 DEF Cached, Fresh
<1> QED BY <1>5, <1>7, <1>9, ReaderStep DEF MarcInv, Types

\* and caches it; a write under way that it may belie makes it untrusted.
LEMMA FillInv == ASSUME MarcInv, NEW q \in Readers, Fill(q) PROVE MarcInv'
<1> PICK y \in Reads : y = read[q]
  BY DEF MarcInv, Types
<1>1. y.at = "sliced" /\ y.of \in Records
  BY DEF Fill, MarcInv, CacheFits
<1>2. PICK r \in Records : r = y.of
  BY <1>1
<1>3. /\ \/ /\ cache' = [cache EXCEPT ![r] = y.bytes]
            /\ crossed' = IF InDoubt(r) THEN crossed \cup {r} ELSE crossed
            /\ uncleared' = uncleared \ {r}
         \/ UNCHANGED <<cache, crossed, uncleared>>
      /\ read' = [read EXCEPT ![q] = NoRead]
      /\ UNCHANGED <<sectors, index, stored, session, raced>>
  BY <1>2 DEF Fill, tables
<1>4. NoRead \in Reads /\ NoRead.at = "idle"
  BY Empty DEF NoRead, Reads
<1>5. /\ read' \in [Readers -> Reads] /\ read'[q] = NoRead
      /\ \A p \in Readers \ {q} : read'[p] = read[p]
  BY <1>3, <1>4 DEF MarcInv, Types
<1>6. /\ cache' \in [Records -> Bytes]
      /\ \A a \in Records \ {r} : cache'[a] = cache[a]
  BY <1>3 DEF MarcInv, Types, Reads
<1>7. crossed' \in SUBSET Records /\ uncleared' \in SUBSET Records /\ crossed \subseteq crossed'
  BY <1>3 DEF MarcInv, Types
<1>8. CacheFits'
  <2>1. \A p \in Readers : read'[p].at # "idle" => read'[p].of \in Records
    BY <1>4, <1>5 DEF MarcInv, CacheFits
  <2> SUFFICES ASSUME NEW a \in Records, a \notin crossed', SectorOf(a) \notin raced
               PROVE  Cached(a)'
    BY <2>1, <1>3 DEF CacheFits
  <2>2. Cached(a)
    BY <1>7 DEF MarcInv, CacheFits
  <2>3. \A p \in Readers : read'[p].at # "idle" /\ read'[p].of = a =>
          read'[p].row = index[a] /\ (read'[p].at = "sliced" => read'[p].bytes = Marc(a, stored[a]))
    BY <2>2, <1>4, <1>5 DEF Cached
  <2>4. CASE a # r \/ UNCHANGED <<cache, uncleared>>
    <3>1. cache'[a] = cache[a] /\ (a \notin uncleared' => a \notin uncleared)
      BY <2>4, <1>3, <1>6
    <3> QED BY <3>1, <2>2, <2>3, <1>3 DEF Cached, Fresh
  <2>5. CASE a = r /\ cache' = [cache EXCEPT ![r] = y.bytes]
             /\ crossed' = IF InDoubt(r) THEN crossed \cup {r} ELSE crossed
    <3>1. ~InDoubt(r)
      BY <2>5
    <3>2. cache'[a] = Marc(a, stored[a])
      BY <2>2, <2>5, <1>1, <1>2 DEF Cached, MarcInv, Types
    <3> QED BY <3>1, <3>2, <2>3, <2>5, <1>3 DEF Cached, Fresh, InDoubt
  <2> QED BY <2>4, <2>5, <1>3
<1> QED BY <1>3, <1>5, <1>6, <1>7, <1>8, ReaderStep

\* A session caches what it has not committed.
LEMMA ReadOwnInv == ASSUME MarcInv, NEW w \in Writers, ReadOwn(w) PROVE MarcInv'
<1> PICK x \in Sessions : x = session[w]
  BY DEF MarcInv, Types
<1>1. PICK r \in DOMAIN x.rows :
        /\ SectorOf(r) \in DOMAIN x.dirty
        /\ cache' = [cache EXCEPT ![r] = Slice(x.dirty[SectorOf(r)].data, x.rows[r].row)]
        /\ crossed' = crossed \cup {r}
        /\ UNCHANGED <<sectors, index, stored, session, read, raced, uncleared>>
  BY DEF ReadOwn, tables
<1>2. r \in Records /\ x.rows[r].row \in Row
  <2>1. x.rows \in Partial(Records, [row : Row, was : Row])
    BY DEF Sessions
  <2>2. x.rows \in [DOMAIN x.rows -> [row : Row, was : Row]] /\ DOMAIN x.rows \subseteq Records
    BY <2>1, InPartial
  <2> QED BY <2>2
<1>3. x.dirty[SectorOf(r)].data \in Bytes
  <2>1. x.dirty \in Partial(Sectors, SectorRow)
    BY DEF Sessions
  <2>2. x.dirty \in [DOMAIN x.dirty -> SectorRow]
    BY <2>1, InPartial
  <2> QED BY <2>2, <1>1 DEF SectorRow
<1>4. PICK bytes \in Bytes : bytes = Slice(x.dirty[SectorOf(r)].data, x.rows[r].row)
  BY <1>2, <1>3, SliceType
<1>5. cache' \in [Records -> Bytes] /\ (\A a \in Records \ {r} : cache'[a] = cache[a])
  BY <1>1, <1>2, <1>4 DEF MarcInv, Types
<1>6. crossed' \in SUBSET Records /\ uncleared' \in SUBSET Records /\ read' \in [Readers -> Reads]
  BY <1>1, <1>2 DEF MarcInv, Types
<1>7. CacheFits'
  BY <1>1, <1>5 DEF MarcInv, CacheFits, Cached, Fresh
<1> QED BY <1>1, <1>5, <1>6, <1>7, ReaderStep

\* A cached record expires.
LEMMA ExpireInv == ASSUME MarcInv, NEW r \in Records, Expire(r) PROVE MarcInv'
<1>1. cache' = [cache EXCEPT ![r] = NoBytes] /\ UNCHANGED <<sectors, index, stored, session, read, raced, crossed>>
      /\ uncleared' = uncleared \ {r}
  BY DEF Expire, tables
<1>2. /\ cache' \in [Records -> Bytes]
      /\ cache'[r] = NoBytes /\ \A a \in Records \ {r} : cache'[a] = cache[a]
      /\ uncleared' \in SUBSET Records
  BY <1>1, Empty DEF MarcInv, Types
<1>3. CacheFits'
  <2>1. ASSUME NEW a \in Records, Cached(a) PROVE Cached(a)'
    <3>1. CASE a = r
      BY <1>1, <1>2, <2>1, <3>1 DEF Cached, Fresh
    <3>2. CASE a # r
      BY <1>1, <1>2, <2>1, <3>2 DEF Cached, Fresh
    <3> QED BY <3>1, <3>2
  <2> QED BY <2>1, <1>1 DEF MarcInv, CacheFits
<1> QED BY <1>1, <1>2, <1>3, ReaderStep DEF MarcInv, Types

\* Every step keeps the invariant.
LEMMA StepInv == MarcInv /\ [Next]_vars => MarcInv'
<1> SUFFICES ASSUME MarcInv, [Next]_vars PROVE MarcInv'
  OBVIOUS
<1>1. ASSUME NEW w \in Writers, Begin(w) PROVE MarcInv'
  BY <1>1, BeginInv
<1>2. ASSUME NEW w \in Writers, Proceed(w) PROVE MarcInv'
  BY <1>2, SelectSectorInv, SelectRowsInv, WriteInv, CommitInv, EndInv DEF Proceed
<1>3. ASSUME NEW w \in Writers, Abort(w) PROVE MarcInv'
  BY <1>3, EndInv
<1>4. ASSUME NEW w \in Writers, ReadOwn(w) PROVE MarcInv'
  BY <1>4, ReadOwnInv
<1>5. ASSUME NEW q \in Readers, Look(q) PROVE MarcInv'
  BY <1>5, LookInv
<1>6. ASSUME NEW q \in Readers, Finish(q) PROVE MarcInv'
  BY <1>6, CutInv, FillInv DEF Finish
<1>7. ASSUME NEW r \in Records, Expire(r) PROVE MarcInv'
  BY <1>7, ExpireInv
<1>8. CASE UNCHANGED vars
  BY <1>8 DEF vars, MarcInv, Types, Plans, OneAtWork, Tables, Changes, Pending, CacheFits, Cached, Fresh
<1> QED BY <1>1, <1>2, <1>3, <1>4, <1>5, <1>6, <1>7, <1>8 DEF Next

-------------------------------------------------------------------------------
(* Theorems *)

\* The inductive invariant holds in every reachable state.
THEOREM MarcInvariant == Spec => []MarcInv
<1> QED BY InitInv, StepInv, PTL DEF Spec

\* The tables keep their form and, unless two sessions wrote a sector from
\* rows the other had changed, every record of a sector is read as the bytes
\* last committed for it and record_count is the number of index rows: for any
\* records, sector size, versions and number of sessions and readers.
THEOREM SectorsAreSound == Spec => []SectorSound
<1>1. ASSUME MarcInv PROVE TypeOK
  <2> USE <1>1
  <2>1. ASSUME NEW w \in Writers
        PROVE  /\ session[w].at \in {"idle", "begun", "half", "ready", "commit", "done", "failed"}
               /\ session[w].kind \in {"put", "compact"}
               /\ session[w].todo \in Seq(Sectors)
               /\ session[w].put \in Puts \cup {<<>>}
               /\ DOMAIN session[w].dirty \subseteq Sectors
               /\ DOMAIN session[w].loaded \cup DOMAIN session[w].rows \subseteq Records
    <3>1. PICK x \in Sessions : x = session[w]
      BY DEF MarcInv, Types
    <3>2. /\ x.dirty \in Partial(Sectors, SectorRow) /\ x.loaded \in Partial(Records, Row)
          /\ x.rows \in Partial(Records, [row : Row, was : Row])
      BY DEF Sessions
    <3>3. DOMAIN x.dirty \subseteq Sectors /\ DOMAIN x.loaded \subseteq Records /\ DOMAIN x.rows \subseteq Records
      BY <3>2 DEF Partial
    <3> QED BY <3>1, <3>3 DEF Sessions
  <2>2. ASSUME NEW q \in Readers
        PROVE  read[q].at \in {"idle", "looked", "sliced"} /\ read[q].row \in Row /\ read[q].bytes \in Bytes
    BY DEF MarcInv, Types, Reads
  <2> QED BY <2>1, <2>2 DEF TypeOK, MarcInv, Types, SectorRow, Row, Bytes
<1>2. ASSUME MarcInv PROVE BytesMatch /\ CountMatches
  <2> USE <1>2
  <2> PICK version \in Version : version = stored
    BY DEF MarcInv, Types, Version
  <2>1. ASSUME NEW s \in Sectors \ raced
        PROVE  sectors[s] = Image(Contents(version, s)) /\ (\A r \in InSector(s) : index[r] = RowOf(version, r))
    BY DEF MarcInv, Tables
  <2>2. BytesMatch
    BY <2>1, RecordInSector, RecordSliced DEF BytesMatch
  <2>3. ASSUME NEW s \in Sectors \ raced
        PROVE  sectors[s].count = Cardinality({r \in InSector(s) : index[r] # NoRow})
    <3>1. {r \in InSector(s) : index[r] # NoRow} = {r \in InSector(s) : RowOf(version, r) # NoRow}
      BY <2>1
    <3> QED BY <3>1, <2>1, CountOf
  <2> QED BY <2>2, <2>3 DEF CountMatches
<1>3. MarcInv => SectorSound
  BY <1>1, <1>2 DEF SectorSound
<1> QED BY <1>3, MarcInvariant, PTL

\* The cache holds nothing of a record but what was last committed of it,
\* unless a read of it met a write of its sector, the sector lost an update, or
\* the entry could not be deleted and has not been replaced since.
THEOREM CacheIsSound == Spec => []CacheSound
<1>1. MarcInv => CacheSound
  BY DEF MarcInv, CacheFits, Cached, Fresh, CacheSound
<1> QED BY <1>1, MarcInvariant, PTL

\* A compaction finds more bytes or records than index rows only after a lost
\* update: of a sector that no two sessions raced for it leaves everything
\* alone, if what it has read is still committed.
THEOREM CompactionFindsNothing ==
  Spec => [](\A w \in Writers :
               session[w].kind = "compact" /\ session[w].at = "ready" /\ Current(w)
               /\ Target(w) \notin raced => Skips(w))
<1>1. ASSUME MarcInv, NEW w \in Writers, session[w].kind = "compact", session[w].at = "ready",
             Current(w), Target(w) \notin raced
      PROVE  Skips(w)
  <2> USE <1>1
  <2>1. PICK t \in Sectors : t = Target(w)
    BY NewRecordsType
  <2>2. PICK version \in Version : version = stored
    BY DEF MarcInv, Types, Version
  <2>3. /\ sectors[t] = Image(Contents(version, t))
        /\ \A r \in InSector(t) : index[r] = RowOf(version, r)
    BY <2>1, <2>2 DEF MarcInv, Tables
  <2>4. /\ session[w].seen = sectors[t]
        /\ session[w].loaded = [r \in {x \in InSector(t) : index[x] # NoRow} |-> index[r]]
    BY <2>1 DEF Current, Restrict
  <2>5. DOMAIN session[w].loaded = {r \in InSector(t) : RowOf(version, r) # NoRow}
    BY <2>3, <2>4
  <2> QED BY <2>3, <2>4, <2>5, CountOf DEF Skips
<1>2. MarcInv => \A w \in Writers :
               session[w].kind = "compact" /\ session[w].at = "ready" /\ Current(w)
               /\ Target(w) \notin raced => Skips(w)
  BY <1>1
<1> QED BY <1>2, MarcInvariant, PTL
===============================================================================
