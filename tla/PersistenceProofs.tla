------------------------- MODULE PersistenceProofs -------------------------
(***************************************************************************)
(* What save() and load() promise, for every number of entries, every      *)
(* length of IDs, every dimension and every width of integers.             *)
(*                                                                         *)
(* The argument follows the bytes.  A file is laid out: there are offsets  *)
(* at which its records start.  A reader whose reads were all aligned, and *)
(* have taken in a part of a layout, is where that layout says it is, and  *)
(* has its records.  The checksum says that what it has taken in is the    *)
(* layout of a saved index.                                                *)
(***************************************************************************)
EXTENDS Persistence, SequenceTheorems, TLAPS

HeaderOffsets == {0, 8, 12, 16, 24}

\* The bytes of a record whose ID is empty.
Floor == 8 + FloatBytes * Dimension

\* The record of e is in f at p.
Laid(f, p, e) ==
    /\ p \in DOMAIN f /\ f[p] = Field("integer", 8, IdLength[e.id])
    /\ IdLength[e.id] > 0 =>
          p + 8 \in DOMAIN f /\ f[p + 8] = Field("id", IdLength[e.id], e.id)
    /\ /\ p + 8 + IdLength[e.id] \in DOMAIN f
       /\ f[p + 8 + IdLength[e.id]] = Field("vector", FloatBytes * Dimension, e.vector)

\* f has the header of the index es and its first n records, at the offsets off.
Layout(f, es, n, off) ==
    /\ off \in [1..(n + 1) -> Nat]
    /\ off[1] = HeaderBytes
    /\ \A o \in HeaderOffsets : o \in DOMAIN f /\ f[o] = Header(Len(es))[o]
    /\ \A k \in 1..n : Laid(f, off[k], es[k]) /\ off[k + 1] = off[k] + RecordBytes(es[k])
    /\ \A j, k \in 1..(n + 1) : j <= k => off[k] >= off[j] + (k - j) * Floor

\* No field of f ends behind p.
Ends(f, p) == \A o \in DOMAIN f : o \in Nat /\ f[o].size \in Nat \ {0} /\ o + f[o].size <= p

\* f is a function, so that its fields are all there is to it.
IsFile(f) == f = [o \in DOMAIN f |-> f[o]]

\* The fields of f do not overlap.
Separate(f) == \A o, q \in DOMAIN f : o < q => o + f[o].size <= q

----------------------------------------------------------------------------
(* What save() writes is laid out.                                          *)

LEMMA Sizes ==
    /\ Dimension \in Nat \ {0} /\ Floor \in Nat \ {0} /\ FloatBytes * Dimension \in Nat \ {0}
    /\ \A i \in Ids : IdLength[i] \in Nat
    /\ \A e \in Entry : RecordBytes(e) \in Nat /\ RecordBytes(e) >= Floor
<1>1. Dimension \in Nat \ {0}
  BY LimitsAssumption
<1>2. \A i \in Ids : IdLength[i] \in Nat
  BY LimitsAssumption
<1> QED
  BY <1>1, <1>2 DEF Floor, FloatBytes, RecordBytes, Entry

LEMMA HeaderLaid ==
    ASSUME NEW es \in Seq(Entry)
    PROVE  /\ Layout(Header(Len(es)), es, 0, [k \in 1..1 |-> HeaderBytes])
           /\ Ends(Header(Len(es)), HeaderBytes)
           /\ Separate(Header(Len(es)))
<1> DEFINE f == Header(Len(es))
<1>1. DOMAIN f = HeaderOffsets
  BY DEF Header, HeaderOffsets
<1>2. /\ f[0].size = 8 /\ f[8].size = 4 /\ f[12].size = 4 /\ f[16].size = 8 /\ f[24].size = 8
  BY DEF Header, Field
<1>3. Layout(f, es, 0, [k \in 1..1 |-> HeaderBytes])
  <2>1. Floor \in Nat
    BY Sizes
  <2>2. \A j, k \in 1..1 : (k - j) * Floor = 0
    BY <2>1
  <2> QED
    BY <1>1, <2>2 DEF Layout, HeaderBytes
<1>4. Ends(f, HeaderBytes)
  BY <1>1, <1>2 DEF Ends, HeaderOffsets, HeaderBytes
<1>5. Separate(f)
  BY <1>1, <1>2 DEF Separate, HeaderOffsets
<1> QED
  BY <1>3, <1>4, <1>5

LEMMA OneMore ==
    ASSUME NEW a \in Nat, NEW c \in Nat
    PROVE  a * c \in Nat /\ (a + 1) * c = a * c + c
  BY Z3

\* A record goes behind the others and leaves them alone.
LEMMA RecordLaid ==
    ASSUME NEW es \in Seq(Entry), NEW n \in Nat, n < Len(es), NEW f, NEW off,
           Layout(f, es, n, off), Ends(f, off[n + 1]), Separate(f)
    PROVE  LET p    == off[n + 1]
               e    == es[n + 1]
               next == [k \in 1..(n + 2) |-> IF k = n + 2 THEN p + RecordBytes(e) ELSE off[k]]
           IN  /\ Layout(WithRecord(f, p, e), es, n + 1, next)
               /\ next[n + 2] = p + RecordBytes(e)
               /\ Ends(WithRecord(f, p, e), p + RecordBytes(e))
               /\ Separate(WithRecord(f, p, e))
<1> DEFINE p    == off[n + 1]
           e    == es[n + 1]
           q    == p + RecordBytes(e)
           next == [k \in 1..(n + 2) |-> IF k = n + 2 THEN q ELSE off[k]]
           g    == WithRecord(f, p, e)
           id   == p + 8
           vec  == p + 8 + IdLength[e.id]
           own  == {p, id, vec}
<1>1. /\ off \in [1..(n + 1) -> Nat] /\ off[1] = HeaderBytes
      /\ \A o \in HeaderOffsets : o \in DOMAIN f /\ f[o] = Header(Len(es))[o]
      /\ \A k \in 1..n : Laid(f, off[k], es[k]) /\ off[k + 1] = off[k] + RecordBytes(es[k])
      /\ \A j, k \in 1..(n + 1) : j <= k => off[k] >= off[j] + (k - j) * Floor
  BY DEF Layout
<1>2. p \in Nat /\ e \in Entry /\ IdLength[e.id] \in Nat /\ e.id \in Ids
  <2>1. n + 1 \in 1..Len(es)
    BY LenProperties
  <2>2. e \in Entry
    BY <2>1, ElementOfSeq
  <2>3. p \in Nat
    BY <1>1
  <2> QED
    BY <2>2, <2>3, Sizes DEF Entry
<1>3. PICK v \in Nat \ {0} : v = FloatBytes * Dimension
  BY Sizes
<1>4. PICK i \in Nat : i = IdLength[e.id]
  BY <1>2
<1>5. /\ RecordBytes(e) \in Nat /\ RecordBytes(e) >= Floor /\ Floor \in Nat
      /\ RecordBytes(e) = 8 + IdLength[e.id] + FloatBytes * Dimension
      /\ FloatBytes * Dimension \in Nat \ {0}
  BY <1>2, Sizes DEF RecordBytes
<1>6. RecordBytes(e) = 8 + i + v /\ id = p + 8 /\ vec = id + i /\ p \in Nat
  BY <1>5, <1>3, <1>4, <1>2
<1>7. \A o \in DOMAIN f : o \in Nat /\ f[o].size \in Nat \ {0} /\ o + f[o].size <= p
  BY DEF Ends
<1> HIDE DEF p, e
<1>8. g = [o \in DOMAIN f \cup own |->
                IF o = p THEN Field("integer", 8, IdLength[e.id])
                ELSE IF o = vec THEN Field("vector", FloatBytes * Dimension, e.vector)
                ELSE IF o = id THEN Field("id", IdLength[e.id], e.id)
                ELSE f[o]]
  BY DEF WithRecord
<1>9. \A o \in DOMAIN f : o < p /\ o # p /\ o # id /\ o # vec
  <2> SUFFICES ASSUME NEW o \in DOMAIN f PROVE o < p /\ o # p /\ o # id /\ o # vec
    OBVIOUS
  <2>1. PICK s \in Nat \ {0} : s = f[o].size
    BY <1>7
  <2>2. o \in Nat /\ o + s <= p
    BY <2>1, <1>7
  <2> HIDE DEF id, vec
  <2> QED
    BY <2>2, <1>6
<1>10. vec # p /\ id # p /\ (IdLength[e.id] > 0 => id # vec)
  BY <1>2
<1>11. /\ DOMAIN g = DOMAIN f \cup own
       /\ \A o \in DOMAIN f : g[o] = f[o]
       /\ g[p] = Field("integer", 8, IdLength[e.id])
       /\ g[vec] = Field("vector", FloatBytes * Dimension, e.vector)
       /\ IdLength[e.id] > 0 => g[id] = Field("id", IdLength[e.id], e.id)
  BY <1>8, <1>9, <1>10
<1> HIDE DEF g
<1>12. Laid(g, p, e)
  BY <1>2, <1>11 DEF Laid
<1>13. ASSUME NEW k \in 1..n PROVE Laid(g, off[k], es[k])
  BY <1>1, <1>11 DEF Laid
<1>14. q \in Nat /\ q = vec + v /\ p <= q /\ p + 8 <= q
  <2>1. q = p + (8 + i + v)
    BY <1>6
  <2> HIDE DEF q, id, vec
  <2> QED
    BY <2>1, <1>6
<1>15. q >= p + Floor
  BY <1>6, <1>5
<1> HIDE DEF q
<1>16. \A k \in 1..(n + 1) : next[k] = off[k] /\ off[k] \in Nat
  BY <1>1
<1>17. next \in [1..(n + 2) -> Nat] /\ next[1] = HeaderBytes /\ next[n + 2] = q
  <2>1. 1 \in 1..(n + 1) /\ n + 2 \in 1..(n + 2)
    OBVIOUS
  <2>2. \A k \in 1..(n + 2) : k = n + 2 \/ k \in 1..(n + 1)
    OBVIOUS
  <2>3. \A k \in 1..(n + 2) : next[k] \in Nat
    BY <2>2, <1>16, <1>14
  <2> QED
    BY <2>1, <2>3, <1>1, <1>16
<1>18. next[n + 1] = p
  BY <1>16 DEF p
<1> HIDE DEF next
<1>19. \A k \in 1..(n + 1) : Laid(g, next[k], es[k]) /\ next[k + 1] = next[k] + RecordBytes(es[k])
  <2> TAKE k \in 1..(n + 1)
  <2>1. CASE k = n + 1
    BY <2>1, <1>12, <1>17, <1>18 DEF e, q
  <2>2. CASE k \in 1..n
    <3>1. k + 1 \in 1..(n + 1)
      BY <2>2
    <3>2. next[k] = off[k] /\ next[k + 1] = off[k + 1]
      BY <3>1, <2>2, <1>16
    <3> QED
      BY <3>2, <2>2, <1>1, <1>13
  <2> QED
    BY <2>1, <2>2
<1>20. \A j, k \in 1..(n + 2) : j <= k => next[k] >= next[j] + (k - j) * Floor
  <2> SUFFICES ASSUME NEW j \in 1..(n + 2), NEW k \in 1..(n + 2), j <= k
               PROVE  next[k] >= next[j] + (k - j) * Floor
    OBVIOUS
  <2>1. CASE k \in 1..(n + 1)
    <3>1. j \in 1..(n + 1)
      BY <2>1
    <3> QED
      BY <3>1, <2>1, <1>1, <1>16
  <2>2. CASE k = n + 2 /\ j = n + 2
    <3>1. (k - j) * Floor = 0
      BY <2>2, <1>5
    <3> QED
      BY <3>1, <2>2, <1>17, <1>14
  <2>3. CASE k = n + 2 /\ j \in 1..(n + 1)
    <3>1. p >= off[j] + (n + 1 - j) * Floor
      BY <2>3, <1>1 DEF p
    <3>2. (n + 1 - j) * Floor \in Nat /\ (k - j) * Floor = (n + 1 - j) * Floor + Floor
      <4>1. k - j = (n + 1 - j) + 1 /\ n + 1 - j \in Nat
        BY <2>3
      <4> QED
        BY <4>1, <1>5, OneMore
    <3>3. off[j] \in Nat
      BY <2>3, <1>1
    <3> QED
      <4>1. next[k] = q /\ next[j] = off[j] /\ q >= p + Floor
        BY <2>3, <1>17, <1>16, <1>15
      <4> QED
        <5>1. PICK m \in Nat : m = (n + 1 - j) * Floor
          BY <3>2
        <5>2. (k - j) * Floor = m + Floor /\ p >= off[j] + m
          BY <5>1, <3>1, <3>2
        <5>3. p \in Nat /\ q \in Nat /\ Floor \in Nat
          BY <1>5, <1>6, <1>14
        <5>4. q >= off[j] + (m + Floor)
          BY <4>1, <5>2, <3>3, <5>3
        <5> QED
          BY <4>1, <5>2, <5>4
  <2> QED
    BY <2>1, <2>2, <2>3
<1>21. Layout(g, es, n + 1, next)
  <2>1. \A o \in HeaderOffsets : o \in DOMAIN g /\ g[o] = Header(Len(es))[o]
    BY <1>1, <1>11
  <2> QED
    BY <2>1, <1>17, <1>19, <1>20 DEF Layout
<1>22. /\ g[p].size = 8 /\ g[vec].size = v
       /\ IdLength[e.id] > 0 => g[id].size = IdLength[e.id]
       /\ IdLength[e.id] = 0 => id = vec
  BY <1>2, <1>11, <1>3 DEF Field
<1>23. Ends(g, q)
  <2> SUFFICES ASSUME NEW o \in DOMAIN g
               PROVE  o \in Nat /\ g[o].size \in Nat \ {0} /\ o + g[o].size <= q
    BY DEF Ends
  <2>1. CASE o \in DOMAIN f
    <3>1. g[o].size = f[o].size /\ o \in Nat /\ f[o].size \in Nat \ {0} /\ o + f[o].size <= p
      BY <2>1, <1>7, <1>11
    <3> QED
      BY <3>1, <1>6, <1>14
  <2>2. CASE o = p
    <3>1. g[o].size = 8
      BY <2>2, <1>22
    <3> QED
      BY <2>2, <3>1, <1>6, <1>14
  <2>3. CASE o = vec
    <3>1. g[o].size = v /\ o \in Nat
      BY <2>3, <1>22, <1>6
    <3> QED
      BY <2>3, <3>1, <1>14
  <2>4. CASE o = id /\ id # vec
    <3>1. i > 0
      BY <2>4, <1>6
    <3>2. g[o].size = i
      BY <2>4, <3>1, <1>4, <1>22
    <3>3. o + i <= q /\ o \in Nat
      <4> HIDE DEF id, vec
      <4> QED
        BY <2>4, <1>6, <1>14
    <3> QED
      BY <3>1, <3>2, <3>3
  <2> QED
    BY <2>1, <2>2, <2>3, <2>4, <1>11
<1>24. Separate(g)
  <2> SUFFICES ASSUME NEW a \in DOMAIN g, NEW b \in DOMAIN g, a < b
               PROVE  a + g[a].size <= b
    BY DEF Separate
  <2>1. CASE a \in DOMAIN f /\ b \in DOMAIN f
    BY <2>1, <1>11 DEF Separate
  <2>2. CASE a \in DOMAIN f /\ b \in own
    <3>1. PICK s \in Nat : s = g[a].size /\ a + s <= p /\ a \in Nat
      BY <2>2, <1>7, <1>11
    <3>2. p <= b /\ b \in Nat /\ p \in Nat
      BY <2>2, <1>6
    <3>3. a + s <= b
      BY <3>1, <3>2
    <3> QED
      BY <3>1, <3>3
  <2>3. CASE a \in own /\ b \in DOMAIN f
    <3>1. b < p /\ b \in Nat
      BY <2>3, <1>7, <1>9
    <3>2. p <= a /\ a \in Nat
      BY <2>3, <1>6
    <3> QED
      BY <3>1, <3>2, <1>6
  <2>4. CASE a \in own /\ b \in own
    <3>1. /\ vec = id + i /\ id = p + 8 /\ p \in Nat
          /\ i > 0 => g[id].size = i
          /\ g[p].size = 8 /\ g[vec].size = v
      BY <1>22, <1>4, <1>6
    <3>2. (a = p /\ b \in {id, vec}) \/ (a = id /\ b = vec)
      BY <2>4, <3>1
    <3> QED
      BY <3>1, <3>2, <2>4
  <2> QED
    BY <2>1, <2>2, <2>3, <2>4, <1>11
<1> QED
  BY <1>17, <1>21, <1>23, <1>24 DEF p, e, g, next, q

----------------------------------------------------------------------------
(* The index, the file and the save() that writes it.                       *)

\* The bytes of the largest record, and of the largest file.
Largest == CHOOSE record \in 0..(Word - 1) :
              /\ 8 + 4 * Dimension <= record
              /\ \A i \in Ids : 8 + IdLength[i] + 4 * Dimension <= record
              /\ 32 + Capacity * record + 4 + 1 < Word
Full == HeaderBytes + Capacity * Largest + ChecksumBytes

DistinctIds(es) == \A j, k \in DOMAIN es : es[j].id = es[k].id => j = k

StoreInv ==
    /\ entries \in Seq(Entry) /\ Len(entries) <= Capacity /\ DistinctIds(entries)
    /\ saved \subseteq Seq(Entry)

\* What a checksum was computed from: the whole of a saved index, unless it
\* has been damaged.
SumOfSaved(f) == f = NoFields \/ \E es \in saved : \E off : Layout(f, es, Len(es), off)

\* The values that a field may have, also a damaged one.
Sound(x) ==
    /\ x.kind \in {"magic", "integer", "id", "vector", "checksum"}
    /\ x.kind = "integer" => x.value \in Nat
    /\ x.kind = "id" => x.value \in Ids
    /\ x.kind = "vector" => x.value \in Vectors
    /\ x.kind = "checksum" => SumOfSaved(x.value)

SoundFields(f) == \A o \in DOMAIN f : o \in Nat /\ f[o].size \in Nat \ {0} /\ Sound(f[o])

HasHeader(f) ==
    /\ \A o \in HeaderOffsets : o \in DOMAIN f
    /\ \A o \in HeaderOffsets \ {0} : f[o].kind = "integer"

FileInv ==
    /\ SoundFields(file)
    /\ length \in Nat /\ length <= Full + 1
    /\ length > 0 => HasHeader(file)

Writing ==
    /\ writer.next \in 1..(Len(entries) + 1)
    /\ entries \in saved
    /\ length <= writer.at
    /\ writer.at <= HeaderBytes + (writer.next - 1) * Largest
    /\ Ends(file, writer.at) /\ Separate(file) /\ IsFile(file)
    /\ \E off : Layout(file, entries, writer.next - 1, off) /\ off[writer.next] = writer.at

WriterInv ==
    /\ writer \in [pc : {"idle", "records"}, next : Nat, at : Nat]
    /\ writer.pc = "idle" => writer = NotWriting
    /\ writer.pc = "records" => Writing

\* The file is that of es: g, and the checksum of g behind it.
Whole(g, es, off) ==
    /\ es \in Seq(Entry) /\ DistinctIds(es)
    /\ Layout(g, es, Len(es), off)
    /\ Ends(g, off[Len(es) + 1]) /\ Separate(g) /\ IsFile(g)
    /\ file = WithChecksum(g, off[Len(es) + 1])
    /\ length = off[Len(es) + 1] + ChecksumBytes

PristineInv ==
    /\ pristine \in BOOLEAN
    /\ pristine =>
          /\ writer.pc = "idle"
          /\ length <= Full
          /\ \E g, es, off : Whole(g, es, off)

SaveInv == StoreInv /\ FileInv /\ WriterInv /\ PristineInv

LEMMA Limits ==
    /\ Word \in Nat /\ Capacity \in Nat /\ Largest \in Nat /\ Full \in Nat /\ Full + 1 < Word
    /\ Capacity * Largest \in Nat /\ Floor <= Largest
    /\ \A e \in Entry : RecordBytes(e) <= Largest
<1>1. Word \in Nat /\ Capacity \in Nat
  BY LimitsAssumption
<1>2. /\ Largest \in 0..(Word - 1)
      /\ 8 + 4 * Dimension <= Largest
      /\ \A i \in Ids : 8 + IdLength[i] + 4 * Dimension <= Largest
      /\ 32 + Capacity * Largest + 4 + 1 < Word
  BY SizesAssumption DEF Largest
<1>3. Capacity * Largest \in Nat
  <2>1. Largest \in Nat
    BY <1>1, <1>2
  <2> QED
    BY <2>1, <1>1, OneMore
<1>4. \A e \in Entry : e.id \in Ids /\ RecordBytes(e) = 8 + IdLength[e.id] + 4 * Dimension
  BY DEF Entry, RecordBytes, FloatBytes
<1> QED
  BY <1>1, <1>2, <1>3, <1>4 DEF Full, HeaderBytes, ChecksumBytes, Floor, FloatBytes

LEMMA ProductGrows ==
    ASSUME NEW a \in Nat, NEW b \in Nat, NEW c \in Nat, a <= b
    PROVE  a * c <= b * c
  BY Z3

LEMMA FileFits ==
    ASSUME NEW n \in Nat, n <= Capacity
    PROVE  HeaderBytes + n * Largest + ChecksumBytes <= Full /\ n * Largest \in Nat
<1>1. n * Largest <= Capacity * Largest
  BY Limits, ProductGrows
<1>2. n * Largest \in Nat /\ Capacity * Largest \in Nat
  BY Limits, OneMore
<1>3. PICK a \in Nat, b \in Nat : a = n * Largest /\ b = Capacity * Largest
  BY <1>2
<1> QED
  BY <1>1, <1>3 DEF Full, HeaderBytes, ChecksumBytes

LEMMA LaidHeader ==
    ASSUME NEW f, NEW es, NEW n, NEW off, Layout(f, es, n, off)
    PROVE  HasHeader(f)
<1>1. \A o \in HeaderOffsets : o \in DOMAIN f /\ f[o] = Header(Len(es))[o]
  BY DEF Layout
<1>2. \A o \in HeaderOffsets \ {0} : Header(Len(es))[o].kind = "integer"
  BY DEF Header, HeaderOffsets, Field
<1> QED
  BY <1>1, <1>2 DEF HasHeader

\* The running save() has not written more than fits.
LEMMA WriterFits ==
    ASSUME SaveInv, writer.pc = "records"
    PROVE  writer.at \in Nat /\ length <= writer.at /\ writer.at + ChecksumBytes <= Full
<1>1. Writing /\ writer.at \in Nat /\ Len(entries) \in Nat /\ Len(entries) <= Capacity
  BY LenProperties DEF SaveInv, WriterInv, StoreInv
<1>2. writer.next - 1 \in Nat /\ writer.next - 1 <= Capacity
  BY <1>1, Limits DEF Writing
<1>3. PICK n \in Nat : n = writer.next - 1
  BY <1>2
<1>4. HeaderBytes + n * Largest + ChecksumBytes <= Full /\ n * Largest \in Nat
  BY <1>2, <1>3, FileFits
<1>5. writer.at <= HeaderBytes + n * Largest
  BY <1>1, <1>3 DEF Writing
<1>6. PICK a \in Nat : a = n * Largest
  BY <1>4
<1> QED
  BY <1>1, <1>4, <1>5, <1>6, Limits DEF Writing, HeaderBytes, ChecksumBytes

\* A file that is complete but for its checksum.
LEMMA Summed ==
    ASSUME SaveInv, writer.pc = "records", writer.next > Len(entries)
    PROVE  LET f == WithChecksum(file, writer.at)
           IN  /\ SoundFields(f) /\ HasHeader(f)
               /\ writer.next = Len(entries) + 1
               /\ writer.at \in Nat /\ writer.at + ChecksumBytes <= Full
               /\ \E off : /\ Layout(file, entries, Len(entries), off)
                           /\ off[Len(entries) + 1] = writer.at
<1> DEFINE f == WithChecksum(file, writer.at)
<1>1. Writing /\ writer.at \in Nat /\ SoundFields(file)
  BY DEF SaveInv, WriterInv, FileInv
<1>2. Len(entries) \in Nat /\ Len(entries) <= Capacity
  BY LenProperties DEF SaveInv, StoreInv
<1>3. writer.next = Len(entries) + 1
  BY <1>1, <1>2 DEF Writing
<1>4. PICK off : Layout(file, entries, Len(entries), off) /\ off[Len(entries) + 1] = writer.at
  BY <1>1, <1>2, <1>3 DEF Writing
<1>5. SumOfSaved(file)
  BY <1>1, <1>4 DEF Writing, SumOfSaved
<1>6. /\ DOMAIN f = DOMAIN file \cup {writer.at}
      /\ f[writer.at] = Field("checksum", ChecksumBytes, file)
      /\ \A o \in DOMAIN file : o # writer.at /\ f[o] = file[o]
  BY <1>1 DEF WithChecksum, Writing, Ends, SoundFields
<1>7. SoundFields(f)
  BY <1>1, <1>5, <1>6 DEF SoundFields, Sound, Field, ChecksumBytes
<1>8. HasHeader(f)
  <2>1. HasHeader(file)
    BY <1>4, LaidHeader
  <2> QED
    BY <2>1, <1>6 DEF HasHeader
<1>9. writer.at + ChecksumBytes <= Full
  BY WriterFits
<1> QED
  BY <1>1, <1>3, <1>4, <1>7, <1>8, <1>9

LEMMA SaveInit == Init => SaveInv
<1> SUFFICES ASSUME Init PROVE SaveInv
  OBVIOUS
<1>1. StoreInv
  BY LimitsAssumption, EmptySeq DEF Init, StoreInv, DistinctIds
<1>2. FileInv
  BY Limits DEF Init, FileInv, SoundFields, NoFields
<1>3. WriterInv /\ PristineInv
  BY DEF Init, WriterInv, PristineInv, NotWriting
<1> QED
  BY <1>1, <1>2, <1>3 DEF SaveInv

LEMMA AddStep ==
    ASSUME SaveInv, NEW i \in Ids, NEW v \in Vectors, Add(i, v)
    PROVE  SaveInv'
<1> DEFINE e == [id |-> i, vector |-> v]
<1>1. /\ writer.pc = "idle"
      /\ Len(entries) < Capacity
      /\ \A k \in DOMAIN entries : entries[k].id # i
      /\ entries' = Append(entries, e)
      /\ UNCHANGED <<file, length, writer, saved, pristine>>
  BY DEF Add
<1>2. entries \in Seq(Entry) /\ e \in Entry /\ Len(entries) \in Nat
  BY LenProperties DEF SaveInv, StoreInv, Entry
<1> HIDE DEF e
<1>3. /\ entries' \in Seq(Entry) /\ Len(entries') = Len(entries) + 1
      /\ \A k \in 1..Len(entries) : entries'[k] = entries[k]
      /\ entries'[Len(entries) + 1] = e
  BY <1>1, <1>2, AppendProperties
<1>4. DistinctIds(entries')
  <2>1. DOMAIN entries = 1..Len(entries) /\ DOMAIN entries' = 1..(Len(entries) + 1)
    BY <1>2, <1>3, LenProperties
  <2>2. \A k \in 1..Len(entries) : entries'[k].id # e.id
    BY <1>1, <1>3, <2>1 DEF e
  <2> QED
    BY <1>2, <1>3, <2>1, <2>2 DEF DistinctIds, SaveInv, StoreInv
<1>5. StoreInv'
  <2>1. Len(entries') <= Capacity
    BY <1>1, <1>2, <1>3, Limits
  <2> QED
    BY <1>1, <1>3, <1>4, <2>1 DEF SaveInv, StoreInv
<1>6. FileInv'
  BY <1>1 DEF SaveInv, FileInv, SoundFields, Sound, SumOfSaved, HasHeader
<1>7. WriterInv'
  BY <1>1 DEF SaveInv, WriterInv, NotWriting
<1>8. PristineInv'
  BY <1>1 DEF SaveInv, PristineInv, Whole
<1> QED
  BY <1>5, <1>6, <1>7, <1>8 DEF SaveInv

LEMMA BeginSaveStep ==
    ASSUME SaveInv, BeginSave
    PROVE  SaveInv'
<1>1. /\ file' = Header(Len(entries))
      /\ length' \in {0, HeaderBytes}
      /\ writer' = [pc |-> "records", next |-> 1, at |-> HeaderBytes]
      /\ saved' = saved \cup {entries}
      /\ entries' = entries
      /\ pristine' = FALSE
  BY DEF BeginSave, Disturb
<1>2. entries \in Seq(Entry) /\ Len(entries) \in Nat
  BY LenProperties DEF SaveInv, StoreInv
<1>3. StoreInv'
  BY <1>1, <1>2 DEF SaveInv, StoreInv
<1>4. FileInv'
  <2>1. DOMAIN file' = HeaderOffsets
    BY <1>1 DEF Header, HeaderOffsets
  <2>2. /\ \A o \in HeaderOffsets \ {0} : file'[o].kind = "integer" /\ file'[o].value \in Nat
        /\ file'[0].kind = "magic"
    BY <1>1, <1>2, Sizes DEF Header, HeaderOffsets, Field, Version
  <2>3. \A o \in HeaderOffsets : o \in Nat /\ file'[o].size \in Nat \ {0}
    BY <1>1 DEF Header, HeaderOffsets, Field
  <2>4. SoundFields(file)'
    BY <2>1, <2>2, <2>3 DEF SoundFields, Sound, HeaderOffsets
  <2>5. HasHeader(file)'
    BY <2>1, <2>2 DEF HasHeader
  <2>6. length' \in Nat /\ length' <= Full + 1
    BY <1>1, Limits DEF Full, HeaderBytes, ChecksumBytes
  <2> QED
    BY <2>4, <2>5, <2>6 DEF FileInv
<1>5. Writing'
  <2>1. writer'.next \in 1..(Len(entries') + 1) /\ writer'.next - 1 = 0 /\ 0 * Largest = 0
    BY <1>1, <1>2, Limits
  <2>2. length' <= writer'.at /\ writer'.at <= HeaderBytes + (writer'.next - 1) * Largest
    BY <1>1, <2>1 DEF HeaderBytes
  <2>3. Ends(file', writer'.at) /\ Separate(file')
    BY <1>1, <1>2, HeaderLaid
  <2>4. \E off : Layout(file', entries', 0, off) /\ off[1] = HeaderBytes
    BY <1>1, <1>2, HeaderLaid DEF Layout
  <2>5. IsFile(file')
    <3>1. IsFile(Header(Len(entries)))
      BY DEF Header, IsFile
    <3> QED
      BY <3>1, <1>1
  <2> QED
    BY <1>1, <2>1, <2>2, <2>3, <2>4, <2>5 DEF Writing
<1>6. WriterInv'
  BY <1>1, <1>5 DEF WriterInv, HeaderBytes
<1>7. PristineInv'
  BY <1>1 DEF PristineInv
<1> QED
  BY <1>3, <1>4, <1>6, <1>7 DEF SaveInv

LEMMA WriteRecordStep ==
    ASSUME SaveInv, WriteRecord
    PROVE  SaveInv'
<1> DEFINE n == writer.next - 1
           e == entries[n + 1]
           p == writer.at
<1>1. /\ writer.pc = "records" /\ writer.next <= Len(entries)
      /\ file' = WithRecord(file, p, entries[writer.next])
      /\ writer' = [writer EXCEPT !.next = writer.next + 1,
                                  !.at = writer.at + RecordBytes(entries[writer.next])]
      /\ length' \in {length, writer'.at}
      /\ UNCHANGED <<entries, saved>>
      /\ pristine' = FALSE
  BY DEF WriteRecord, Disturb
<1>2. /\ entries \in Seq(Entry) /\ Len(entries) \in Nat /\ Len(entries) <= Capacity
      /\ Writing /\ writer \in [pc : {"idle", "records"}, next : Nat, at : Nat]
  BY <1>1, LenProperties DEF SaveInv, StoreInv, WriterInv
<1>3. n \in Nat /\ n < Len(entries) /\ writer.next = n + 1 /\ p \in Nat
  BY <1>1, <1>2 DEF Writing
<1>4. e \in Entry /\ RecordBytes(e) \in Nat /\ RecordBytes(e) <= Largest
  <2>1. e \in Entry
    BY <1>2, <1>3, ElementOfSeq
  <2> QED
    BY <2>1, Sizes, Limits
<1>5. writer'.pc = "records" /\ writer'.next = n + 2 /\ writer'.at = p + RecordBytes(e)
  BY <1>1, <1>2, <1>3
<1>6. PICK off : Layout(file, entries, n, off) /\ off[n + 1] = p
  BY <1>2, <1>3 DEF Writing
<1>7. /\ Ends(file', writer'.at) /\ Separate(file') /\ IsFile(file')
      /\ \E next : Layout(file', entries, n + 1, next) /\ next[n + 2] = writer'.at
  <2>1. Ends(file, off[n + 1]) /\ Separate(file)
    BY <1>2, <1>6 DEF Writing
  <2> QED
    <3>1. \E next :
             /\ Layout(WithRecord(file, off[n + 1], e), entries, n + 1, next)
             /\ next[n + 2] = off[n + 1] + RecordBytes(e)
             /\ Ends(WithRecord(file, off[n + 1], e), off[n + 1] + RecordBytes(e))
             /\ Separate(WithRecord(file, off[n + 1], e))
      BY <2>1, <1>2, <1>3, <1>6, RecordLaid
    <3>2. file' = WithRecord(file, off[n + 1], e)
      BY <1>1, <1>3, <1>6
    <3>3. IsFile(WithRecord(file, off[n + 1], e))
      BY DEF WithRecord, IsFile
    <3> QED
      BY <3>1, <3>2, <3>3, <1>5, <1>6
<1>8. writer' \in [pc : {"idle", "records"}, next : Nat, at : Nat]
  <2>1. writer.at + RecordBytes(entries[writer.next]) \in Nat /\ writer.next + 1 \in Nat
    BY <1>3, <1>4
  <2> QED
    BY <2>1, <1>1, <1>2
<1> HIDE DEF e, p, n
<1>9. writer'.at <= HeaderBytes + (n + 1) * Largest
  <2>1. n * Largest \in Nat /\ (n + 1) * Largest = n * Largest + Largest
    BY <1>3, Limits, OneMore
  <2>2. p <= HeaderBytes + n * Largest
    BY <1>2 DEF Writing, n, p
  <2>3. PICK a \in Nat : a = n * Largest
    BY <2>1
  <2>4. p <= HeaderBytes + a /\ (n + 1) * Largest = a + Largest
    BY <2>1, <2>2, <2>3
  <2> QED
    BY <2>4, <1>3, <1>4, <1>5, Limits DEF HeaderBytes
<1>10. writer'.at \in Nat /\ length' <= writer'.at /\ length' \in Nat /\ length <= p
  <2>1. length \in Nat /\ length <= p
    BY <1>2 DEF Writing, SaveInv, FileInv, p
  <2>2. PICK r \in Nat : r = RecordBytes(e)
    BY <1>4
  <2>3. writer'.at = p + r
    BY <2>2, <1>5
  <2> QED
    BY <2>1, <2>3, <1>1, <1>3
<1>11. writer'.at <= Full
  <2>1. n + 1 \in Nat /\ n + 1 <= Capacity
    BY <1>2, <1>3, Limits
  <2>2. HeaderBytes + (n + 1) * Largest + ChecksumBytes <= Full /\ (n + 1) * Largest \in Nat
    BY <2>1, FileFits
  <2>3. PICK a \in Nat : a = (n + 1) * Largest
    BY <2>2
  <2> QED
    BY <2>2, <2>3, <1>9, <1>10, Limits DEF HeaderBytes, ChecksumBytes
<1>12. Writing'
  <2>1. writer'.next \in 1..(Len(entries') + 1) /\ writer'.next - 1 = n + 1
    BY <1>1, <1>2, <1>3, <1>5
  <2>2. entries' \in saved'
    BY <1>1, <1>2 DEF Writing
  <2> QED
    BY <2>1, <2>2, <1>1, <1>5, <1>7, <1>9, <1>10 DEF Writing
<1>13. WriterInv'
  BY <1>5, <1>12, <1>8 DEF WriterInv
<1>14. FileInv'
  <2>1. e.id \in Ids /\ e.vector \in Vectors /\ IdLength[e.id] \in Nat
    BY <1>4, Sizes DEF Entry
  <2>2. /\ DOMAIN file' = DOMAIN file \cup {p, p + 8, p + 8 + IdLength[e.id]}
        /\ \A o \in DOMAIN file' :
              \/ file'[o] = Field("integer", 8, IdLength[e.id])
              \/ file'[o] = Field("vector", FloatBytes * Dimension, e.vector)
              \/ file'[o] = Field("id", IdLength[e.id], e.id)
              \/ o \in DOMAIN file /\ file'[o] = file[o]
    BY <1>1, <1>3 DEF WithRecord, e, p
  <2>3. \A o \in DOMAIN file' : o \in Nat /\ file'[o].size \in Nat \ {0}
    BY <1>7 DEF Ends
  <2>4. SoundFields(file)'
    <3> SUFFICES ASSUME NEW o \in DOMAIN file' PROVE Sound(file[o])'
      BY <2>3 DEF SoundFields
    <3>1. CASE o \in DOMAIN file /\ file'[o] = file[o]
      BY <3>1, <1>1 DEF SaveInv, FileInv, SoundFields, Sound, SumOfSaved
    <3>2. CASE ~ (o \in DOMAIN file /\ file'[o] = file[o])
      BY <3>2, <2>1, <2>2 DEF Sound, Field
    <3> QED
      BY <3>1, <3>2
  <2>5. HasHeader(file')
    BY <1>7, LaidHeader
  <2> QED
    BY <2>4, <2>5, <1>10, <1>11, Limits DEF FileInv
<1>15. StoreInv' /\ PristineInv'
  BY <1>1 DEF SaveInv, StoreInv, PristineInv
<1> QED
  BY <1>13, <1>14, <1>15 DEF SaveInv

LEMMA FinishSaveStep ==
    ASSUME SaveInv, FinishSave
    PROVE  SaveInv'
<1>1. /\ writer.pc = "records" /\ writer.next > Len(entries)
      /\ file' = WithChecksum(file, writer.at)
      /\ length' = writer.at + ChecksumBytes
      /\ writer' = NotWriting
      /\ pristine' = TRUE
      /\ UNCHANGED <<entries, saved>>
  BY DEF FinishSave
<1>2. /\ SoundFields(file') /\ HasHeader(file')
      /\ writer.next = Len(entries) + 1
      /\ writer.at \in Nat /\ writer.at + ChecksumBytes <= Full
  BY <1>1, Summed
<1>3. PICK off : Layout(file, entries, Len(entries), off) /\ off[Len(entries) + 1] = writer.at
  BY <1>1, Summed
<1>4. FileInv'
  <2>1. SoundFields(file)'
    BY <1>1, <1>2 DEF SoundFields, Sound, SumOfSaved
  <2> QED
    BY <2>1, <1>1, <1>2, Limits DEF FileInv, ChecksumBytes
<1>5. WriterInv'
  BY <1>1 DEF WriterInv, NotWriting
<1>6. PICK g, es : g = file /\ es = entries
  OBVIOUS
<1>7. Whole(g, es, off)'
  BY <1>1, <1>3, <1>6 DEF SaveInv, StoreInv, WriterInv, Writing, Whole
<1>8. PristineInv'
  BY <1>1, <1>2, <1>3, <1>7 DEF PristineInv, NotWriting, Whole
<1> QED
  BY <1>1, <1>4, <1>5, <1>8 DEF SaveInv, StoreInv

\* What a failed save() leaves on the disk.
LEMMA Abandoned ==
    ASSUME SaveInv, writer.pc = "records", AbandonFile, saved' = saved
    PROVE  FileInv' /\ WriterInv'
<1> DEFINE complete == writer.next > Len(entries)
<1>1. /\ file' = IF complete THEN WithChecksum(file, writer.at) ELSE file
      /\ length' \in length..(writer.at + IF complete THEN ChecksumBytes ELSE 0)
      /\ writer' = NotWriting
  BY DEF AbandonFile
<1>2. /\ writer.at \in Nat /\ length <= writer.at /\ writer.at + ChecksumBytes <= Full
      /\ length \in Nat
  BY WriterFits DEF SaveInv, FileInv
<1>3. length' \in Nat /\ length' <= Full + 1
  BY <1>1, <1>2, Limits DEF ChecksumBytes
<1>4. SoundFields(file') /\ HasHeader(file')
  <2>1. CASE complete
    BY <2>1, <1>1, Summed
  <2>2. CASE ~ complete
    <3>1. HasHeader(file)
      BY LaidHeader DEF SaveInv, WriterInv, Writing
    <3> QED
      BY <2>2, <3>1, <1>1 DEF SaveInv, FileInv
  <2> QED
    BY <2>1, <2>2
<1>5. SoundFields(file)'
  BY <1>4 DEF SoundFields, Sound, SumOfSaved
<1> QED
  BY <1>1, <1>3, <1>4, <1>5 DEF FileInv, WriterInv, NotWriting

LEMMA SaveFailsStep ==
    ASSUME SaveInv, SaveFails
    PROVE  SaveInv'
<1>1. writer.pc = "records" /\ AbandonFile /\ UNCHANGED <<entries, saved>> /\ pristine' = FALSE
  BY DEF SaveFails, Disturb
<1>2. FileInv' /\ WriterInv'
  BY <1>1, Abandoned
<1> QED
  BY <1>1, <1>2 DEF SaveInv, StoreInv, PristineInv

LEMMA CrashStep ==
    ASSUME SaveInv, Crash
    PROVE  SaveInv'
<1>1. entries' = <<>> /\ saved' = saved
  BY DEF Crash
<1>2. StoreInv'
  BY <1>1, EmptySeq, Limits DEF SaveInv, StoreInv, DistinctIds
<1>3. CASE writer.pc = "idle"
  <2>1. UNCHANGED <<file, length, writer, pristine>>
    BY <1>3 DEF Crash
  <2>2. FileInv' /\ PristineInv'
    BY <1>1, <2>1 DEF SaveInv, FileInv, SoundFields, Sound, SumOfSaved, HasHeader, PristineInv,
                      Whole
  <2> QED
    BY <1>2, <1>3, <2>1, <2>2 DEF SaveInv, WriterInv, NotWriting
<1>4. CASE writer.pc # "idle"
  <2>1. writer.pc = "records" /\ AbandonFile /\ pristine' = FALSE
    BY <1>4 DEF Crash, Disturb, SaveInv, WriterInv
  <2>2. FileInv' /\ WriterInv'
    BY <1>1, <2>1, Abandoned
  <2> QED
    BY <1>2, <2>1, <2>2 DEF SaveInv, PristineInv
<1> QED
  BY <1>3, <1>4

LEMMA StorageStep ==
    ASSUME SaveInv, Storage
    PROVE  SaveInv'
<1>1. /\ writer.pc = "idle" /\ pristine /\ pristine' = FALSE
      /\ UNCHANGED <<entries, writer, saved>>
  BY DEF Storage, LoseBytes, AppendByte, DamageField, Disturb
<1>2. length \in Nat /\ length <= Full /\ SoundFields(file) /\ (length > 0 => HasHeader(file))
  BY <1>1 DEF SaveInv, FileInv, PristineInv
<1>3. length > 0
  <2>1. PICK g, es, off : Whole(g, es, off)
    BY <1>1 DEF SaveInv, PristineInv
  <2>2. Len(es) \in Nat
    BY <2>1, LenProperties DEF Whole
  <2>3. off[Len(es) + 1] \in Nat
    BY <2>1, <2>2 DEF Whole, Layout
  <2> QED
    BY <2>1, <2>3 DEF Whole, ChecksumBytes
<1>4. length' \in Nat /\ length' <= Full + 1
  BY <1>2, Limits DEF Storage, LoseBytes, AppendByte, DamageField
<1>5. SoundFields(file') /\ HasHeader(file')
  <2>1. CASE LoseBytes \/ AppendByte
    BY <2>1, <1>2, <1>3 DEF LoseBytes, AppendByte
  <2>2. CASE DamageField
    <3>1. PICK o \in DOMAIN file :
             \E v \in Damaged(o) : file' = [file EXCEPT ![o].value = v]
      BY <2>2 DEF DamageField
    <3>2. PICK v \in Damaged(o) : file' = [file EXCEPT ![o].value = v]
      BY <3>1
    <3>3. /\ DOMAIN file' = DOMAIN file
          /\ \A q \in DOMAIN file : q # o => file'[q] = file[q]
          /\ file'[o] = [file[o] EXCEPT !.value = v]
      BY <3>2
    <3>4. Sound(file[o])
      BY <1>2 DEF SoundFields
    <3>5. file'[o].kind = file[o].kind /\ file'[o].size = file[o].size /\ file'[o].value = v
      BY <3>3
    <3>6. Sound(file'[o])
      BY <3>2, <3>4, <3>5, LimitsAssumption DEF Sound, Damaged, SumOfSaved
    <3>7. SoundFields(file')
      BY <1>2, <3>3, <3>5, <3>6 DEF SoundFields
    <3>8. HasHeader(file')
      BY <1>2, <1>3, <3>3, <3>5 DEF HasHeader
    <3> QED
      BY <3>7, <3>8
  <2> QED
    BY <2>1, <2>2 DEF Storage
<1>6. SoundFields(file)'
  BY <1>1, <1>5 DEF SoundFields, Sound, SumOfSaved
<1>7. FileInv'
  BY <1>4, <1>5, <1>6 DEF FileInv
<1> QED
  BY <1>1, <1>7 DEF SaveInv, StoreInv, WriterInv, NotWriting, PristineInv

\* Loading changes nothing of all this.
SaveVars == <<entries, file, length, writer, saved, pristine>>

LEMMA SaveUnchanged == SaveInv /\ UNCHANGED SaveVars => SaveInv'
  BY DEF SaveVars, SaveInv, StoreInv, FileInv, SoundFields, Sound, SumOfSaved, HasHeader,
         WriterInv, Writing, PristineInv, Whole

LEMMA LoadKeepsFile == Load \/ UNCHANGED vars => UNCHANGED SaveVars
  BY DEF Load, vars, SaveVars, OpenLoad, OpenTooShort, LoadFails, ReadHeader, RefuseHeader,
         RefuseBackend, ReadIdLength, RefuseTruncated, ReadEntry, RefuseEntry, FinishLoad,
         RefuseEnd, EndLoad, Refuse

LEMMA SaveNext == SaveInv /\ [Next]_vars => SaveInv'
<1> SUFFICES ASSUME SaveInv, [Next]_vars PROVE SaveInv'
  OBVIOUS
<1>1. CASE \E i \in Ids, v \in Vectors : Add(i, v)
  BY <1>1, AddStep
<1>2. CASE Save
  BY <1>2, BeginSaveStep, WriteRecordStep, FinishSaveStep, SaveFailsStep DEF Save
<1>3. CASE Crash \/ Storage
  BY <1>3, CrashStep, StorageStep
<1>4. CASE Load \/ UNCHANGED vars
  BY <1>4, LoadKeepsFile, SaveUnchanged
<1> QED
  BY <1>1, <1>2, <1>3, <1>4 DEF Next

----------------------------------------------------------------------------
(* The load().                                                              *)

Reading == reader.pc \in {"length", "entry"}

\* The fields of a reader; what it has seen is checked with the file.
Shape(r) ==
    r \in [pc : {"idle", "header", "length", "entry"},
          length : Nat, at : Nat, remaining : Nat,
          dimension : 0..MaxFloats, count : Nat, idLength : 0..MaxChars,
          records : Seq(Entry), seen : {r.seen},
          clean : BOOLEAN, undisturbed : BOOLEAN, accepts : SUBSET Vectors]

\* What is left of the file holds what is left to be read.
RoomInv ==
    LET least == 8 + FloatBytes * reader.dimension
    IN  /\ reader.dimension > 0 /\ least < Word
        /\ RecordsLeft \in Nat
        /\ reader.at + reader.remaining + ChecksumBytes = reader.length
        /\ reader.pc = "length" => RecordsLeft * least <= reader.remaining
        /\ reader.pc = "entry" =>
              /\ RecordsLeft > 0
              /\ reader.idLength + FloatBytes * reader.dimension
                     + (RecordsLeft - 1) * least <= reader.remaining

\* The fields that have been taken in.
SeenInv ==
    /\ IsFile(reader.seen)
    /\ \A o \in DOMAIN reader.seen : o \in Nat /\ o < reader.at
    /\ \A o \in HeaderOffsets : o \in DOMAIN reader.seen

Agrees(s, f) == \A o \in DOMAIN s : o \in DOMAIN f /\ s[o] = f[o]

\* The reader is in the file of es, and has its first records.
Parsed(es, off) ==
    LET n == Len(reader.records)
    IN  /\ reader.dimension = Dimension /\ reader.count = Len(es)
        /\ n <= Len(es) /\ \A k \in 1..n : reader.records[k] = es[k]
        /\ reader.pc = "length" => reader.at = off[n + 1]
        /\ reader.pc = "entry" =>
              /\ n < Len(es)
              /\ reader.at = off[n + 1] + 8
              /\ reader.idLength = IdLength[es[n + 1].id]

ParseInv ==
    \A f, es, off :
        es \in Seq(Entry) /\ Layout(f, es, Len(es), off) /\ Agrees(reader.seen, f)
            => Parsed(es, off)

\* Nothing of a file that nobody has touched is missed.
Covers(g) ==
    /\ Agrees(reader.seen, g)
    /\ \A o \in DOMAIN g : o < reader.at => o \in DOMAIN reader.seen

UndisturbedInv ==
    /\ pristine /\ reader.length = length
    /\ Reading => reader.clean /\ \A g, es, off : Whole(g, es, off) => Covers(g)

ReaderInv ==
    /\ Shape(reader)
    /\ reader.length < Word
    /\ reader.pc = "idle" => reader = NotReading
    /\ reader.pc = "header" =>
          /\ reader.length >= HeaderBytes + ChecksumBytes
          /\ reader.records = <<>> /\ reader.clean
          /\ reader.remaining = 0 /\ reader.count = 0
    /\ Reading => RoomInv /\ SeenInv
    /\ Reading /\ reader.clean => ParseInv
    /\ reader.pc # "idle" /\ reader.undisturbed => UndisturbedInv

OutcomeInv ==
    /\ outcome.kind \in {"none", "invalid", "mismatch", "failed", "loaded"}
    /\ LoadedIsSaved /\ IntactFilesLoad

IInv == SaveInv /\ ReaderInv /\ OutcomeInv

LEMMA IdleShape ==
    ASSUME NEW r, r = NotReading
    PROVE  /\ Shape(r)
           /\ r.length < Word /\ r.pc = "idle"
<1>1. 0 \in 0..MaxFloats /\ 0 \in 0..MaxChars /\ 0 < Word
  BY LimitsAssumption
<1>2. <<>> \in Seq(Entry)
  BY EmptySeq
<1> QED
  BY <1>1, <1>2 DEF NotReading, Shape

LEMMA LoadInit == Init => IInv
<1> SUFFICES ASSUME Init PROVE IInv
  OBVIOUS
<1>1. reader = NotReading /\ outcome = Nowhere
  BY DEF Init
<1>2. ReaderInv
  BY <1>1, IdleShape DEF ReaderInv, Shape, Reading
<1>3. OutcomeInv
  BY <1>1 DEF OutcomeInv, LoadedIsSaved, IntactFilesLoad, Nowhere
<1> QED
  BY <1>2, <1>3, SaveInit DEF IInv

----------------------------------------------------------------------------
(* What others do does not concern a load() that was disturbed, and nothing *)
(* is done to the file of one that was not.                                 *)

LEMMA Disturbed ==
    ASSUME ReaderInv, reader' = [reader EXCEPT !.undisturbed = FALSE]
    PROVE  ReaderInv'
<1>1. /\ reader'.undisturbed = FALSE
      /\ reader'.pc = reader.pc /\ reader'.length = reader.length /\ reader'.at = reader.at
      /\ reader'.remaining = reader.remaining /\ reader'.dimension = reader.dimension
      /\ reader'.count = reader.count /\ reader'.idLength = reader.idLength
      /\ reader'.records = reader.records /\ reader'.seen = reader.seen
      /\ reader'.clean = reader.clean /\ reader'.accepts = reader.accepts
  BY DEF ReaderInv, Shape
<1>2. Shape(reader)'
  BY <1>1 DEF ReaderInv, Shape
<1>3. reader.pc = "idle" => reader' = NotReading
  <2> SUFFICES ASSUME reader.pc = "idle" PROVE reader' = reader
    BY DEF ReaderInv
  <2>1. reader.undisturbed = FALSE
    BY DEF ReaderInv, NotReading
  <2>2. reader' = [reader EXCEPT !.undisturbed = reader.undisturbed]
    BY <2>1
  <2> QED
    BY <2>2 DEF ReaderInv, Shape
<1>4. (RoomInv => RoomInv') /\ (SeenInv => SeenInv') /\ (ParseInv => ParseInv')
  BY <1>1 DEF RoomInv, RecordsLeft, SeenInv, ParseInv, Parsed
<1> QED
  BY <1>1, <1>2, <1>3, <1>4 DEF ReaderInv, Reading

LEMMA ReaderUnchanged ==
    ASSUME ReaderInv, UNCHANGED <<reader, file, length, pristine>>
    PROVE  ReaderInv'
<1>1. (UndisturbedInv => UndisturbedInv')
  BY DEF UndisturbedInv, Reading, Whole, Covers
<1>2. (RoomInv => RoomInv') /\ (SeenInv => SeenInv') /\ (ParseInv => ParseInv')
  BY DEF RoomInv, RecordsLeft, SeenInv, ParseInv, Parsed
<1> QED
  BY <1>1, <1>2 DEF ReaderInv, Shape, Reading

LEMMA OthersStep ==
    ASSUME IInv, (\E i \in Ids, v \in Vectors : Add(i, v)) \/ Save \/ Crash \/ Storage
    PROVE  ReaderInv' /\ OutcomeInv'
<1>1. outcome' = Nowhere
  BY DEF Add, Save, BeginSave, WriteRecord, FinishSave, SaveFails, Crash, Storage, LoseBytes,
         AppendByte, DamageField, Disturb
<1>2. OutcomeInv'
  BY <1>1 DEF OutcomeInv, LoadedIsSaved, IntactFilesLoad, Nowhere
<1>3. \/ reader' = [reader EXCEPT !.undisturbed = FALSE]
      \/ UNCHANGED <<reader, file, length, pristine>>
  BY DEF Add, Save, BeginSave, WriteRecord, FinishSave, SaveFails, Crash, Storage, LoseBytes,
         AppendByte, DamageField, Disturb
<1> QED
  BY <1>2, <1>3, Disturbed, ReaderUnchanged DEF IInv

\* A load() that has ended.
LEMMA EndStep ==
    ASSUME IInv, NEW result, EndLoad(result),
           result.kind \in {"invalid", "mismatch", "failed", "loaded"},
           result.kind = "loaded" => result.dimension = Dimension /\ result.index \in saved,
           result.kind = "invalid" => ~ result.intact
    PROVE  ReaderInv' /\ OutcomeInv'
<1>1. outcome' = result /\ reader' = NotReading /\ saved' = saved
  BY DEF EndLoad
<1>2. ReaderInv'
  BY <1>1, IdleShape DEF ReaderInv, Shape, Reading
<1>3. OutcomeInv'
  BY <1>1 DEF OutcomeInv, LoadedIsSaved, IntactFilesLoad
<1> QED
  BY <1>2, <1>3

LEMMA OpenLoadStep ==
    ASSUME IInv, OpenLoad
    PROVE  ReaderInv' /\ OutcomeInv'
<1>1. /\ length >= HeaderBytes + ChecksumBytes
      /\ reader' = [NotReading EXCEPT !.pc = "header", !.length = length,
                                      !.undisturbed = pristine]
      /\ outcome' = Nowhere
      /\ UNCHANGED <<length, pristine>>
  BY DEF OpenLoad
<1>2. length \in Nat /\ length < Word /\ pristine \in BOOLEAN
  BY Limits DEF IInv, SaveInv, FileInv, PristineInv
<1>3. Shape(reader)'
  <2>1. 0 \in 0..MaxFloats /\ 0 \in 0..MaxChars /\ <<>> \in Seq(Entry)
    BY LimitsAssumption, EmptySeq
  <2> QED
    BY <1>1, <1>2, <2>1 DEF Shape, NotReading
<1>4. /\ reader'.pc = "header" /\ reader'.length = length /\ reader'.records = <<>>
      /\ reader'.clean = TRUE /\ reader'.undisturbed = pristine
      /\ reader'.remaining = 0 /\ reader'.count = 0
  BY <1>1 DEF NotReading
<1>5. ReaderInv'
  BY <1>1, <1>2, <1>3, <1>4 DEF ReaderInv, Reading, UndisturbedInv
<1>6. OutcomeInv'
  BY <1>1 DEF OutcomeInv, LoadedIsSaved, IntactFilesLoad, Nowhere
<1> QED
  BY <1>5, <1>6

\* Where things are in the file of es.
LEMMA WholeFile ==
    ASSUME NEW g, NEW es, NEW off, Whole(g, es, off)
    PROVE  LET end == off[Len(es) + 1]
           IN  /\ Len(es) \in Nat /\ end \in Nat /\ length = end + ChecksumBytes
               /\ end >= HeaderBytes + Len(es) * Floor
               /\ \A o \in DOMAIN g : o \in Nat /\ o < end /\ o \in DOMAIN file /\ file[o] = g[o]
               /\ end \in DOMAIN file /\ file[end] = Field("checksum", ChecksumBytes, g)
<1> DEFINE end == off[Len(es) + 1]
<1>1. Len(es) \in Nat
  BY LenProperties DEF Whole
<1>2. /\ off \in [1..(Len(es) + 1) -> Nat] /\ off[1] = HeaderBytes
      /\ \A j, k \in 1..(Len(es) + 1) : j <= k => off[k] >= off[j] + (k - j) * Floor
  BY DEF Whole, Layout
<1>3. end \in Nat
  BY <1>1, <1>2
<1>4. end >= HeaderBytes + Len(es) * Floor
  <2>1. 1 \in 1..(Len(es) + 1) /\ Len(es) + 1 \in 1..(Len(es) + 1) /\ 1 <= Len(es) + 1
        /\ (Len(es) + 1) - 1 = Len(es)
    BY <1>1
  <2> QED
    BY <2>1, <1>2
<1>5. \A o \in DOMAIN g : o \in Nat /\ g[o].size \in Nat \ {0} /\ o + g[o].size <= end
  BY DEF Whole, Ends
<1>6. file = WithChecksum(g, end) /\ length = end + ChecksumBytes
  BY DEF Whole
<1>7. \A o \in DOMAIN g : o < end /\ o # end
  BY <1>3, <1>5
<1> QED
  BY <1>1, <1>3, <1>4, <1>5, <1>6, <1>7 DEF WithChecksum

LEMMA OpenTooShortStep ==
    ASSUME IInv, OpenTooShort
    PROVE  ReaderInv' /\ OutcomeInv'
<1>1. length < HeaderBytes + ChecksumBytes /\ EndLoad(Invalid(pristine))
  BY DEF OpenTooShort
<1>2. ~ pristine
  <2> SUFFICES ASSUME pristine PROVE FALSE
    OBVIOUS
  <2>1. PICK g, es, off : Whole(g, es, off)
    BY DEF IInv, SaveInv, PristineInv
  <2>2. Len(es) * Floor \in Nat
    BY <2>1, WholeFile, Sizes, OneMore
  <2>3. PICK a \in Nat : a = Len(es) * Floor
    BY <2>2
  <2> QED
    BY <1>1, <2>1, <2>3, WholeFile DEF HeaderBytes, ChecksumBytes
<1> QED
  BY <1>1, <1>2, EndStep DEF Invalid

----------------------------------------------------------------------------
(* The header.                                                              *)

LEMMA NoWrap ==
    ASSUME NEW n \in Nat, 8 + FloatBytes * n < Word
    PROVE  /\ VectorBytes(n) = FloatBytes * n
           /\ MinimumRecordBytes(n) = 8 + FloatBytes * n
<1>1. Word \in Nat /\ 8 + 4 * n < Word
  BY LimitsAssumption DEF FloatBytes
<1>2. VectorBytes(n) = 4 * n
  <2>1. (n * 4) % Word = n * 4
    BY <1>1, Z3
  <2> QED
    BY <2>1 DEF VectorBytes, FloatBytes
<1>3. MinimumRecordBytes(n) = 8 + 4 * n
  <2>1. PICK m \in Nat : m = 8 + 4 * n
    OBVIOUS
  <2>2. m % Word = m
    BY <2>1, <1>1, Z3
  <2> QED
    BY <2>1, <2>2, <1>2 DEF MinimumRecordBytes
<1> QED
  BY <1>2, <1>3 DEF FloatBytes

\* The checks of the dimension keep its products in the range of the integers.
LEMMA DimensionFits ==
    ASSUME NEW n \in Nat, DimensionAllowed(n)
    PROVE  n \in 1..MaxFloats /\ 8 + FloatBytes * n < Word
<1>1. Word \in Nat /\ Word > 36 /\ MaxFloats \in Nat
  BY LimitsAssumption
<1>2. n # 0 /\ n <= MaxFloats /\ n <= (Word - 1 - 8) \div 4
  BY DEF DimensionAllowed, FloatBytes
<1>3. 4 * ((Word - 1 - 8) \div 4) <= Word - 9
  BY <1>1
<1> QED
  BY <1>1, <1>2, <1>3 DEF FloatBytes

\* So is the saved dimension, and it passes the checks.
LEMMA SavedDimensionAllowed ==
    /\ DimensionAllowed(Dimension)
    /\ VectorBytes(Dimension) = FloatBytes * Dimension
    /\ MinimumRecordBytes(Dimension) = Floor
<1>1. Word \in Nat /\ Word > 36 /\ Dimension \in Nat /\ Dimension # 0 /\ Dimension <= MaxFloats
  BY LimitsAssumption
<1>2. 8 + 4 * Dimension <= Word - 1
  BY SizesAssumption, <1>1
<1>3. Dimension <= (Word - 1 - 8) \div 4
  BY <1>1, <1>2
<1>4. DimensionAllowed(Dimension)
  BY <1>1, <1>3 DEF DimensionAllowed, FloatBytes
<1> QED
  BY <1>1, <1>4, DimensionFits, NoWrap DEF Floor

LEMMA QuotientBound ==
    ASSUME NEW a \in Nat, NEW b \in Nat, NEW c \in Nat \ {0}
    PROVE  a <= b \div c <=> a * c <= b
<1>1. PICK q \in Nat, r \in Nat : b = c * q + r /\ r < c /\ b \div c = q
  BY Z3
<1>2. CASE a <= q
  <2>1. a * c <= q * c
    BY <1>1, <1>2, ProductGrows
  <2> QED
    BY <1>1, <1>2, <2>1, Z3
<1>3. CASE ~ a <= q
  <2>1. (q + 1) * c <= a * c
    BY <1>1, <1>3, ProductGrows
  <2>2. (q + 1) * c = q * c + c
    BY <1>1, OneMore
  <2> QED
    BY <1>1, <1>3, <2>1, <2>2, Z3
<1> QED
  BY <1>2, <1>3

LEMMA ReadHeaderStep ==
    ASSUME IInv, ReadHeader
    PROVE  ReaderInv' /\ OutcomeInv'
<1> DEFINE left == reader.length - ChecksumBytes - HeaderBytes
<1>1. /\ reader.pc = "header" /\ HeaderBytes <= length /\ HeaderAllowed
      /\ UNCHANGED <<file, length, saved, pristine, outcome>>
  BY DEF ReadHeader, OnDisk
<1>2. PICK accepts \in {Vectors, Accepted} : reader' = [reader EXCEPT
          !.accepts = accepts,
          !.pc = "length", !.at = HeaderBytes, !.remaining = left,
          !.dimension = file[16].value, !.count = file[24].value,
          !.seen = [o \in {0, 8, 12, 16, 24} |-> file[o]]]
  BY DEF ReadHeader
<1>3. /\ Shape(reader) /\ reader.length < Word /\ reader.length >= HeaderBytes + ChecksumBytes
      /\ reader.records = <<>> /\ reader.clean
      /\ reader.undisturbed => UndisturbedInv
  BY <1>1 DEF IInv, ReaderInv
<1>4. HasHeader(file) /\ SoundFields(file)
  BY <1>1 DEF IInv, SaveInv, FileInv, HeaderBytes
<1>5. file[16].value \in Nat /\ file[24].value \in Nat
  BY <1>4 DEF HasHeader, SoundFields, Sound, HeaderOffsets
<1>6. left \in Nat /\ left < Word /\ HeaderBytes + left + ChecksumBytes = reader.length
  <2>1. reader.length \in Nat
    BY <1>3 DEF Shape
  <2> QED
    BY <2>1, <1>3, Limits DEF HeaderBytes, ChecksumBytes
<1>7. DimensionAllowed(file[16].value) /\ CountAllowed(file[24].value, file[16].value, left)
  BY <1>1 DEF HeaderAllowed
<1>8. /\ file[16].value \in 1..MaxFloats /\ 8 + FloatBytes * file[16].value < Word
      /\ MinimumRecordBytes(file[16].value) = 8 + FloatBytes * file[16].value
  BY <1>5, <1>7, DimensionFits, NoWrap
<1> HIDE DEF left
<1>9. /\ reader'.pc = "length" /\ reader'.at = HeaderBytes /\ reader'.remaining = left
      /\ reader'.dimension = file[16].value /\ reader'.count = file[24].value
      /\ reader'.seen = [o \in HeaderOffsets |-> file[o]]
      /\ reader'.length = reader.length /\ reader'.records = <<>> /\ reader'.clean = reader.clean
      /\ reader'.undisturbed = reader.undisturbed
  BY <1>2, <1>3 DEF Shape, HeaderOffsets
<1>10. Shape(reader)'
  <2>1. accepts \in SUBSET Vectors
    BY LimitsAssumption
  <2>2. HeaderBytes \in Nat /\ file[16].value \in 0..MaxFloats
    BY <1>8 DEF HeaderBytes
  <2> QED
    BY <2>1, <2>2, <1>2, <1>3, <1>5, <1>6 DEF Shape
<1>11. RoomInv'
  <2>1. RecordsLeft' = file[24].value
    BY <1>5, <1>9, EmptySeq DEF RecordsLeft
  <2>2. PICK c \in Nat \ {0} : c = 8 + FloatBytes * file[16].value
    BY <1>5, <1>8 DEF FloatBytes
  <2>3. file[24].value <= left \div c
    BY <2>2, <1>7, <1>8 DEF CountAllowed
  <2>4. file[24].value * c <= left
    BY <2>2, <2>3, <1>5, <1>6, QuotientBound
  <2> QED
    BY <2>1, <2>2, <2>4, <1>5, <1>6, <1>8, <1>9 DEF RoomInv
<1>12. SeenInv'
  BY <1>9 DEF SeenInv, IsFile, HeaderOffsets, HeaderBytes
<1>13. ParseInv'
  <2> SUFFICES ASSUME NEW f, NEW es, NEW off, es \in Seq(Entry),
                      Layout(f, es, Len(es), off), Agrees(reader'.seen, f)
               PROVE  Parsed(es, off)'
    BY DEF ParseInv
  <2>1. f[16] = file[16] /\ f[24] = file[24]
    BY <1>9 DEF Agrees, HeaderOffsets
  <2>2. f[16] = Header(Len(es))[16] /\ f[24] = Header(Len(es))[24]
    BY DEF Layout, HeaderOffsets
  <2>3. file[16].value = Dimension /\ file[24].value = Len(es)
    BY <2>1, <2>2 DEF Header, Field
  <2>4. Len(es) \in Nat /\ Len(<<>>) = 0 /\ off[1] = HeaderBytes
    BY LenProperties, EmptySeq DEF Layout
  <2> QED
    BY <2>3, <2>4, <1>9 DEF Parsed
<1>14. ASSUME reader.undisturbed PROVE UndisturbedInv'
  <2>1. UndisturbedInv
    BY <1>3, <1>14
  <2>2. ASSUME NEW g, NEW es, NEW off, Whole(g, es, off)
        PROVE  Covers(g)'
    <3>1. \A o \in HeaderOffsets : o \in DOMAIN g
      BY <2>2 DEF Whole, Layout
    <3>2. \A o \in DOMAIN g : file[o] = g[o] /\ o \in Nat
      BY <2>2, WholeFile
    <3>3. Agrees(reader'.seen, g)
      BY <3>1, <3>2, <1>9 DEF Agrees
    <3>4. ASSUME NEW o \in DOMAIN g, o < HeaderBytes
          PROVE  o \in HeaderOffsets
      <4>1. /\ g[0].size = 8 /\ g[8].size = 4 /\ g[12].size = 4 /\ g[16].size = 8
            /\ g[24].size = 8
        BY <2>2 DEF Whole, Layout, Header, HeaderOffsets, Field
      <4>2. /\ 0 < o => 8 <= o
            /\ 8 < o => 12 <= o
            /\ 12 < o => 16 <= o
            /\ 16 < o => 24 <= o
            /\ 24 < o => 32 <= o
        BY <2>2, <3>1, <4>1 DEF Whole, Separate, HeaderOffsets
      <4> QED
        BY <3>2, <3>4, <4>2 DEF HeaderBytes, HeaderOffsets
    <3> QED
      BY <3>3, <3>4, <1>9 DEF Covers
  <2> QED
    BY <2>1, <2>2, <1>1, <1>3, <1>9 DEF UndisturbedInv, Whole
<1>15. ReaderInv'
  BY <1>3, <1>9, <1>10, <1>11, <1>12, <1>13, <1>14 DEF ReaderInv, Reading
<1> QED
  BY <1>1, <1>15 DEF IInv, OutcomeInv, LoadedIsSaved, IntactFilesLoad

\* The header of a file that nobody has touched is accepted.
LEMMA HeaderAccepted ==
    ASSUME IInv, reader.pc = "header", reader.undisturbed
    PROVE  OnDisk(HeaderBytes) /\ HeaderAllowed
<1>1. pristine /\ reader.length = length
  BY DEF IInv, ReaderInv, UndisturbedInv
<1>2. PICK g, es, off : Whole(g, es, off)
  BY <1>1 DEF IInv, SaveInv, PristineInv
<1> DEFINE n   == Len(es)
           end == off[n + 1]
<1>3. /\ n \in Nat /\ end \in Nat /\ length = end + ChecksumBytes
      /\ end >= HeaderBytes + n * Floor
      /\ \A o \in DOMAIN g : file[o] = g[o]
  BY <1>2, WholeFile
<1> HIDE DEF n, end
<1>4. PICK c \in Nat \ {0} : c = Floor
  BY Sizes
<1>5. PICK a \in Nat : a = n * c
  BY <1>3, <1>4, OneMore
<1>6. reader.length - ChecksumBytes - HeaderBytes \in Nat
      /\ n * c <= reader.length - ChecksumBytes - HeaderBytes
  BY <1>1, <1>3, <1>4, <1>5 DEF HeaderBytes, ChecksumBytes
<1>7. \A o \in HeaderOffsets : file[o] = Header(n)[o]
  BY <1>2, <1>3 DEF Whole, Layout, n
<1>8. /\ file[0].value = Magic /\ file[8].value = Version /\ file[12].value = 0
      /\ file[16].value = Dimension /\ file[24].value = n
  BY <1>7 DEF Header, HeaderOffsets, Field
<1>9. n <= Word - 1
  <2>1. reader.length < Word /\ reader.length \in Nat
    BY DEF IInv, ReaderInv, Shape
  <2>2. n * 1 <= n * c
    BY <1>3, <1>4, Z3
  <2> QED
    BY <2>1, <2>2, <1>3, <1>5, <1>6, Limits DEF HeaderBytes, ChecksumBytes
<1>10. CountAllowed(n, Dimension, reader.length - ChecksumBytes - HeaderBytes)
  <2>1. n <= (reader.length - ChecksumBytes - HeaderBytes) \div c
    BY <1>3, <1>6, QuotientBound
  <2> QED
    BY <2>1, <1>4, <1>9, SavedDimensionAllowed DEF CountAllowed
<1>11. HeaderBytes <= length
  BY <1>3, <1>4, <1>5 DEF HeaderBytes, ChecksumBytes
<1> QED
  BY <1>8, <1>10, <1>11, SavedDimensionAllowed DEF HeaderAllowed, OnDisk

LEMMA RefuseHeaderStep ==
    ASSUME IInv, RefuseHeader
    PROVE  ReaderInv' /\ OutcomeInv'
<1>1. ~ reader.undisturbed
  BY HeaderAccepted DEF RefuseHeader
<1> QED
  BY <1>1, EndStep DEF RefuseHeader, Refuse, Invalid

----------------------------------------------------------------------------
(* The length of an ID.                                                     *)

\* What must be left when an ID has been read is computed without wrapping.
LEMMA RequiredIsExact ==
    ASSUME IInv, reader.pc = "length", RecordsLeft > 0
    PROVE  /\ Required = FloatBytes * reader.dimension
                            + (RecordsLeft - 1) * (8 + FloatBytes * reader.dimension)
           /\ Required \in Nat /\ 8 + Required <= reader.remaining
           /\ reader.remaining \in Nat /\ RecordsLeft - 1 \in Nat
<1>1. /\ Shape(reader) /\ RoomInv /\ reader.length < Word /\ Word \in Nat
  BY Limits DEF IInv, ReaderInv, Reading
<1>2. PICK d \in Nat : d = FloatBytes * reader.dimension
  BY <1>1 DEF Shape, FloatBytes
<1>3. /\ 8 + d < Word
      /\ RecordsLeft \in Nat
      /\ reader.at + reader.remaining + ChecksumBytes = reader.length
      /\ RecordsLeft * (8 + d) <= reader.remaining
  BY <1>1, <1>2 DEF RoomInv
<1>4. PICK m \in Nat : m = RecordsLeft - 1
  BY <1>3
<1>5. m * (8 + d) \in Nat /\ RecordsLeft * (8 + d) = m * (8 + d) + (8 + d)
  <2>1. 8 + d \in Nat /\ RecordsLeft = m + 1
    BY <1>3, <1>4
  <2> QED
    BY <2>1, OneMore
<1>6. PICK a \in Nat : a = m * (8 + d)
  BY <1>5
<1>7. reader.remaining \in Nat /\ reader.remaining < Word
  <2>1. reader.remaining \in Nat /\ reader.at \in Nat /\ reader.length < Word
        /\ reader.at + reader.remaining + 4 = reader.length
    BY <1>1, <1>3 DEF Shape, ChecksumBytes
  <2> QED
    BY <2>1, <1>1
<1>8. a + (8 + d) <= reader.remaining
  BY <1>3, <1>5, <1>6
<1>9. (d + a) % Word = d + a
  <2>1. PICK s \in Nat : s = d + a
    OBVIOUS
  <2>2. s < Word
    BY <2>1, <1>1, <1>7, <1>8
  <2>3. s % Word = s
    BY <2>2, <1>1, Z3
  <2> QED
    BY <2>1, <2>3
<1>10. Required = d + a
  <2>1. VectorBytes(reader.dimension) = d /\ MinimumRecordBytes(reader.dimension) = 8 + d
    BY <1>1, <1>2, <1>3, NoWrap DEF Shape
  <2> QED
    BY <2>1, <1>4, <1>6, <1>9 DEF Required
<1> QED
  BY <1>2, <1>4, <1>6, <1>7, <1>8, <1>10

\* Where a reader is that nobody has disturbed.
LEMMA InWholeFile ==
    ASSUME IInv, Reading, reader.undisturbed
    PROVE  /\ reader.clean /\ reader.length = length
           /\ \E g, es, off : Whole(g, es, off) /\ Covers(g) /\ Parsed(es, off)
<1>1. UndisturbedInv
  BY DEF IInv, ReaderInv, Reading
<1>2. PICK g, es, off : Whole(g, es, off)
  BY <1>1 DEF UndisturbedInv, IInv, SaveInv, PristineInv
<1>3. Covers(g)
  BY <1>1, <1>2 DEF UndisturbedInv
<1>4. ParseInv
  BY <1>1 DEF UndisturbedInv, IInv, ReaderInv
<1>5. Parsed(es, off)
  BY <1>2, <1>3, <1>4 DEF ParseInv, Whole, Covers
<1> QED
  BY <1>1, <1>2, <1>3, <1>5 DEF UndisturbedInv

\* The record that follows n others, and the room that those behind it take.
LEMMA RecordInFile ==
    ASSUME NEW g, NEW es, NEW off, Whole(g, es, off), NEW n \in Nat, n < Len(es)
    PROVE  LET p == off[n + 1]
               e == es[n + 1]
           IN  /\ p \in Nat /\ e \in Entry
               /\ Laid(g, p, e) /\ Laid(file, p, e)
               /\ off[n + 2] = p + RecordBytes(e)
               /\ length >= p + RecordBytes(e) + (Len(es) - (n + 1)) * Floor + ChecksumBytes
<1> DEFINE p == off[n + 1]
           e == es[n + 1]
<1>1. /\ Len(es) \in Nat /\ off \in [1..(Len(es) + 1) -> Nat]
      /\ \A k \in 1..Len(es) : Laid(g, off[k], es[k]) /\ off[k + 1] = off[k] + RecordBytes(es[k])
      /\ \A j, k \in 1..(Len(es) + 1) : j <= k => off[k] >= off[j] + (k - j) * Floor
      /\ es \in Seq(Entry)
  BY LenProperties DEF Whole, Layout
<1>2. n + 1 \in 1..Len(es) /\ n + 1 \in 1..(Len(es) + 1) /\ (n + 1) + 1 = n + 2
      /\ n + 2 \in 1..(Len(es) + 1) /\ Len(es) + 1 \in 1..(Len(es) + 1) /\ n + 2 <= Len(es) + 1
      /\ (Len(es) + 1) - (n + 2) = Len(es) - (n + 1)
  BY <1>1
<1>3. p \in Nat /\ e \in Entry
  <2>1. e \in Entry
    BY <1>1, <1>2, ElementOfSeq
  <2> QED
    BY <2>1, <1>1, <1>2
<1>4. Laid(g, p, e) /\ off[n + 2] = p + RecordBytes(e)
  BY <1>1, <1>2
<1>5. off[Len(es) + 1] >= off[n + 2] + (Len(es) - (n + 1)) * Floor
  BY <1>1, <1>2
<1>6. /\ \A o \in DOMAIN g : o \in DOMAIN file /\ file[o] = g[o]
      /\ length = off[Len(es) + 1] + ChecksumBytes /\ off[Len(es) + 1] \in Nat
  BY WholeFile
<1>7. Laid(file, p, e)
  BY <1>4, <1>6 DEF Laid
<1>8. length >= p + RecordBytes(e) + (Len(es) - (n + 1)) * Floor + ChecksumBytes
  <2>1. PICK a \in Nat : a = (Len(es) - (n + 1)) * Floor
    <3>1. Len(es) - (n + 1) \in Nat
      BY <1>1
    <3> QED
      BY <3>1, Sizes, OneMore
  <2>2. PICK b \in Nat : b = RecordBytes(e)
    BY <1>3, Sizes
  <2>3. PICK c \in Nat : c = off[n + 2]
    BY <1>1, <1>2
  <2>4. PICK d \in Nat : d = off[Len(es) + 1]
    BY <1>6
  <2>5. c = p + b /\ d >= c + a /\ length = d + 4 /\ p \in Nat
    BY <2>1, <2>2, <2>3, <2>4, <1>3, <1>4, <1>5, <1>6 DEF ChecksumBytes
  <2> HIDE DEF p, e
  <2>6. length >= p + b + a + 4
    BY <2>5
  <2> QED
    BY <2>1, <2>2, <2>6 DEF ChecksumBytes
<1> QED
  BY <1>3, <1>4, <1>7, <1>8

LEMMA AtLength ==
    ASSUME IInv, reader.pc = "length", RecordsLeft > 0, reader.undisturbed
    PROVE  /\ Aligned(reader.at, "integer", 8)
           /\ file[reader.at].value \in 0..MaxChars
           /\ 8 + file[reader.at].value + Required <= reader.remaining
           /\ OnDisk(reader.at + 8)
<1>1. /\ Shape(reader) /\ RoomInv /\ Reading
  BY DEF IInv, ReaderInv, Reading
<1>2. reader.length = length
  BY <1>1, InWholeFile
<1>3. PICK g, es, off : Whole(g, es, off) /\ Parsed(es, off)
  BY <1>1, InWholeFile
<1> DEFINE n == Len(reader.records)
           e == es[n + 1]
<1>4. n \in Nat /\ Len(es) \in Nat
  BY <1>1, <1>3, LenProperties, WholeFile DEF Shape
<1>5. /\ reader.dimension = Dimension /\ reader.at = off[n + 1]
      /\ RecordsLeft = Len(es) - n /\ n < Len(es)
  BY <1>3, <1>4 DEF Parsed, RecordsLeft
<1>6. /\ reader.at \in Nat /\ e \in Entry /\ Laid(file, reader.at, e)
      /\ length >= reader.at + RecordBytes(e) + (RecordsLeft - 1) * Floor + ChecksumBytes
  <2>1. Len(es) - (n + 1) = RecordsLeft - 1
    BY <1>4, <1>5
  <2> QED
    BY <2>1, <1>3, <1>4, <1>5, RecordInFile
<1> HIDE DEF e
<1>7. PICK i \in Nat : i = IdLength[e.id] /\ i <= MaxChars
  BY <1>6, LimitsAssumption DEF Entry
<1>8. Aligned(reader.at, "integer", 8) /\ file[reader.at].value = i
  BY <1>6, <1>7 DEF Laid, Aligned, Field
<1>9. Required = FloatBytes * Dimension + (RecordsLeft - 1) * Floor /\ Required \in Nat
      /\ reader.remaining \in Nat
  BY <1>5, RequiredIsExact DEF Floor
<1>10. PICK a \in Nat : a = (RecordsLeft - 1) * Floor
  <2>1. RecordsLeft - 1 \in Nat
    BY <1>4, <1>5
  <2> QED
    BY <2>1, Sizes, OneMore
<1>11. PICK v \in Nat : v = FloatBytes * Dimension
  BY Sizes
<1>12. RecordBytes(e) = 8 + i + v
  BY <1>7, <1>11 DEF RecordBytes
<1>13. reader.at + reader.remaining + ChecksumBytes = length
  BY <1>1, <1>2 DEF RoomInv
<1>14. Required = v + a /\ length >= reader.at + (8 + i + v) + a + ChecksumBytes
  BY <1>6, <1>9, <1>10, <1>11, <1>12
<1>15. 8 + i + Required <= reader.remaining /\ reader.at + 8 <= length
  BY <1>6, <1>9, <1>13, <1>14 DEF ChecksumBytes
<1> QED
  BY <1>7, <1>8, <1>15 DEF OnDisk

\* What taking in some bytes does to a reader that knows what it has seen.
LEMMA TakenFields ==
    ASSUME NEW r, Shape(r),
           NEW kind, NEW size \in Nat, size <= r.remaining,
           \A o \in DOMAIN r.seen : o \in Nat /\ o < r.at
    PROVE  LET t == Taken(r, kind, size)
           IN  /\ Shape(t)
               /\ t.pc = r.pc /\ t.length = r.length /\ t.dimension = r.dimension
               /\ t.count = r.count /\ t.idLength = r.idLength /\ t.records = r.records
               /\ t.undisturbed = r.undisturbed /\ t.accepts = r.accepts
               /\ t.at = r.at + size /\ t.remaining = r.remaining - size
               /\ t.clean = (r.clean /\ (size = 0 \/ Aligned(r.at, kind, size)))
               /\ \A o \in DOMAIN t.seen : o \in Nat /\ o < t.at
               /\ \A o \in DOMAIN r.seen : o \in DOMAIN t.seen /\ t.seen[o] = r.seen[o]
               /\ size > 0 /\ Aligned(r.at, kind, size) =>
                     /\ DOMAIN t.seen = DOMAIN r.seen \cup {r.at}
                     /\ t.seen[r.at] = file[r.at]
               /\ size = 0 => t.seen = r.seen
               /\ IsFile(r.seen) => IsFile(t.seen)
<1> DEFINE t    == Taken(r, kind, size)
           seen == IF size > 0 /\ Aligned(r.at, kind, size)
                   THEN [o \in DOMAIN r.seen \cup {r.at} |->
                            IF o = r.at THEN file[o] ELSE r.seen[o]]
                   ELSE r.seen
           clean == r.clean /\ (size = 0 \/ Aligned(r.at, kind, size))
<1>1. t = [r EXCEPT !.at = r.at + size, !.remaining = r.remaining - size,
                    !.clean = clean, !.seen = seen]
  BY DEF Taken
<1>2. /\ r.at \in Nat /\ r.remaining \in Nat
      /\ r.at + size \in Nat /\ r.remaining - size \in Nat /\ clean \in BOOLEAN
  BY DEF Shape
<1>3. /\ \A o \in DOMAIN seen : o \in Nat /\ o < r.at + size
      /\ \A o \in DOMAIN r.seen : o \in DOMAIN seen /\ seen[o] = r.seen[o]
      /\ size > 0 /\ Aligned(r.at, kind, size) =>
            DOMAIN seen = DOMAIN r.seen \cup {r.at} /\ seen[r.at] = file[r.at]
      /\ size = 0 => seen = r.seen
      /\ IsFile(r.seen) => IsFile(seen)
  <2>1. CASE size > 0 /\ Aligned(r.at, kind, size)
    <3>1. IsFile(seen)
      BY <2>1 DEF IsFile
    <3> QED
      BY <2>1, <3>1, <1>2
  <2>2. CASE ~ (size > 0 /\ Aligned(r.at, kind, size))
    <3>1. seen = r.seen
      BY <2>2
    <3> QED
      BY <2>2, <3>1, <1>2
  <2> QED
    BY <2>1, <2>2
<1> HIDE DEF seen, clean, t
<1>4. /\ t.pc = r.pc /\ t.length = r.length /\ t.dimension = r.dimension
      /\ t.count = r.count /\ t.idLength = r.idLength /\ t.records = r.records
      /\ t.undisturbed = r.undisturbed /\ t.accepts = r.accepts
      /\ t.at = r.at + size /\ t.remaining = r.remaining - size
      /\ t.clean = clean /\ t.seen = seen
  BY <1>1 DEF Shape
<1>5. Shape(t)
  BY <1>1, <1>2, <1>4 DEF Shape
<1> QED
  BY <1>3, <1>4, <1>5 DEF t, clean

\* Taking in a whole field misses nothing.
LEMMA FieldCovered ==
    ASSUME NEW g, Separate(g), NEW at \in DOMAIN g, NEW size, size = g[at].size, NEW s,
           \A o \in DOMAIN g : o \in Nat /\ g[o].size \in Nat,
           \A o \in DOMAIN g : o < at => o \in s
    PROVE  \A o \in DOMAIN g : o < at + size => o \in s \cup {at}
<1> SUFFICES ASSUME NEW o \in DOMAIN g, o < at + size, o # at PROVE o < at
  OBVIOUS
<1>1. at < o => at + g[at].size <= o
  BY DEF Separate
<1> QED
  BY <1>1

LEMMA ReadIdLengthStep ==
    ASSUME IInv, ReadIdLength
    PROVE  ReaderInv' /\ OutcomeInv'
<1>1. /\ reader.pc = "length" /\ RecordsLeft > 0 /\ reader.remaining >= 8 /\ Reading
      /\ Shape(reader) /\ RoomInv /\ SeenInv /\ reader.length < Word
      /\ (reader.clean => ParseInv)
      /\ (reader.undisturbed => UndisturbedInv)
  BY DEF ReadIdLength, IInv, ReaderInv, Reading
<1>2. PICK n \in Decoded(reader.at, "integer", 8, Words) :
         IF IdLengthAllowed(n, reader.remaining - 8)
         THEN /\ reader' = [Taken(reader, "integer", 8) EXCEPT !.pc = "entry", !.idLength = n]
              /\ UNCHANGED <<entries, file, length, writer, saved, pristine, outcome>>
         ELSE Refuse
  BY DEF ReadIdLength
<1>3. n \in Nat /\ (Aligned(reader.at, "integer", 8) => n = file[reader.at].value)
  <2>1. CASE Aligned(reader.at, "integer", 8)
    <3>1. n = file[reader.at].value
      BY <1>2, <2>1 DEF Decoded
    <3>2. Sound(file[reader.at]) /\ file[reader.at].kind = "integer"
      BY <2>1 DEF IInv, SaveInv, FileInv, SoundFields, Aligned
    <3> QED
      BY <3>1, <3>2 DEF Sound
  <2>2. CASE ~ Aligned(reader.at, "integer", 8)
    BY <1>2, <2>2, LimitsAssumption DEF Decoded
  <2> QED
    BY <2>1, <2>2
<1>4. /\ Required = FloatBytes * reader.dimension
                       + (RecordsLeft - 1) * (8 + FloatBytes * reader.dimension)
      /\ Required \in Nat /\ reader.remaining \in Nat
  BY <1>1, RequiredIsExact
<1>5. CASE ~ IdLengthAllowed(n, reader.remaining - 8)
  <2>1. ~ reader.undisturbed
    <3> SUFFICES ASSUME reader.undisturbed PROVE FALSE
      OBVIOUS
    <3>1. n \in 0..MaxChars /\ 8 + n + Required <= reader.remaining
      BY <1>1, <1>3, AtLength
    <3> QED
      BY <3>1, <1>3, <1>4, <1>5 DEF IdLengthAllowed
  <2> QED
    BY <1>2, <1>5, <2>1, EndStep DEF Refuse, Invalid
<1>6. CASE IdLengthAllowed(n, reader.remaining - 8)
  <2> DEFINE t == Taken(reader, "integer", 8)
  <2>1. /\ n \in 0..MaxChars /\ n + Required <= reader.remaining - 8
    BY <1>3, <1>4, <1>6, LimitsAssumption DEF IdLengthAllowed
  <2>2. /\ Shape(t)
        /\ t.length = reader.length /\ t.dimension = reader.dimension
        /\ t.count = reader.count /\ t.records = reader.records
        /\ t.undisturbed = reader.undisturbed
        /\ t.at = reader.at + 8 /\ t.remaining = reader.remaining - 8
        /\ t.clean = (reader.clean /\ Aligned(reader.at, "integer", 8))
        /\ \A o \in DOMAIN t.seen : o \in Nat /\ o < t.at
        /\ IsFile(reader.seen) => IsFile(t.seen)
        /\ \A o \in DOMAIN reader.seen : o \in DOMAIN t.seen /\ t.seen[o] = reader.seen[o]
        /\ Aligned(reader.at, "integer", 8) =>
              /\ DOMAIN t.seen = DOMAIN reader.seen \cup {reader.at}
              /\ t.seen[reader.at] = file[reader.at]
    <3>1. Shape(reader)
      BY <1>1
    <3>2. \A o \in DOMAIN reader.seen : o \in Nat /\ o < reader.at
      BY <1>1 DEF SeenInv
    <3>3. 8 \in Nat /\ 8 <= reader.remaining
      BY <1>1
    <3>4. ~ (8 = 0) /\ 8 > 0
      OBVIOUS
    <3>5. /\ Shape(t)
          /\ t.length = reader.length /\ t.dimension = reader.dimension
          /\ t.count = reader.count /\ t.records = reader.records
          /\ t.undisturbed = reader.undisturbed
          /\ t.at = reader.at + 8 /\ t.remaining = reader.remaining - 8
          /\ t.clean = (reader.clean /\ (8 = 0 \/ Aligned(reader.at, "integer", 8)))
          /\ \A o \in DOMAIN t.seen : o \in Nat /\ o < t.at
          /\ IsFile(reader.seen) => IsFile(t.seen)
          /\ \A o \in DOMAIN reader.seen : o \in DOMAIN t.seen /\ t.seen[o] = reader.seen[o]
          /\ 8 > 0 /\ Aligned(reader.at, "integer", 8) =>
                /\ DOMAIN t.seen = DOMAIN reader.seen \cup {reader.at}
                /\ t.seen[reader.at] = file[reader.at]
      BY <3>1, <3>2, <3>3, TakenFields
    <3> HIDE DEF t
    <3> QED
      BY <3>4, <3>5
  <2>3. reader' = [t EXCEPT !.pc = "entry", !.idLength = n]
        /\ UNCHANGED <<entries, file, length, writer, saved, pristine, outcome>>
    BY <1>2, <1>6
  <2> HIDE DEF t
  <2>4. /\ reader'.pc = "entry" /\ reader'.idLength = n
        /\ reader'.length = reader.length /\ reader'.dimension = reader.dimension
        /\ reader'.count = reader.count /\ reader'.records = reader.records
        /\ reader'.undisturbed = reader.undisturbed /\ reader'.seen = t.seen
        /\ reader'.at = reader.at + 8 /\ reader'.remaining = reader.remaining - 8
        /\ reader'.clean = (reader.clean /\ Aligned(reader.at, "integer", 8))
    BY <2>2, <2>3
  <2>5. Shape(reader)'
    BY <2>1, <2>2, <2>3 DEF Shape
  <2>6. RoomInv'
    <3>1. RecordsLeft' = RecordsLeft
      BY <2>4 DEF RecordsLeft
    <3>2. PICK a \in Nat : a = FloatBytes * reader.dimension
      BY <1>1 DEF Shape, FloatBytes
    <3>3. PICK b : b = (RecordsLeft - 1) * (8 + a)
      OBVIOUS
    <3>4. Required = a + b
      BY <1>4, <3>2, <3>3
    <3>5. b \in Nat
      <4>1. RecordsLeft - 1 \in Nat /\ 8 + a \in Nat
        BY <1>1 DEF RoomInv
      <4> QED
        BY <4>1, <3>3, OneMore
    <3>6. n + a + b <= reader.remaining - 8
      BY <2>1, <3>4, <3>5, <1>4, <1>3
    <3>7. (reader.at + 8) + (reader.remaining - 8) + ChecksumBytes = reader.length
      BY <1>1, <1>4 DEF RoomInv, Shape, ChecksumBytes
    <3>8. reader.dimension > 0 /\ 8 + a < Word /\ RecordsLeft \in Nat
      BY <1>1, <3>2 DEF RoomInv
    <3> QED
      BY <2>4, <3>1, <3>2, <3>3, <3>6, <3>7, <3>8, <1>1 DEF RoomInv
  <2>7. SeenInv'
    BY <2>2, <2>4, <1>1 DEF SeenInv
  <2>8. ASSUME reader'.clean PROVE ParseInv'
    <3> SUFFICES ASSUME NEW f, NEW es, NEW off, es \in Seq(Entry),
                        Layout(f, es, Len(es), off), Agrees(reader'.seen, f)
                 PROVE  Parsed(es, off)'
      BY DEF ParseInv
    <3>1. Agrees(reader.seen, f)
      BY <2>2, <2>4 DEF Agrees
    <3>2. Parsed(es, off) /\ Aligned(reader.at, "integer", 8)
      BY <2>4, <2>8, <3>1, <1>1 DEF ParseInv
    <3> DEFINE k == Len(reader.records)
    <3>3. k \in Nat /\ Len(es) \in Nat
      BY <1>1, LenProperties DEF Shape
    <3>4. k < Len(es) /\ reader.at = off[k + 1]
      BY <3>2, <3>3, <1>1 DEF Parsed, RecordsLeft
    <3>5. f[reader.at] = file[reader.at]
      BY <2>2, <2>4, <3>2 DEF Agrees
    <3>6. Laid(f, off[k + 1], es[k + 1])
      <4>1. k + 1 \in 1..Len(es)
        BY <3>3, <3>4
      <4> QED
        BY <4>1 DEF Layout
    <3>7. n = IdLength[es[k + 1].id]
      BY <1>3, <3>2, <3>4, <3>5, <3>6 DEF Laid, Field
    <3> QED
      BY <2>4, <3>2, <3>4, <3>7 DEF Parsed
  <2>9. ASSUME reader.undisturbed PROVE UndisturbedInv'
    <3>1. UndisturbedInv /\ reader.clean
      BY <1>1, <2>9 DEF UndisturbedInv
    <3>2. Aligned(reader.at, "integer", 8)
      BY <1>1, <2>9, AtLength
    <3>3. ASSUME NEW g, NEW es, NEW off, Whole(g, es, off)
          PROVE  Covers(g)'
      <4>1. Covers(g) /\ Parsed(es, off)
        BY <3>1, <3>3, <1>1 DEF UndisturbedInv, ParseInv, Whole, Covers
      <4> DEFINE k == Len(reader.records)
      <4>2. k \in Nat /\ Len(es) \in Nat
        BY <1>1, <3>3, LenProperties DEF Shape, Whole
      <4>3. k < Len(es) /\ reader.at = off[k + 1]
        BY <4>1, <4>2, <1>1 DEF Parsed, RecordsLeft
      <4>4. Laid(g, reader.at, es[k + 1])
        BY <3>3, <4>2, <4>3, RecordInFile
      <4>5. /\ reader.at \in DOMAIN g /\ g[reader.at].size = 8
            /\ file[reader.at] = g[reader.at]
        <5>1. /\ reader.at \in DOMAIN g
              /\ g[reader.at] = Field("integer", 8, IdLength[es[k + 1].id])
          BY <4>4 DEF Laid
        <5>2. file[reader.at] = g[reader.at]
          BY <3>3, <5>1, WholeFile
        <5>3. g[reader.at].size = 8
          BY <5>1 DEF Field
        <5> QED
          BY <5>1, <5>2, <5>3
      <4>6. \A o \in DOMAIN g : o \in Nat /\ g[o].size \in Nat
        BY <3>3 DEF Whole, Ends
      <4>7. \A o \in DOMAIN g : o < reader.at => o \in DOMAIN reader.seen
        BY <4>1 DEF Covers
      <4>8. \A o \in DOMAIN g : o < reader.at + 8 => o \in DOMAIN reader.seen \cup {reader.at}
        BY <3>3, <4>5, <4>6, <4>7, FieldCovered DEF Whole
      <4>9. Agrees(t.seen, g)
        BY <2>2, <3>2, <4>1, <4>5 DEF Agrees, Covers
      <4> QED
        BY <2>2, <2>4, <3>2, <4>8, <4>9 DEF Covers
    <3> QED
      BY <2>3, <2>4, <3>1, <3>2, <3>3 DEF UndisturbedInv, Whole
  <2>10. ReaderInv'
    BY <1>1, <2>4, <2>5, <2>6, <2>7, <2>8, <2>9 DEF ReaderInv, Reading
  <2> QED
    BY <2>3, <2>10 DEF IInv, OutcomeInv, LoadedIsSaved, IntactFilesLoad
<1> QED
  BY <1>5, <1>6

----------------------------------------------------------------------------
(* The entries.                                                             *)

\* What an entry takes is there, and its products are exact.
LEMMA EntryFits ==
    ASSUME IInv, reader.pc = "entry"
    PROVE  /\ Shape(reader) /\ RoomInv /\ SeenInv /\ reader.length < Word
           /\ reader.idLength \in Nat /\ FloatBytes * reader.dimension \in Nat \ {0}
           /\ reader.idLength + FloatBytes * reader.dimension <= reader.remaining
           /\ (RecordsLeft - 1) * (8 + FloatBytes * reader.dimension) \in Nat
<1>1. /\ Shape(reader) /\ RoomInv /\ SeenInv /\ reader.length < Word
  BY DEF IInv, ReaderInv, Reading
<1>2. reader.idLength \in Nat /\ reader.remaining \in Nat /\ reader.dimension \in Nat
  BY <1>1 DEF Shape
<1>3. FloatBytes * reader.dimension \in Nat \ {0}
  BY <1>1, <1>2 DEF RoomInv, FloatBytes
<1>4. PICK d \in Nat \ {0} : d = FloatBytes * reader.dimension
  BY <1>3
<1>5. (RecordsLeft - 1) * (8 + d) \in Nat
  <2>1. RecordsLeft - 1 \in Nat /\ 8 + d \in Nat
    BY <1>1 DEF RoomInv
  <2> QED
    BY <2>1, OneMore
<1>6. PICK a \in Nat : a = (RecordsLeft - 1) * (8 + d)
  BY <1>5
<1>7. reader.idLength + d + a <= reader.remaining
  BY <1>1, <1>4, <1>6 DEF RoomInv
<1>8. reader.idLength + d <= reader.remaining
  BY <1>2, <1>7
<1> QED
  BY <1>1, <1>2, <1>3, <1>4, <1>5, <1>8

\* The entry that an undisturbed load() is about to read.
LEMMA AtEntry ==
    ASSUME IInv, reader.pc = "entry", reader.undisturbed
    PROVE  /\ EntryOnDisk
           /\ reader.idLength > 0 => Aligned(reader.at, "id", reader.idLength)
           /\ Aligned(reader.at + reader.idLength, "vector", FloatBytes * reader.dimension)
           /\ \A i \in NextId : \A k \in DOMAIN reader.records : reader.records[k].id # i
<1>1. /\ Shape(reader) /\ RoomInv /\ Reading /\ reader.idLength \in Nat
      /\ FloatBytes * reader.dimension \in Nat \ {0}
      /\ reader.idLength + FloatBytes * reader.dimension <= reader.remaining
  BY EntryFits DEF Reading
<1>2. reader.length = length
  BY <1>1, InWholeFile
<1>3. PICK g, es, off : Whole(g, es, off) /\ Parsed(es, off)
  BY <1>1, InWholeFile
<1> DEFINE n == Len(reader.records)
           e == es[n + 1]
<1>4. n \in Nat /\ Len(es) \in Nat /\ DOMAIN reader.records = 1..n
      /\ reader.at \in Nat /\ reader.remaining \in Nat
  BY <1>1, <1>3, LenProperties, WholeFile DEF Shape
<1>5. /\ reader.dimension = Dimension /\ reader.at = off[n + 1] + 8 /\ n < Len(es)
      /\ reader.idLength = IdLength[e.id]
      /\ \A k \in 1..n : reader.records[k] = es[k]
  BY <1>1, <1>3 DEF Parsed
<1>6. off[n + 1] \in Nat /\ e \in Entry /\ Laid(file, off[n + 1], e)
  BY <1>3, <1>4, <1>5, RecordInFile
<1>7. e.id \in Ids
  BY <1>6 DEF Entry
<1>8. EntryOnDisk
  <2>1. PICK d \in Nat : d = FloatBytes * reader.dimension
    BY <1>1
  <2>2. reader.at + reader.remaining + ChecksumBytes = length
    BY <1>1, <1>2 DEF RoomInv
  <2>3. reader.idLength + d <= reader.remaining
    BY <1>1, <2>1
  <2>4. reader.at + (reader.idLength + d) <= length
    BY <1>1, <1>4, <2>2, <2>3 DEF ChecksumBytes
  <2> QED
    BY <2>1, <2>3, <2>4 DEF EntryOnDisk, OnDisk
<1>9. ASSUME reader.idLength > 0
      PROVE  Aligned(reader.at, "id", reader.idLength) /\ file[reader.at].value = e.id
  <2>1. reader.at \in DOMAIN file /\ file[reader.at] = Field("id", reader.idLength, e.id)
    BY <1>5, <1>6, <1>9 DEF Laid
  <2> QED
    BY <2>1 DEF Aligned, Field
<1>10. Aligned(reader.at + reader.idLength, "vector", FloatBytes * reader.dimension)
  <2>1. /\ reader.at + reader.idLength \in DOMAIN file
        /\ file[reader.at + reader.idLength] = Field("vector", FloatBytes * Dimension, e.vector)
    BY <1>5, <1>6 DEF Laid
  <2> QED
    BY <2>1, <1>5 DEF Aligned, Field
<1>11. \A i \in NextId : i = e.id
  <2>1. CASE reader.idLength > 0
    BY <2>1, <1>9 DEF NextId, Decoded
  <2>2. CASE reader.idLength = 0
    BY <2>2, <1>5, <1>7, SizesAssumption DEF NextId
  <2> QED
    BY <2>1, <2>2, <1>1
<1>12. ASSUME NEW k \in DOMAIN reader.records PROVE reader.records[k].id # e.id
  <2>1. k \in 1..Len(es) /\ n + 1 \in 1..Len(es) /\ k # n + 1 /\ k \in 1..n
    BY <1>4, <1>5
  <2>2. k \in DOMAIN es /\ n + 1 \in DOMAIN es
    BY <2>1, <1>3, LenProperties DEF Whole
  <2>3. es[k].id # es[n + 1].id
    BY <2>1, <2>2, <1>3 DEF Whole, DistinctIds
  <2> QED
    BY <2>1, <2>3, <1>5
<1> QED
  BY <1>8, <1>9, <1>10, <1>11, <1>12

LEMMA RefuseTruncatedStep ==
    ASSUME IInv, RefuseTruncated
    PROVE  ReaderInv' /\ OutcomeInv'
<1>1. ~ reader.undisturbed
  <2> SUFFICES ASSUME reader.undisturbed PROVE FALSE
    OBVIOUS
  <2>1. CASE reader.pc = "length" /\ RecordsLeft > 0
    <3>1. 8 + Required <= reader.remaining /\ Required \in Nat /\ reader.remaining \in Nat
      BY <2>1, RequiredIsExact
    <3>2. OnDisk(reader.at + 8)
      BY <2>1, AtLength
    <3>3. reader.remaining >= 8
      BY <3>1
    <3> QED
      BY <2>1, <3>1, <3>2, <3>3 DEF RefuseTruncated
  <2>2. CASE reader.pc = "entry"
    BY <2>2, AtEntry DEF RefuseTruncated
  <2> QED
    BY <2>1, <2>2 DEF RefuseTruncated
<1> QED
  BY <1>1, EndStep DEF RefuseTruncated, Refuse, Invalid

LEMMA RefuseEntryStep ==
    ASSUME IInv, RefuseEntry
    PROVE  ReaderInv' /\ OutcomeInv'
<1>1. reader.pc = "entry"
  BY DEF RefuseEntry
<1>2. PICK i \in NextId, v \in NextVector :
         ~ AddAccepts(i, v) /\ EndLoad(Invalid(reader.undisturbed /\ v \in reader.accepts))
  BY DEF RefuseEntry
<1>3. ~ (reader.undisturbed /\ v \in reader.accepts)
  BY <1>1, <1>2, AtEntry DEF AddAccepts
<1> QED
  BY <1>2, <1>3, EndStep DEF Invalid

LEMMA ReadEntryStep ==
    ASSUME IInv, ReadEntry
    PROVE  ReaderInv' /\ OutcomeInv'
<1> DEFINE n == reader.idLength
           m == FloatBytes * reader.dimension
           t == Taken(reader, "id", n)
           u == Taken(t, "vector", m)
<1>1. /\ reader.pc = "entry" /\ Reading /\ Shape(reader) /\ RoomInv /\ SeenInv
      /\ reader.length < Word
      /\ n \in Nat /\ m \in Nat \ {0} /\ n + m <= reader.remaining
      /\ (reader.clean => ParseInv)
      /\ (reader.undisturbed => UndisturbedInv)
  BY EntryFits DEF ReadEntry, IInv, ReaderInv, Reading
<1>2. PICK i \in NextId, v \in NextVector :
         reader' = [u EXCEPT !.pc = "length",
                             !.records = Append(u.records, [id |-> i, vector |-> v])]
  BY DEF ReadEntry
<1>3. UNCHANGED <<entries, file, length, writer, saved, pristine, outcome>>
  BY DEF ReadEntry
<1>4. \A o \in DOMAIN file : o \in Nat /\ Sound(file[o])
  BY DEF IInv, SaveInv, FileInv, SoundFields
<1>5. /\ i \in Ids
      /\ n = 0 => IdLength[i] = 0
      /\ n # 0 /\ Aligned(reader.at, "id", n) => i = file[reader.at].value
  BY <1>4 DEF NextId, Decoded, Aligned, Sound
<1>6. /\ v \in Vectors
      /\ Aligned(reader.at + n, "vector", m) => v = file[reader.at + n].value
  BY <1>4 DEF NextVector, Decoded, Aligned, Sound
<1> DEFINE x == [id |-> i, vector |-> v]
<1>7. x \in Entry
  BY <1>5, <1>6 DEF Entry
<1>8. reader.remaining \in Nat /\ reader.at \in Nat /\ n <= reader.remaining
  BY <1>1 DEF Shape
<1>9. /\ Shape(t)
      /\ t.pc = reader.pc /\ t.length = reader.length /\ t.dimension = reader.dimension
      /\ t.count = reader.count /\ t.records = reader.records
      /\ t.undisturbed = reader.undisturbed
      /\ t.at = reader.at + n /\ t.remaining = reader.remaining - n
      /\ t.clean = (reader.clean /\ (n = 0 \/ Aligned(reader.at, "id", n)))
      /\ \A o \in DOMAIN t.seen : o \in Nat /\ o < t.at
      /\ \A o \in DOMAIN reader.seen : o \in DOMAIN t.seen /\ t.seen[o] = reader.seen[o]
      /\ n > 0 /\ Aligned(reader.at, "id", n) =>
            /\ DOMAIN t.seen = DOMAIN reader.seen \cup {reader.at}
            /\ t.seen[reader.at] = file[reader.at]
      /\ n = 0 => t.seen = reader.seen
      /\ IsFile(reader.seen) => IsFile(t.seen)
  <2>1. Shape(reader) /\ \A o \in DOMAIN reader.seen : o \in Nat /\ o < reader.at
    BY <1>1 DEF SeenInv
  <2> QED
    BY <2>1, <1>1, <1>8, TakenFields
<1> HIDE DEF t
<1>10. /\ Shape(u)
       /\ u.pc = t.pc /\ u.length = t.length /\ u.dimension = t.dimension
       /\ u.count = t.count /\ u.records = t.records
       /\ u.undisturbed = t.undisturbed
       /\ u.at = t.at + m /\ u.remaining = t.remaining - m
       /\ u.clean = (t.clean /\ (m = 0 \/ Aligned(t.at, "vector", m)))
       /\ \A o \in DOMAIN u.seen : o \in Nat /\ o < u.at
       /\ \A o \in DOMAIN t.seen : o \in DOMAIN u.seen /\ u.seen[o] = t.seen[o]
       /\ m > 0 /\ Aligned(t.at, "vector", m) =>
             /\ DOMAIN u.seen = DOMAIN t.seen \cup {t.at}
             /\ u.seen[t.at] = file[t.at]
       /\ IsFile(t.seen) => IsFile(u.seen)
  <2>1. m \in Nat /\ m <= t.remaining
    BY <1>1, <1>8, <1>9
  <2> QED
    BY <2>1, <1>9, TakenFields
<1> HIDE DEF u, m, n, x
<1>11. /\ reader'.pc = "length" /\ reader'.records = Append(reader.records, x)
       /\ reader'.length = reader.length /\ reader'.dimension = reader.dimension
       /\ reader'.count = reader.count
       /\ reader'.undisturbed = reader.undisturbed /\ reader'.seen = u.seen
       /\ reader'.at = reader.at + n + m /\ reader'.remaining = reader.remaining - n - m
       /\ reader'.clean = (/\ reader.clean
                           /\ n = 0 \/ Aligned(reader.at, "id", n)
                           /\ Aligned(reader.at + n, "vector", m))
  <2>1. /\ reader'.pc = "length" /\ reader'.records = Append(u.records, x)
        /\ reader'.length = u.length /\ reader'.dimension = u.dimension
        /\ reader'.count = u.count
        /\ reader'.undisturbed = u.undisturbed /\ reader'.seen = u.seen
        /\ reader'.at = u.at /\ reader'.remaining = u.remaining
        /\ reader'.clean = u.clean
    BY <1>2, <1>10 DEF Shape, x
  <2>2. m # 0
    BY <1>1
  <2> QED
    BY <2>1, <2>2, <1>9, <1>10
<1>12. /\ reader.records \in Seq(Entry) /\ Append(reader.records, x) \in Seq(Entry)
       /\ Len(reader.records) \in Nat
       /\ Len(Append(reader.records, x)) = Len(reader.records) + 1
       /\ \A k \in 1..Len(reader.records) : Append(reader.records, x)[k] = reader.records[k]
       /\ Append(reader.records, x)[Len(reader.records) + 1] = x
  <2>1. reader.records \in Seq(Entry)
    BY <1>1 DEF Shape
  <2> QED
    BY <2>1, <1>7, LenProperties, AppendProperties
<1>13. Shape(reader)'
  BY <1>2, <1>9, <1>10, <1>12 DEF Shape, x
<1>14. RoomInv'
  <2>1. RecordsLeft' = RecordsLeft - 1 /\ RecordsLeft' \in Nat
    <3>1. reader.count \in Nat /\ RecordsLeft > 0 /\ RecordsLeft \in Nat
      BY <1>1 DEF Shape, RoomInv
    <3> QED
      BY <3>1, <1>11, <1>12 DEF RecordsLeft
  <2>2. PICK b : b = (RecordsLeft - 1) * (8 + m)
    OBVIOUS
  <2>3. b \in Nat
    BY <2>2, EntryFits, <1>1 DEF m
  <2>4. n + m + b <= reader.remaining
    BY <1>1, <2>2 DEF RoomInv, n, m
  <2>5. b <= reader'.remaining
    BY <2>3, <2>4, <1>1, <1>8, <1>11
  <2>6. reader'.at + reader'.remaining + ChecksumBytes = reader'.length
    BY <1>1, <1>8, <1>11 DEF RoomInv, ChecksumBytes
  <2>7. reader.dimension > 0 /\ 8 + m < Word /\ m = FloatBytes * reader'.dimension
    BY <1>1, <1>11 DEF RoomInv, m
  <2>8. RecordsLeft' * (8 + m) = b
    BY <2>1, <2>2
  <2> QED
    BY <2>1, <2>5, <2>6, <2>7, <2>8, <1>11 DEF RoomInv
<1>15. SeenInv'
  <2>1. u.at = reader'.at
    BY <1>9, <1>10, <1>11
  <2> QED
    BY <2>1, <1>1, <1>9, <1>10, <1>11 DEF SeenInv
<1>16. ASSUME reader'.clean PROVE ParseInv'
  <2> SUFFICES ASSUME NEW f, NEW es, NEW off, es \in Seq(Entry),
                      Layout(f, es, Len(es), off), Agrees(reader'.seen, f)
               PROVE  Parsed(es, off)'
    BY DEF ParseInv
  <2> DEFINE k == Len(reader.records)
             e == es[k + 1]
  <2>1. Agrees(reader.seen, f)
    BY <1>9, <1>10, <1>11 DEF Agrees
  <2>2. /\ Parsed(es, off)
        /\ n = 0 \/ Aligned(reader.at, "id", n)
        /\ Aligned(reader.at + n, "vector", m)
    BY <1>1, <1>11, <1>16, <2>1 DEF ParseInv
  <2>3. Len(es) \in Nat
    BY LenProperties
  <2>4. /\ k < Len(es) /\ reader.at = off[k + 1] + 8 /\ n = IdLength[e.id]
        /\ reader.dimension = Dimension /\ reader.count = Len(es)
        /\ \A j \in 1..k : reader.records[j] = es[j]
    BY <2>2, <1>1 DEF Parsed, n
  <2>5. k + 1 \in 1..Len(es) /\ k + 1 \in 1..(Len(es) + 1) /\ (k + 1) + 1 = k + 2
    BY <2>3, <2>4, <1>12
  <2>6. /\ e \in Entry /\ off[k + 1] \in Nat
        /\ Laid(f, off[k + 1], e) /\ off[k + 2] = off[k + 1] + RecordBytes(e)
    <3>1. e \in Entry
      BY <2>5, ElementOfSeq
    <3> QED
      BY <3>1, <2>5 DEF Layout
  <2>7. f[reader.at + n] = Field("vector", FloatBytes * Dimension, e.vector)
    BY <2>4, <2>6 DEF Laid
  <2>8. v = e.vector
    <3>1. m > 0 /\ Aligned(t.at, "vector", m) /\ t.at = reader.at + n
      BY <1>1, <1>9, <2>2
    <3>2. reader.at + n \in DOMAIN u.seen /\ u.seen[reader.at + n] = file[reader.at + n]
      BY <3>1, <1>10
    <3>3. f[reader.at + n] = file[reader.at + n]
      BY <3>2, <1>11 DEF Agrees
    <3> QED
      BY <3>3, <2>2, <2>7, <1>6 DEF Field
  <2>9. i = e.id
    <3>1. CASE n = 0
      BY <3>1, <2>4, <2>6, <1>5, SizesAssumption DEF Entry
    <3>2. CASE n # 0
      <4>1. n > 0 /\ Aligned(reader.at, "id", n)
        BY <3>2, <2>2, <1>1
      <4>2. reader.at \in DOMAIN u.seen /\ u.seen[reader.at] = file[reader.at]
        BY <4>1, <1>9, <1>10
      <4>3. f[reader.at] = file[reader.at]
        BY <4>2, <1>11 DEF Agrees
      <4>4. f[reader.at] = Field("id", n, e.id)
        BY <4>1, <2>4, <2>6 DEF Laid
      <4> QED
        BY <4>1, <4>3, <4>4, <3>2, <1>5 DEF Field
    <3> QED
      BY <3>1, <3>2
  <2>10. x = e
    BY <2>6, <2>8, <2>9 DEF x, Entry
  <2>11. reader'.at = off[k + 2]
    <3>1. RecordBytes(e) = 8 + n + m
      BY <2>4 DEF RecordBytes, m
    <3>2. off[k + 2] = off[k + 1] + (8 + n + m)
      BY <3>1, <2>6
    <3>3. reader'.at = (off[k + 1] + 8) + n + m
      BY <2>4, <1>11
    <3> QED
      BY <3>2, <3>3, <2>6, <1>1
  <2>12. \A j \in 1..(k + 1) : reader'.records[j] = es[j]
    <3> TAKE j \in 1..(k + 1)
    <3>1. CASE j = k + 1
      BY <3>1, <2>10, <1>11, <1>12
    <3>2. CASE j \in 1..k
      BY <3>2, <2>4, <1>11, <1>12
    <3> QED
      BY <3>1, <3>2, <1>12
  <2>13. Len(reader'.records) = k + 1 /\ (k + 1) + 1 = k + 2 /\ k + 1 <= Len(es)
    BY <1>11, <1>12, <2>3, <2>4
  <2> QED
    BY <2>4, <2>11, <2>12, <2>13, <1>11 DEF Parsed
<1>17. ASSUME reader.undisturbed PROVE UndisturbedInv'
  <2>1. UndisturbedInv /\ reader.clean
    BY <1>1, <1>17 DEF UndisturbedInv
  <2>2. (n > 0 => Aligned(reader.at, "id", n)) /\ Aligned(reader.at + n, "vector", m)
    BY <1>1, <1>17, AtEntry DEF n, m
  <2>3. ASSUME NEW g, NEW es, NEW off, Whole(g, es, off)
        PROVE  Covers(g)'
    <3>1. Covers(g) /\ Parsed(es, off)
      BY <2>1, <2>3, <1>1 DEF UndisturbedInv, ParseInv, Whole, Covers
    <3> DEFINE k == Len(reader.records)
               e == es[k + 1]
    <3>2. Len(es) \in Nat
      BY <2>3, WholeFile
    <3>3. /\ k < Len(es) /\ reader.at = off[k + 1] + 8 /\ n = IdLength[e.id]
          /\ reader.dimension = Dimension
      BY <3>1, <1>1 DEF Parsed, n
    <3>4. Laid(g, off[k + 1], e) /\ off[k + 1] \in Nat
      BY <2>3, <3>2, <3>3, <1>12, RecordInFile
    <3>5. reader.at + n \in DOMAIN g /\ g[reader.at + n] = Field("vector", m, e.vector)
      BY <3>3, <3>4 DEF Laid, m
    <3>6. n > 0 => reader.at \in DOMAIN g /\ g[reader.at] = Field("id", n, e.id)
      BY <3>3, <3>4 DEF Laid
    <3>7. \A o \in DOMAIN g : o \in Nat /\ g[o].size \in Nat /\ file[o] = g[o]
      <4>1. \A o \in DOMAIN g : o \in Nat /\ g[o].size \in Nat
        BY <2>3 DEF Whole, Ends
      <4>2. \A o \in DOMAIN g : file[o] = g[o]
        BY <2>3, WholeFile
      <4> QED
        BY <4>1, <4>2
    <3>8. \A o \in DOMAIN g : o < reader.at => o \in DOMAIN reader.seen
      BY <3>1 DEF Covers
    <3>9. \A o \in DOMAIN g : o < reader.at + n => o \in DOMAIN t.seen
      <4>1. CASE n > 0
        <5>1. g[reader.at].size = n /\ Separate(g)
          BY <4>1, <3>6, <2>3 DEF Field, Whole
        <5>2. \A o \in DOMAIN g : o < reader.at + n => o \in DOMAIN reader.seen \cup {reader.at}
          BY <4>1, <5>1, <3>6, <3>7, <3>8, FieldCovered
        <5> QED
          BY <4>1, <5>2, <2>2, <1>9
      <4>2. CASE n = 0
        BY <4>2, <3>8, <1>8, <1>9
      <4> QED
        BY <4>1, <4>2, <1>1
    <3>10. \A o \in DOMAIN g : o < reader.at + n + m => o \in DOMAIN u.seen
      <4>1. g[reader.at + n].size = m /\ Separate(g)
        BY <3>5, <2>3 DEF Field, Whole
      <4>2. \A o \in DOMAIN g :
               o < (reader.at + n) + m => o \in DOMAIN t.seen \cup {reader.at + n}
        BY <4>1, <3>5, <3>7, <3>9, FieldCovered
      <4>3. DOMAIN u.seen = DOMAIN t.seen \cup {reader.at + n}
        BY <2>2, <1>1, <1>9, <1>10
      <4> QED
        BY <4>2, <4>3
    <3>11. Agrees(t.seen, g)
      <4>1. CASE n > 0
        BY <4>1, <2>2, <3>1, <3>6, <3>7, <1>9 DEF Agrees, Covers
      <4>2. CASE n = 0
        BY <4>2, <3>1, <1>9 DEF Agrees, Covers
      <4> QED
        BY <4>1, <4>2, <1>1
    <3>12. Agrees(u.seen, g)
      <4>1. /\ DOMAIN u.seen = DOMAIN t.seen \cup {reader.at + n}
            /\ u.seen[reader.at + n] = file[reader.at + n]
        BY <2>2, <1>1, <1>9, <1>10
      <4>2. \A o \in DOMAIN t.seen : u.seen[o] = t.seen[o]
        BY <1>10
      <4> QED
        BY <4>1, <4>2, <3>5, <3>7, <3>11 DEF Agrees
    <3> QED
      BY <3>10, <3>12, <1>11 DEF Covers
  <2>4. reader'.clean
    BY <2>1, <2>2, <1>1, <1>11
  <2> QED
    BY <2>1, <2>3, <2>4, <1>3, <1>11 DEF UndisturbedInv, Whole
<1>18. ReaderInv'
  BY <1>1, <1>11, <1>13, <1>14, <1>15, <1>16, <1>17 DEF ReaderInv, Reading
<1> QED
  BY <1>3, <1>18 DEF IInv, OutcomeInv, LoadedIsSaved, IntactFilesLoad

----------------------------------------------------------------------------
(* The checksum.                                                            *)

LEMMA FinishLoadStep ==
    ASSUME IInv, FinishLoad
    PROVE  ReaderInv' /\ OutcomeInv'
<1> DEFINE n   == Len(reader.records)
           end == reader.length - ChecksumBytes
<1>1. /\ reader.pc = "length" /\ RecordsLeft = 0 /\ Reading
      /\ reader.clean /\ Aligned(end, "checksum", ChecksumBytes)
      /\ file[end].value = reader.seen
      /\ EndLoad([kind |-> "loaded", dimension |-> reader.dimension, index |-> reader.records])
  BY DEF FinishLoad, Complete, ChecksumMatches, Reading
<1>2. Shape(reader) /\ SeenInv /\ ParseInv
  BY <1>1 DEF IInv, ReaderInv
<1>3. SumOfSaved(reader.seen)
  <2>1. end \in DOMAIN file /\ file[end].kind = "checksum"
    BY <1>1 DEF Aligned
  <2> QED
    BY <2>1, <1>1 DEF IInv, SaveInv, FileInv, SoundFields, Sound
<1>4. reader.seen # NoFields
  <2>1. DOMAIN NoFields = {}
    BY DEF NoFields
  <2> QED
    BY <2>1, <1>2 DEF SeenInv, HeaderOffsets
<1>5. PICK es \in saved : \E off : Layout(reader.seen, es, Len(es), off)
  BY <1>3, <1>4 DEF SumOfSaved
<1>6. PICK off : Layout(reader.seen, es, Len(es), off)
  BY <1>5
<1>7. es \in Seq(Entry)
  BY DEF IInv, SaveInv, StoreInv
<1>8. Parsed(es, off)
  BY <1>2, <1>6, <1>7 DEF ParseInv, Agrees
<1>9. /\ n \in Nat /\ Len(es) \in Nat /\ reader.count = Len(es)
      /\ reader.records \in Seq(Entry)
  BY <1>2, <1>7, <1>8, LenProperties DEF Shape, Parsed
<1>10. n = Len(es)
  BY <1>1, <1>9 DEF RecordsLeft
<1>11. \A k \in 1..n : reader.records[k] = es[k]
  BY <1>8 DEF Parsed
<1>12. reader.records = es
  BY <1>7, <1>9, <1>10, <1>11, SeqEqual
<1>13. reader.dimension = Dimension
  BY <1>8 DEF Parsed
<1> QED
  BY <1>1, <1>5, <1>12, <1>13, EndStep

LEMMA RefuseEndStep ==
    ASSUME IInv, RefuseEnd
    PROVE  ReaderInv' /\ OutcomeInv'
<1>1. reader.pc = "length" /\ RecordsLeft = 0 /\ Reading /\ ~ Complete
  BY DEF RefuseEnd, Reading
<1>2. Shape(reader) /\ SeenInv /\ RoomInv
  BY <1>1 DEF IInv, ReaderInv
<1>3. ~ reader.undisturbed
  <2> SUFFICES ASSUME reader.undisturbed PROVE Complete
    BY <1>1
  <2>1. reader.clean /\ reader.length = length
    BY <1>1, InWholeFile
  <2>2. PICK g, es, off : Whole(g, es, off) /\ Covers(g) /\ Parsed(es, off)
    BY <1>1, InWholeFile
  <2> DEFINE end == off[Len(es) + 1]
  <2>3. /\ Len(es) \in Nat /\ end \in Nat /\ length = end + ChecksumBytes
        /\ \A o \in DOMAIN g : o < end
        /\ end \in DOMAIN file /\ file[end] = Field("checksum", ChecksumBytes, g)
    BY <2>2, WholeFile
  <2>4. Len(reader.records) \in Nat
    BY <1>2, LenProperties DEF Shape
  <2>5. Len(reader.records) = Len(es) /\ reader.at = end
    BY <1>1, <2>2, <2>3, <2>4 DEF Parsed, RecordsLeft
  <2> HIDE DEF end
  <2>6. reader.remaining = 0
    <3>1. reader.at + reader.remaining + ChecksumBytes = length /\ reader.remaining \in Nat
      BY <1>2, <2>1 DEF RoomInv, Shape
    <3> QED
      BY <3>1, <2>3, <2>5 DEF ChecksumBytes
  <2>7. reader.seen = g
    <3>1. DOMAIN reader.seen = DOMAIN g /\ \A o \in DOMAIN g : reader.seen[o] = g[o]
      BY <2>2, <2>3, <2>5 DEF Covers, Agrees
    <3>2. g = [o \in DOMAIN g |-> g[o]]
      BY <2>2 DEF Whole, IsFile
    <3>3. reader.seen = [o \in DOMAIN reader.seen |-> reader.seen[o]]
      BY <1>2 DEF SeenInv, IsFile
    <3> QED
      BY <3>1, <3>2, <3>3
  <2>8. reader.length - ChecksumBytes = end
    BY <2>1, <2>3 DEF ChecksumBytes
  <2>9. ChecksumMatches
    BY <2>1, <2>3, <2>7, <2>8 DEF ChecksumMatches, Aligned, Field
  <2>10. OnDisk(reader.length)
    BY <2>1, <2>3 DEF OnDisk, ChecksumBytes
  <2> QED
    BY <2>1, <2>6, <2>9, <2>10 DEF Complete
<1> QED
  BY <1>3, EndStep DEF RefuseEnd, Refuse, Invalid

----------------------------------------------------------------------------
(* The theorems.                                                            *)

LEMMA LoadStep == IInv /\ Load => ReaderInv' /\ OutcomeInv'
<1> SUFFICES ASSUME IInv, Load PROVE ReaderInv' /\ OutcomeInv'
  OBVIOUS
<1>1. CASE LoadFails
  BY <1>1, EndStep DEF LoadFails
<1>2. CASE RefuseBackend
  BY <1>2, EndStep DEF RefuseBackend
<1>3. CASE OpenLoad \/ OpenTooShort
  BY <1>3, OpenLoadStep, OpenTooShortStep
<1>4. CASE ReadHeader \/ RefuseHeader
  BY <1>4, ReadHeaderStep, RefuseHeaderStep
<1>5. CASE ReadIdLength \/ RefuseTruncated
  BY <1>5, ReadIdLengthStep, RefuseTruncatedStep
<1>6. CASE ReadEntry \/ RefuseEntry
  BY <1>6, ReadEntryStep, RefuseEntryStep
<1>7. CASE FinishLoad \/ RefuseEnd
  BY <1>7, FinishLoadStep, RefuseEndStep
<1> QED
  BY <1>1, <1>2, <1>3, <1>4, <1>5, <1>6, <1>7 DEF Load

LEMMA Inductive == IInv /\ [Next]_vars => IInv'
<1> SUFFICES ASSUME IInv, [Next]_vars PROVE IInv'
  OBVIOUS
<1>1. SaveInv'
  BY SaveNext DEF IInv
<1>2. CASE (\E i \in Ids, v \in Vectors : Add(i, v)) \/ Save \/ Crash \/ Storage
  BY <1>1, <1>2, OthersStep DEF IInv
<1>3. CASE Load
  BY <1>1, <1>3, LoadStep DEF IInv
<1>4. CASE UNCHANGED vars
  <2>1. ReaderInv'
    BY <1>4, ReaderUnchanged DEF IInv, vars
  <2>2. OutcomeInv'
    BY <1>4 DEF vars, IInv, OutcomeInv, LoadedIsSaved, IntactFilesLoad
  <2> QED
    BY <1>1, <2>1, <2>2 DEF IInv
<1> QED
  BY <1>2, <1>3, <1>4 DEF Next

LEMMA Invariant == Spec => []IInv
  BY LoadInit, Inductive, PTL DEF Spec

\* Every variable has its type: above all no count of save() leaves its index,
\* no count of load() becomes negative or wraps around.
THEOREM TypeCorrect == Spec => []TypeOK
<1>1. IInv => TypeOK
  <2> SUFFICES ASSUME IInv PROVE TypeOK
    OBVIOUS
  <2>1. entries \in Seq(Entry) /\ Len(entries) <= Capacity /\ length \in Nat
        /\ \A o \in DOMAIN file : o \in Nat /\ file[o].size \in Nat
    BY DEF IInv, SaveInv, StoreInv, FileInv, SoundFields
  <2>2. /\ writer.pc \in {"idle", "records"} /\ writer.at \in Nat
        /\ writer.next \in 1..(Len(entries) + 1)
    <3>1. writer.pc \in {"idle", "records"} /\ writer.at \in Nat
      BY DEF IInv, SaveInv, WriterInv
    <3>2. CASE writer.pc = "records"
      BY <3>1, <3>2 DEF IInv, SaveInv, WriterInv, Writing
    <3>3. CASE writer.pc = "idle"
      <4>1. writer.next = 1
        BY <3>3 DEF IInv, SaveInv, WriterInv, NotWriting
      <4>2. Len(entries) \in Nat
        BY <2>1, LenProperties
      <4> QED
        BY <3>1, <4>1, <4>2
    <3> QED
      BY <3>1, <3>2, <3>3
  <2>3. /\ Shape(reader)
        /\ pristine \in BOOLEAN
        /\ outcome.kind \in {"none", "invalid", "mismatch", "failed", "loaded"}
    BY DEF IInv, SaveInv, PristineInv, ReaderInv, OutcomeInv
  <2>4. /\ reader.pc \in {"idle", "header", "length", "entry"}
        /\ reader.dimension \in 0..MaxFloats /\ reader.idLength \in 0..MaxChars
        /\ reader.accepts \subseteq Vectors /\ reader.records \in Seq(Entry)
        /\ reader.remaining \in Nat /\ reader.at \in Nat /\ reader.length \in Nat
    BY <2>3 DEF Shape
  <2>5. reader.remaining < Word /\ RecordsLeft >= 0
    <3>1. CASE Reading
      <4>1. RoomInv /\ reader.length < Word
        BY <3>1 DEF IInv, ReaderInv
      <4>2. RecordsLeft \in Nat
        BY <4>1 DEF RoomInv
      <4>3. reader.at + reader.remaining + ChecksumBytes < Word
        BY <4>1 DEF RoomInv
      <4> QED
        BY <4>2, <4>3, <2>4, Limits DEF ChecksumBytes
    <3>2. CASE ~ Reading
      <4>1. reader.remaining = 0 /\ reader.count = 0 /\ reader.records = <<>>
        BY <3>2, <2>4 DEF IInv, ReaderInv, Reading, NotReading
      <4> QED
        BY <4>1, Limits, EmptySeq, LimitsAssumption DEF RecordsLeft
    <3> QED
      BY <3>1, <3>2
  <2> QED
    BY <2>1, <2>2, <2>3, <2>4, <2>5 DEF TypeOK
<1> QED
  BY <1>1, Invariant, PTL

\* load() returns nothing but an index that was given to save(), whatever the
\* crashes, the failed writes, the storage and a save() at the same time have
\* made of the file.
THEOREM LoadsOnlySaved == Spec => []LoadedIsSaved
<1>1. IInv => LoadedIsSaved
  BY DEF IInv, OutcomeInv
<1> QED
  BY <1>1, Invariant, PTL

\* load() does not refuse a file that save() has written and nobody has
\* touched: none of its checks is too strict.
THEOREM IntactFilesAreLoaded == Spec => []IntactFilesLoad
<1>1. IInv => IntactFilesLoad
  BY DEF IInv, OutcomeInv
<1> QED
  BY <1>1, Invariant, PTL

\* Whatever integers a file holds, load() allocates nothing for an entry that the
\* rest of the file has no room for.
THEOREM RecordsFit == Spec => []RecordsFitFile
<1>1. IInv => RecordsFitFile
  BY DEF IInv, ReaderInv, Reading, RoomInv, RecordsFitFile
<1> QED
  BY <1>1, Invariant, PTL
=============================================================================
