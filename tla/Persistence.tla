---------------------------- MODULE Persistence ----------------------------
(***************************************************************************)
(* VectorIndex::save() and VectorIndex::load() on one path.                *)
(*                                                                         *)
(* save() truncates the file and writes header, records and checksum       *)
(* through a buffered stream, so that until close() the disk holds some    *)
(* prefix of what was written; it can fail, and the process can crash, at  *)
(* any byte.  A load, in this or another process, can overlap it, and the  *)
(* storage can lose, change or append bytes between calls.                 *)
(*                                                                         *)
(* The file is a function from byte offsets to the fields that start       *)
(* there.  Bytes that are read where no field of that kind and size starts *)
(* decode to anything.  The CRC-32 of some bytes stands for those bytes:   *)
(* two different payloads are taken to have different checksums.           *)
(***************************************************************************)
EXTENDS Integers, Sequences, FiniteSets

CONSTANTS
    Ids, Vectors,
    Accepted,       \* the vectors that the backend given to load() accepts
    IdLength,       \* the number of bytes of each ID
    Dimension,      \* the dimension of the index that is saved
    Word,           \* 2^64, the range of the file's integers and of size_t
    MaxFloats,      \* std::vector<float>{}.max_size()
    MaxChars,       \* std::string{}.max_size()
    Words,          \* the integers that damaged bytes may decode to
    Capacity,       \* bound of the model: the number of entries
    Cuts,           \* bound of the model: the lengths that partial files may have
    Saves           \* bound of the model: the number of different indexes saved

ASSUME LimitsAssumption ==
    /\ Accepted \subseteq Vectors
    /\ Word \in Nat /\ Word > 36
    /\ MaxFloats \in Nat /\ MaxChars \in Nat
    /\ Words \subseteq 0..(Word - 1)
    /\ Capacity \in Nat /\ Saves \in Nat /\ Cuts \subseteq Nat
    /\ Dimension \in 1..MaxFloats
    /\ IdLength \in [Ids -> 0..MaxChars]

\* There is one ID without bytes; and the bytes of the largest file, and of one
\* byte more, can be counted.
ASSUME SizesAssumption ==
    /\ \A i, j \in Ids : IdLength[i] = 0 /\ IdLength[j] = 0 => i = j
    /\ \E record \in 0..(Word - 1) :
          /\ 8 + 4 * Dimension <= record
          /\ \A i \in Ids : 8 + IdLength[i] + 4 * Dimension <= record
          /\ 32 + Capacity * record + 4 + 1 < Word

VARIABLES
    entries,        \* the index that save() writes, in insertion order
    file,           \* the fields of the file, by offset
    length,         \* the bytes of them that are on disk
    writer,         \* whether save() runs, and where it is
    reader,         \* whether load() runs, and its locals
    saved,          \* history: every index whose save() has begun
    pristine,       \* history: the last save() succeeded and the file is as it left it
    outcome         \* what load() returned or threw, until the next step of anyone

vars == <<entries, file, length, writer, reader, saved, pristine, outcome>>

HeaderBytes == 32
ChecksumBytes == 4
FloatBytes == 4

Magic == "VPINDEX"
Version == 1

Field(kind, size, value) == [kind |-> kind, size |-> size, value |-> value]

NoFields == [o \in {} |-> Field("none", 0, 0)]

Header(count) ==
    [o \in {0, 8, 12, 16, 24} |->
        CASE o = 0  -> Field("magic", 8, Magic)
          [] o = 8  -> Field("integer", 4, Version)
          [] o = 12 -> Field("integer", 4, 0)
          [] o = 16 -> Field("integer", 8, Dimension)
          [] o = 24 -> Field("integer", 8, count)]

RecordBytes(e) == 8 + IdLength[e.id] + FloatBytes * Dimension

\* f with the record of e at offset p; an empty ID takes no bytes.
WithRecord(f, p, e) ==
    LET atId     == p + 8
        atValues == p + 8 + IdLength[e.id]
    IN  [o \in DOMAIN f \cup {p, atId, atValues} |->
            IF o = p THEN Field("integer", 8, IdLength[e.id])
            ELSE IF o = atValues THEN Field("vector", FloatBytes * Dimension, e.vector)
            ELSE IF o = atId THEN Field("id", IdLength[e.id], e.id)
            ELSE f[o]]

WithChecksum(f, p) ==
    [o \in DOMAIN f \cup {p} |-> IF o = p THEN Field("checksum", ChecksumBytes, f) ELSE f[o]]

NotWriting == [pc |-> "idle", next |-> 1, at |-> 0]
NotReading ==
    [pc |-> "idle", length |-> 0, at |-> 0, remaining |-> 0, dimension |-> 0, count |-> 0,
     idLength |-> 0, records |-> <<>>, seen |-> NoFields, clean |-> TRUE, undisturbed |-> FALSE,
     accepts |-> {}]
Nowhere == [kind |-> "none"]

Init ==
    /\ entries = <<>>
    /\ file = NoFields
    /\ length = 0
    /\ writer = NotWriting
    /\ reader = NotReading
    /\ saved = {}
    /\ pristine = FALSE
    /\ outcome = Nowhere

Add(i, v) ==
    /\ writer.pc = "idle"
    /\ Len(entries) < Capacity
    /\ \A k \in DOMAIN entries : entries[k].id # i
    /\ entries' = Append(entries, [id |-> i, vector |-> v])
    /\ outcome' = Nowhere
    /\ UNCHANGED <<file, length, writer, reader, saved, pristine>>

----------------------------------------------------------------------------
(* save() *)

\* The file is no longer what the last save() and the running load() took it for.
Disturb ==
    /\ pristine' = FALSE
    /\ reader' = [reader EXCEPT !.undisturbed = FALSE]
    /\ outcome' = Nowhere

\* The stream is opened, which truncates the file, and the header is written.
BeginSave ==
    /\ writer.pc = "idle"
    /\ entries \in saved \/ Cardinality(saved) < Saves
    /\ file' = Header(Len(entries))
    /\ length' \in {0, HeaderBytes}
    /\ writer' = [pc |-> "records", next |-> 1, at |-> HeaderBytes]
    /\ saved' = saved \cup {entries}
    /\ Disturb
    /\ UNCHANGED entries

WriteRecord ==
    /\ writer.pc = "records"
    /\ writer.next <= Len(entries)
    /\ LET e == entries[writer.next]
       IN  /\ file' = WithRecord(file, writer.at, e)
           /\ writer' = [writer EXCEPT !.next = @ + 1, !.at = @ + RecordBytes(e)]
    /\ length' \in {length, writer'.at}
    /\ Disturb
    /\ UNCHANGED <<entries, saved>>

\* The checksum is written and the stream is closed.
FinishSave ==
    /\ writer.pc = "records"
    /\ writer.next > Len(entries)
    /\ file' = WithChecksum(file, writer.at)
    /\ length' = writer.at + ChecksumBytes
    /\ writer' = NotWriting
    /\ pristine' = TRUE
    /\ reader' = [reader EXCEPT !.undisturbed = FALSE]
    /\ outcome' = Nowhere
    /\ UNCHANGED <<entries, saved>>

\* A write or the close fails: whatever prefix has reached the disk stays,
\* even the whole file.
AbandonFile ==
    /\ LET complete == writer.next > Len(entries)
           end == writer.at + IF complete THEN ChecksumBytes ELSE 0
       IN  /\ file' = IF complete THEN WithChecksum(file, writer.at) ELSE file
           /\ length' \in (length..end) \cap (Cuts \cup {length, end})
    /\ writer' = NotWriting

SaveFails ==
    /\ writer.pc = "records"
    /\ AbandonFile
    /\ Disturb
    /\ UNCHANGED <<entries, saved>>

\* The saving process dies, and its index with it.
Crash ==
    /\ entries' = <<>>
    /\ IF writer.pc = "idle"
       THEN outcome' = Nowhere /\ UNCHANGED <<file, length, writer, reader, pristine>>
       ELSE AbandonFile /\ Disturb
    /\ UNCHANGED saved

----------------------------------------------------------------------------
(* The storage: external to the program.  One fault meets a complete file. *)

LoseBytes ==
    /\ writer.pc = "idle"
    /\ pristine
    /\ length' \in (0..(length - 1)) \cap Cuts
    /\ Disturb
    /\ UNCHANGED <<entries, file, writer, saved>>

AppendByte ==
    /\ writer.pc = "idle"
    /\ pristine
    /\ length' = length + 1
    /\ Disturb
    /\ UNCHANGED <<entries, file, writer, saved>>

\* What the bytes of the field at offset o of a complete file may become.
Damaged(o) ==
    CASE file[o].kind = "magic"    -> {"damaged"}
      [] file[o].kind = "integer"  -> Words
      [] file[o].kind = "id"       -> {i \in Ids : IdLength[i] = file[o].size}
      [] file[o].kind = "vector"   -> Vectors
      [] file[o].kind = "checksum" -> {NoFields}

DamageField ==
    /\ writer.pc = "idle"
    /\ pristine
    /\ \E o \in DOMAIN file : \E v \in Damaged(o) \ {file[o].value} :
          file' = [file EXCEPT ![o].value = v]
    /\ Disturb
    /\ UNCHANGED <<entries, length, writer, saved>>

----------------------------------------------------------------------------
(* load() *)

EndLoad(result) ==
    /\ outcome' = result
    /\ reader' = NotReading
    /\ UNCHANGED <<entries, file, length, writer, saved, pristine>>

\* invalid_file(): a std::runtime_error.
Invalid(intact) == [kind |-> "invalid", intact |-> intact]
Refuse == EndLoad(Invalid(reader.undisturbed))

\* The file is as long as it is when it is opened.
OpenLoad ==
    /\ reader.pc = "idle"
    /\ length >= HeaderBytes + ChecksumBytes
    /\ reader' = [NotReading EXCEPT !.pc = "header", !.length = length,
                                    !.undisturbed = pristine]
    /\ outcome' = Nowhere
    /\ UNCHANGED <<entries, file, length, writer, saved, pristine>>

OpenTooShort ==
    /\ reader.pc = "idle"
    /\ length < HeaderBytes + ChecksumBytes
    /\ EndLoad(Invalid(pristine))

OnDisk(end) == end <= length

\* A read past the end of the file, which has become shorter meanwhile, or of
\* bytes that the device does not return; or an allocation fails.
LoadFails ==
    /\ reader.pc # "idle"
    /\ EndLoad([kind |-> "failed"])

Aligned(o, kind, size) ==
    o \in DOMAIN file /\ file[o].kind = kind /\ file[o].size = size

\* What the bytes at o decode to, if they may decode to any of a set.
Decoded(o, kind, size, any) == IF Aligned(o, kind, size) THEN {file[o].value} ELSE any

\* uint64_t arithmetic
VectorBytes(dimension) == (dimension * FloatBytes) % Word
MinimumRecordBytes(dimension) == (8 + VectorBytes(dimension)) % Word

\* Mutant: a dimension is only refused when it is zero.
DimensionNotZero(dimension) == dimension # 0

DimensionAllowed(dimension) ==
    /\ dimension # 0
    /\ dimension <= MaxFloats
    /\ dimension <= (Word - 1 - 8) \div FloatBytes

\* Mutant: the count is only compared with what size_t can hold.
CountAllowedUnbounded(count, dimension, remaining) == count <= Word - 1

CountAllowed(count, dimension, remaining) ==
    /\ count <= Word - 1
    /\ count <= remaining \div MinimumRecordBytes(dimension)

HeaderAllowed ==
    LET remaining == reader.length - ChecksumBytes - HeaderBytes
    IN  /\ file[0].value = Magic /\ file[8].value = Version /\ file[12].value = 0
        /\ DimensionAllowed(file[16].value)
        /\ CountAllowed(file[24].value, file[16].value, remaining)

\* The index gets the default backend, or one that the caller supplies, which
\* is empty and has the dimension and may refuse vectors.
ReadHeader ==
    /\ reader.pc = "header"
    /\ OnDisk(HeaderBytes)
    /\ HeaderAllowed
    /\ \E accepts \in {Vectors, Accepted} : reader' = [reader EXCEPT
           !.accepts = accepts,
           !.pc = "length", !.at = HeaderBytes,
           !.remaining = reader.length - ChecksumBytes - HeaderBytes,
           !.dimension = file[16].value, !.count = file[24].value,
           !.seen = [o \in {0, 8, 12, 16, 24} |-> file[o]]]
    /\ UNCHANGED <<entries, file, length, writer, saved, pristine, outcome>>

RefuseHeader ==
    /\ reader.pc = "header"
    /\ OnDisk(HeaderBytes) => ~ HeaderAllowed
    /\ Refuse

\* A supplied backend is not empty or has another dimension.
RefuseBackend ==
    /\ reader.pc = "header"
    /\ OnDisk(HeaderBytes)
    /\ HeaderAllowed
    /\ EndLoad([kind |-> "mismatch"])

RecordsLeft == reader.count - Len(reader.records)

\* The bytes to leave for this vector and for the remaining records.  The
\* mutant counts this record among the remaining ones.
RequiredTwice ==
    (VectorBytes(reader.dimension)
        + RecordsLeft * MinimumRecordBytes(reader.dimension)) % Word

Required ==
    (VectorBytes(reader.dimension)
        + (RecordsLeft - 1) * MinimumRecordBytes(reader.dimension)) % Word

IdLengthAllowed(n, remaining) ==
    /\ remaining >= Required
    /\ n <= remaining - Required
    /\ n <= MaxChars

\* The reader with the bytes at its place taken in, aligned with a field or not.
Taken(r, kind, size) ==
    [r EXCEPT !.at = @ + size, !.remaining = @ - size,
              !.clean = @ /\ (size = 0 \/ Aligned(r.at, kind, size)),
              !.seen = IF size > 0 /\ Aligned(r.at, kind, size)
                       THEN [o \in DOMAIN @ \cup {r.at} |-> IF o = r.at THEN file[o] ELSE @[o]]
                       ELSE @]

ReadIdLength ==
    /\ reader.pc = "length"
    /\ RecordsLeft > 0
    /\ reader.remaining >= 8
    /\ OnDisk(reader.at + 8)
    /\ \E n \in Decoded(reader.at, "integer", 8, Words) :
          IF IdLengthAllowed(n, reader.remaining - 8)
          THEN /\ reader' = [Taken(reader, "integer", 8) EXCEPT !.pc = "entry", !.idLength = n]
               /\ UNCHANGED <<entries, file, length, writer, saved, pristine, outcome>>
          ELSE Refuse

\* The ID and the vector that are read next.
NextId == IF reader.idLength = 0
          THEN {i \in Ids : IdLength[i] = 0}
          ELSE Decoded(reader.at, "id", reader.idLength, Ids)
NextVector ==
    Decoded(reader.at + reader.idLength, "vector", FloatBytes * reader.dimension, Vectors)

EntryOnDisk ==
    LET bytes == reader.idLength + FloatBytes * reader.dimension
    IN  reader.remaining >= bytes /\ OnDisk(reader.at + bytes)

\* Reader::bytes() is asked for more than the payload still has, or the file
\* has shrunk under it.
RefuseTruncated ==
    /\ \/ reader.pc = "length" /\ RecordsLeft > 0
             /\ (reader.remaining < 8 \/ ~ OnDisk(reader.at + 8))
       \/ reader.pc = "entry"
             /\ ~ EntryOnDisk
    /\ Refuse

\* add() of the new index
AddAccepts(i, v) ==
    /\ \A k \in DOMAIN reader.records : reader.records[k].id # i
    /\ v \in reader.accepts

ReadEntry ==
    /\ reader.pc = "entry"
    /\ EntryOnDisk
    /\ \E i \in NextId, v \in NextVector :
          /\ AddAccepts(i, v)
          /\ reader' =
                [Taken(Taken(reader, "id", reader.idLength),
                       "vector", FloatBytes * reader.dimension) EXCEPT
                    !.pc = "length", !.records = Append(@, [id |-> i, vector |-> v])]
    /\ UNCHANGED <<entries, file, length, writer, saved, pristine, outcome>>

\* add() throws, which load() turns into a std::runtime_error.
RefuseEntry ==
    /\ reader.pc = "entry"
    /\ EntryOnDisk
    /\ \E i \in NextId, v \in NextVector :
          /\ ~ AddAccepts(i, v)
          /\ EndLoad(Invalid(reader.undisturbed /\ v \in reader.accepts))

\* Mutant: the checksum is read but not compared.
ChecksumIgnored == TRUE

ChecksumMatches ==
    /\ reader.clean
    /\ Aligned(reader.length - ChecksumBytes, "checksum", ChecksumBytes)
    /\ file[reader.length - ChecksumBytes].value = reader.seen

Complete ==
    /\ reader.remaining = 0
    /\ OnDisk(reader.length) /\ length = reader.length
    /\ ChecksumMatches

FinishLoad ==
    /\ reader.pc = "length"
    /\ RecordsLeft = 0
    /\ Complete
    /\ EndLoad([kind |-> "loaded", dimension |-> reader.dimension, index |-> reader.records])

RefuseEnd ==
    /\ reader.pc = "length"
    /\ RecordsLeft = 0
    /\ ~ Complete
    /\ Refuse

----------------------------------------------------------------------------
Save == BeginSave \/ WriteRecord \/ FinishSave \/ SaveFails
Storage == LoseBytes \/ AppendByte \/ DamageField
Load ==
    \/ OpenLoad \/ OpenTooShort \/ LoadFails
    \/ ReadHeader \/ RefuseHeader \/ RefuseBackend
    \/ ReadIdLength \/ RefuseTruncated \/ ReadEntry \/ RefuseEntry
    \/ FinishLoad \/ RefuseEnd

Next ==
    \/ \E i \in Ids, v \in Vectors : Add(i, v)
    \/ Save \/ Crash \/ Storage \/ Load

Spec == Init /\ [][Next]_vars
----------------------------------------------------------------------------
(* Properties *)

Entry == [id : Ids, vector : Vectors]

TypeOK ==
    /\ entries \in Seq(Entry) /\ Len(entries) <= Capacity
    /\ length \in Nat
    /\ \A o \in DOMAIN file : o \in Nat /\ file[o].size \in Nat
    /\ writer.pc \in {"idle", "records"}
    /\ writer.next \in 1..(Len(entries) + 1) /\ writer.at \in Nat
    /\ reader.pc \in {"idle", "header", "length", "entry"}
    /\ reader.remaining \in Nat /\ reader.remaining < Word
    /\ reader.dimension \in 0..MaxFloats /\ reader.idLength \in 0..MaxChars
    /\ reader.accepts \subseteq Vectors
    /\ reader.records \in Seq(Entry) /\ RecordsLeft >= 0
    /\ pristine \in BOOLEAN
    /\ outcome.kind \in {"none", "invalid", "mismatch", "failed", "loaded"}

\* load() returns nothing but an index that was given to save(), with all its
\* vectors in their order, whatever prefix a failed save or a crash left,
\* whatever the storage did, and also while a save() to the path is running.
LoadedIsSaved ==
    outcome.kind = "loaded" => outcome.dimension = Dimension /\ outcome.index \in saved

\* load() does not refuse what save() wrote, as long as nobody touches it and
\* the backend accepts the vectors.
IntactFilesLoad == outcome.kind = "invalid" => ~ outcome.intact

\* Before load() allocates an ID and a vector it has made sure that the file
\* has the bytes of both and of every record that must follow: no multiplication
\* wraps around, whatever integers a damaged file holds.
RecordsFitFile ==
    reader.pc = "entry" =>
        reader.idLength + FloatBytes * reader.dimension
            + (RecordsLeft - 1) * (8 + FloatBytes * reader.dimension) <= reader.remaining
=============================================================================
