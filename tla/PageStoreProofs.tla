-------------------------- MODULE PageStoreProofs --------------------------
(***************************************************************************)
(* The page store for any names, pages, readers and size of the files:     *)
(* what is written stays, every offset leads to its record, and the store  *)
(* implements the map of pages.                                            *)
(***************************************************************************)
EXTENDS PageStore, WellFoundedInduction, TLAPS

\* Every set of natural numbers that is not empty has a least element.
LEMMA LeastElement ==
  ASSUME NEW T \in SUBSET Nat, T # {}
  PROVE  \E m \in T : \A k \in T : m <= k
<1>. DEFINE Less == {ss \in Nat \X Nat : ss[1] < ss[2]}
<1>1. IsWellFoundedOn(Less, Nat)
  BY NatLessThanWellFounded, Zenon DEF OpToRel
<1>2. \A k, m \in Nat : k < m => <<k, m>> \in Less
  OBVIOUS
<1>. HIDE DEF Less
<1>3. PICK m \in T : \A k \in T : ~(<<k, m>> \in Less)
  BY <1>1, WFMin
<1>4. \A k \in T : ~(k < m)
  BY <1>2, <1>3
<1>. QED
  BY <1>4

(***************************************************************************)
(* Offsets.  An offset is a position p in a file i; from there to the end  *)
(* of the file, the offsets that follow lead to the positions that follow. *)
(***************************************************************************)
LEMMA Division ==
  ASSUME NEW F \in Nat \ {0}, NEW q \in Nat, NEW p \in 0..F - 1
  PROVE  /\ (p + q * F) \div F = q
         /\ (p + q * F) % F = p
OBVIOUS

LEMMA CellOfOffset ==
  ASSUME NEW i \in 1..backingFiles, backingFiles \in Nat, NEW p \in Nat, NEW k \in Nat,
         p + k < FILE_SIZE
  PROVE  Cell(OffsetOf(i, p) + k) = files[i][p + k]
<1>. DEFINE q == i - 1
            at == p + k
<1>1. q \in Nat /\ at \in 0..FILE_SIZE - 1 /\ FILE_SIZE \in Nat \ {0}
  BY SizesAssumption
<1>2. OffsetOf(i, p) + k = at + q * FILE_SIZE
  BY SizesAssumption DEF OffsetOf
<1>3. (at + q * FILE_SIZE) \div FILE_SIZE = q /\ (at + q * FILE_SIZE) % FILE_SIZE = at
  BY <1>1, Division
<1>. HIDE DEF at
<1>. QED
  BY <1>2, <1>3 DEF Cell, at

(***************************************************************************)
(* Records.                                                                *)
(***************************************************************************)
LEMMA NameIsSequence ==
  ASSUME NEW n \in Names
  PROVE  /\ Len(n) \in Nat \ {0} /\ DOMAIN n = 1..Len(n) /\ n = [k \in 1..Len(n) |-> n[k]]
         /\ \A k \in 1..Len(n) : n[k] # NUL
<1>1. n \in Seq({n[k] : k \in DOMAIN n})
  BY PagesAssumption DEF IsSequence
<1>. QED
  BY <1>1, PagesAssumption

LEMMA BodyIsSequence ==
  ASSUME NEW body \in Bodies
  PROVE  Len(body) \in Nat /\ DOMAIN body = 1..Len(body)
         /\ body = [k \in 1..Len(body) |-> body[k]]
<1>1. body \in Seq({body[k] : k \in DOMAIN body})
  BY PagesAssumption DEF IsSequence
<1>. QED
  BY <1>1

LEMMA RecordCells ==
  ASSUME NEW n \in Names, NEW body \in Bodies
  PROVE  LET record == Record(n, body) IN
         /\ Len(record) = Len(n) + 2 + Len(body)
         /\ \A k \in 1..Len(n) : record[k] = n[k]
         /\ record[Len(n) + 1] = NUL
         /\ record[Len(n) + 2] = Len(body)
         /\ \A k \in 1..Len(body) : record[Len(n) + 2 + k] = body[k]
<1>. DEFINE T == {n[k] : k \in DOMAIN n} \cup {NUL, Len(body)} \cup {body[k] : k \in DOMAIN body}
<1>1. n \in Seq(T) /\ body \in Seq(T) /\ NUL \in T /\ Len(body) \in T
  BY NameIsSequence, BodyIsSequence
<1>. HIDE DEF T
<1>2. LET record == n \o <<NUL, Len(body)>> \o body IN
      /\ Len(record) = Len(n) + 2 + Len(body)
      /\ \A k \in 1..Len(n) : record[k] = n[k]
      /\ record[Len(n) + 1] = NUL
      /\ record[Len(n) + 2] = Len(body)
      /\ \A k \in 1..Len(body) : record[Len(n) + 2 + k] = body[k]
  BY <1>1
<1>. QED
  BY <1>2, Zenon DEF Record

(***************************************************************************)
(* The inductive invariant.  The files have their size, and count what was *)
(* written to them.  Every name that was stored since the start is mapped  *)
(* to a record of it that lies in the written part of a mapped file.  A    *)
(* reader that has found such a name has the offsets of that record.       *)
(***************************************************************************)
FilesAreWellFormed ==
  /\ backingFiles \in Nat
  /\ 1..backingFiles \subseteq DOMAIN files
  /\ \A i \in DOMAIN files : DOMAIN files[i] = Positions /\ FileSize(i) \in HEADER..FILE_SIZE

\* The record of page n with these contents is at position p of a file, in its written part.
HasRecord(file, p, n, body) ==
  /\ p + Len(Record(n, body)) <= file[0]
  /\ \A k \in 1..Len(Record(n, body)) : file[p + k - 1] = Record(n, body)[k]

Stored == DOMAIN mapping \ recovered

StoredAt(n, i, p, body) ==
  mapping[n] = OffsetOf(i, p) /\ HasRecord(files[i], p, n, body)

PagesAreStored ==
  \A n \in Stored :
    /\ n \in Names
    /\ \E i \in 1..backingFiles, p \in Nat \ {0}, body \in Bodies : StoredAt(n, i, p, body)

\* The first file starts with a record, or with nothing: once something has been written
\* behind that record, it is in the written part.
FirstFile ==
  1 \in DOMAIN files /\ FILE_SIZE > HEADER =>
    \/ files[1][HEADER] = NUL /\ FileSize(1) = HEADER
    \/ \E n \in Names, body \in Bodies :
         /\ \A k \in 1..Len(Record(n, body)) : files[1][HEADER + k - 1] = Record(n, body)[k]
         /\ FileSize(1) = HEADER \/ HEADER + Len(Record(n, body)) <= FileSize(1)

ReadersAreRight ==
  \A r \in Readers : pc[r] # "idle" =>
    /\ name[r] \in Names \cap DOMAIN mapping
    /\ name[r] \notin recovered =>
         /\ pc[r] = "found" => offset[r] = mapping[name[r]]
         /\ pc[r] = "measured" => lenOffset[r] = mapping[name[r]] + Len(name[r]) + 1

StoreInv ==
  /\ FilesAreWellFormed
  /\ TypeOK
  /\ FirstFile
  /\ PagesAreStored
  /\ ReadersAreRight

LEMMA CellOfRecord ==
  ASSUME FilesAreWellFormed, NEW n \in Names, NEW body \in Bodies,
         NEW i \in 1..backingFiles, NEW p \in Nat \ {0}, StoredAt(n, i, p, body),
         NEW k \in 1..Len(Record(n, body))
  PROVE  Cell(mapping[n] + (k - 1)) = Record(n, body)[k]
<1>1. Len(Record(n, body)) \in Nat
  BY RecordCells, NameIsSequence, BodyIsSequence
<1>2. p + (k - 1) < FILE_SIZE
  BY <1>1, SizesAssumption DEF FilesAreWellFormed, StoredAt, HasRecord, FileSize
<1>3. Cell(OffsetOf(i, p) + (k - 1)) = files[i][p + (k - 1)]
  BY <1>2, CellOfOffset DEF FilesAreWellFormed
<1>. QED
  BY <1>1, <1>3 DEF StoredAt, HasRecord

\* The name of a record is measured right.
LEMMA StrlenOfRecord ==
  ASSUME FilesAreWellFormed, NEW n \in Names, NEW body \in Bodies,
         NEW i \in 1..backingFiles, NEW p \in Nat \ {0}, StoredAt(n, i, p, body)
  PROVE  Strlen(mapping[n]) = Len(n)
<1>. DEFINE off == mapping[n]
            record == Record(n, body)
            Ends(k) == /\ k = FILE_SIZE \/ Cell(off + k) = NUL
                       /\ \A j \in 0..k - 1 : Cell(off + j) # NUL
<1>1. Len(n) \in Nat \ {0} /\ Len(body) \in Nat /\ Len(record) = Len(n) + 2 + Len(body)
  BY NameIsSequence, BodyIsSequence, RecordCells
<1>2. ASSUME NEW j \in 0..Len(n) - 1 PROVE Cell(off + j) # NUL
  <2>1. j + 1 \in 1..Len(record) /\ j + 1 \in 1..Len(n) /\ (j + 1) - 1 = j
    BY <1>1
  <2>2. Cell(off + j) = record[j + 1]
    BY <2>1, CellOfRecord
  <2>3. record[j + 1] = n[j + 1]
    BY <2>1, RecordCells
  <2>. QED
    BY <2>1, <2>2, <2>3, NameIsSequence
<1>3. Cell(off + Len(n)) = NUL
  <2>1. Len(n) + 1 \in 1..Len(record) /\ (Len(n) + 1) - 1 = Len(n)
    BY <1>1
  <2>. QED
    BY <2>1, CellOfRecord, RecordCells
<1>4. Len(n) \in 0..FILE_SIZE /\ Ends(Len(n))
  BY <1>1, <1>2, <1>3, SizesAssumption DEF HEADER, LENGTH
<1>5. ASSUME NEW k \in 0..FILE_SIZE, Ends(k) PROVE k = Len(n)
  <2>1. CASE k < Len(n)
    BY <1>1, <1>2, <1>4, <1>5, <2>1, SizesAssumption
  <2>2. CASE Len(n) < k
    BY <1>1, <1>3, <1>5, <2>2
  <2>. QED
    BY <1>1, <2>1, <2>2
<1>6. Strlen(off) = CHOOSE k \in 0..FILE_SIZE : Ends(k)
  BY DEF Strlen
<1>. HIDE DEF Ends
<1>. QED
  BY <1>4, <1>5, <1>6

LEMMA ContentsOfRecord ==
  ASSUME FilesAreWellFormed, NEW n \in Names, NEW body \in Bodies,
         NEW i \in 1..backingFiles, NEW p \in Nat \ {0}, StoredAt(n, i, p, body)
  PROVE  Contents(mapping[n] + Len(n) + 1) = body
<1>. DEFINE off == mapping[n]
            record == Record(n, body)
            len == Len(n)
<1>1. len \in Nat \ {0} /\ Len(body) \in Nat /\ Len(record) = len + 2 + Len(body)
  BY NameIsSequence, BodyIsSequence, RecordCells
<1>2. off \in Nat
  BY SizesAssumption DEF StoredAt, OffsetOf, FilesAreWellFormed
<1>3. Cell(off + len + 1) = Len(body)
  <2>1. len + 2 \in 1..Len(record) /\ off + ((len + 2) - 1) = off + len + 1
    BY <1>1, <1>2
  <2>. QED
    BY <2>1, CellOfRecord, RecordCells
<1>4. ASSUME NEW k \in 1..Len(body) PROVE Cell(off + len + 1 + LENGTH + k - 1) = body[k]
  <2>1. len + 2 + k \in 1..Len(record) /\ off + ((len + 2 + k) - 1) = off + len + 1 + LENGTH + k - 1
    BY <1>1, <1>2 DEF LENGTH
  <2>. QED
    BY <2>1, CellOfRecord, RecordCells
<1>5. Len(body) \in 0..FILE_SIZE
  BY <1>1, SizesAssumption DEF HEADER, LENGTH
<1>. HIDE DEF off, len
<1>6. Contents(off + len + 1) = [k \in 1..Len(body) |-> body[k]]
  BY <1>3, <1>4, <1>5 DEF Contents
<1>. QED
  BY <1>6, BodyIsSequence DEF off, len

LEMMA PageOfRecord ==
  FilesAreWellFormed =>
    \A n \in Names, body \in Bodies, i \in 1..backingFiles, p \in Nat \ {0} :
      StoredAt(n, i, p, body) =>
        /\ Strlen(mapping[n]) = Len(n)
        /\ Contents(mapping[n] + Len(n) + 1) = body
        /\ n \in DOMAIN mapping => Page(n) = body
BY StrlenOfRecord, ContentsOfRecord DEF Page

(***************************************************************************)
(* A page is stored.                                                       *)
(***************************************************************************)
LEMMA StoreWrites ==
  ASSUME FilesAreWellFormed, NEW n \in Names, NEW body \in Bodies, Store(n, body)
  PROVE  /\ FilesAreWellFormed'
         /\ backingFiles \in 1..backingFiles'
         /\ \A i \in 1..backingFiles :
              /\ FileSize(i) <= FileSize(i)'
              /\ \A p \in HEADER..FileSize(i) - 1 : files'[i][p] = files[i][p]
         /\ \E i \in 1..backingFiles', p \in Nat \ {0} :
              /\ i = 1 => p = FileSize(1)
              /\ i = backingFiles' /\ (i = backingFiles \/ i = backingFiles + 1)
              /\ DOMAIN files' = DOMAIN files \cup {i}
              /\ \A k \in DOMAIN files \ {i} : files'[k] = files[k]
              /\ HasRecord(files'[i], p, n, body)
              /\ mapping' = [m \in DOMAIN mapping \cup {n} |->
                              IF m \in DOMAIN mapping THEN mapping[m] ELSE OffsetOf(i, p)]
<1>. DEFINE record   == Record(n, body)
            allocate == NeedsNewFile(n, body)
            i        == IF allocate THEN NewNumber ELSE backingFiles
            at       == IF allocate THEN HEADER ELSE FileSize(i)
            old      == IF i \in DOMAIN files THEN files[i] ELSE EmptyFile
            size     == Len(record)
<1>1. /\ backingFiles > 0
      /\ files' = [k \in DOMAIN files \cup {i} |-> IF k = i THEN Copy(old, at, record) ELSE files[k]]
      /\ backingFiles' = i
      /\ mapping' = [m \in DOMAIN mapping \cup {n} |->
                      IF m \in DOMAIN mapping THEN mapping[m] ELSE OffsetOf(i, at)]
  BY DEF Store, Insert
<1>2. size \in Nat /\ size > 0 /\ HEADER + size <= FILE_SIZE /\ FILE_SIZE \in Nat \ {0}
  BY RecordCells, NameIsSequence, BodyIsSequence, SizesAssumption DEF HEADER, LENGTH
<1>3. /\ i \in Nat \ {0} /\ backingFiles \in 1..i
      /\ at \in Nat \ {0} /\ at + size <= FILE_SIZE
      /\ i = backingFiles => at = FileSize(i)
  <2>1. backingFiles \in Nat \ {0} /\ FileSize(backingFiles) \in Nat \ {0}
    BY <1>1 DEF FilesAreWellFormed, HEADER
  <2>2. CASE allocate
    BY <1>2, <2>1, <2>2 DEF NewNumber, HEADER
  <2>3. CASE ~allocate
    BY <1>2, <2>1, <2>3, SizesAssumption DEF NeedsNewFile
  <2>. QED
    BY <2>2, <2>3
<1>4. DOMAIN old = Positions
  BY DEF FilesAreWellFormed, EmptyFile
<1>. HIDE DEF i, at, old, size, record
<1>5. /\ DOMAIN Copy(old, at, record) = Positions
      /\ Copy(old, at, record)[0] = at + size
      /\ \A p \in Positions \ {0} : p < at => Copy(old, at, record)[p] = old[p]
      /\ \A k \in 1..size : Copy(old, at, record)[at + k - 1] = record[k]
  BY <1>2, <1>3 DEF Copy, Positions, size
<1>6. /\ DOMAIN files' = DOMAIN files \cup {i}
      /\ files'[i] = Copy(old, at, record)
      /\ \A k \in DOMAIN files \ {i} : files'[k] = files[k]
  BY <1>1
<1>7. FilesAreWellFormed'
  <2>1. backingFiles' \in Nat /\ 1..backingFiles' \subseteq DOMAIN files'
    <3>1. i = backingFiles \/ i = backingFiles + 1
      BY DEF i, NewNumber
    <3>. QED
      BY <1>1, <1>3, <1>6, <3>1 DEF FilesAreWellFormed
  <2>2. ASSUME NEW k \in DOMAIN files'
        PROVE  DOMAIN files'[k] = Positions /\ files'[k][0] \in HEADER..FILE_SIZE
    <3>1. CASE k = i
      BY <1>2, <1>3, <1>5, <1>6, <3>1 DEF HEADER
    <3>2. CASE k # i
      BY <1>6, <3>2 DEF FilesAreWellFormed, FileSize
    <3>. QED
      BY <3>1, <3>2
  <2>. QED
    BY <2>1, <2>2 DEF FilesAreWellFormed, FileSize
<1>8. ASSUME NEW k \in 1..backingFiles
      PROVE  /\ FileSize(k) <= FileSize(k)'
             /\ \A p \in HEADER..FileSize(k) - 1 : files'[k][p] = files[k][p]
  <2>1. k \in DOMAIN files /\ FileSize(k) \in HEADER..FILE_SIZE
    BY DEF FilesAreWellFormed
  <2>2. CASE k = i
    <3>1. k = backingFiles /\ old = files[k] /\ at = FileSize(k)
      BY <1>3, <2>1, <2>2 DEF old
    <3>2. FileSize(k)' = at + size
      BY <1>5, <1>6, <2>2 DEF FileSize
    <3>3. \A p \in HEADER..FileSize(k) - 1 : p \in Positions \ {0} /\ p < at
      BY <1>3, <2>1, <3>1, SizesAssumption DEF Positions, HEADER
    <3>4. \A p \in HEADER..FileSize(k) - 1 : files'[k][p] = files[k][p]
      BY <1>5, <1>6, <2>2, <3>1, <3>3
    <3>. QED
      BY <1>2, <1>3, <3>1, <3>2, <3>4
  <2>3. CASE k # i
    BY <1>6, <2>1, <2>3, SizesAssumption DEF FileSize, HEADER
  <2>. QED
    BY <2>2, <2>3
<1>9. HasRecord(files'[i], at, n, body)
  BY <1>2, <1>3, <1>5, <1>6 DEF HasRecord, size, record
<1>10. i \in 1..backingFiles' /\ at \in Nat \ {0} /\ backingFiles \in 1..backingFiles'
  BY <1>1, <1>3
<1>11. mapping' = [m \in DOMAIN mapping \cup {n} |->
                   IF m \in DOMAIN mapping THEN mapping[m] ELSE OffsetOf(i, at)]
  BY <1>1
<1>12. i = 1 => at = FileSize(1)
  BY <1>3
<1>13. i = backingFiles' /\ (i = backingFiles \/ i = backingFiles + 1)
  BY <1>1 DEF i, NewNumber
<1>. QED
  BY <1>6, <1>7, <1>8, <1>9, <1>10, <1>11, <1>12, <1>13, Zenon

(***************************************************************************)
(* The scan at the start of the process.  It only ever sees the first      *)
(* record of a file, whose count it has been given is that of an empty     *)
(* one: a name that was stored, or none.                                   *)
(***************************************************************************)
FirstRecord(file) ==
  FILE_SIZE > HEADER =>
    \/ file[HEADER] = NUL
    \/ \E n \in Names, body \in Bodies :
         \A k \in 1..Len(Record(n, body)) : file[HEADER + k - 1] = Record(n, body)[k]

\* The scan at position 1: the name there, and the position of the length behind it.
ScannedName(file) == NameAt(file, HEADER)
LengthPosition(file) ==
  IF ScannedName(file) = <<>> THEN HEADER ELSE HEADER + Len(ScannedName(file)) + 1

LEMMA NameAtStart ==
  ASSUME NEW file, FirstRecord(file), FILE_SIZE > HEADER
  PROVE  /\ ScannedName(file) \in Names \cup {<<>>}
         /\ file[HEADER] = NUL => ScannedName(file) = <<>>
         /\ LengthPosition(file) \in Nat \ {0}
         /\ file[LengthPosition(file)] \in Nat
<1>. DEFINE Ends(q) == /\ q = FILE_SIZE \/ file[q] = NUL
                       /\ \A p \in HEADER..q - 1 : file[p] # NUL
            nul == CHOOSE q \in HEADER..FILE_SIZE : Ends(q)
<1>1. ScannedName(file) = [k \in 1..nul - HEADER |-> file[HEADER + k - 1]]
  BY DEF ScannedName, NameAt
<1>2. CASE file[HEADER] = NUL
  <2>1. HEADER \in HEADER..FILE_SIZE /\ Ends(HEADER)
    BY <1>2, SizesAssumption DEF HEADER
  <2>2. ASSUME NEW q \in HEADER..FILE_SIZE, Ends(q) PROVE q = HEADER
    BY <1>2, <2>2, SizesAssumption DEF HEADER
  <2>. HIDE DEF Ends
  <2>3. nul = HEADER
    BY <2>1, <2>2
  <2>. HIDE DEF nul
  <2>4. ScannedName(file) = <<>>
    <3>1. nul - HEADER = 0
      BY <2>3 DEF HEADER
    <3>. QED
      BY <1>1, <3>1
  <2>5. LengthPosition(file) = HEADER
    BY <2>4 DEF LengthPosition
  <2>. QED
    BY <1>2, <2>4, <2>5 DEF HEADER, NUL
<1>3. CASE file[HEADER] # NUL
  <2>1. PICK n \in Names, body \in Bodies :
          \A k \in 1..Len(Record(n, body)) : file[HEADER + k - 1] = Record(n, body)[k]
    BY <1>3 DEF FirstRecord
  <2>. DEFINE record == Record(n, body)
              size == Len(n)
  <2>2. size \in Nat \ {0} /\ Len(body) \in Nat /\ Len(record) = size + 2 + Len(body)
    BY NameIsSequence, BodyIsSequence, RecordCells
  <2>3. ASSUME NEW k \in 1..size PROVE file[HEADER + k - 1] = n[k] /\ n[k] # NUL
    <3>1. k \in 1..Len(record)
      BY <2>2
    <3>2. record[k] = n[k]
      BY RecordCells
    <3>. QED
      BY <2>1, <3>1, <3>2, NameIsSequence
  <2>4. file[HEADER + size] = NUL /\ file[HEADER + size + 1] = Len(body)
    <3>1. /\ size + 1 \in 1..Len(record) /\ HEADER + (size + 1) - 1 = HEADER + size
          /\ size + 2 \in 1..Len(record) /\ HEADER + (size + 2) - 1 = HEADER + size + 1
      BY <2>2 DEF HEADER
    <3>2. record[size + 1] = NUL /\ record[size + 2] = Len(body)
      BY RecordCells
    <3>. QED
      BY <2>1, <3>1, <3>2
  <2>5. ASSUME NEW p \in HEADER..(HEADER + size) - 1 PROVE file[p] # NUL
    <3>1. p - HEADER + 1 \in 1..size /\ HEADER + (p - HEADER + 1) - 1 = p
      BY <2>2 DEF HEADER
    <3>. QED
      BY <2>3, <3>1
  <2>6. HEADER + size \in HEADER..FILE_SIZE /\ Ends(HEADER + size)
    BY <2>2, <2>4, <2>5, SizesAssumption DEF HEADER, LENGTH
  <2>7. ASSUME NEW q \in HEADER..FILE_SIZE, Ends(q) PROVE q = HEADER + size
    <3>1. CASE q < HEADER + size
      BY <2>2, <2>5, <2>6, <2>7, <3>1, SizesAssumption DEF HEADER
    <3>2. CASE HEADER + size < q
      BY <2>2, <2>4, <2>7, <3>2 DEF HEADER
    <3>. QED
      BY <2>2, <3>1, <3>2, SizesAssumption DEF HEADER
  <2>. HIDE DEF Ends
  <2>8. nul = HEADER + size
    BY <2>6, <2>7
  <2>. HIDE DEF nul
  <2>9. ScannedName(file) = n
    <3>1. nul - HEADER = size
      BY <2>2, <2>8 DEF HEADER
    <3>2. ScannedName(file) = [k \in 1..size |-> n[k]]
      BY <1>1, <2>3, <3>1
    <3>. QED
      BY <3>2, NameIsSequence
  <2>10. LengthPosition(file) = HEADER + size + 1
    BY <2>9, PagesAssumption DEF LengthPosition
  <2>. QED
    BY <1>3, <2>2, <2>4, <2>9, <2>10 DEF HEADER
<1>. QED
  BY <1>2, <1>3

LEMMA RecoveredNames ==
  ASSUME NEW file, file[0] = HEADER, FirstRecord(file)
  PROVE  /\ DOMAIN Recovered(file) \subseteq Names \cup {<<>>}
         /\ \A n \in DOMAIN Recovered(file) : Recovered(file)[n] \in Nat
         /\ (FILE_SIZE > HEADER => file[HEADER] = NUL) => DOMAIN Recovered(file) \subseteq {<<>>}
<1>. DEFINE Step(f, c) ==
              IF c >= FILE_SIZE \/ c - HEADER >= file[0]
              THEN NoMapping
              ELSE LET n     == NameAt(file, c)
                       after == IF n = <<>> THEN c ELSE c + Len(n) + 1
                       rest  == f[after + LENGTH + file[after]]
                   IN  [m \in DOMAIN rest \cup {n} |-> IF m = n THEN after - HEADER ELSE rest[m]]
            scan == CHOOSE f : f = [c \in Nat \ {0} |-> Step(f, c)]
            found == [m \in {ScannedName(file)} |-> LengthPosition(file) - HEADER]
            g == [c \in Nat \ {0} |-> IF c >= FILE_SIZE \/ c > HEADER THEN NoMapping ELSE found]
<1>1. Recovered(file) = scan[HEADER]
  BY DEF Recovered
<1>2. g = [c \in Nat \ {0} |-> Step(g, c)]
  <2>1. ASSUME NEW c \in Nat \ {0}, c >= FILE_SIZE \/ c > HEADER PROVE g[c] = Step(g, c)
    BY <2>1, SizesAssumption DEF HEADER
  <2>2. ASSUME NEW c \in Nat \ {0}, ~(c >= FILE_SIZE \/ c > HEADER) PROVE g[c] = Step(g, c)
    <3>1. c = HEADER /\ FILE_SIZE > HEADER
      BY <2>2, SizesAssumption DEF HEADER
    <3>2. LengthPosition(file) \in Nat \ {0} /\ file[LengthPosition(file)] \in Nat
      BY <3>1, NameAtStart
    <3>. DEFINE next == LengthPosition(file) + LENGTH + file[LengthPosition(file)]
    <3>3. next \in Nat \ {0} /\ next > HEADER
      BY <3>2 DEF HEADER, LENGTH
    <3>4. g[next] = NoMapping /\ g[c] = found
      BY <2>2, <3>3
    <3>5. Step(g, c) = [m \in DOMAIN g[next] \cup {ScannedName(file)} |->
                          IF m = ScannedName(file) THEN LengthPosition(file) - HEADER
                                                   ELSE g[next][m]]
      <4>. HIDE DEF g
      <4>. QED
        BY <2>2, <3>1 DEF ScannedName, LengthPosition, HEADER
    <3>. HIDE DEF g, next
    <3>6. Step(g, c) = found
      <4>. HIDE DEF Step
      <4>. QED
        BY <3>4, <3>5 DEF NoMapping
    <3>. QED
      BY <3>4, <3>6
  <2>. HIDE DEF Step
  <2>. QED
    BY <2>1, <2>2
<1>. HIDE DEF g, Step
<1>3. scan = [c \in Nat \ {0} |-> Step(scan, c)]
  BY <1>2
<1>. HIDE DEF scan
<1>4. ASSUME NEW c \in Nat \ {0}, c >= FILE_SIZE \/ c > HEADER PROVE scan[c] = NoMapping
  <2>1. scan[c] = Step(scan, c)
    BY <1>3
  <2>. QED
    BY <1>4, <2>1, SizesAssumption DEF Step, HEADER
<1>5. CASE FILE_SIZE <= HEADER
  BY <1>1, <1>4, <1>5, SizesAssumption DEF HEADER, NoMapping
<1>6. CASE FILE_SIZE > HEADER
  <2>1. LengthPosition(file) \in Nat \ {0} /\ file[LengthPosition(file)] \in Nat
    BY <1>6, NameAtStart
  <2>. DEFINE next == LengthPosition(file) + LENGTH + file[LengthPosition(file)]
  <2>2. next \in Nat \ {0} /\ next > HEADER
    BY <2>1 DEF HEADER, LENGTH
  <2>3. scan[next] = NoMapping
    BY <1>4, <2>2
  <2>4. Step(scan, HEADER) = [m \in DOMAIN scan[next] \cup {ScannedName(file)} |->
                                IF m = ScannedName(file) THEN LengthPosition(file) - HEADER
                                                         ELSE scan[next][m]]
    BY <1>6, SizesAssumption DEF Step, ScannedName, LengthPosition, HEADER
  <2>5. scan[HEADER] = Step(scan, HEADER)
    BY <1>3 DEF HEADER
  <2>. HIDE DEF next, Step
  <2>6. Recovered(file) = found
    BY <1>1, <2>3, <2>4, <2>5 DEF NoMapping
  <2>7. LengthPosition(file) - HEADER \in Nat
    BY <2>1 DEF HEADER
  <2>. QED
    BY <1>6, <2>6, <2>7, NameAtStart
<1>. QED
  BY <1>5, <1>6, SizesAssumption DEF HEADER

(***************************************************************************)
(* Every step keeps the invariant.                                         *)
(***************************************************************************)
\* The start of the process on a directory of files.
LEMMA StartIsRight ==
  ASSUME NEW existing, NEW start \in Started(existing),
         \A i \in DOMAIN existing :
           DOMAIN existing[i] = Positions /\ existing[i][0] \in HEADER..FILE_SIZE,
         1 \in DOMAIN existing => FirstRecord(existing[1])
  PROVE  /\ start.backingFiles \in 0..1 /\ 1..start.backingFiles \subseteq DOMAIN start.files
         /\ DOMAIN start.files = 1..start.backingFiles \/ existing # NoFiles
         /\ \A i \in DOMAIN start.files :
              DOMAIN start.files[i] = Positions /\ start.files[i][0] \in HEADER..FILE_SIZE
         /\ 1 \in DOMAIN start.files =>
              start.files[1][0] = HEADER /\ FirstRecord(start.files[1])
         /\ DOMAIN start.mapping \subseteq Names \cup {<<>>}
         /\ \A n \in DOMAIN start.mapping : start.mapping[n] \in Nat
         /\ existing = NoFiles => DOMAIN start.mapping \subseteq {<<>>}
<1>1. CASE start = NotOpened /\ existing = NoFiles
  BY <1>1 DEF NotOpened, NoFiles, NoMapping
<1>2. CASE start = Opened(existing)
  <2>. DEFINE base  == IF 1 \in DOMAIN existing THEN existing[1] ELSE EmptyFile
              first == [base EXCEPT ![0] = HEADER]
              all   == [i \in DOMAIN existing \cup {1} |-> IF i = 1 THEN first ELSE existing[i]]
  <2>1. start = [files |-> all, backingFiles |-> 1, mapping |-> Recovered(first)]
    BY <1>2 DEF Opened
  <2>2. /\ start.files = all /\ start.backingFiles = 1 /\ start.mapping = Recovered(first)
    <3>. HIDE DEF all, first
    <3>. QED
      BY <2>1
  <2>3. DOMAIN base = Positions /\ FirstRecord(base)
    <3>1. CASE 1 \in DOMAIN existing
      BY <3>1
    <3>2. CASE 1 \notin DOMAIN existing
      BY <3>2, SizesAssumption DEF EmptyFile, FirstRecord, Positions, HEADER
    <3>. QED
      BY <3>1, <3>2
  <2>4. 0 \in Positions
    BY SizesAssumption DEF Positions
  <2>. HIDE DEF base
  <2>5. DOMAIN first = Positions /\ first[0] = HEADER /\ \A p \in Positions \ {0} : first[p] = base[p]
    BY <2>3, <2>4
  <2>6. FirstRecord(first)
    <3>. SUFFICES ASSUME FILE_SIZE > HEADER
                  PROVE  \/ first[HEADER] = NUL
                         \/ \E n \in Names, body \in Bodies :
                              \A k \in 1..Len(Record(n, body)) :
                                first[HEADER + k - 1] = Record(n, body)[k]
      BY DEF FirstRecord
    <3>1. HEADER \in Positions \ {0}
      BY SizesAssumption DEF HEADER, Positions
    <3>2. CASE base[HEADER] = NUL
      BY <2>5, <3>1, <3>2
    <3>3. ASSUME NEW n \in Names, NEW body \in Bodies,
                 \A k \in 1..Len(Record(n, body)) : base[HEADER + k - 1] = Record(n, body)[k]
          PROVE  \A k \in 1..Len(Record(n, body)) : first[HEADER + k - 1] = Record(n, body)[k]
      <4>1. HEADER + Len(Record(n, body)) <= FILE_SIZE /\ Len(Record(n, body)) \in Nat
        BY RecordCells, NameIsSequence, BodyIsSequence, SizesAssumption DEF HEADER, LENGTH
      <4>2. \A k \in 1..Len(Record(n, body)) : HEADER + k - 1 \in Positions \ {0}
        BY <4>1, SizesAssumption DEF HEADER, Positions
      <4>. QED
        BY <2>5, <3>3, <4>2
    <3>. QED
      BY <2>3, <3>2, <3>3 DEF FirstRecord
  <2>7. existing = NoFiles /\ FILE_SIZE > HEADER => first[HEADER] = NUL
    <3>1. existing = NoFiles => base = EmptyFile
      BY DEF base, NoFiles
    <3>2. FILE_SIZE > HEADER => HEADER \in Positions \ {0}
      BY SizesAssumption DEF HEADER, Positions
    <3>. QED
      BY <2>5, <3>1, <3>2 DEF EmptyFile
  <2>. HIDE DEF first
  <2>8. /\ DOMAIN all = DOMAIN existing \cup {1} /\ all[1] = first
        /\ \A i \in DOMAIN existing \ {1} : all[i] = existing[i]
    OBVIOUS
  <2>. HIDE DEF all
  <2>9. FILE_SIZE \in Nat /\ HEADER \in HEADER..FILE_SIZE
    BY SizesAssumption DEF HEADER
  <2>10. \A i \in DOMAIN all : DOMAIN all[i] = Positions /\ all[i][0] \in HEADER..FILE_SIZE
    BY <2>5, <2>8, <2>9
  <2>11. existing = NoFiles => DOMAIN all = 1..1
    BY <2>8 DEF NoFiles
  <2>12. /\ DOMAIN Recovered(first) \subseteq Names \cup {<<>>}
         /\ \A n \in DOMAIN Recovered(first) : Recovered(first)[n] \in Nat
         /\ (FILE_SIZE > HEADER => first[HEADER] = NUL) => DOMAIN Recovered(first) \subseteq {<<>>}
    BY <2>5, <2>6, RecoveredNames
  <2>13. existing = NoFiles => DOMAIN Recovered(first) \subseteq {<<>>}
    BY <2>7, <2>12
  <2>. QED
    BY <2>2, <2>5, <2>6, <2>8, <2>10, <2>11, <2>12, <2>13
<1>. QED
  BY <1>1, <1>2 DEF Started

LEMMA StrlenType ==
  ASSUME NEW off
  PROVE  Strlen(off) \in Nat
<1>. DEFINE Ends(k) == /\ k = FILE_SIZE \/ Cell(off + k) = NUL
                       /\ \A j \in 0..k - 1 : Cell(off + j) # NUL
            T == {k \in 0..FILE_SIZE : k = FILE_SIZE \/ Cell(off + k) = NUL}
<1>1. T \in SUBSET Nat /\ FILE_SIZE \in T
  BY SizesAssumption
<1>. HIDE DEF T
<1>2. PICK m \in T : \A k \in T : m <= k
  BY <1>1, LeastElement
<1>3. m \in 0..FILE_SIZE /\ Ends(m)
  BY <1>1, <1>2, SizesAssumption DEF T
<1>4. Strlen(off) = CHOOSE k \in 0..FILE_SIZE : Ends(k)
  BY DEF Strlen
<1>. HIDE DEF Ends
<1>5. Strlen(off) \in 0..FILE_SIZE
  BY <1>3, <1>4
<1>. QED
  BY <1>5, SizesAssumption

LEMMA StoreInit == Init => StoreInv
<1>. SUFFICES ASSUME Init PROVE StoreInv
  OBVIOUS
<1>1. PICK start \in Started(NoFiles) :
        /\ files = start.files /\ backingFiles = start.backingFiles
        /\ mapping = start.mapping /\ recovered = DOMAIN start.mapping
  BY DEF Init
<1>2. /\ running = TRUE /\ restarts = 0
      /\ pc = [r \in Readers |-> "idle"] /\ name = [r \in Readers |-> NoPage]
      /\ offset = [r \in Readers |-> 0] /\ lenOffset = [r \in Readers |-> 0]
      /\ DOMAIN got = Readers
  BY DEF Init
<1>3. DOMAIN NoFiles = {}
  BY DEF NoFiles
<1>4. /\ start.backingFiles \in 0..1 /\ 1..start.backingFiles \subseteq DOMAIN start.files
      /\ DOMAIN start.files = 1..start.backingFiles
      /\ \A i \in DOMAIN start.files :
           DOMAIN start.files[i] = Positions /\ start.files[i][0] \in HEADER..FILE_SIZE
      /\ 1 \in DOMAIN start.files => start.files[1][0] = HEADER /\ FirstRecord(start.files[1])
      /\ DOMAIN start.mapping \subseteq Names \cup {<<>>}
      /\ \A n \in DOMAIN start.mapping : start.mapping[n] \in Nat
  BY <1>3, StartIsRight
<1>5. FilesAreWellFormed
  BY <1>1, <1>4 DEF FilesAreWellFormed, FileSize
<1>6. TypeOK
  BY <1>1, <1>2, <1>4, SizesAssumption DEF TypeOK, FileSize
<1>7. FirstFile
  BY <1>1, <1>4 DEF FirstFile, FirstRecord, FileSize
<1>8. PagesAreStored
  BY <1>1 DEF PagesAreStored, Stored
<1>9. ReadersAreRight
  BY <1>2 DEF ReadersAreRight
<1>. QED
  BY <1>5, <1>6, <1>7, <1>8, <1>9 DEF StoreInv

LEMMA RestartStep ==
  ASSUME StoreInv, Restart
  PROVE  StoreInv'
<1>1. PICK start \in Started(files) :
        /\ files' = start.files /\ backingFiles' = start.backingFiles
        /\ mapping' = start.mapping /\ recovered' = DOMAIN start.mapping
  BY DEF Restart
<1>2. /\ running' = TRUE /\ restarts < MaxRestarts /\ restarts' = restarts + 1
      /\ pc' = [r \in Readers |-> "idle"] /\ name' = [r \in Readers |-> NoPage]
      /\ offset' = [r \in Readers |-> 0] /\ lenOffset' = [r \in Readers |-> 0]
      /\ DOMAIN got' = Readers
  BY DEF Restart
<1>3. /\ \A i \in DOMAIN files : DOMAIN files[i] = Positions /\ files[i][0] \in HEADER..FILE_SIZE
      /\ 1 \in DOMAIN files => FirstRecord(files[1])
  BY DEF StoreInv, FilesAreWellFormed, FirstFile, FirstRecord, FileSize
<1>4. /\ start.backingFiles \in 0..1 /\ 1..start.backingFiles \subseteq DOMAIN start.files
      /\ \A i \in DOMAIN start.files :
           DOMAIN start.files[i] = Positions /\ start.files[i][0] \in HEADER..FILE_SIZE
      /\ 1 \in DOMAIN start.files => start.files[1][0] = HEADER /\ FirstRecord(start.files[1])
      /\ DOMAIN start.mapping \subseteq Names \cup {<<>>}
      /\ \A n \in DOMAIN start.mapping : start.mapping[n] \in Nat
  BY <1>3, StartIsRight
<1>5. FilesAreWellFormed'
  BY <1>1, <1>4 DEF FilesAreWellFormed, FileSize
<1>6. TypeOK'
  <2>1. restarts' \in 0..MaxRestarts /\ restarts' > 0
    BY <1>2, SizesAssumption DEF StoreInv, TypeOK
  <2>. QED
    BY <1>1, <1>2, <1>4, <2>1, SizesAssumption DEF TypeOK, FileSize
<1>7. FirstFile'
  BY <1>1, <1>4 DEF FirstFile, FirstRecord, FileSize
<1>8. PagesAreStored'
  BY <1>1 DEF PagesAreStored, Stored
<1>9. ReadersAreRight'
  BY <1>2 DEF ReadersAreRight
<1>. QED
  BY <1>5, <1>6, <1>7, <1>8, <1>9 DEF StoreInv

\* The records of pages stay where they are when another page is stored.
LEMMA RecordsStay ==
  ASSUME FilesAreWellFormed, NEW n \in Names, NEW body \in Bodies, Store(n, body),
         NEW m \in Names, NEW c \in Bodies, NEW i \in 1..backingFiles, NEW p \in Nat \ {0},
         HasRecord(files[i], p, m, c)
  PROVE  i \in 1..backingFiles' /\ HasRecord(files'[i], p, m, c)
<1>1. /\ backingFiles \in 1..backingFiles'
      /\ FileSize(i) <= FileSize(i)'
      /\ \A q \in HEADER..FileSize(i) - 1 : files'[i][q] = files[i][q]
      /\ FilesAreWellFormed'
  BY StoreWrites
<1>. DEFINE size == Len(Record(m, c))
<1>2. size \in Nat
  BY RecordCells, NameIsSequence, BodyIsSequence
<1>3. /\ backingFiles \in Nat /\ backingFiles' \in Nat
      /\ FileSize(i) \in Nat /\ p + size <= FileSize(i)
  BY <1>1, SizesAssumption DEF FilesAreWellFormed, HasRecord, FileSize, HEADER
<1>4. i \in 1..backingFiles'
  BY <1>1, <1>3
<1>5. FileSize(i)' \in Nat
  BY <1>1, <1>4, SizesAssumption DEF FilesAreWellFormed, HEADER
<1>6. p + size <= FileSize(i)'
  BY <1>1, <1>2, <1>3, <1>5
<1>7. \A k \in 1..size : p + k - 1 \in HEADER..FileSize(i) - 1
  BY <1>2, <1>3 DEF HEADER
<1>. QED
  BY <1>1, <1>4, <1>6, <1>7 DEF HasRecord, FileSize

LEMMA StoreStep ==
  ASSUME StoreInv, NEW n \in Names, NEW body \in Bodies, Store(n, body)
  PROVE  StoreInv'
<1>1. /\ FilesAreWellFormed /\ TypeOK /\ FirstFile /\ PagesAreStored /\ ReadersAreRight
  BY DEF StoreInv
<1>2. /\ FilesAreWellFormed' /\ backingFiles \in 1..backingFiles'
      /\ \A i \in 1..backingFiles :
           /\ FileSize(i) <= FileSize(i)'
           /\ \A p \in HEADER..FileSize(i) - 1 : files'[i][p] = files[i][p]
  BY <1>1, StoreWrites
<1>3. PICK i \in 1..backingFiles', p \in Nat \ {0} :
        /\ i = 1 => p = FileSize(1)
        /\ i = backingFiles' /\ (i = backingFiles \/ i = backingFiles + 1)
        /\ DOMAIN files' = DOMAIN files \cup {i}
        /\ \A k \in DOMAIN files \ {i} : files'[k] = files[k]
        /\ HasRecord(files'[i], p, n, body)
        /\ mapping' = [m \in DOMAIN mapping \cup {n} |->
                         IF m \in DOMAIN mapping THEN mapping[m] ELSE OffsetOf(i, p)]
  BY <1>1, StoreWrites
<1>4. /\ UNCHANGED <<running, restarts, recovered, pc, name, offset, lenOffset, got>>
      /\ backingFiles' <= MaxFiles
  BY DEF Store, processVars, readerVars
<1>5. backingFiles \in Nat /\ backingFiles' \in Nat /\ i \in Nat \ {0}
  BY <1>1, <1>2 DEF FilesAreWellFormed
<1>6. /\ DOMAIN mapping' = DOMAIN mapping \cup {n}
      /\ \A m \in DOMAIN mapping : mapping'[m] = mapping[m]
      /\ n \notin DOMAIN mapping => mapping'[n] = OffsetOf(i, p)
  BY <1>3
<1>7. OffsetOf(i, p) \in Nat
  BY <1>5, SizesAssumption DEF OffsetOf
<1>8. TypeOK'
  <2>1. DOMAIN files' = 1..backingFiles' \/ restarts' > 0
    BY <1>1, <1>3, <1>4, <1>5 DEF TypeOK
  <2>2. backingFiles' \in 0..MaxFiles
    BY <1>4, <1>5, SizesAssumption
  <2>3. \A k \in DOMAIN files' : DOMAIN files'[k] = Positions /\ FileSize(k)' \in HEADER..FILE_SIZE
    BY <1>2 DEF FilesAreWellFormed
  <2>4. /\ DOMAIN mapping' \subseteq Names \cup {<<>>}
        /\ \A m \in DOMAIN mapping' : mapping'[m] \in Nat
        /\ recovered' \subseteq DOMAIN mapping'
    BY <1>1, <1>4, <1>6, <1>7 DEF TypeOK
  <2>. QED
    BY <1>1, <1>4, <2>1, <2>2, <2>3, <2>4 DEF TypeOK
<1>9. FirstFile'
  <2>. SUFFICES ASSUME 1 \in DOMAIN files', FILE_SIZE > HEADER PROVE FirstFile'
    BY DEF FirstFile
  <2>1. CASE i # 1
    BY <1>1, <1>3, <2>1 DEF FirstFile, FileSize
  <2>2. CASE i = 1
    <3>1. backingFiles = 1 /\ p = FileSize(1) /\ 1 \in DOMAIN files /\ FileSize(1) \in Nat
      BY <1>1, <1>2, <1>3, <1>5, <2>2, SizesAssumption DEF FilesAreWellFormed, HEADER
    <3>2. CASE p = HEADER
      BY <1>3, <2>2, <3>1, <3>2 DEF FirstFile, HasRecord, FileSize
    <3>3. CASE p # HEADER
      <4>1. PICK m \in Names, c \in Bodies :
              /\ \A k \in 1..Len(Record(m, c)) : files[1][HEADER + k - 1] = Record(m, c)[k]
              /\ HEADER + Len(Record(m, c)) <= FileSize(1)
        BY <1>1, <3>1, <3>3 DEF FirstFile
      <4>2. HasRecord(files[1], HEADER, m, c)
        BY <4>1 DEF HasRecord, FileSize
      <4>3. HasRecord(files'[1], HEADER, m, c)
        BY <1>1, <3>1, <4>2, RecordsStay DEF HEADER
      <4>. QED
        BY <4>3 DEF FirstFile, HasRecord, FileSize
    <3>. QED
      BY <3>2, <3>3
  <2>. QED
    BY <2>1, <2>2
<1>10. PagesAreStored'
  <2>. SUFFICES ASSUME NEW m \in Stored'
                PROVE  /\ m \in Names
                       /\ \E j \in 1..backingFiles', q \in Nat \ {0}, c \in Bodies :
                            mapping'[m] = OffsetOf(j, q) /\ HasRecord(files'[j], q, m, c)
    BY DEF PagesAreStored, StoredAt, OffsetOf
  <2>1. CASE m \in DOMAIN mapping
    <3>1. m \in Names
      BY <1>1, <1>4, <2>1 DEF PagesAreStored, Stored
    <3>2. PICK j \in 1..backingFiles, q \in Nat \ {0}, c \in Bodies :
            mapping[m] = OffsetOf(j, q) /\ HasRecord(files[j], q, m, c)
      BY <1>1, <1>4, <2>1 DEF PagesAreStored, Stored, StoredAt
    <3>3. j \in 1..backingFiles' /\ HasRecord(files'[j], q, m, c)
      BY <1>1, <3>1, <3>2, RecordsStay
    <3>. QED
      BY <1>6, <2>1, <3>1, <3>2, <3>3
  <2>2. CASE m \notin DOMAIN mapping
    <3>1. m = n
      BY <1>6, <2>2 DEF Stored
    <3>. QED
      BY <1>3, <1>6, <2>2, <3>1
  <2>. QED
    BY <2>1, <2>2
<1>11. ReadersAreRight'
  BY <1>1, <1>4, <1>6 DEF ReadersAreRight
<1>. QED
  BY <1>2, <1>8, <1>9, <1>10, <1>11 DEF StoreInv

\* A reader's step changes nothing but what that reader knows.
LEMMA ReaderStep ==
  ASSUME StoreInv, UNCHANGED <<files, backingFiles, mapping, restarts, recovered>>,
         running' \in BOOLEAN,
         pc' \in [Readers -> {"idle", "found", "measured"}],
         name' \in [Readers -> Names \cup {NoPage}],
         offset' \in [Readers -> Nat], lenOffset' \in [Readers -> Nat],
         DOMAIN got' = Readers, ReadersAreRight'
  PROVE  StoreInv'
<1>1. FilesAreWellFormed' /\ FirstFile'
  BY DEF StoreInv, FilesAreWellFormed, FirstFile, FileSize
<1>2. TypeOK'
  BY DEF StoreInv, TypeOK, FileSize
<1>3. PagesAreStored'
  BY DEF StoreInv, PagesAreStored, Stored, StoredAt
<1>. QED
  BY <1>1, <1>2, <1>3 DEF StoreInv

LEMMA FindStep ==
  ASSUME StoreInv, NEW r \in Readers, NEW n \in Names, Find(r, n)
  PROVE  StoreInv'
<1>. USE DEF Find, streamVars, processVars
<1>1. TypeOK /\ ReadersAreRight
  BY DEF StoreInv
<1>2. ReadersAreRight'
  BY <1>1 DEF TypeOK, ReadersAreRight
<1>. QED
  BY <1>1, <1>2, ReaderStep DEF TypeOK

LEMMA MeasureStep ==
  ASSUME StoreInv, NEW r \in Readers, Measure(r)
  PROVE  StoreInv'
<1>. USE DEF Measure, streamVars, processVars
<1>1. TypeOK /\ ReadersAreRight
  BY DEF StoreInv
<1>2. offset[r] + Strlen(offset[r]) + 1 \in Nat
  BY <1>1, StrlenType DEF TypeOK
<1>3. name[r] \notin recovered => Strlen(mapping[name[r]]) = Len(name[r])
  <2>. SUFFICES ASSUME name[r] \notin recovered PROVE Strlen(mapping[name[r]]) = Len(name[r])
    OBVIOUS
  <2>1. name[r] \in Stored /\ name[r] \in Names
    BY <1>1 DEF ReadersAreRight, Stored
  <2>2. PICK i \in 1..backingFiles, p \in Nat \ {0}, body \in Bodies : StoredAt(name[r], i, p, body)
    BY <2>1 DEF StoreInv, PagesAreStored
  <2>. QED
    BY <2>1, <2>2, StrlenOfRecord DEF StoreInv
<1>4. ReadersAreRight'
  BY <1>1, <1>2, <1>3 DEF TypeOK, ReadersAreRight
<1>. QED
  BY <1>1, <1>2, <1>4, ReaderStep DEF TypeOK

LEMMA ReadStep ==
  ASSUME StoreInv, NEW r \in Readers, Read(r)
  PROVE  StoreInv'
<1>. USE DEF Read, streamVars, processVars
<1>1. TypeOK /\ ReadersAreRight
  BY DEF StoreInv
<1>2. ReadersAreRight'
  BY <1>1 DEF TypeOK, ReadersAreRight
<1>. QED
  BY <1>1, <1>2, ReaderStep DEF TypeOK

LEMMA StoreInvStep == StoreInv /\ [Next]_vars => StoreInv'
<1>. SUFFICES ASSUME StoreInv, [Next]_vars PROVE StoreInv'
  OBVIOUS
<1>1. ASSUME NEW n \in Names, NEW body \in Bodies, Store(n, body) PROVE StoreInv'
  BY <1>1, StoreStep
<1>2. CASE StoreNowhere
  BY <1>2, ReaderStep DEF StoreNowhere, streamVars, readerVars, StoreInv, TypeOK, ReadersAreRight
<1>3. ASSUME NEW r \in Readers, NEW n \in Names, Find(r, n) PROVE StoreInv'
  BY <1>3, FindStep
<1>4. ASSUME NEW r \in Readers, Measure(r) PROVE StoreInv'
  BY <1>4, MeasureStep
<1>5. ASSUME NEW r \in Readers, Read(r) PROVE StoreInv'
  BY <1>5, ReadStep
<1>6. CASE Restart
  BY <1>6, RestartStep
<1>7. CASE UNCHANGED vars
  BY <1>7, ReaderStep
     DEF vars, streamVars, processVars, readerVars, StoreInv, TypeOK, ReadersAreRight
<1>. QED
  BY <1>1, <1>2, <1>3, <1>4, <1>5, <1>6, <1>7 DEF Next

\* The store, its table and its readers stay well-typed, restarts included.
THEOREM PageStoreTypes == Spec => []TypeOK
<1>1. StoreInv => TypeOK
  BY DEF StoreInv
<1>. QED
  BY StoreInit, StoreInvStep, <1>1, PTL DEF Spec

\* The offset of every page stored since the start leads to a record of that page, inside the
\* written part of one file.
THEOREM OffsetsAreRight == Spec => []OffsetsLeadToRecords
<1>1. StoreInv => OffsetsLeadToRecords
  <2>. SUFFICES ASSUME StoreInv, NEW n \in DOMAIN mapping \ recovered
                PROVE  LET i == mapping[n] \div FILE_SIZE + 1
                           p == mapping[n] % FILE_SIZE
                           lenPos == p + Len(n) + 1
                       IN  /\ i \in 1..backingFiles
                           /\ p >= HEADER
                           /\ \A k \in 1..Len(n) : files[i][p + k - 1] = n[k]
                           /\ files[i][lenPos - 1] = NUL
                           /\ lenPos + LENGTH + files[i][lenPos] <= FileSize(i)
    BY DEF OffsetsLeadToRecords
  <2>1. n \in Names
    BY DEF StoreInv, PagesAreStored, Stored
  <2>2. PICK i \in 1..backingFiles, p \in Nat \ {0}, body \in Bodies : StoredAt(n, i, p, body)
    BY DEF StoreInv, PagesAreStored, Stored
  <2>. DEFINE record == Record(n, body)
              len == Len(n)
  <2>3. /\ len \in Nat \ {0} /\ Len(body) \in Nat /\ Len(record) = len + 2 + Len(body)
        /\ \A k \in 1..len : record[k] = n[k]
        /\ record[len + 1] = NUL /\ record[len + 2] = Len(body)
    BY <2>1, NameIsSequence, BodyIsSequence, RecordCells
  <2>4. /\ mapping[n] = OffsetOf(i, p) /\ p + Len(record) <= FileSize(i)
        /\ \A k \in 1..Len(record) : files[i][p + k - 1] = record[k]
    BY <2>2 DEF StoredAt, HasRecord, FileSize
  <2>5. backingFiles \in Nat /\ FileSize(i) \in HEADER..FILE_SIZE
    BY DEF StoreInv, FilesAreWellFormed
  <2>. DEFINE q == i - 1
  <2>6. q \in Nat /\ p \in 0..FILE_SIZE - 1
    BY <2>3, <2>4, <2>5, SizesAssumption DEF HEADER
  <2>7. mapping[n] = p + q * FILE_SIZE
    BY <2>4 DEF OffsetOf
  <2>. HIDE DEF q
  <2>8. mapping[n] \div FILE_SIZE = q /\ mapping[n] % FILE_SIZE = p
    BY <2>6, <2>7, Division, SizesAssumption
  <2>9. mapping[n] \div FILE_SIZE + 1 = i
    BY <2>5, <2>8 DEF q
  <2>. HIDE DEF record, len
  <2>10. \A k \in 1..len : files[i][p + k - 1] = n[k]
    BY <2>3, <2>4
  <2>11. files[i][p + len + 1 - 1] = NUL /\ files[i][p + len + 1] = Len(body)
    <3>1. /\ len + 1 \in 1..Len(record) /\ p + (len + 1) - 1 = p + len + 1 - 1
          /\ len + 2 \in 1..Len(record) /\ p + (len + 2) - 1 = p + len + 1
      BY <2>3
    <3>. QED
      BY <2>3, <2>4, <3>1
  <2>12. p + len + 1 + LENGTH + Len(body) <= FileSize(i)
    BY <2>3, <2>4, <2>5, SizesAssumption DEF HEADER, LENGTH
  <2>. QED
    BY <2>8, <2>9, <2>10, <2>11, <2>12 DEF len, HEADER
<1>. QED
  BY StoreInit, StoreInvStep, <1>1, PTL DEF Spec

\* What is written to a mapped file stays as it is until the process is started again.
THEOREM WrittenStays == Spec => WrittenCellsStay
<1>. DEFINE Stays == \A i \in 1..backingFiles :
                       \A p \in HEADER..FileSize(i) - 1 :
                         files'[i][p] = files[i][p] \/ restarts' # restarts
<1>1. StoreInv /\ [Next]_vars => [Stays]_vars
  <2>. SUFFICES ASSUME StoreInv, Next PROVE Stays
    OBVIOUS
  <2>1. ASSUME NEW n \in Names, NEW body \in Bodies, Store(n, body) PROVE Stays
    BY <2>1, StoreWrites DEF StoreInv
  <2>2. CASE Restart
    BY <2>2 DEF Restart, StoreInv, TypeOK
  <2>3. ASSUME files' = files PROVE Stays
    BY <2>3
  <2>. QED
    BY <2>1, <2>2, <2>3 DEF Next, StoreNowhere, Find, Measure, Read, streamVars
<1>2. Spec => []StoreInv
  BY StoreInit, StoreInvStep, PTL DEF Spec
<1>. QED
  BY <1>1, <1>2, PTL DEF Spec, WrittenCellsStay

(***************************************************************************)
(* Refinement.  The abstract pages are what the records hold, so a step of *)
(* the store is followed by way of the records: they stay, or one is new.  *)
(***************************************************************************)
AbstractPages == [n \in Names |-> IF n \in recovered THEN NoPage ELSE Page(n)]

PagesAreRead ==
  \A n \in Names, body \in Bodies, i \in 1..backingFiles, p \in Nat \ {0} :
    n \in DOMAIN mapping /\ StoredAt(n, i, p, body) => Page(n) = body

LEMMA StoredPagesAreRead == FilesAreWellFormed => PagesAreRead
BY PageOfRecord DEF PagesAreRead

\* A name that was stored has a page, another name has none.
PagesOfNames ==
  \A n \in Names \ recovered : IF n \in DOMAIN mapping THEN Page(n) \in Bodies ELSE Page(n) = NoPage

LEMMA NamesHavePages == StoreInv => PagesOfNames
BY StoredPagesAreRead DEF StoreInv, PagesAreStored, Stored, PagesAreRead, PagesOfNames, Page

\* Readers change no page.
LEMMA PagesStay ==
  ASSUME StoreInv, StoreInv', UNCHANGED <<files, backingFiles, mapping, recovered>>
  PROVE  AbstractPages' = AbstractPages
<1>1. PagesAreRead /\ PagesAreRead' /\ PagesOfNames /\ PagesOfNames'
  BY StoredPagesAreRead, NamesHavePages, PTL DEF StoreInv
<1>2. ASSUME NEW n \in Names \ recovered PROVE Page(n)' = Page(n)
  <2>1. CASE n \in DOMAIN mapping
    <3>1. PICK i \in 1..backingFiles, p \in Nat \ {0}, body \in Bodies : StoredAt(n, i, p, body)
      BY <2>1 DEF StoreInv, PagesAreStored, Stored
    <3>2. StoredAt(n, i, p, body)'
      BY <3>1 DEF StoredAt
    <3>3. Page(n) = body
      BY <1>1, <2>1, <3>1 DEF PagesAreRead
    <3>4. Page(n)' = body
      BY <1>1, <2>1, <3>2 DEF PagesAreRead
    <3>. QED
      BY <3>3, <3>4
  <2>2. CASE n \notin DOMAIN mapping
    BY <1>1, <2>2 DEF PagesOfNames
  <2>. QED
    BY <2>1, <2>2
<1>. QED
  BY <1>2 DEF AbstractPages

\* A page that is stored for the first time is added; nothing else changes.
LEMMA StoreAddsPage ==
  ASSUME StoreInv, StoreInv', NEW n \in Names, NEW body \in Bodies, Store(n, body)
  PROVE  /\ n \in recovered => AbstractPages' = AbstractPages
         /\ n \notin recovered =>
              AbstractPages' = [AbstractPages EXCEPT ![n] = IF @ = NoPage THEN body ELSE @]
<1>1. PagesAreRead /\ PagesAreRead' /\ PagesOfNames /\ PagesOfNames'
  BY StoredPagesAreRead, NamesHavePages, PTL DEF StoreInv
<1>2. recovered' = recovered /\ FilesAreWellFormed
  BY DEF Store, processVars, StoreInv
<1>3. PICK i \in 1..backingFiles', p \in Nat \ {0} :
        /\ i = 1 => p = FileSize(1)
        /\ i = backingFiles' /\ (i = backingFiles \/ i = backingFiles + 1)
        /\ DOMAIN files' = DOMAIN files \cup {i}
        /\ \A k \in DOMAIN files \ {i} : files'[k] = files[k]
        /\ HasRecord(files'[i], p, n, body)
        /\ mapping' = [m \in DOMAIN mapping \cup {n} |->
                         IF m \in DOMAIN mapping THEN mapping[m] ELSE OffsetOf(i, p)]
  BY <1>2, StoreWrites
<1>4. /\ DOMAIN mapping' = DOMAIN mapping \cup {n}
      /\ \A m \in DOMAIN mapping : mapping'[m] = mapping[m]
      /\ n \notin DOMAIN mapping => mapping'[n] = OffsetOf(i, p)
  BY <1>3
<1>5. ASSUME NEW m \in Names \ recovered, m \in DOMAIN mapping PROVE Page(m)' = Page(m)
  <2>1. PICK j \in 1..backingFiles, q \in Nat \ {0}, c \in Bodies : StoredAt(m, j, q, c)
    BY <1>5 DEF StoreInv, PagesAreStored, Stored
  <2>2. j \in 1..backingFiles' /\ HasRecord(files'[j], q, m, c)
    BY <1>2, <2>1, RecordsStay DEF StoredAt
  <2>3. StoredAt(m, j, q, c)'
    BY <1>4, <1>5, <2>1, <2>2 DEF StoredAt, OffsetOf
  <2>4. Page(m) = c
    BY <1>1, <1>5, <2>1 DEF PagesAreRead
  <2>5. Page(m)' = c
    BY <1>1, <1>4, <1>5, <2>2, <2>3 DEF PagesAreRead
  <2>. QED
    BY <2>4, <2>5
<1>6. ASSUME NEW m \in Names \ recovered, m \notin DOMAIN mapping, m # n PROVE Page(m)' = Page(m)
  BY <1>1, <1>2, <1>4, <1>6 DEF PagesOfNames
<1>7. ASSUME n \notin recovered, n \notin DOMAIN mapping PROVE Page(n) = NoPage /\ Page(n)' = body
  <2>1. StoredAt(n, i, p, body)'
    BY <1>3, <1>4, <1>7 DEF StoredAt, OffsetOf
  <2>2. Page(n)' = body
    BY <1>1, <1>4, <2>1 DEF PagesAreRead
  <2>. QED
    BY <1>1, <1>7, <2>2 DEF PagesOfNames
<1>8. n \in DOMAIN mapping /\ n \notin recovered => Page(n) # NoPage
  BY <1>1, PagesAssumption DEF PagesOfNames
<1>9. CASE n \in recovered
  BY <1>2, <1>5, <1>6, <1>9 DEF AbstractPages
<1>10. CASE n \notin recovered
  <2>1. ASSUME NEW m \in Names
        PROVE  AbstractPages'[m] =
                 [AbstractPages EXCEPT ![n] = IF @ = NoPage THEN body ELSE @][m]
    BY <1>2, <1>5, <1>6, <1>7, <1>8, <1>10 DEF AbstractPages
  <2>. QED
    BY <1>10, <2>1 DEF AbstractPages
<1>. QED
  BY <1>9, <1>10

LEMMA RefinesInit == Init => Pages!Init
<1>. SUFFICES ASSUME Init PROVE Pages!Init
  OBVIOUS
<1>1. PICK start \in Started(NoFiles) : mapping = start.mapping /\ recovered = DOMAIN start.mapping
  BY DEF Init
<1>2. DOMAIN start.mapping \subseteq {<<>>}
  BY StartIsRight DEF NoFiles
<1>3. recovered \cap Names = {}
  BY <1>1, <1>2, PagesAssumption
<1>4. AbstractPages = [n \in Names |-> NoPage]
  BY <1>1 DEF AbstractPages, Page
<1>5. got = [r \in Readers |-> Pages!Nothing]
  BY DEF Init
<1>. QED
  BY <1>3, <1>4, <1>5 DEF Pages!Init, AbstractPages

LEMMA RefinesStep == StoreInv /\ StoreInv' /\ [Next]_vars => [Pages!Next]_(Pages!vars)
<1>. SUFFICES ASSUME StoreInv, StoreInv', [Next]_vars PROVE [Pages!Next]_(Pages!vars)
  OBVIOUS
<1>1. ASSUME NEW n \in Names, NEW body \in Bodies, Store(n, body)
      PROVE  Pages!Store(n, body) \/ UNCHANGED Pages!vars
  <2>1. recovered' = recovered /\ got' = got
    BY <1>1 DEF Store, processVars, readerVars
  <2>2. CASE n \in recovered
    BY <1>1, <2>1, <2>2, StoreAddsPage DEF Pages!vars, AbstractPages
  <2>3. CASE n \notin recovered
    BY <1>1, <2>1, <2>3, StoreAddsPage DEF Pages!Store, AbstractPages
  <2>. QED
    BY <2>2, <2>3
<1>2. ASSUME UNCHANGED <<files, backingFiles, mapping, recovered, got>>
      PROVE  UNCHANGED Pages!vars
  BY <1>2, PagesStay DEF Pages!vars, AbstractPages
<1>3. ASSUME NEW r \in Readers, NEW n \in Names, Find(r, n)
      PROVE  Pages!Read(r, n) \/ UNCHANGED Pages!vars
  <2>1. /\ UNCHANGED <<files, backingFiles, mapping, recovered>> /\ DOMAIN got = Readers
        /\ recovered \subseteq DOMAIN mapping
    BY <1>3 DEF Find, streamVars, processVars, StoreInv, TypeOK
  <2>2. CASE n \in DOMAIN mapping
    BY <1>2, <1>3, <2>1, <2>2 DEF Find
  <2>3. CASE n \notin DOMAIN mapping
    <3>1. got' = [got EXCEPT ![r] = [name |-> n, body |-> NoPage]]
      BY <1>3, <2>3 DEF Find
    <3>2. got'[r] = [name |-> n, body |-> NoPage]
      BY <2>1, <3>1
    <3>3. AbstractPages[n] = NoPage
      BY <2>1, <2>3 DEF AbstractPages, Page
    <3>. QED
      BY <2>1, <3>1, <3>2, <3>3, PagesStay DEF Pages!Read, AbstractPages
  <2>. QED
    BY <2>2, <2>3
<1>4. ASSUME NEW r \in Readers, Read(r)
      PROVE  name[r] \in Names /\ Pages!Read(r, name[r])
  <2>1. /\ UNCHANGED <<files, backingFiles, mapping, recovered>> /\ DOMAIN got = Readers
        /\ pc[r] = "measured"
        /\ got' = [got EXCEPT ![r] = [name |-> name[r], body |-> Contents(lenOffset[r])]]
    BY <1>4 DEF Read, streamVars, processVars, StoreInv, TypeOK
  <2>2. /\ name[r] \in Names \cap DOMAIN mapping
        /\ name[r] \notin recovered => lenOffset[r] = mapping[name[r]] + Len(name[r]) + 1
    BY <2>1 DEF StoreInv, ReadersAreRight
  <2>3. name[r] \notin recovered => Contents(lenOffset[r]) = AbstractPages[name[r]]
    <3>. SUFFICES ASSUME name[r] \notin recovered
                  PROVE  Contents(lenOffset[r]) = AbstractPages[name[r]]
      OBVIOUS
    <3>1. PICK i \in 1..backingFiles, p \in Nat \ {0}, body \in Bodies :
            StoredAt(name[r], i, p, body)
      BY <2>2 DEF StoreInv, PagesAreStored, Stored
    <3>2. Contents(lenOffset[r]) = body /\ Page(name[r]) = body
      BY <2>2, <3>1, PageOfRecord DEF StoreInv
    <3>. QED
      BY <2>2, <3>2 DEF AbstractPages
  <2>4. got'[r] = [name |-> name[r], body |-> Contents(lenOffset[r])]
    BY <2>1
  <2>. QED
    BY <2>1, <2>2, <2>3, <2>4, PagesStay DEF Pages!Read, AbstractPages
<1>5. ASSUME Restart PROVE Pages!Restart
  <2>1. recovered' = DOMAIN mapping' /\ got' = [r \in Readers |-> Pages!Nothing]
    BY <1>5 DEF Restart
  <2>2. AbstractPages' = [n \in Names |-> NoPage]
    BY <2>1 DEF AbstractPages, Page
  <2>. QED
    BY <2>1, <2>2 DEF Pages!Restart, AbstractPages
<1>6. ASSUME StoreNowhere \/ UNCHANGED vars \/ \E r \in Readers : Measure(r)
      PROVE  UNCHANGED <<files, backingFiles, mapping, recovered, got>>
  BY <1>6 DEF StoreNowhere, Measure, vars, streamVars, processVars, readerVars
<1>. QED
  BY <1>1, <1>2, <1>3, <1>4, <1>5, <1>6 DEF Next, Pages!Next

\* The store implements the map of pages: what a reader gets of a page while others are
\* stored, and across restarts, is what PageMap allows.
THEOREM StoreIsAPageMap == Spec => ImplementsPageMap
<1>1. Spec => []StoreInv
  BY StoreInit, StoreInvStep, PTL DEF Spec
<1>. QED
  BY <1>1, RefinesInit, RefinesStep, PTL DEF Spec, ImplementsPageMap, Pages!Spec
=============================================================================
