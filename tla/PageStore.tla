----------------------------- MODULE PageStore -----------------------------
(***************************************************************************)
(* The page store: File (src/src/File.cpp) keeps pages on a Stream         *)
(* (src/src/Stream.cpp) of backing files that are mapped into memory, and  *)
(* finds them through a table from names to offsets that lives in memory   *)
(* only.  A backing file is a header, which counts the bytes written, and  *)
(* a run of records: name, NUL, length, contents.                          *)
(*                                                                         *)
(* A file is a function from positions to cells.  A cell is a character, a *)
(* byte of a page, or a number; sizeof(BackingFile) and sizeof(size_t),    *)
(* both 8 bytes, are one cell.  A name is the sequence of its characters,  *)
(* and files are zero until they are written.                              *)
(*                                                                         *)
(* fs.m is held by the whole of File's constructor, and in find and read   *)
(* only while an offset is turned into a pointer: what the pointer leads   *)
(* to is read without it.                                                  *)
(***************************************************************************)
EXTENDS Naturals, Sequences

CONSTANTS
  Readers,       \* the threads that read pages
  Names,         \* the file names of pages, none of them empty
  Bodies,        \* the contents of pages
  NoPage,        \* not a content
  Garbage,       \* what is read from a pointer that leads to no record
  FILE_SIZE,     \* BACKING_FILE_SIZE, in cells
  MaxFiles,      \* bound: the number of backing files
  MaxRestarts    \* bound: how often the process is killed and started again

HEADER == 1   \* sizeof(Stream::BackingFile)
LENGTH == 1   \* sizeof(size_t)
NUL    == 0

ASSUME SizesAssumption ==
  /\ FILE_SIZE \in Nat \ {0} /\ MaxFiles \in Nat \ {0} /\ MaxRestarts \in Nat
  \* write does not check that a record fits in a file of its own
  /\ \A n \in Names, body \in Bodies :
       HEADER + Len(n) + 1 + LENGTH + Len(body) <= FILE_SIZE

\* A name is a C string, which ends before the first NUL; a page may hold any byte.
IsSequence(s) == s \in Seq({s[k] : k \in DOMAIN s})
ASSUME PagesAssumption ==
  /\ \A n \in Names : IsSequence(n) /\ n # <<>> /\ \A k \in DOMAIN n : n[k] # NUL
  /\ \A body \in Bodies : IsSequence(body)
  /\ NoPage \notin Bodies

VARIABLES
  files,         \* the directory backingFiles/: number -> contents
  backingFiles,  \* how many of them are mapped: 1..backingFiles
  mapping,       \* name -> offset
  running,       \* FALSE once the process has crashed
  restarts,
  recovered,     \* history: the names the table had when the process started
  pc, name, offset, lenOffset,   \* where each reader is, and the File it has found
  got            \* what each reader has read last

streamVars == <<files, backingFiles>>
processVars == <<running, restarts, recovered>>
readerVars == <<pc, name, offset, lenOffset, got>>
vars == <<streamVars, mapping, processVars, readerVars>>

Positions == 0..FILE_SIZE - 1
EmptyFile == [p \in Positions |-> NUL]
FileSize(i) == files[i][0]
Record(n, body) == n \o <<NUL, Len(body)>> \o body
NoMapping == [n \in {} |-> 0]
NoFiles == [i \in {} |-> EmptyFile]
----------------------------------------------------------------------------
(* Offsets *)

\* Mutant: file numbers start at 1, and the offset takes them as they are.
PlainOffset(i, p) == p + i * FILE_SIZE

\* Stream::write returns the offset of position p of file i ...
OffsetOf(i, p) == p + (i - 1) * FILE_SIZE

\* ... and Stream::read follows it; it is a null pointer if there is no such file.
Cell(off) ==
  LET i == off \div FILE_SIZE + 1 IN
  IF i \in 1..backingFiles THEN files[i][off % FILE_SIZE] ELSE Garbage

\* strlen(disk.read(off))
Strlen(off) ==
  CHOOSE k \in 0..FILE_SIZE :
    /\ k = FILE_SIZE \/ Cell(off + k) = NUL
    /\ \A j \in 0..k - 1 : Cell(off + j) # NUL

\* The contents that File::read gives access to, from the offset of their length.
Contents(lenOff) ==
  LET len == Cell(lenOff) IN
  IF len \in 0..FILE_SIZE THEN [k \in 1..len |-> Cell(lenOff + LENGTH + k - 1)] ELSE Garbage

Page(n) ==
  IF n \in DOMAIN mapping
  THEN Contents(mapping[n] + Strlen(mapping[n]) + 1)
  ELSE NoPage

Pages == INSTANCE PageMap WITH
  pages <- [n \in Names |-> IF n \in recovered THEN NoPage ELSE Page(n)],
  damaged <- recovered \cap Names
----------------------------------------------------------------------------
(* The start of the process *)

\* The scan of the file system over a backing file.  An empty name takes no room, a
\* position counts from behind the header, the offset is that of the end of the name, and
\* the first of several records of a name is kept.
NameAt(file, c) ==
  LET nul == CHOOSE q \in c..FILE_SIZE :
               /\ q = FILE_SIZE \/ file[q] = NUL
               /\ \A p \in c..q - 1 : file[p] # NUL
  IN  [k \in 1..nul - c |-> file[c + k - 1]]

Recovered(file) ==
  LET entries[c \in Nat \ {0}] ==
        IF c >= FILE_SIZE \/ c - HEADER >= file[0]
        THEN NoMapping
        ELSE LET n     == NameAt(file, c)
                 after == IF n = <<>> THEN c ELSE c + Len(n) + 1
                 rest  == entries[after + LENGTH + file[after]]
             IN  [m \in DOMAIN rest \cup {n} |-> IF m = n THEN after - HEADER ELSE rest[m]]
  IN  entries[HEADER]

\* Stream::Stream and FileSystem::FileSystem, over the files the directory holds.  An
\* existing directory makes stat return 0, so the first file is opened like a new one and
\* no other is mapped.  Without a directory, st is read uninitialized: it is created, or
\* taken for one that cannot be opened, and then no file is mapped at all.
Opened(existing) ==
  LET first == [IF 1 \in DOMAIN existing THEN existing[1] ELSE EmptyFile EXCEPT ![0] = HEADER]
  IN  [files        |-> [i \in DOMAIN existing \cup {1} |-> IF i = 1 THEN first ELSE existing[i]],
       backingFiles |-> 1,
       mapping      |-> Recovered(first)]
NotOpened == [files |-> NoFiles, backingFiles |-> 0, mapping |-> NoMapping]
Started(existing) ==
  {Opened(existing)} \cup (IF existing = NoFiles THEN {NotOpened} ELSE {})

Init ==
  /\ \E start \in Started(NoFiles) :
       /\ files = start.files
       /\ backingFiles = start.backingFiles
       /\ mapping = start.mapping
       /\ recovered = DOMAIN start.mapping
  /\ running = TRUE
  /\ restarts = 0
  /\ pc = [r \in Readers |-> "idle"]
  /\ name = [r \in Readers |-> NoPage]
  /\ offset = [r \in Readers |-> 0]
  /\ lenOffset = [r \in Readers |-> 0]
  /\ got = [r \in Readers |-> Pages!Nothing]

\* The process is killed, or has crashed, and is started again: what was written to the
\* mapped files is still in them.
Restart ==
  /\ restarts < MaxRestarts
  /\ restarts' = restarts + 1
  /\ running' = TRUE
  /\ \E start \in Started(files) :
       /\ files' = start.files
       /\ backingFiles' = start.backingFiles
       /\ mapping' = start.mapping
       /\ recovered' = DOMAIN start.mapping
  /\ pc' = [r \in Readers |-> "idle"]
  /\ name' = [r \in Readers |-> NoPage]
  /\ offset' = [r \in Readers |-> 0]
  /\ lenOffset' = [r \in Readers |-> 0]
  /\ got' = [r \in Readers |-> Pages!Nothing]
----------------------------------------------------------------------------
(* File::File: the page is stored under fs.m *)

\* Mutant: the new file gets the number of the last one.
SameNumber == backingFiles

\* allocateNewFile names a file by its number.
NewNumber == backingFiles + 1

\* Mutant: the room left is compared with the contents alone.
NeedsNewFileForBody(n, body) == FILE_SIZE - FileSize(backingFiles) < Len(body)

NeedsNewFile(n, body) == FILE_SIZE - FileSize(backingFiles) < Len(Record(n, body))

\* Mutant: the table leads to the version stored last.
Assign(n, off) ==
  mapping' = [m \in DOMAIN mapping \cup {n} |-> IF m = n THEN off ELSE mapping[m]]

\* mapping.insert, which leaves an existing entry alone.
Insert(n, off) ==
  mapping' = [m \in DOMAIN mapping \cup {n} |-> IF m \in DOMAIN mapping THEN mapping[m] ELSE off]

\* memcpy of the record to position `at` of a file, and its fileSize.
Copy(file, at, record) ==
  [p \in Positions |->
     IF p = 0 THEN at + Len(record)
     ELSE IF p \in at..at + Len(record) - 1 THEN record[p - at + 1]
     ELSE file[p]]

Store(n, body) ==
  LET allocate == NeedsNewFile(n, body)
      i        == IF allocate THEN NewNumber ELSE backingFiles
      at       == IF allocate THEN HEADER ELSE FileSize(i)
      old      == IF i \in DOMAIN files THEN files[i] ELSE EmptyFile
  IN
  /\ running
  /\ backingFiles > 0
  /\ i <= MaxFiles
  /\ files' = [k \in DOMAIN files \cup {i} |->
                 IF k = i THEN Copy(old, at, Record(n, body)) ELSE files[k]]
  /\ backingFiles' = i
  /\ Insert(n, OffsetOf(i, at))
  /\ UNCHANGED <<processVars, readerVars>>

\* With no file mapped, write follows the last element of an empty map.
StoreNowhere ==
  /\ running
  /\ backingFiles = 0
  /\ running' = FALSE
  /\ UNCHANGED <<streamVars, mapping, restarts, recovered, readerVars>>
----------------------------------------------------------------------------
(* File::find and File::read *)

\* find, under fs.m: the offset of a page, or none.
Find(r, n) ==
  /\ running
  /\ pc[r] = "idle"
  /\ IF n \in DOMAIN mapping
     THEN /\ pc' = [pc EXCEPT ![r] = "found"]
          /\ name' = [name EXCEPT ![r] = n]
          /\ offset' = [offset EXCEPT ![r] = mapping[n]]
          /\ UNCHANGED got
     ELSE /\ got' = [got EXCEPT ![r] = [name |-> n, body |-> NoPage]]
          /\ UNCHANGED <<pc, name, offset>>
  /\ UNCHANGED <<streamVars, mapping, processVars, lenOffset>>

\* The rest of find, without fs.m: the name is measured.
Measure(r) ==
  /\ running
  /\ pc[r] = "found"
  /\ pc' = [pc EXCEPT ![r] = "measured"]
  /\ lenOffset' = [lenOffset EXCEPT ![r] = offset[r] + Strlen(offset[r]) + 1]
  /\ UNCHANGED <<streamVars, mapping, processVars, name, offset, got>>

\* read, and the use of what it returns, without fs.m.
Read(r) ==
  /\ running
  /\ pc[r] = "measured"
  /\ got' = [got EXCEPT ![r] = [name |-> name[r], body |-> Contents(lenOffset[r])]]
  /\ pc' = [pc EXCEPT ![r] = "idle"]
  /\ name' = [name EXCEPT ![r] = NoPage]
  /\ offset' = [offset EXCEPT ![r] = 0]
  /\ lenOffset' = [lenOffset EXCEPT ![r] = 0]
  /\ UNCHANGED <<streamVars, mapping, processVars>>

Next ==
  \/ \E n \in Names, body \in Bodies : Store(n, body)
  \/ StoreNowhere
  \/ \E r \in Readers : (\E n \in Names : Find(r, n)) \/ Measure(r) \/ Read(r)
  \/ Restart

Spec == Init /\ [][Next]_vars
----------------------------------------------------------------------------
(* Properties *)

TypeOK ==
  /\ DOMAIN files = 1..backingFiles \/ restarts > 0
  /\ backingFiles \in 0..MaxFiles
  /\ \A i \in DOMAIN files : DOMAIN files[i] = Positions /\ FileSize(i) \in HEADER..FILE_SIZE
  /\ DOMAIN mapping \subseteq Names \cup {<<>>}
  /\ \A n \in DOMAIN mapping : mapping[n] \in Nat
  /\ running \in BOOLEAN
  /\ restarts \in 0..MaxRestarts
  /\ recovered \subseteq DOMAIN mapping
  /\ pc \in [Readers -> {"idle", "found", "measured"}]
  /\ name \in [Readers -> Names \cup {NoPage}]
  /\ offset \in [Readers -> Nat]
  /\ lenOffset \in [Readers -> Nat]
  /\ DOMAIN got = Readers

\* Readers follow pointers without the lock while pages are stored: what has been written
\* to a mapped file never changes, whatever is stored after it, in that file or a new one, until
\* the process is started again.
WrittenCellsStay ==
  [][\A i \in 1..backingFiles :
       \A p \in HEADER..FileSize(i) - 1 : files'[i][p] = files[i][p] \/ restarts' # restarts]_vars

\* The offset the table has for a page stored since the start leads to a record of that very name, which lies
\* inside the written part of one mapped file: records neither overlap nor straddle files,
\* and a record that fills its file to the last byte is in that file still.
OffsetsLeadToRecords ==
  \A n \in DOMAIN mapping \ recovered :
    LET i == mapping[n] \div FILE_SIZE + 1
        p == mapping[n] % FILE_SIZE
        lenPos == p + Len(n) + 1
    IN
    /\ i \in 1..backingFiles
    /\ p >= HEADER
    /\ \A k \in 1..Len(n) : files[i][p + k - 1] = n[k]
    /\ files[i][lenPos - 1] = NUL
    /\ lenPos + LENGTH + files[i][lenPos] <= FileSize(i)

\* The store is a map of pages, in which the first version of a page stays; a restart
\* forgets them, and damages the name that the table then starts with.
ImplementsPageMap == Pages!Spec

\* "The mapping is initialized by reading through the entire stream" (File.h): a page
\* that is stored is found again, with the contents it had, after a restart as before it.
PagesAreKept ==
  [][\A n \in Names : Page(n) # NoPage => Page(n)' = Page(n)]_vars
=============================================================================
