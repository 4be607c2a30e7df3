SPECIFICATION Spec
CONSTANTS
  r1 = r1
  r2 = r2
  p1 = p1
  p2 = p2
  a = a
  b = b
  u = u
  url1 = url1
  url2 = url2
  NoWord = NoWord
  DocEnd = DocEnd
  Words = {a, b, u, DocEnd}
  NumWordsLimit = 2
  Readers = {r1, r2}
  Writers = {p1, p2}
  Urls = {url1, url2}
  Docs <- MCDocs
SYMMETRY Symmetry
INVARIANTS
  TypeOK
  DocsInsertedInOrder
  WritersNeverStall
  EntriesAreFound
CHECK_DEADLOCK FALSE
