SPECIFICATION Spec
CONSTANTS
  r1 = r1
  r2 = r2
  p1 = p1
  p2 = p2
  a = a
  b = b
  u = u
  url1 = url1
  url2 = url2
  NoWord = NoWord
  DocEnd = DocEnd
  Words = {DocEnd}
  NumWordsLimit = 1
  Readers = {r1, r2}
  Writers = {p1, p2}
  Urls = {url1, url2}
  Docs <- TurnDocs
PROPERTIES
  EveryTakenDocIsInserted
CHECK_DEADLOCK FALSE
