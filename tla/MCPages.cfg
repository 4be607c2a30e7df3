SPECIFICATION SpecPages
CONSTANTS
  r1 = r1
  x = x
  y = y
  z = z
  b = b
  c = c
  NoPage = NoPage
  Garbage = Garbage
  Readers = {r1}
  Names <- MCNames
  Bodies <- MCBodies
  FILE_SIZE = 9
  MaxFiles = 2
  MaxRestarts = 1
  BufferSize = 3
  RedirectMax = 1
  Servers <- SomeServers
  MaxAddresses = 2
  MaxTimeouts = 2
  PathLength = 5
  HtmlLength = 5
  Vowels = {"o"}
  Consonants = {"k", "w"}
  TopLevelDomains <- SomeDomains
  Ranked <- SomeRanks
  UrlLength = 6
INVARIANTS
  TypeOK
  OffsetsLeadToRecords
  ReceivedFitsTheBuffer
  SocketsAreClosed
  WholeAnswersAreStored
  LinksAreResolved
  PagesAreReadPieceByPiece
  ParsingEnds
  UrlsAreReadAsWords
PROPERTIES
  WrittenCellsStay
  ImplementsPageMap
CHECK_DEADLOCK FALSE
