CONSTANTS
  Dirs <- MCDirs
  Root <- MCRoot
  Above <- MCAbove
  Name <- MCName
  Radix = 2
  UserAgentCommand <- Agent
  UserAgentName <- Star
  AllowCommand <- Allow
  DisallowCommand <- Disallow
  BufferSize = 5
  MaxLines = 4
  Threads = {t1, t2}
  Domains = {"a.org", "b.org", "c.org"}
  Capacity = 2
  MaxSubmissions = 5
  Parts = {"postings"}
  QueryLength = 5
  PlainLength = 7
  TokenLength = 7
  Bits = 4
  InitialSize = 7
  Garbage = 0
  Numbers <- SomeNumbers
  Pairs <- SomePairs
  MaxWritten = 2
  BucketSize = 4
  HeaderSize = 1
  DeltaSize = 6
  EntrySize = 1
  GarbageEntry <- BehindTheEnd
  Words = {fox, hen, owl}
  BlockSize = 32
  NumSizes = 3
  BlockDataOffset = 6
  MaxPosting = 7
  BatchSizes = {1, 2}
  Gaps = {1}
  Keys = {1, 2, 3, 4}
  Values = {1, 2}
  Default = 0
  Hash <- SomeHashes
  InitialCapacity = 2
  LoadFactor = 7
SPECIFICATION SpecAll
INVARIANT WordIndexHoldsTheWord
CHECK_DEADLOCK FALSE
