SPECIFICATION SpecParts
CONSTANTS
  Dirs <- MCDirs
  Root <- MCRoot
  Above <- MCAbove
  Name <- MCName
  Radix = 2
  UserAgentCommand <- Agent
  UserAgentName <- Star
  AllowCommand <- Allow
  DisallowCommand <- Disallow
  BufferSize = 5
  Parts = {"store"}
  MaxLines = 1
  Threads = {t1, t2}
  Domains = {"a.org", "b.org", "c.org"}
  Capacity = 2
  MaxSubmissions = 5
INVARIANTS
  SavedRulesAreFound
CHECK_DEADLOCK FALSE
