SPECIFICATION Spec
CONSTANTS
  w1 = w1
  w2 = w2
  h1 = h1
  h2 = h2
  page = page
  queryA = queryA
  queryB = queryB
  NoHost = NoHost
  NoPath = NoPath
  RobotsPath = RobotsPath
  Workers = {w1, w2}
  Hosts <- MCHosts
  Paths <- MCPaths
  UriPath <- MCUriPath
  WwwOf <- MCWwwOf
  BadExtension = {}
  Web <- StopWeb
  Seeds <- PageSeed
  REHIT_WAIT = 0
  REDIRECT_MAX = 0
  MaxLinks = 0
PROPERTIES
  EveryWorkerExits
CHECK_DEADLOCK FALSE
