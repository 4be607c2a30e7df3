SPECIFICATION Spec
CONSTANTS
  r1 = r1
  x = x
  y = y
  z = z
  b = b
  c = c
  NoPage = NoPage
  Garbage = Garbage
  Readers = {r1}
  Names <- MCNames
  Bodies <- MCBodies
  FILE_SIZE = 9
  MaxFiles = 2
  MaxRestarts = 1
PROPERTIES
  PagesAreKept
CHECK_DEADLOCK FALSE
