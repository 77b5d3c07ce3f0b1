SPECIFICATION ProcessSpec
CONSTANTS
  Thread = {t1, t2}
  Obj = {o1, o2}
  Handle = {h1, h2, h3}
  Name = {n1}
  None = none
  MaxDrift = 1
  Converter = {t1, t2, c3}
  Page = {p1, p2}
  Entry = {h1, h2, h3}
  NoEntry = none
  DirUser = {t1, t2, u3}
  Directory = {root, d1}
  Root = root
  DirHandle = {h1, h2, h3}
  DirBlock = {b1, b2, b3}
  Null = none
  EnvUser = {t3}
  EnvName = {1, 2, 3}
  MaxLength = 2
SYMMETRY Symmetry
CHECK_DEADLOCK FALSE
INVARIANTS WaitObjectsSafe NameKept CodePageTableStays CapturedDirectoryStays DirectoryHandlesExact EnvironmentExact
