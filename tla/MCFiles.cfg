SPECIFICATION FileSpec
CONSTANTS
  NSectors = 3
  Names = {"p", "h", "a"}
  Paths <- MCPaths
  Modes = {"ReadWrite"}
  MaxFd = 5
  MaxInode = 3
  MaxLen = 2
  MaxCrashes = 1
INVARIANTS FileTypeOK TreeExact SectorsOwned CacheClean
PROPERTIES FdNotReused RestartKeepsTree
