SPECIFICATION FairSpec
CONSTANTS
  None = None
  Executable <- MCExecutable
  Overrides <- MCOverrides
  ShimDirs <- MCShimDirs
  Image <- MCImage
  Registry <- MCRegistry
  EndsWith <- MCEndsWith
  LibSystem <- MCLibSystem
  ClassSyms = {"K"}
  HostSyms = {"h"}
  Imports <- MCImports
  Slots <- MCSlots
  NLSections <- MCNLSections
  Indirect <- MCIndirect
  Region <- MCRegion
CHECK_DEADLOCK FALSE
INVARIANTS DependenciesSettled 
PROPERTIES StartsProperly LaunchEnds
