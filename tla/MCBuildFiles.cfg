SPECIFICATION Spec
CONSTANTS
  bash = bash
  libc = libc
  bashtree = bashtree
  libctree = libctree
  macrotree = macrotree
  locked = locked
  other = other
  Trees <- AllTrees
  FileOf <- OneFile
  TargetOf <- ThreeTargets
  Kind <- ThreeKinds
  Prunes <- Prunable
  Installs <- Small
  Written <- Hand
  NoURLs = "none"
  BadURLs = "bad"
  BadSum = "unknown"
INVARIANTS RulesFit TreesDeclared
PROPERTIES RepeatChangesNothing PrunesOnlyUnused
