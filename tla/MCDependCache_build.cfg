SPECIFICATION FairSpec
CONSTANTS
  Packages = {"tool", "lib", "base"}
  Versions <- BaseSources
  Strong <- StrongDeps
  Weak <- WeakDeps
  Cond <- NoDeps
  Manual = {}
  Usage = {}
INVARIANTS
  Coherent
PROPERTIES
  NoNeedlessCompile
  MakeEnds
