SPECIFICATION Spec
CONSTANTS
  Packages = {"tool", "lib", "base"}
  Versions <- BaseSources
  Strong <- StrongDeps
  Weak <- WeakDeps
  Cond <- NoDeps
  Manual = {}
  Usage = {"deselect"}
INVARIANTS
  OnlyDeclared
