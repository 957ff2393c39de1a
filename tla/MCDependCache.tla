---------------------------- MODULE MCDependCache ----------------------------
(* Instances of DependCache for TLC. *)
EXTENDS DependCache

\* tool uses lib, lib uses base, and tool uses base when it is selected.
StrongDeps == [tool |-> {"lib"}, lib |-> {}, base |-> {}]
WeakDeps   == [tool |-> {"base"}, lib |-> {"base"}, base |-> {}]
BaseSources == [tool |-> {1}, lib |-> {1}, base |-> {1, 2}]
NoDeps     == [tool |-> {}, lib |-> {}, base |-> {}]
=============================================================================
