-------------------------------- MODULE Manifest --------------------------------
(* The modules a manifest lists (read_manifest() in                          *)
(* tools/parallel_lean_build.py refuses a name that is there twice), named   *)
(* by their rank in the sort order of their names.                           *)
EXTENDS Integers, FiniteSets

CONSTANT Modules

ASSUME ModulesAssumption == Modules \subseteq Nat /\ IsFiniteSet(Modules)
===============================================================================
