-------------------------- MODULE MCModuleHandler --------------------------
(* ModuleHandler with every dependency graph over a few modules, for TLC. *)
EXTENDS ModuleHandler
=============================================================================
