--------------------------- MODULE MCThreadEngine ---------------------------
(* ThreadEngine with a few jobs, for TLC. *)
EXTENDS ThreadEngine
=============================================================================
