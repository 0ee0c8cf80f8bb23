--------------------------- MODULE MCProcessService ---------------------------
(* ProcessService for TLC. *)
EXTENDS ProcessService
===============================================================================
