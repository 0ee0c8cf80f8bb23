------------------------ MODULE MCPermissionRegistry ------------------------
(* PermissionRegistry for TLC.  Its calls and tokens differ in nothing but their *)
(* names, but the run checks liveness, so that no symmetry is used.              *)
EXTENDS PermissionRegistry
=============================================================================
