------------------------- MODULE MCManagerDestructor --------------------------
(* An instance of ManagerDestructor for TLC.                                *)
EXTENDS ManagerDestructor
==============================================================================
