--------------------------- MODULE MCCreateBuild ---------------------------
(* CreateBuild for TLC: the versions are given by the runs.                *)
EXTENDS CreateBuild
=============================================================================
