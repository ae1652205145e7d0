---------------------------- MODULE MCDashboard ----------------------------
(***************************************************************************)
(* Two jobs: enough for every overlap of two scans on runs/_tmp.db and for *)
(* a scan after one that failed on its way.                                *)
(***************************************************************************)
EXTENDS Dashboard

CONSTANTS j1, j2
=============================================================================
