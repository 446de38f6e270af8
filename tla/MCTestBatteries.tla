-------------------------- MODULE MCTestBatteries --------------------------
(* An instance of TestBatteries for TLC: one client that retrieves its     *)
(* objects in the second round, one that deletes them.                     *)
EXTENDS TestBatteries

=============================================================================
