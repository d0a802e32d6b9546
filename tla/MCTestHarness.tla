--------------------------- MODULE MCTestHarness ---------------------------
(* The instance of TestHarness that TLC checks needs no definitions. *)
EXTENDS TestHarness
=============================================================================
