------------------------------ MODULE MCServer ------------------------------
(* Values for the constants of Server that TLC's configurations need. *)
EXTENDS Server

CONSTANTS localhost, example, p8080, p8443
=============================================================================
