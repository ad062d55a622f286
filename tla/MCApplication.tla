---------------------------- MODULE MCApplication ---------------------------
(***************************************************************************)
(* Application for TLC, on the instances of MCOrderManagement.             *)
(***************************************************************************)
EXTENDS Application, MCOrderManagement
=============================================================================
