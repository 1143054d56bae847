-------------------------- MODULE MCLibraryService --------------------------
(* Three requests of one user about two games.                             *)
EXTENDS LibraryService
=============================================================================
