--------------------------- MODULE MCPageService ---------------------------
(* Small instances of PageService for TLC. *)
EXTENDS PageService

SomeIds == {{1}, {All, 3}}
=============================================================================
