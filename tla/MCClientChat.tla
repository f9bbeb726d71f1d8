---------------------------- MODULE MCClientChat ----------------------------
(***************************************************************************)
(* TLC instance of the client connections of a cache server.               *)
(***************************************************************************)
EXTENDS ClientChat
=============================================================================
