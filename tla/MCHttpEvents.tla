---------------------------- MODULE MCHttpEvents ----------------------------
(***************************************************************************)
(* Small instances of HttpEvents for TLC.                                  *)
(***************************************************************************)
EXTENDS HttpEvents, TLC

CONSTANT reader

\* A client that asks for a type it may see and for one it may not.
Filters == [c \in Clients |-> {"pm", "login"}]
=============================================================================
