--------------------------- MODULE MCMatrixSessions ---------------------------
(***************************************************************************)
(* Two operators and room for one, two requests that may renew the same    *)
(* session, and enough grants for one to be replaced.                      *)
(***************************************************************************)
EXTENDS MatrixSessions

=============================================================================
