---------------------------- MODULE MCMatrixLogin ----------------------------
(* MatrixLogin with two requests and two addresses of the panel.           *)
EXTENDS MatrixLogin
=============================================================================
