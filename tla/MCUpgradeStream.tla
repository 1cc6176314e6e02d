--------------------------- MODULE MCUpgradeStream ---------------------------
(***************************************************************************)
(* One browser with two connections, the first of which may linger; a      *)
(* channel that holds one line where the program's holds 64, so that it    *)
(* runs full within the few lines of this log.                             *)
(***************************************************************************)
EXTENDS UpgradeStream

=============================================================================
