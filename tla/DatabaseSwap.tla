---------------------------- MODULE DatabaseSwap ----------------------------
(***************************************************************************)
(* What a restore promises about the databases of a server, and nothing    *)
(* about how it keeps the promise: the live database is set aside under    *)
(* another name, a new one takes its place, and a new one that is not      *)
(* finished may be thrown away.  A finished database is never thrown away. *)
(*                                                                         *)
(* A database is identified by its generation: generation 0 is the one     *)
(* that was there first, every database created later has a generation of  *)
(* its own.                                                                *)
(***************************************************************************)
EXTENDS Naturals

CONSTANTS None          \* no database under the live name

VARIABLES live,         \* the generation under the live name, or None
          kept,         \* the generations under any other name
          used,         \* how many generations were handed out so far
          halfBuilt     \* whether the live one is still being filled

swapVars == <<live, kept, used, halfBuilt>>

SwapInit == /\ live \in {0, None}
            /\ kept = {}
            /\ used = 0
            /\ halfBuilt = FALSE

\* The live database moves out of the way, whole.
SetAside == /\ live # None
            /\ ~halfBuilt
            /\ kept' = kept \cup {live}
            /\ live' = None
            /\ UNCHANGED <<used, halfBuilt>>

\* An attempt begins: whatever is live now counts as somebody's data.
Attempt == /\ used' = used + 1
           /\ halfBuilt' = FALSE
           /\ UNCHANGED <<live, kept>>

\* A new database takes the free name.
CreateNew == /\ live = None
             /\ used \notin kept
             /\ live' = used
             /\ halfBuilt' = TRUE
             /\ UNCHANGED <<kept, used>>

\* The new database is complete.
Finish == /\ live # None
          /\ halfBuilt' = FALSE
          /\ UNCHANGED <<live, kept, used>>

\* An unfinished one is thrown away.
Discard == /\ halfBuilt
           /\ live' = None
           /\ halfBuilt' = FALSE
           /\ UNCHANGED <<kept, used>>

\* One that was set aside takes its name back.
PutBack == /\ live = None
           /\ \E g \in kept : /\ live' = g
                              /\ kept' = kept \ {g}
           /\ UNCHANGED <<used, halfBuilt>>

SwapNext == SetAside \/ Attempt \/ CreateNew \/ Finish \/ Discard \/ PutBack

Spec == SwapInit /\ [][SwapNext]_swapVars
=============================================================================
