----------------------------- MODULE MCOpenNode -----------------------------
(***************************************************************************)
(* OpenNode on small instances.  The machine has nickname 1 (always the    *)
(* smallest, so always its own controller) or 2 (the controller only while *)
(* it does not know 1).                                                    *)
(***************************************************************************)
EXTENDS OpenNode
MCMe == {1, 2}
=============================================================================
