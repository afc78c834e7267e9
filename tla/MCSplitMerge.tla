---------------------------- MODULE MCSplitMerge ----------------------------
(* TLC instances of SplitMerge. *)
EXTENDS SplitMerge

TwoHeads == <<4, 3>>
=============================================================================
