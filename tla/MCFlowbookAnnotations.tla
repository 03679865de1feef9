------------------------- MODULE MCFlowbookAnnotations -------------------------
(***************************************************************************)
(* Checking FlowbookAnnotations with TLC: the strokes are interchangeable. *)
(***************************************************************************)
EXTENDS FlowbookAnnotations, TLC

StrokeSymmetry == Permutations(Strokes)
==============================================================================
