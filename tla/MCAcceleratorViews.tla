-------------------------- MODULE MCAcceleratorViews --------------------------
(***************************************************************************)
(* AcceleratorViews with arrays of three elements: the last index, whose   *)
(* work-item writes the flags, and two others; and an image of 3 x 3, eight *)
(* of whose elements are on the border.                                    *)
(***************************************************************************)
EXTENDS AcceleratorViews
==============================================================================
