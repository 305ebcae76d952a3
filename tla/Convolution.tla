----------------------------- MODULE Convolution -----------------------------
(***************************************************************************)
(* The index arithmetic of cppamp/convolution/convolution.cpp: which       *)
(* elements of the image convolve_cpu and the kernel of convolve_gpu read  *)
(* for each element they write.  The first indexes a flat array with X     *)
(* columns; the second goes through array_view<float, 2>(X, Y), whose last *)
(* index is the fast one, so that to it the image has Y columns.           *)
(***************************************************************************)
EXTENDS Integers

CONSTANTS X, Y

ASSUME ImageAssumption == X \in Nat \ {0} /\ Y \in Nat \ {0}

Image == 0 .. X * Y - 1
Taps  == (0 .. 2) \X (0 .. 2)  \* of the 3 x 3 mask

(* Where the mask has the weight of a tap: its view is row-major, as is the *)
(* order in which convolve_cpu walks it.                                   *)
MaskElement(n, m) == 3 * n + m

OnBorder(a, b, A, B) == a = 0 \/ a = A - 1 \/ b = 0 \/ b = B - 1

(* convolve_cpu writes this element for y in 0 .. Y-1 and x in 0 .. X-1 ... *)
CpuElement(y, x) == y * X + x

(* ... and for the tap (n, m) reads this one. *)
CpuRead(y, x, n, m) == (y - 1 + n) * X + (x - 1 + m)

(* The element of the view at index<2>(i0, i1), i0 in 0 .. X-1. *)
GpuElement(i0, i1) == i0 * Y + i1

GpuRead(i0, i1, i, j) == GpuElement(i0 - 1 + i, i1 - 1 + j)
==============================================================================
