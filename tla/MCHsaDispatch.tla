---------------------------- MODULE MCHsaDispatch ----------------------------
(***************************************************************************)
(* HsaDispatch with BRIG modules of up to three code entries: the kernel,   *)
(* a function of the same name, and another kernel, whose name has the same *)
(* first 8 characters as the name of every OpenCL kernel has.               *)
(***************************************************************************)
EXTENDS HsaDispatch

Entry(k, n) == [kind |-> k, name |-> n]
VectorCopy  == Entry("kernel", KernelName)
Function    == Entry("function", KernelName)
OtherKernel == Entry("kernel", [KernelName EXCEPT !.rest = "L_other_kernel"])

OneKernel   == {<<VectorCopy>>, <<Function, VectorCopy>>, <<Function>>}
TwoKernels  == OneKernel \cup {<<VectorCopy, OtherKernel>>, <<Function, OtherKernel, VectorCopy>>}
==============================================================================
