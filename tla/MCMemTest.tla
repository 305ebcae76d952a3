------------------------------ MODULE MCMemTest ------------------------------
(***************************************************************************)
(* MemTest with megabytes of two elements and words of four megabytes.     *)
(***************************************************************************)
EXTENDS MemTest

MCAtoi == [a \in {"-m", "-i", "0", "1", "2", "4", "5"} |->
             CASE a = "1" -> 1 [] a = "2" -> 2 [] a = "4" -> 4 [] a = "5" -> 5 [] OTHER -> 0]

(* The default, two runs, no run, a size that wraps to 1, one that wraps   *)
(* to 0, the size 0, options without a value, an option as the value of another. *)
MCCommandLines ==
  { <<>>, <<"-m", "1", "-i", "2">>, <<"-m", "1", "-i", "0">>, <<"-m", "5">>, <<"-m", "4">>, <<"-m", "0">>,
    <<"-i", "2", "-m">>, <<"-m", "1", "-i">>, <<"-m", "-i", "2">> }

MCBuilds ==
  { {"arrayViewHostToDevice", "arrayHostToDevice", "arrayViewDeviceToHost", "arrayDeviceToHost"},
    {"zeroCopyHostToDevice", "zeroCopyDeviceToHost"} }
==============================================================================
