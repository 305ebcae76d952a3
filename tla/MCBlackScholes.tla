---------------------------- MODULE MCBlackScholes ----------------------------
(***************************************************************************)
(* BlackScholes with command lines that leave each way out of the loop over *)
(* the arguments, choose every mode, and ask for up to two iterations.     *)
(***************************************************************************)
EXTENDS BlackScholes

Option(text)  == [text |-> text, value |-> 0]
Number(value) == [text |-> "number", value |-> value]

MCCommandLines ==
  {<<>>,
   <<Option("-n")>>,
   <<Option("-n"), Number(0), Option("-i"), Number(0)>>,
   <<Option("-i"), Number(0)>>,
   <<Option("amparray"), Option("oclbuffer"), Option("-i")>>,
   <<Option("ampsvm"), Option("-i"), Number(2)>>,
   <<Option("-n"), Option("-i"), Number(2)>>,
   <<Option("ampsvm"), Option("amparrayview"), Option("oclbuffer"), Option("oclzerocopy")>>}

(* The clock is set back once. *)
SetBackOnce == clock' < clock => ~setBack
==============================================================================
