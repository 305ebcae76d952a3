------------------------------ MODULE PrintfLog ------------------------------
(***************************************************************************)
(* What the printf queue of printf/hsa_printf.h promises to its callers: a *)
(* bounded log.  A call of hsa_printf either appends its whole message to  *)
(* the log or reports HSA_PRINTF_BUFFER_OVERFLOW and leaves a mark; a call *)
(* of hsa_process_printf_queue prints every logged message once, in order, *)
(* and empties the log.  Each call takes effect in one step between its    *)
(* beginning and its return: this is the atomic object that the lock of    *)
(* the detailed specification (module HsaPrintf) is there to provide.      *)
(***************************************************************************)
EXTENDS PrintfMessage

CONSTANTS
  Writers,      \* the threads that append to the log
  Hosts,        \* the threads that drain it
  num           \* the number of packets of the buffer

Threads == Writers \cup Hosts

VARIABLES
  accepted,     \* the messages in the log, oldest first
  used,         \* the packets they take
  overflowed,   \* has a message been refused since the log was last drained?
  output,       \* what each thread's last call printed
  reply         \* each thread's outstanding call, or the answer to its last

vars == <<accepted, used, overflowed, output, reply>>

Init ==
  /\ accepted = <<>>
  /\ used = 0
  /\ overflowed = FALSE
  /\ output = [t \in Threads |-> <<>>]
  /\ reply = [t \in Threads |-> "none"]

Begin(t) ==
  /\ reply[t] # "pending"
  /\ reply' = [reply EXCEPT ![t] = "pending"]
  /\ output' = [output EXCEPT ![t] = <<>>]
  /\ UNCHANGED <<accepted, used, overflowed>>

(* The buffer keeps its last packet free: a batch that would fill it up    *)
(* exactly is refused.                                                     *)
Fits(m) == used + Size(m) < num

Accept(t, m) ==
  /\ reply[t] = "pending"
  /\ Fits(m)
  /\ accepted' = Append(accepted, m)
  /\ used' = used + Size(m)
  /\ reply' = [reply EXCEPT ![t] = "success"]
  /\ UNCHANGED <<overflowed, output>>

Reject(t, m) ==
  /\ reply[t] = "pending"
  /\ ~Fits(m)
  /\ overflowed' = TRUE
  /\ reply' = [reply EXCEPT ![t] = "overflow"]
  /\ UNCHANGED <<accepted, used, output>>

Drain(t) ==
  /\ reply[t] = "pending"
  /\ output' = [output EXCEPT ![t] = [k \in 1 .. Len(accepted) |-> Render(accepted[k])]]
  /\ accepted' = <<>>
  /\ used' = 0
  /\ overflowed' = FALSE
  /\ reply' = [reply EXCEPT ![t] = "none"]

Next ==
  \/ \E t \in Threads : Begin(t)
  \/ \E t \in Writers, m \in Messages : Accept(t, m) \/ Reject(t, m)
  \/ \E t \in Hosts : Drain(t)

Spec == Init /\ [][Next]_vars
==============================================================================
