---------------------------- MODULE ForwardCalls ----------------------------
(***************************************************************************)
(* What forwarding promises a Device (crates/daemon/src/server.rs,         *)
(* ask_desktop): a call is dispatched at the desk at most once, however    *)
(* connections come and go, and it is answered once, as done only if it    *)
(* was dispatched.  A call that failed may have been dispatched, and may   *)
(* still be.                                                               *)
(***************************************************************************)
EXTENDS Naturals

CONSTANT Calls

VARIABLES
    ran,     \* how often the desk dispatched each call
    said     \* what the Device was told

vars == <<ran, said>>

Init ==
    /\ ran = [c \in Calls |-> 0]
    /\ said = [c \in Calls |-> "nothing"]

Run(c) ==
    /\ ran[c] = 0
    /\ ran' = [ran EXCEPT ![c] = 1]
    /\ UNCHANGED said

Done(c) ==
    /\ said[c] = "nothing" /\ ran[c] = 1
    /\ said' = [said EXCEPT ![c] = "done"]
    /\ UNCHANGED ran

Fail(c) ==
    /\ said[c] = "nothing"
    /\ said' = [said EXCEPT ![c] = "failed"]
    /\ UNCHANGED ran

Next == \E c \in Calls : Run(c) \/ Done(c) \/ Fail(c)

Spec == Init /\ [][Next]_vars
=============================================================================
