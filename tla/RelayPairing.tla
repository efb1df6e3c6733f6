---------------------------- MODULE RelayPairing ----------------------------
(***************************************************************************)
(* What the Relay promises of the streams it joins (crates/gavin-relay):   *)
(* a Device's stream is picked up once, by one Workstation socket of the   *)
(* Device's own rendezvous, and stays joined to that one until it is over. *)
(***************************************************************************)
CONSTANTS
    Socks,        \* sockets
    Rendezvous,   \* rendezvous ids
    None          \* no socket

VARIABLES
    at,      \* the rendezvous a socket's hello named
    call,    \* a Device's stream: none, offered to Workstations, or joined
    peer     \* the socket it is joined to

vars == <<at, call, peer>>

\* A socket that is in no stream.
Idle(k) == call[k] = "none" /\ \A d \in Socks : peer[d] # k

Init ==
    /\ at \in [Socks -> Rendezvous]
    /\ call = [k \in Socks |-> "none"]
    /\ peer = [k \in Socks |-> None]

Dial(k, r) ==
    /\ Idle(k)
    /\ at' = [at EXCEPT ![k] = r]
    /\ UNCHANGED <<call, peer>>

Offer(d) ==
    /\ Idle(d)
    /\ call' = [call EXCEPT ![d] = "offered"]
    /\ UNCHANGED <<at, peer>>

Join(d, t) ==
    /\ call[d] = "offered" /\ Idle(t) /\ at[t] = at[d]
    /\ call' = [call EXCEPT ![d] = "joined"]
    /\ peer' = [peer EXCEPT ![d] = t]
    /\ UNCHANGED at

Over(d) ==
    /\ call[d] # "none"
    /\ call' = [call EXCEPT ![d] = "none"]
    /\ peer' = [peer EXCEPT ![d] = None]
    /\ UNCHANGED at

Next ==
    \E k \in Socks :
        \/ \E r \in Rendezvous : Dial(k, r)
        \/ Offer(k)
        \/ \E t \in Socks : Join(k, t)
        \/ Over(k)

Spec == Init /\ [][Next]_vars
=============================================================================
