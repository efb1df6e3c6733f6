------------------------------- MODULE Relay -------------------------------
(***************************************************************************)
(* The Relay (crates/gavin-relay/src/server.rs): one task per accepted     *)
(* socket, which a hello makes a Workstation's registration, a Device that *)
(* waits, or a Workstation's socket for one Device's stream.               *)
(*                                                                         *)
(*   closed -> opening -> registered -> leaving -> closing -> closed       *)
(*                     -> looked -> announcing -> waiting -> copying       *)
(*                                                -> elapsed -> lapsed     *)
(*                     -> took -> lent                                     *)
(*                                                                         *)
(* `closing` is a task saying why and closing its socket, its slot still   *)
(* held; `lent` is a stream's socket whose own task is over and which a    *)
(* Device's task holds.  A Device's socket is also the id of its stream:   *)
(* ids are random, so a socket is reused only when nothing names the old   *)
(* one any more.  Bytes, keepalives and the byte budget are reasons for a  *)
(* copy to end.                                                            *)
(***************************************************************************)
EXTENDS Naturals, FiniteSets

CONSTANTS
    Socks,          \* sockets
    Sources,        \* the addresses they come from
    Tokens,         \* admission tokens
    Rendezvous,     \* rendezvous ids
    None,           \* no socket
    MaxConns,       \* Limits.connections
    MaxPerSource,   \* Limits.connections_per_source
    MaxRegs,        \* Limits.registrations_per_rendezvous
    MaxPerToken,    \* Limits.registrations_per_token
    MaxWaiting,     \* Limits.waiting_per_rendezvous
    Watched         \* the sockets Settles speaks of: all are alike, so one stands for each

ASSUME WatchedAssumption == Watched \subseteq Socks
ASSUME NoneAssumption == None \notin Socks \cup Sources \cup Tokens
ASSUME LimitsAssumption ==
    {MaxConns, MaxPerSource, MaxRegs, MaxPerToken, MaxWaiting} \subseteq Nat \ {0}

VARIABLES
    pc,         \* where each socket's task is
    from,       \* the source address a running task is counted under
    token,      \* the token a registration is counted under
    rend,       \* the rendezvous its hello named
    slots,      \* permits left in the process-wide semaphore
    perSource,  \* sockets counted per source address
    regs,       \* registrations, by rendezvous
    perToken,   \* registrations_by_token
    waiting,    \* the Devices whose streams can be picked up
    left,       \* the registrations a Device has still to announce to
    queue,      \* a registration's announcements not yet said
    told,       \* the streams some Workstation has been told of
    claim,      \* the stream a task has taken out of `waiting`
    leg         \* the Workstation's socket a Device's task was sent

vars == <<pc, from, token, rend, slots, perSource, regs, perToken, waiting,
          left, queue, told, claim, leg>>
holdVars == <<from, slots, perSource>>
regVars == <<token, regs, perToken>>
streamVars == <<waiting, left, queue, told, claim, leg>>

Places == {"closed", "opening", "closing", "registered", "leaving", "looked",
           "announcing", "waiting", "elapsed", "lapsed", "copying", "took",
           "lent"}

\* The sockets whose task runs, and so holds a permit.
Running == {k \in Socks : pc[k] \notin {"closed", "lent"}}

\* Where a Device can still receive the socket that claims its stream.
Receiving == {"announcing", "waiting", "elapsed"}

Init ==
    /\ pc = [k \in Socks |-> "closed"]
    /\ from = [k \in Socks |-> None] /\ token = [k \in Socks |-> None]
    /\ rend \in [Socks -> Rendezvous]
    /\ slots = MaxConns /\ perSource = [ip \in Sources |-> 0]
    /\ regs = [r \in Rendezvous |-> {}] /\ perToken = [t \in Tokens |-> 0]
    /\ waiting = {} /\ told = {}
    /\ left = [k \in Socks |-> {}] /\ queue = [k \in Socks |-> {}]
    /\ claim = [k \in Socks |-> None] /\ leg = [k \in Socks |-> None]

TypeOK ==
    /\ pc \in [Socks -> Places]
    /\ from \in [Socks -> Sources \cup {None}] /\ token \in [Socks -> Tokens \cup {None}]
    /\ rend \in [Socks -> Rendezvous]
    /\ slots \in 0..MaxConns /\ perSource \in [Sources -> 0..MaxPerSource]
    /\ regs \in [Rendezvous -> SUBSET Socks]
    /\ perToken \in [Tokens -> 0..MaxPerToken]
    /\ waiting \subseteq Socks /\ told \subseteq Socks
    /\ left \in [Socks -> SUBSET Socks] /\ queue \in [Socks -> SUBSET Socks]
    /\ claim \in [Socks -> Socks \cup {None}]
    /\ leg \in [Socks -> Socks \cup {None}]

Go(k, place) == pc' = [pc EXCEPT ![k] = place]

-----------------------------------------------------------------------------
(* A socket's first moments, and its last. *)

\* Nothing in the Relay names the stream or the registration `k` last was.
Unnamed(k) ==
    /\ k \notin waiting
    /\ \A j \in Socks : k \notin left[j] \cup queue[j] /\ k \notin {claim[j], leg[j]}

\* At either ceiling the socket is closed unread: no step.
Accept(k, ip) ==
    /\ pc[k] = "closed" /\ Unnamed(k)
    /\ slots > 0 /\ perSource[ip] < MaxPerSource
    /\ Go(k, "opening")
    /\ slots' = slots - 1
    /\ perSource' = [perSource EXCEPT ![ip] = @ + 1]
    /\ from' = [from EXCEPT ![k] = ip]
    /\ told' = told \ {k}
    /\ UNCHANGED <<rend, regVars, waiting, left, queue, claim, leg>>

\* The permit, and the place among its source's, of a task that ends.
GiveBack(k) ==
    /\ slots' = slots + 1
    /\ perSource' = [perSource EXCEPT ![from[k]] = @ - 1]
    /\ from' = [from EXCEPT ![k] = None]

\* The task ends: its permit and its source's count go back, and with a
\* Device's socket goes the one joined to it.
Leave(k) ==
    /\ pc[k] = "closing"
    /\ pc' = [j \in Socks |-> IF j \in {k, leg[k]} THEN "closed" ELSE pc[j]]
    /\ leg' = [leg EXCEPT ![k] = None]
    /\ GiveBack(k)
    /\ UNCHANGED <<rend, regVars, waiting, left, queue, told, claim>>

\* The hello does not come before its deadline, or it is one to refuse: for
\* its token, its version or its form.
RefuseHello(k) ==
    /\ pc[k] = "opening" /\ Go(k, "closing")
    /\ UNCHANGED <<holdVars, rend, regVars, streamVars>>

-----------------------------------------------------------------------------
(* A Workstation's registration. *)

\* Both maps are judged, and changed, under both locks.
Register(k, r, t) ==
    /\ pc[k] = "opening"
    /\ rend' = [rend EXCEPT ![k] = r]
    /\ IF Cardinality(regs[r]) < MaxRegs /\ perToken[t] < MaxPerToken
       THEN /\ Go(k, "registered")
            /\ token' = [token EXCEPT ![k] = t]
            /\ regs' = [regs EXCEPT ![r] = @ \cup {k}]
            /\ perToken' = [perToken EXCEPT ![t] = @ + 1]
       ELSE Go(k, "closing") /\ UNCHANGED regVars
    /\ UNCHANGED <<holdVars, streamVars>>

SayIncoming(k, d) ==
    /\ pc[k] = "registered" /\ d \in queue[k]
    /\ queue' = [queue EXCEPT ![k] = @ \ {d}]
    /\ told' = told \cup {d}
    /\ UNCHANGED <<pc, holdVars, rend, regVars, waiting, left, claim, leg>>

\* It hung up, went silent, or could not be written to. The registration
\* stands, unread, while the socket is closed.
StopReading(k) ==
    /\ pc[k] = "registered" /\ Go(k, "leaving")
    /\ UNCHANGED <<holdVars, rend, regVars, streamVars>>

\* Mutant: the token's count is not given back.
DeregisterUncounted(k) ==
    /\ pc[k] = "leaving" /\ Go(k, "closing")
    /\ regs' = [regs EXCEPT ![rend[k]] = @ \ {k}]
    /\ token' = [token EXCEPT ![k] = None]
    /\ queue' = [queue EXCEPT ![k] = {}]
    /\ UNCHANGED <<holdVars, rend, perToken, waiting, left, told, claim, leg>>

Deregister(k) ==
    /\ pc[k] = "leaving" /\ Go(k, "closing")
    /\ regs' = [regs EXCEPT ![rend[k]] = @ \ {k}]
    /\ perToken' = [perToken EXCEPT ![token[k]] = @ - 1]
    /\ token' = [token EXCEPT ![k] = None]
    /\ queue' = [queue EXCEPT ![k] = {}]
    /\ UNCHANGED <<holdVars, rend, waiting, left, told, claim, leg>>

-----------------------------------------------------------------------------
(* A Device's stream, until it is picked up. *)

\* The registrations are copied and let go of: some may be gone by the time
\* they are announced to.
Look(k, r) ==
    /\ pc[k] = "opening"
    /\ rend' = [rend EXCEPT ![k] = r]
    /\ left' = [left EXCEPT ![k] = regs[r]]
    /\ Go(k, IF regs[r] = {} THEN "closing" ELSE "looked")
    /\ UNCHANGED <<holdVars, regVars, waiting, queue, told, claim, leg>>

WaitingAt(r) == {d \in waiting : rend[d] = r}

Wait(k) ==
    /\ pc[k] = "looked"
    /\ IF Cardinality(WaitingAt(rend[k])) < MaxWaiting
       THEN Go(k, "announcing") /\ waiting' = waiting \cup {k} /\ UNCHANGED left
       ELSE Go(k, "closing") /\ UNCHANGED waiting
            /\ left' = [left EXCEPT ![k] = {}]
    /\ UNCHANGED <<holdVars, rend, regVars, queue, told, claim, leg>>

\* A registration that is gone, or whose queue is full, is passed over.
Announce(k, w) ==
    /\ pc[k] = "announcing" /\ w \in left[k]
    /\ left' = [left EXCEPT ![k] = @ \ {w}]
    /\ Go(k, IF left[k] = {w} THEN "waiting" ELSE "announcing")
    /\ queue' = IF pc[w] \in {"registered", "leaving"}
                   /\ Cardinality(queue[w]) < MaxWaiting
                THEN [queue EXCEPT ![w] = @ \cup {k}] ELSE queue
    /\ UNCHANGED <<holdVars, rend, regVars, waiting, told, claim, leg>>

\* Mutant: the deadline counts from a Workstation having been told.
ElapseOnceTold(k) ==
    /\ pc[k] = "waiting" /\ leg[k] = None /\ k \in told
    /\ Go(k, "elapsed")
    /\ UNCHANGED <<holdVars, rend, regVars, streamVars>>

\* The claim deadline passes before a socket came. For a moment one can
\* still be sent to where nobody will look.
Elapse(k) ==
    /\ pc[k] = "waiting" /\ leg[k] = None
    /\ Go(k, "elapsed")
    /\ UNCHANGED <<holdVars, rend, regVars, streamVars>>

\* Mutant: a socket sent in that moment is left as it is.
DropClaimKeeping(k) ==
    /\ pc[k] = "elapsed" /\ Go(k, "lapsed")
    /\ leg' = [leg EXCEPT ![k] = None]
    /\ UNCHANGED <<holdVars, rend, regVars, waiting, left, queue, told, claim>>

\* The receiver is dropped, and what was sent to it closes.
DropClaim(k) ==
    /\ pc[k] = "elapsed"
    /\ pc' = [j \in Socks |-> IF j = k THEN "lapsed"
                              ELSE IF j = leg[k] THEN "closed" ELSE pc[j]]
    /\ leg' = [leg EXCEPT ![k] = None]
    /\ UNCHANGED <<holdVars, rend, regVars, waiting, left, queue, told, claim>>

StopWaiting(k) ==
    /\ pc[k] = "lapsed" /\ Go(k, "closing")
    /\ waiting' = waiting \ {k}
    /\ UNCHANGED <<holdVars, rend, regVars, left, queue, told, claim, leg>>

-----------------------------------------------------------------------------
(* A stream is picked up, copied, and over. *)

\* Mutant: the stream's id is enough, whatever rendezvous the hello names.
PickUpAnywhere(k, r, d) ==
    /\ pc[k] = "opening" /\ d \in told
    /\ rend' = [rend EXCEPT ![k] = r]
    /\ IF d \in waiting
       THEN /\ Go(k, "took")
            /\ waiting' = waiting \ {d}
            /\ claim' = [claim EXCEPT ![k] = d]
       ELSE Go(k, "closing") /\ UNCHANGED <<waiting, claim>>
    /\ UNCHANGED <<holdVars, regVars, left, queue, told, leg>>

\* Taken out under the lock, so a stream is picked up once.
PickUp(k, r, d) ==
    /\ pc[k] = "opening" /\ d \in told
    /\ rend' = [rend EXCEPT ![k] = r]
    /\ IF d \in WaitingAt(r)
       THEN /\ Go(k, "took")
            /\ waiting' = waiting \ {d}
            /\ claim' = [claim EXCEPT ![k] = d]
       ELSE Go(k, "closing") /\ UNCHANGED <<waiting, claim>>
    /\ UNCHANGED <<holdVars, regVars, left, queue, told, leg>>

\* The socket is sent to the Device's task, and this one is over, its permit
\* and its source's count given back; or nobody receives it any more.
Hand(k) ==
    /\ pc[k] = "took"
    /\ claim' = [claim EXCEPT ![k] = None]
    /\ IF pc[claim[k]] \in Receiving
       THEN /\ Go(k, "lent")
            /\ leg' = [leg EXCEPT ![claim[k]] = k]
            /\ GiveBack(k)
       ELSE Go(k, "closing") /\ UNCHANGED <<holdVars, leg>>
    /\ UNCHANGED <<rend, regVars, waiting, left, queue, told>>

Copy(k) ==
    /\ pc[k] = "waiting" /\ leg[k] # None
    /\ Go(k, "copying")
    /\ UNCHANGED <<holdVars, rend, regVars, streamVars>>

\* Either end closed, could not be written to, went silent, sent what has no
\* business on a stream, or the stream's bytes are spent.
EndCopy(k) ==
    /\ pc[k] = "copying" /\ Go(k, "closing")
    /\ UNCHANGED <<holdVars, rend, regVars, streamVars>>

-----------------------------------------------------------------------------
\* What a task does by itself, its deadlines included.
Task(k) ==
    \/ RefuseHello(k) \/ Leave(k) \/ Deregister(k)
    \/ Wait(k) \/ Elapse(k) \/ DropClaim(k) \/ StopWaiting(k)
    \/ Hand(k) \/ Copy(k)
    \/ \E w \in Socks : Announce(k, w)

Next ==
    \/ \E k \in Socks, ip \in Sources : Accept(k, ip)
    \/ \E k \in Socks : Task(k) \/ StopReading(k) \/ EndCopy(k)
    \/ \E k \in Socks, r \in Rendezvous :
          \/ \E t \in Tokens : Register(k, r, t)
          \/ Look(k, r)
          \/ \E d \in Socks : PickUp(k, r, d)
    \/ \E k, d \in Socks : SayIncoming(k, d)

Spec == Init /\ [][Next]_vars

\* A task that can run does; nobody has to dial, hang up or read.
FairSpec == Spec /\ \A k \in Socks : WF_vars(Task(k))

-----------------------------------------------------------------------------
\* Every permit, count and waiting place that is out is held by a task or a
\* registration that is there, whichever way the ones before it ended, and no
\* rendezvous has more waiting than may.
HoldsAreHeld ==
    /\ slots + Cardinality(Running) = MaxConns
    /\ \A ip \in Sources :
          perSource[ip] = Cardinality({k \in Running : from[k] = ip})
    /\ \A r \in Rendezvous :
          regs[r] = {k \in Socks : pc[k] \in {"registered", "leaving"} /\ rend[k] = r}
    /\ \A t \in Tokens :
          perToken[t] = Cardinality({k \in Socks :
                           pc[k] \in {"registered", "leaving"} /\ token[k] = t})
    /\ \A d \in waiting : pc[d] \in Receiving \cup {"lapsed"} /\ leg[d] = None
    /\ \A r \in Rendezvous : Cardinality(WaitingAt(r)) <= MaxWaiting

\* A socket whose task is over is in one Device's hands, of its own
\* rendezvous: it is neither lost nor joined twice ("The Device's task owns
\* both sockets from here").
LentIsHeld ==
    \A t \in Socks : pc[t] = "lent" =>
        \E d \in Socks :
            /\ leg[d] = t /\ rend[d] = rend[t]
            /\ pc[d] \in Receiving \cup {"copying", "closing"}
            /\ \A e \in Socks \ {d} : leg[e] # t

\* Limits.connections: "Sockets open at once, of every kind."
OpenSocketsBounded == Cardinality({k \in Socks : pc[k] # "closed"}) <= MaxConns

\* Nobody is left hanging: every socket ends up registered, joined or closed,
\* whoever else goes or keeps quiet meanwhile.
Settles ==
    \A k \in Watched :
        pc[k] \in Places \ {"registered", "copying", "lent"} ~>
            pc[k] \in {"registered", "copying", "lent", "closed"}

\* How far a Device's stream has come, as RelayPairing sees it.
Call == [k \in Socks |-> IF leg[k] # None THEN "joined"
                         ELSE IF pc[k] \in Receiving THEN "offered" ELSE "none"]

Pairing == INSTANCE RelayPairing WITH at <- rend, call <- Call, peer <- leg

\* The Relay keeps what RelayPairing promises.
KeepsPairing == Pairing!Spec
=============================================================================
