---------------------------- MODULE Relay_proofs ----------------------------
(***************************************************************************)
(* The Relay implements RelayPairing, for any number of sockets and any    *)
(* limits.  The inductive invariant follows one stream from hand to hand:  *)
(* a Device among the waiting has been claimed by nobody, a task that took *)
(* it out is the only one that did and names the same rendezvous, and a    *)
(* socket a Device was sent is lent, and to that Device alone.             *)
(*                                                                         *)
(* And nothing that is counted leaks: what the semaphore, the two counts   *)
(* and the maps hold is held by tasks that run.                            *)
(***************************************************************************)
EXTENDS Relay, FiniteSetTheorems, TLAPS

StreamTypes ==
    /\ pc \in [Socks -> Places]
    /\ rend \in [Socks -> Rendezvous]
    /\ waiting \subseteq Socks
    /\ claim \in [Socks -> Socks \cup {None}]
    /\ leg \in [Socks -> Socks \cup {None}]

\* Nobody has taken the stream of a Device that is among the waiting.
WaitingUnclaimed ==
    \A d \in waiting :
        /\ pc[d] \in Receiving \cup {"lapsed"} /\ leg[d] = None
        /\ \A t \in Socks : claim[t] # d

\* A stream is in the hands of one task, and while its Device can receive,
\* the Device has received nothing.
ClaimsSound ==
    \A t \in Socks :
        /\ claim[t] # None <=> pc[t] = "took"
        /\ claim[t] # None =>
              /\ rend[claim[t]] = rend[t] /\ leg[claim[t]] = None
              /\ pc[claim[t]] \in Receiving \cup {"lapsed", "closing", "closed"}
              /\ \A u \in Socks : claim[u] = claim[t] => u = t

\* A socket a Device was sent is lent, and to that Device alone.
LegsSound ==
    \A d \in Socks : leg[d] # None =>
        /\ pc[leg[d]] = "lent" /\ rend[leg[d]] = rend[d]
        /\ pc[d] \in Receiving \cup {"copying", "closing"}
        /\ \A e \in Socks : leg[e] = leg[d] => e = d

LentSomewhere ==
    \A t \in Socks : pc[t] = "lent" => \E d \in Socks : leg[d] = t

StreamInv ==
    StreamTypes /\ WaitingUnclaimed /\ ClaimsSound /\ LegsSound /\ LentSomewhere

-----------------------------------------------------------------------------
\* A step that moves one task between places, and touches no stream.
Moves(k, P, Q) ==
    /\ pc[k] \in P
    /\ \E q \in Q : pc' = [pc EXCEPT ![k] = q]
    /\ UNCHANGED <<rend, waiting, claim, leg>>

\* Moving a task keeps the invariant, where the places it moves between are
\* ones the invariant tells apart for nobody that names it.
LEMMA MoveKeeps ==
    ASSUME StreamInv, NEW k \in Socks,
           \/ Moves(k, {"opening"}, {"closing"})
           \/ Moves(k, {"registered"}, {"leaving"})
           \/ Moves(k, {"leaving"}, {"closing"})
           \/ Moves(k, {"announcing"}, {"announcing", "waiting"})
           \/ Moves(k, {"waiting"}, {"elapsed"})
           \/ Moves(k, {"copying"}, {"closing"})
    PROVE  StreamInv'
<1> USE DEF Moves, StreamInv, Receiving, Places
<1>1. StreamTypes'
  BY DEF StreamTypes
<1>2. WaitingUnclaimed'
  BY DEF StreamTypes, WaitingUnclaimed
<1>3. ClaimsSound'
  BY NoneAssumption DEF StreamTypes, ClaimsSound
<1>4. LegsSound'
  BY NoneAssumption DEF StreamTypes, LegsSound
<1>5. LentSomewhere'
  BY DEF StreamTypes, LentSomewhere
<1> QED
  BY <1>1, <1>2, <1>3, <1>4, <1>5

LEMMA AcceptKeeps ==
    ASSUME StreamInv, NEW k \in Socks, NEW ip \in Sources, Accept(k, ip)
    PROVE  StreamInv'
<1> USE DEF Accept, Go, StreamInv, Receiving, Places, regVars
<1>1. StreamTypes'
  BY DEF StreamTypes
<1>2. WaitingUnclaimed'
  BY DEF StreamTypes, WaitingUnclaimed
<1>3. ClaimsSound'
  BY NoneAssumption DEF StreamTypes, ClaimsSound, Unnamed
<1>4. LegsSound'
  BY NoneAssumption DEF StreamTypes, LegsSound
<1>5. LentSomewhere'
  BY DEF StreamTypes, LentSomewhere
<1> QED
  BY <1>1, <1>2, <1>3, <1>4, <1>5

LEMMA LeaveKeeps ==
    ASSUME StreamInv, NEW k \in Socks, Leave(k)
    PROVE  StreamInv'
<1> USE DEF Leave, StreamInv, Receiving, Places, regVars
<1>1. StreamTypes'
  BY DEF StreamTypes
<1>2. WaitingUnclaimed'
  BY NoneAssumption DEF StreamTypes, WaitingUnclaimed, LegsSound
<1>3. ClaimsSound'
  BY NoneAssumption DEF StreamTypes, ClaimsSound, LegsSound
<1>4. LegsSound'
  BY NoneAssumption DEF StreamTypes, LegsSound
<1>5. LentSomewhere'
  BY NoneAssumption DEF StreamTypes, LentSomewhere
<1> QED
  BY <1>1, <1>2, <1>3, <1>4, <1>5

\* A hello that names a rendezvous, and takes no stream.
LEMMA HelloKeeps ==
    ASSUME StreamInv, NEW k \in Socks, NEW r \in Rendezvous,
           pc[k] = "opening", rend' = [rend EXCEPT ![k] = r],
           \E q \in {"closing", "registered", "looked"} : pc' = [pc EXCEPT ![k] = q],
           UNCHANGED <<waiting, claim, leg>>
    PROVE  StreamInv'
<1> USE DEF StreamInv, Receiving, Places
<1>1. StreamTypes'
  BY DEF StreamTypes
<1>2. WaitingUnclaimed'
  BY DEF StreamTypes, WaitingUnclaimed
<1>3. ClaimsSound'
  BY NoneAssumption DEF StreamTypes, ClaimsSound
<1>4. LegsSound'
  BY NoneAssumption DEF StreamTypes, LegsSound
<1>5. LentSomewhere'
  BY DEF StreamTypes, LentSomewhere
<1> QED
  BY <1>1, <1>2, <1>3, <1>4, <1>5

LEMMA WaitKeeps ==
    ASSUME StreamInv, NEW k \in Socks, Wait(k)
    PROVE  StreamInv'
<1> USE DEF Wait, Go, StreamInv, Receiving, Places, regVars, holdVars
<1>1. StreamTypes'
  BY DEF StreamTypes
<1>2. WaitingUnclaimed'
  BY NoneAssumption DEF StreamTypes, WaitingUnclaimed, ClaimsSound, LegsSound
<1>3. ClaimsSound'
  BY NoneAssumption DEF StreamTypes, ClaimsSound
<1>4. LegsSound'
  BY NoneAssumption DEF StreamTypes, LegsSound
<1>5. LentSomewhere'
  BY DEF StreamTypes, LentSomewhere
<1> QED
  BY <1>1, <1>2, <1>3, <1>4, <1>5

LEMMA DropClaimKeeps ==
    ASSUME StreamInv, NEW k \in Socks, DropClaim(k)
    PROVE  StreamInv'
<1> USE DEF DropClaim, StreamInv, Receiving, Places, regVars, holdVars
<1>1. StreamTypes'
  BY DEF StreamTypes
<1>2. WaitingUnclaimed'
  BY NoneAssumption DEF StreamTypes, WaitingUnclaimed, LegsSound
<1>3. ClaimsSound'
  BY NoneAssumption DEF StreamTypes, ClaimsSound, LegsSound
<1>4. LegsSound'
  BY NoneAssumption DEF StreamTypes, LegsSound
<1>5. LentSomewhere'
  BY NoneAssumption DEF StreamTypes, LentSomewhere
<1> QED
  BY <1>1, <1>2, <1>3, <1>4, <1>5

LEMMA StopWaitingKeeps ==
    ASSUME StreamInv, NEW k \in Socks, StopWaiting(k)
    PROVE  StreamInv'
<1> USE DEF StopWaiting, Go, StreamInv, Receiving, Places, regVars, holdVars
<1>1. StreamTypes'
  BY DEF StreamTypes
<1>2. WaitingUnclaimed'
  BY DEF StreamTypes, WaitingUnclaimed
<1>3. ClaimsSound'
  BY NoneAssumption DEF StreamTypes, ClaimsSound
<1>4. LegsSound'
  BY NoneAssumption DEF StreamTypes, LegsSound
<1>5. LentSomewhere'
  BY DEF StreamTypes, LentSomewhere
<1> QED
  BY <1>1, <1>2, <1>3, <1>4, <1>5

LEMMA PickUpKeeps ==
    ASSUME StreamInv, NEW k \in Socks, NEW r \in Rendezvous, NEW d \in Socks,
           PickUp(k, r, d)
    PROVE  StreamInv'
<1> USE DEF PickUp, Go, StreamInv, Receiving, Places, regVars, holdVars, WaitingAt
<1>1. StreamTypes'
  BY DEF StreamTypes
<1>2. WaitingUnclaimed'
  BY NoneAssumption DEF StreamTypes, WaitingUnclaimed
<1>3. ClaimsSound'
  BY NoneAssumption DEF StreamTypes, ClaimsSound, WaitingUnclaimed
<1>4. LegsSound'
  BY NoneAssumption DEF StreamTypes, LegsSound
<1>5. LentSomewhere'
  BY DEF StreamTypes, LentSomewhere
<1> QED
  BY <1>1, <1>2, <1>3, <1>4, <1>5

LEMMA HandKeeps ==
    ASSUME StreamInv, NEW k \in Socks, Hand(k)
    PROVE  StreamInv'
<1> USE DEF Hand, Go, StreamInv, Receiving, Places, regVars, holdVars
<1>1. StreamTypes'
  BY DEF StreamTypes, ClaimsSound
<1>2. WaitingUnclaimed'
  BY NoneAssumption DEF StreamTypes, WaitingUnclaimed, ClaimsSound
<1>3. ClaimsSound'
  BY NoneAssumption DEF StreamTypes, ClaimsSound
<1>4. LegsSound'
  BY NoneAssumption DEF StreamTypes, LegsSound, ClaimsSound
<1>5. LentSomewhere'
  BY NoneAssumption DEF StreamTypes, LentSomewhere, ClaimsSound
<1> QED
  BY <1>1, <1>2, <1>3, <1>4, <1>5

LEMMA CopyKeeps ==
    ASSUME StreamInv, NEW k \in Socks, Copy(k)
    PROVE  StreamInv'
<1> USE DEF Copy, Go, StreamInv, Receiving, Places, streamVars
<1>1. StreamTypes'
  BY DEF StreamTypes
<1>2. WaitingUnclaimed'
  BY DEF StreamTypes, WaitingUnclaimed
<1>3. ClaimsSound'
  BY NoneAssumption DEF StreamTypes, ClaimsSound
<1>4. LegsSound'
  BY NoneAssumption DEF StreamTypes, LegsSound
<1>5. LentSomewhere'
  BY DEF StreamTypes, LentSomewhere
<1> QED
  BY <1>1, <1>2, <1>3, <1>4, <1>5

\* Every step of the Relay keeps the invariant.
LEMMA StreamStep ==
    ASSUME StreamInv, [Next]_vars
    PROVE  StreamInv'
<1>1. ASSUME NEW k \in Socks,
             \/ RefuseHello(k) \/ StopReading(k) \/ Deregister(k) \/ Elapse(k)
             \/ EndCopy(k) \/ \E w \in Socks : Announce(k, w)
      PROVE  StreamInv'
  BY <1>1, MoveKeeps DEF RefuseHello, StopReading, Deregister, Elapse, EndCopy,
                         Announce, Moves, Go, streamVars
<1>2. ASSUME NEW k \in Socks, NEW r \in Rendezvous,
             (\E t \in Tokens : Register(k, r, t)) \/ Look(k, r)
      PROVE  StreamInv'
  BY <1>2, HelloKeeps DEF Register, Look, Go, streamVars
<1>3. CASE UNCHANGED vars \/ \E k, d \in Socks : SayIncoming(k, d)
  <2>1. UNCHANGED <<pc, rend, waiting, claim, leg>>
    BY <1>3 DEF vars, SayIncoming
  <2> QED
    BY <2>1 DEF StreamInv, StreamTypes, WaitingUnclaimed, ClaimsSound, LegsSound,
                LentSomewhere
<1> QED
  BY <1>1, <1>2, <1>3, AcceptKeeps, LeaveKeeps, WaitKeeps, DropClaimKeeps,
     StopWaitingKeeps, PickUpKeeps, HandKeeps, CopyKeeps DEF Next, Task

LEMMA StreamInit == Init => StreamInv
BY NoneAssumption DEF Init, StreamInv, StreamTypes, WaitingUnclaimed, ClaimsSound,
                      LegsSound, LentSomewhere, Places, Receiving

-----------------------------------------------------------------------------
LEMMA CallBecomes ==
    ASSUME NEW k \in Socks, NEW c, Call'[k] = c,
           \A j \in Socks \ {k} : Call'[j] = Call[j]
    PROVE  Call' = [Call EXCEPT ![k] = c]
<1>1. Call' = [j \in Socks |-> Call'[j]] /\ Call = [j \in Socks |-> Call[j]]
  BY DEF Call
<1> QED
  BY <1>1

\* A step that changes no stream's standing is a stutter of RelayPairing, or
\* a socket that is in no stream naming its rendezvous.
LEMMA QuietStep ==
    ASSUME StreamInv, NEW k \in Socks, NEW r \in Rendezvous,
           rend' = rend \/ (pc[k] = "opening" /\ rend' = [rend EXCEPT ![k] = r]),
           leg' = leg,
           \A j \in Socks : leg[j] = None =>
               (pc'[j] \in Receiving <=> pc[j] \in Receiving)
    PROVE  Pairing!Next \/ UNCHANGED Pairing!vars
<1>1. Call' = Call
  BY DEF Call
<1>2. CASE rend' = rend
  BY <1>1, <1>2 DEF Pairing!vars
<1>3. CASE pc[k] = "opening" /\ rend' = [rend EXCEPT ![k] = r]
  <2>1. Pairing!Idle(k)
    BY <1>3, NoneAssumption DEF Pairing!Idle, Call, StreamInv, StreamTypes, LegsSound,
                                Receiving
  <2> QED
    BY <1>1, <1>3, <2>1 DEF Pairing!Next, Pairing!Dial
<1> QED
  BY <1>2, <1>3

\* A Device's stream is over when its receiver is dropped, or its task is.
LEMMA OverStep ==
    ASSUME StreamInv, NEW k \in Socks, Leave(k) \/ DropClaim(k)
    PROVE  Pairing!Next \/ UNCHANGED Pairing!vars
<1> USE DEF StreamInv, StreamTypes, LegsSound, Leave, DropClaim, regVars, holdVars,
            Receiving
<1>1. leg' = [leg EXCEPT ![k] = None] /\ rend' = rend
  OBVIOUS
<1>2. Call' = [Call EXCEPT ![k] = "none"]
  <2>1. Call'[k] = "none"
    BY <1>1 DEF Call
  <2>2. \A j \in Socks \ {k} : Call'[j] = Call[j]
    BY <1>1, NoneAssumption DEF Call
  <2> QED
    BY <2>1, <2>2, CallBecomes
<1>3. CASE Call[k] = "none"
  <2>1. leg[k] = None
    BY <1>3 DEF Call
  <2>2. leg' = leg
    BY <1>1, <2>1
  <2>3. Call = [j \in Socks |-> Call[j]]
    BY DEF Call
  <2>4. Call' = Call
    BY <1>2, <1>3, <2>3
  <2> QED
    BY <1>1, <2>2, <2>4 DEF Pairing!vars
<1>4. CASE Call[k] # "none"
  BY <1>1, <1>2, <1>4 DEF Pairing!Next, Pairing!Over
<1> QED
  BY <1>3, <1>4

LEMMA WaitStep ==
    ASSUME StreamInv, NEW k \in Socks, Wait(k)
    PROVE  Pairing!Next \/ UNCHANGED Pairing!vars
<1> USE DEF StreamInv, StreamTypes, LegsSound, Wait, Go, regVars, holdVars, Receiving
<1>1. leg[k] = None /\ leg' = leg /\ rend' = rend
  OBVIOUS
<1>2. CASE pc' = [pc EXCEPT ![k] = "announcing"]
  <2>1. Call' = [Call EXCEPT ![k] = "offered"]
    <3>1. Call'[k] = "offered" /\ \A j \in Socks \ {k} : Call'[j] = Call[j]
      BY <1>1, <1>2 DEF Call
    <3> QED
      BY <3>1, CallBecomes
  <2>2. Pairing!Idle(k)
    BY <1>1, NoneAssumption DEF Pairing!Idle, Call
  <2> QED
    BY <1>1, <2>1, <2>2 DEF Pairing!Next, Pairing!Offer
<1>3. CASE pc' = [pc EXCEPT ![k] = "closing"]
  <2>1. Call' = Call
    BY <1>1, <1>3 DEF Call
  <2> QED
    BY <1>1, <2>1 DEF Pairing!vars
<1> QED
  BY <1>2, <1>3

LEMMA HandStep ==
    ASSUME StreamInv, NEW k \in Socks, Hand(k)
    PROVE  Pairing!Next \/ UNCHANGED Pairing!vars
<1> DEFINE d == claim[k]
<1> USE DEF StreamInv, StreamTypes, LegsSound, ClaimsSound, Hand, Go, regVars, holdVars,
            Receiving
<1>1. d \in Socks /\ d # k /\ rend[d] = rend[k] /\ leg[d] = None /\ leg[k] = None
  OBVIOUS
<1>2. CASE pc[d] \in Receiving
  <2>1. leg' = [leg EXCEPT ![d] = k] /\ rend' = rend /\ pc' = [pc EXCEPT ![k] = "lent"]
    BY <1>2
  <2>2. Call' = [Call EXCEPT ![d] = "joined"]
    <3>1. Call'[d] = "joined" /\ \A j \in Socks \ {d} : Call'[j] = Call[j]
      BY <1>1, <2>1, NoneAssumption DEF Call
    <3> QED
      BY <1>1, <3>1, CallBecomes
  <2>3. Call[d] = "offered"
    BY <1>1, <1>2 DEF Call
  <2>4. Pairing!Idle(k)
    BY <1>1, NoneAssumption DEF Pairing!Idle, Call
  <2>5. Pairing!Join(d, k)
    BY <1>1, <2>1, <2>2, <2>3, <2>4 DEF Pairing!Join
  <2> QED
    BY <1>1, <2>5 DEF Pairing!Next
<1>3. CASE pc[d] \notin Receiving
  <2>1. leg' = leg /\ rend' = rend /\ pc' = [pc EXCEPT ![k] = "closing"]
    BY <1>3
  <2>2. Call' = Call
    BY <1>1, <2>1 DEF Call
  <2> QED
    BY <2>1, <2>2 DEF Pairing!vars
<1> QED
  BY <1>2, <1>3

\* Every step of the Relay is one of RelayPairing, or a stutter of it.
LEMMA PairingStep ==
    ASSUME StreamInv, [Next]_vars
    PROVE  [Pairing!Next]_(Pairing!vars)
<1>0. ASSUME NEW k \in Socks,
             \/ \E ip \in Sources : Accept(k, ip)
             \/ RefuseHello(k) \/ StopReading(k) \/ Deregister(k) \/ Elapse(k)
             \/ EndCopy(k) \/ StopWaiting(k) \/ Copy(k)
             \/ \E w \in Socks : Announce(k, w)
             \/ \E e \in Socks : SayIncoming(k, e)
      PROVE  Pairing!Next \/ UNCHANGED Pairing!vars
  <2>1. leg' = leg /\ rend' = rend
    BY <1>0 DEF Accept, RefuseHello, StopReading, Deregister, Elapse, EndCopy,
                StopWaiting, Copy, Announce, SayIncoming, streamVars
  <2>2. ASSUME NEW j \in Socks, leg[j] = None
        PROVE  pc'[j] \in Receiving <=> pc[j] \in Receiving
    BY <1>0, <2>2 DEF Accept, RefuseHello, StopReading, Deregister, Elapse, EndCopy,
       StopWaiting, Copy, Announce, SayIncoming, Go, Receiving, StreamInv, StreamTypes
  <2>3. rend[k] \in Rendezvous
    BY DEF StreamInv, StreamTypes
  <2> QED
    BY <2>1, <2>2, <2>3, QuietStep
<1>1. ASSUME NEW k \in Socks, NEW r \in Rendezvous,
             \/ \E t \in Tokens : Register(k, r, t)
             \/ Look(k, r) \/ \E e \in Socks : PickUp(k, r, e)
      PROVE  Pairing!Next \/ UNCHANGED Pairing!vars
  <2>1. pc[k] = "opening" /\ rend' = [rend EXCEPT ![k] = r] /\ leg' = leg
    BY <1>1 DEF Register, Look, PickUp, streamVars
  <2>2. ASSUME NEW j \in Socks
        PROVE  pc'[j] \in Receiving <=> pc[j] \in Receiving
    BY <1>1 DEF Register, Look, PickUp, Go, Receiving, StreamInv, StreamTypes
  <2> QED
    BY <2>1, <2>2, QuietStep
<1>2. CASE UNCHANGED vars
  BY <1>2 DEF vars, Pairing!vars, Call
<1> QED
  BY <1>0, <1>1, <1>2, OverStep, WaitStep, HandStep DEF Next, Task

\* A handed-over socket is in one Device's hands.
LEMMA StreamInvSays ==
    ASSUME StreamInv
    PROVE  LentIsHeld
BY NoneAssumption DEF StreamInv, StreamTypes, LegsSound, LentSomewhere, LentIsHeld

\* No socket is lost between two tasks, or joined twice, whatever the limits.
THEOREM LentHeld == Spec => []LentIsHeld
<1>1. StreamInv /\ [Next]_vars => StreamInv'
  BY StreamStep
<1>2. StreamInv => LentIsHeld
  BY StreamInvSays
<1> QED
  BY <1>1, <1>2, StreamInit, PTL DEF Spec

\* The Relay implements RelayPairing: a Device's stream is picked up once, by
\* one socket of its own rendezvous, and stays that one's until it is over.
THEOREM RelayPairs == Spec => KeepsPairing
<1>1. Init => Pairing!Init
  BY DEF Init, Pairing!Init, Call, Receiving
<1>2. StreamInv /\ [Next]_vars => StreamInv'
  BY StreamStep
<1>3. StreamInv /\ [Next]_vars => [Pairing!Next]_(Pairing!vars)
  BY PairingStep
<1> QED
  BY <1>1, <1>2, <1>3, StreamInit, PTL DEF Spec, KeepsPairing, Pairing!Spec

-----------------------------------------------------------------------------
(* What is counted is there, for any number of sockets and any limits.     *)

AtRegs == {"registered", "leaving"}
Counted(ip) == {k \in Running : from[k] = ip}
Under(t) == {k \in Socks : pc[k] \in AtRegs /\ token[k] = t}

SlotsHeld == slots \in Nat /\ IsFiniteSet(Running) /\ slots + Cardinality(Running) = MaxConns

SourcesHeld ==
    /\ from \in [Socks -> Sources \cup {None}] /\ perSource \in [Sources -> 0..MaxPerSource]
    /\ \A k \in Running : from[k] \in Sources
    /\ \A ip \in Sources : perSource[ip] = Cardinality(Counted(ip))

RegsHeld ==
    /\ regs \in [Rendezvous -> SUBSET Socks]
    /\ \A r \in Rendezvous : regs[r] = {k \in Socks : pc[k] \in AtRegs /\ rend[k] = r}

TokensHeld ==
    /\ token \in [Socks -> Tokens \cup {None}] /\ perToken \in [Tokens -> 0..MaxPerToken]
    /\ \A k \in Socks : pc[k] \in AtRegs => token[k] \in Tokens
    /\ \A t \in Tokens : perToken[t] = Cardinality(Under(t))

WaitersBounded == \A r \in Rendezvous : Cardinality(WaitingAt(r)) <= MaxWaiting

HoldInv == StreamInv /\ SlotsHeld /\ SourcesHeld /\ RegsHeld /\ TokensHeld /\ WaitersBounded

\* What a step does to the permits: a task began, or ended, or neither did.
Kept == Running' = Running /\ UNCHANGED holdVars
Began(k, ip) ==
    /\ k \notin Running /\ Running' = Running \cup {k}
    /\ slots > 0 /\ slots' = slots - 1
    /\ perSource[ip] < MaxPerSource /\ perSource' = [perSource EXCEPT ![ip] = @ + 1]
    /\ from' = [from EXCEPT ![k] = ip]
Ended(k) == k \in Running /\ Running' = Running \ {k} /\ GiveBack(k)

(* A permit is taken by the accept, and given back by the task's end or by *)
(* the handing over of its socket, and by nothing else (serve_counting,    *)
(* SourceHold::drop).                                                      *)
LEMMA RunningSteps ==
    ASSUME StreamInv, [Next]_vars
    PROVE  \/ Kept \/ \E k \in Socks : Ended(k) \/ \E ip \in Sources : Began(k, ip)
<1> USE DEF StreamInv, StreamTypes, Running, Go
<1>1. ASSUME NEW k \in Socks, NEW ip \in Sources, Accept(k, ip)
      PROVE  Began(k, ip)
  BY <1>1 DEF Accept, Began
<1>2. ASSUME NEW k \in Socks, Leave(k)
      PROVE  Ended(k)
  <2>1. leg[k] # None => pc[leg[k]] = "lent"
    BY DEF LegsSound
  <2>2. \A j \in Socks : pc'[j] = IF j \in {k, leg[k]} THEN "closed" ELSE pc[j]
    BY <1>2 DEF Leave
  <2>3. k \in Running /\ Running' = Running \ {k}
    BY <1>2, <2>1, <2>2, NoneAssumption DEF Leave
  <2> QED
    BY <1>2, <2>3 DEF Leave, Ended
<1>3. ASSUME NEW k \in Socks, Hand(k)
      PROVE  Kept \/ Ended(k)
  <2>1. CASE pc[claim[k]] \in Receiving
    BY <1>3, <2>1 DEF Hand, Ended
  <2>2. CASE pc[claim[k]] \notin Receiving
    BY <1>3, <2>2 DEF Hand, Kept
  <2> QED
    BY <2>1, <2>2
<1>4. ASSUME NEW k \in Socks, DropClaim(k)
      PROVE  Kept
  <2>1. leg[k] # None => pc[leg[k]] = "lent"
    BY DEF LegsSound
  <2>2. \A j \in Socks : pc'[j] = IF j = k THEN "lapsed" ELSE IF j = leg[k] THEN "closed" ELSE pc[j]
    BY <1>4 DEF DropClaim
  <2>3. Running' = Running
    BY <1>4, <2>1, <2>2, NoneAssumption DEF DropClaim
  <2> QED
    BY <1>4, <2>3 DEF DropClaim, Kept, holdVars
<1>5. ASSUME NEW k \in Socks,
             \/ RefuseHello(k) \/ Deregister(k) \/ Wait(k) \/ Elapse(k) \/ StopWaiting(k)
             \/ Copy(k) \/ StopReading(k) \/ EndCopy(k)
             \/ \E w \in Socks : Announce(k, w) \/ SayIncoming(k, w)
      PROVE  Kept
  BY <1>5 DEF RefuseHello, Deregister, Wait, Elapse, StopWaiting, Copy, StopReading,
              EndCopy, Announce, SayIncoming, Kept, holdVars
<1>6. ASSUME NEW k \in Socks, NEW r \in Rendezvous,
             \/ \E t \in Tokens : Register(k, r, t)
             \/ Look(k, r) \/ \E d \in Socks : PickUp(k, r, d)
      PROVE  Kept
  BY <1>6 DEF Register, Look, PickUp, Kept, holdVars
<1>7. CASE UNCHANGED vars
  BY <1>7 DEF vars, Kept, holdVars
<1> QED
  BY <1>1, <1>2, <1>3, <1>4, <1>5, <1>6, <1>7 DEF Next, Task

(* The permits that are out are the running tasks'.                        *)
LEMMA SlotsKept ==
    ASSUME HoldInv, [Next]_vars
    PROVE  SlotsHeld'
<1>0. SlotsHeld /\ StreamInv
  BY DEF HoldInv
<1>1. CASE Kept
  BY <1>0, <1>1 DEF Kept, SlotsHeld, holdVars
<1>2. ASSUME NEW k \in Socks, NEW ip \in Sources, Began(k, ip)
      PROVE  SlotsHeld'
  <2>1. IsFiniteSet(Running') /\ Cardinality(Running') = Cardinality(Running) + 1
    BY <1>0, <1>2, FS_AddElement DEF Began, SlotsHeld
  <2>2. Cardinality(Running) \in Nat
    BY <1>0, FS_CardinalityType DEF SlotsHeld
  <2>3. slots' \in Nat /\ slots' = slots - 1
    BY <1>0, <1>2 DEF Began, SlotsHeld
  <2> QED
    BY <1>0, <2>1, <2>2, <2>3 DEF SlotsHeld
<1>3. ASSUME NEW k \in Socks, Ended(k)
      PROVE  SlotsHeld'
  <2>1. IsFiniteSet(Running') /\ Cardinality(Running') = Cardinality(Running) - 1
    BY <1>0, <1>3, FS_RemoveElement DEF Ended, SlotsHeld
  <2>2. Cardinality(Running) \in Nat
    BY <1>0, FS_CardinalityType DEF SlotsHeld
  <2>3. slots' = slots + 1
    BY <1>3 DEF Ended, GiveBack
  <2> QED
    BY <1>0, <2>1, <2>2, <2>3 DEF SlotsHeld
<1> QED
  BY <1>0, <1>1, <1>2, <1>3, RunningSteps

(* A source's count is of its own sockets' running tasks.                  *)
LEMMA SourcesKept ==
    ASSUME HoldInv, [Next]_vars
    PROVE  SourcesHeld'
<1>0. SourcesHeld /\ StreamInv /\ IsFiniteSet(Running) /\ Running \subseteq Socks
  BY DEF HoldInv, SlotsHeld, Running
<1>f. \A ip \in Sources : IsFiniteSet(Counted(ip)) /\ Cardinality(Counted(ip)) \in Nat
  BY <1>0, FS_Subset, FS_CardinalityType DEF Counted
<1>1. CASE Kept
  <2>1. \A ip \in Sources : Counted(ip)' = Counted(ip)
    BY <1>1 DEF Kept, Counted, holdVars
  <2> QED
    BY <1>0, <1>1, <2>1 DEF Kept, SourcesHeld, holdVars
<1>2. ASSUME NEW k \in Socks, NEW ip \in Sources, Began(k, ip)
      PROVE  SourcesHeld'
  <2>1. from' \in [Socks -> Sources \cup {None}] /\ from'[k] = ip
        /\ \A j \in Socks \ {k} : from'[j] = from[j]
    BY <1>0, <1>2 DEF Began, SourcesHeld
  <2>2. Counted(ip)' = Counted(ip) \cup {k} /\ k \notin Counted(ip)
    BY <1>0, <1>2, <2>1 DEF Began, Counted
  <2>3. \A jp \in Sources \ {ip} : Counted(jp)' = Counted(jp)
    BY <1>0, <1>2, <2>1 DEF Began, Counted
  <2>4. Cardinality(Counted(ip)') = Cardinality(Counted(ip)) + 1
    BY <1>f, <2>2, FS_AddElement
  <2>5. /\ perSource' \in [Sources -> 0..MaxPerSource] /\ perSource'[ip] = perSource[ip] + 1
        /\ \A jp \in Sources \ {ip} : perSource'[jp] = perSource[jp]
    BY <1>0, <1>2, LimitsAssumption DEF Began, SourcesHeld
  <2>6. \A j \in Running' : from'[j] \in Sources
    BY <1>0, <1>2, <2>1 DEF Began, SourcesHeld
  <2>7. \A jp \in Sources : perSource'[jp] = Cardinality(Counted(jp)')
    BY <1>0, <2>3, <2>4, <2>5 DEF SourcesHeld
  <2> QED
    BY <2>1, <2>5, <2>6, <2>7 DEF SourcesHeld
<1>3. ASSUME NEW k \in Socks, Ended(k)
      PROVE  SourcesHeld'
  <2>0. PICK ip \in Sources : ip = from[k]
    BY <1>0, <1>3 DEF Ended, SourcesHeld
  <2>1. from' \in [Socks -> Sources \cup {None}] /\ \A j \in Socks \ {k} : from'[j] = from[j]
    BY <1>0, <1>3 DEF Ended, GiveBack, SourcesHeld
  <2>2. \A jp \in Sources \ {ip} : Counted(jp)' = Counted(jp)
    BY <1>0, <1>3, <2>0, <2>1 DEF Ended, Counted
  <2>3. Counted(ip)' = Counted(ip) \ {k} /\ k \in Counted(ip)
    <3>1. from'[k] \notin Sources
      BY <1>0, <1>3, NoneAssumption DEF Ended, GiveBack, SourcesHeld
    <3> QED
      BY <1>0, <1>3, <2>0, <2>1, <3>1 DEF Ended, Counted
  <2>4. Cardinality(Counted(ip)') = Cardinality(Counted(ip)) - 1
    <3>1. IsFiniteSet(Counted(ip))
      BY <1>f
    <3> QED
      BY <2>3, <3>1, FS_RemoveElement
  <2>5. Cardinality(Counted(ip)) > 0
    BY <1>f, <2>3, FS_EmptySet
  <2>6. perSource[ip] = Cardinality(Counted(ip)) /\ perSource[ip] \in 0..MaxPerSource
    BY <1>0 DEF SourcesHeld
  <2>7. /\ perSource' \in [Sources -> 0..MaxPerSource] /\ perSource'[ip] = perSource[ip] - 1
        /\ \A jp \in Sources \ {ip} : perSource'[jp] = perSource[jp]
    <3>1. perSource' = [perSource EXCEPT ![ip] = @ - 1]
      BY <1>3, <2>0 DEF Ended, GiveBack
    <3>2. perSource[ip] - 1 \in 0..MaxPerSource
      BY <2>5, <2>6, LimitsAssumption
    <3>3. perSource \in [Sources -> 0..MaxPerSource]
      BY <1>0 DEF SourcesHeld
    <3> QED
      BY <3>1, <3>2, <3>3
  <2>8. \A j \in Running' : from'[j] \in Sources
    BY <1>0, <1>3, <2>1 DEF Ended, SourcesHeld
  <2>9. \A jp \in Sources : perSource'[jp] = Cardinality(Counted(jp)')
    BY <1>0, <2>2, <2>4, <2>6, <2>7 DEF SourcesHeld
  <2> QED
    BY <2>1, <2>7, <2>8, <2>9 DEF SourcesHeld
<1> QED
  BY <1>0, <1>1, <1>2, <1>3, RunningSteps

\* What a step does to the registrations: one is made, or ends, or neither.
RegsStay ==
    /\ UNCHANGED regVars
    /\ \A j \in Socks : /\ pc'[j] \in AtRegs <=> pc[j] \in AtRegs
                        /\ pc[j] \in AtRegs => rend'[j] = rend[j]
RegBegan(k, r, t) ==
    /\ pc[k] \notin AtRegs /\ pc'[k] \in AtRegs /\ rend'[k] = r
    /\ \A j \in Socks \ {k} : pc'[j] = pc[j] /\ rend'[j] = rend[j]
    /\ token' = [token EXCEPT ![k] = t]
    /\ regs' = [regs EXCEPT ![r] = @ \cup {k}]
    /\ perToken[t] < MaxPerToken /\ perToken' = [perToken EXCEPT ![t] = @ + 1]
RegEnded(k) ==
    /\ pc[k] \in AtRegs /\ pc'[k] \notin AtRegs /\ rend' = rend
    /\ \A j \in Socks \ {k} : pc'[j] = pc[j]
    /\ token' = [token EXCEPT ![k] = None]
    /\ regs' = [regs EXCEPT ![rend[k]] = @ \ {k}]
    /\ perToken' = [perToken EXCEPT ![token[k]] = @ - 1]

(* A registration is counted when it is made and uncounted when its task   *)
(* takes it out, and by nothing else (workstation, Registered::drop).      *)
LEMMA RegSteps ==
    ASSUME StreamInv, [Next]_vars
    PROVE  \/ RegsStay
           \/ \E k \in Socks : RegEnded(k) \/ \E r \in Rendezvous, t \in Tokens : RegBegan(k, r, t)
<1> USE DEF StreamInv, StreamTypes, AtRegs, Go
<1>1. ASSUME NEW k \in Socks, NEW r \in Rendezvous, NEW t \in Tokens, Register(k, r, t)
      PROVE  RegsStay \/ RegBegan(k, r, t)
  <2>1. CASE Cardinality(regs[r]) < MaxRegs /\ perToken[t] < MaxPerToken
    BY <1>1, <2>1 DEF Register, RegBegan
  <2>2. CASE ~(Cardinality(regs[r]) < MaxRegs /\ perToken[t] < MaxPerToken)
    BY <1>1, <2>2 DEF Register, RegsStay, regVars
  <2> QED
    BY <2>1, <2>2
<1>2. ASSUME NEW k \in Socks, Deregister(k)
      PROVE  RegEnded(k)
  BY <1>2 DEF Deregister, RegEnded
<1>3. ASSUME NEW k \in Socks, Leave(k) \/ DropClaim(k)
      PROVE  RegsStay
  <2>1. leg[k] # None => pc[leg[k]] = "lent"
    BY DEF LegsSound
  <2>2. CASE Leave(k)
    BY <2>1, <2>2, NoneAssumption DEF Leave, RegsStay, regVars
  <2>3. CASE DropClaim(k)
    BY <2>1, <2>3, NoneAssumption DEF DropClaim, RegsStay, regVars
  <2> QED
    BY <1>3, <2>2, <2>3
<1>4. ASSUME NEW k \in Socks,
             \/ RefuseHello(k) \/ Wait(k) \/ Elapse(k) \/ StopWaiting(k) \/ Copy(k)
             \/ StopReading(k) \/ EndCopy(k) \/ Hand(k)
             \/ \E w \in Socks : Announce(k, w) \/ SayIncoming(k, w)
             \/ \E ip \in Sources : Accept(k, ip)
      PROVE  RegsStay
  BY <1>4 DEF RefuseHello, Wait, Elapse, StopWaiting, Copy, StopReading, EndCopy, Hand,
              Announce, SayIncoming, Accept, RegsStay, regVars
<1>5. ASSUME NEW k \in Socks, NEW r \in Rendezvous,
             Look(k, r) \/ \E d \in Socks : PickUp(k, r, d)
      PROVE  RegsStay
  BY <1>5 DEF Look, PickUp, RegsStay, regVars
<1>6. CASE UNCHANGED vars
  BY <1>6 DEF vars, RegsStay, regVars
<1> QED
  BY <1>1, <1>2, <1>3, <1>4, <1>5, <1>6 DEF Next, Task

(* The registrations listed are the tasks that are registered.             *)
LEMMA RegsKept ==
    ASSUME HoldInv, [Next]_vars
    PROVE  RegsHeld'
<1>0. RegsHeld /\ StreamInv /\ rend \in [Socks -> Rendezvous]
  BY DEF HoldInv, StreamInv, StreamTypes
<1>1. CASE RegsStay
  BY <1>0, <1>1 DEF RegsStay, RegsHeld, regVars
<1>2. ASSUME NEW k \in Socks, NEW r \in Rendezvous, NEW t \in Tokens, RegBegan(k, r, t)
      PROVE  RegsHeld'
  <2>1. /\ regs' \in [Rendezvous -> SUBSET Socks] /\ regs'[r] = regs[r] \cup {k}
        /\ \A s \in Rendezvous \ {r} : regs'[s] = regs[s]
    BY <1>0, <1>2 DEF RegBegan, RegsHeld
  <2> QED
    BY <1>0, <1>2, <2>1 DEF RegBegan, RegsHeld
<1>3. ASSUME NEW k \in Socks, RegEnded(k)
      PROVE  RegsHeld'
  <2>1. /\ regs' \in [Rendezvous -> SUBSET Socks] /\ regs'[rend[k]] = regs[rend[k]] \ {k}
        /\ \A s \in Rendezvous \ {rend[k]} : regs'[s] = regs[s]
    BY <1>0, <1>3 DEF RegEnded, RegsHeld
  <2> QED
    BY <1>0, <1>3, <2>1 DEF RegEnded, RegsHeld
<1> QED
  BY <1>0, <1>1, <1>2, <1>3, RegSteps

(* A token's count is of the registrations made with it.                   *)
LEMMA TokensKept ==
    ASSUME HoldInv, [Next]_vars
    PROVE  TokensHeld'
<1>0. TokensHeld /\ StreamInv /\ IsFiniteSet(Running)
  BY DEF HoldInv, SlotsHeld
<1>f. \A t \in Tokens : IsFiniteSet(Under(t)) /\ Cardinality(Under(t)) \in Nat
  <2>1. \A t \in Tokens : Under(t) \in SUBSET Running
    BY DEF Under, AtRegs, Running
  <2> QED
    BY <1>0, <2>1, FS_Subset, FS_CardinalityType
<1>1. CASE RegsStay
  <2>1. \A t \in Tokens : Under(t)' = Under(t)
    BY <1>1 DEF RegsStay, Under, regVars
  <2> QED
    BY <1>0, <1>1, <2>1 DEF RegsStay, TokensHeld, regVars
<1>2. ASSUME NEW k \in Socks, NEW r \in Rendezvous, NEW t \in Tokens, RegBegan(k, r, t)
      PROVE  TokensHeld'
  <2>1. token' \in [Socks -> Tokens \cup {None}] /\ token'[k] = t
        /\ \A j \in Socks \ {k} : token'[j] = token[j]
    BY <1>0, <1>2 DEF RegBegan, TokensHeld
  <2>2. Under(t)' = Under(t) \cup {k} /\ k \notin Under(t)
    BY <1>2, <2>1 DEF RegBegan, Under
  <2>3. \A u \in Tokens \ {t} : Under(u)' = Under(u)
    BY <1>2, <2>1 DEF RegBegan, Under
  <2>4. Cardinality(Under(t)') = Cardinality(Under(t)) + 1
    BY <1>f, <2>2, FS_AddElement
  <2>5. /\ perToken' \in [Tokens -> 0..MaxPerToken] /\ perToken'[t] = perToken[t] + 1
        /\ \A u \in Tokens \ {t} : perToken'[u] = perToken[u]
    BY <1>0, <1>2, LimitsAssumption DEF RegBegan, TokensHeld
  <2>6. \A j \in Socks : pc'[j] \in AtRegs => token'[j] \in Tokens
    BY <1>0, <1>2, <2>1 DEF RegBegan, TokensHeld
  <2>7. \A u \in Tokens : perToken'[u] = Cardinality(Under(u)')
    BY <1>0, <2>3, <2>4, <2>5 DEF TokensHeld
  <2> QED
    BY <2>1, <2>5, <2>6, <2>7 DEF TokensHeld
<1>3. ASSUME NEW k \in Socks, RegEnded(k)
      PROVE  TokensHeld'
  <2>0. PICK t \in Tokens : t = token[k]
    BY <1>0, <1>3 DEF RegEnded, TokensHeld
  <2>1. /\ token' \in [Socks -> Tokens \cup {None}] /\ token'[k] = None
        /\ \A j \in Socks \ {k} : token'[j] = token[j]
    BY <1>0, <1>3 DEF RegEnded, TokensHeld
  <2>2. Under(t)' = Under(t) \ {k} /\ k \in Under(t)
    BY <1>3, <2>0, <2>1 DEF RegEnded, Under
  <2>3. \A u \in Tokens \ {t} : Under(u)' = Under(u)
    BY <1>3, <2>0, <2>1, NoneAssumption DEF RegEnded, Under
  <2>4. Cardinality(Under(t)') = Cardinality(Under(t)) - 1
    BY <1>f, <2>2, FS_RemoveElement
  <2>5. Cardinality(Under(t)) > 0
    BY <1>f, <2>2, FS_EmptySet
  <2>6. perToken[t] = Cardinality(Under(t)) /\ perToken[t] \in 0..MaxPerToken
    BY <1>0 DEF TokensHeld
  <2>7. /\ perToken' \in [Tokens -> 0..MaxPerToken] /\ perToken'[t] = perToken[t] - 1
        /\ \A u \in Tokens \ {t} : perToken'[u] = perToken[u]
    <3>1. perToken' = [perToken EXCEPT ![t] = @ - 1]
      BY <1>3, <2>0 DEF RegEnded
    <3>2. perToken[t] - 1 \in 0..MaxPerToken
      BY <2>5, <2>6, LimitsAssumption
    <3>3. perToken \in [Tokens -> 0..MaxPerToken]
      BY <1>0 DEF TokensHeld
    <3> QED
      BY <3>1, <3>2, <3>3
  <2>8. \A j \in Socks : pc'[j] \in AtRegs => token'[j] \in Tokens
    BY <1>0, <1>3, <2>1 DEF RegEnded, TokensHeld
  <2>9. \A u \in Tokens : perToken'[u] = Cardinality(Under(u)')
    BY <1>0, <2>3, <2>4, <2>6, <2>7 DEF TokensHeld
  <2> QED
    BY <2>1, <2>7, <2>8, <2>9 DEF TokensHeld
<1> QED
  BY <1>0, <1>1, <1>2, <1>3, RegSteps

(* A Device joins the waiting of its rendezvous when there is room, and    *)
(* every other step leaves as many waiting or fewer.                       *)
LEMMA WaitingSteps ==
    ASSUME StreamInv, [Next]_vars
    PROVE  \/ \A r \in Rendezvous : WaitingAt(r)' \subseteq WaitingAt(r)
           \/ \E k \in Socks :
                 /\ Cardinality(WaitingAt(rend[k])) < MaxWaiting /\ rend' = rend
                 /\ waiting' = waiting \cup {k}
<1> USE DEF StreamInv, StreamTypes, WaitingAt
<1>1. ASSUME NEW k \in Socks, Wait(k)
      PROVE  \/ \A r \in Rendezvous : WaitingAt(r)' \subseteq WaitingAt(r)
             \/ /\ Cardinality(WaitingAt(rend[k])) < MaxWaiting /\ rend' = rend
                /\ waiting' = waiting \cup {k}
  BY <1>1 DEF Wait
<1>2. ASSUME NEW k \in Socks, NEW r \in Rendezvous,
             \/ \E t \in Tokens : Register(k, r, t)
             \/ Look(k, r) \/ \E d \in Socks : PickUp(k, r, d)
      PROVE  \A s \in Rendezvous : WaitingAt(s)' \subseteq WaitingAt(s)
  <2>1. pc[k] = "opening" /\ rend' = [rend EXCEPT ![k] = r] /\ waiting' \subseteq waiting
    BY <1>2 DEF Register, Look, PickUp, streamVars
  <2>2. k \notin waiting
    BY <2>1 DEF WaitingUnclaimed, Receiving
  <2> QED
    BY <2>1, <2>2
<1>3. CASE waiting' \subseteq waiting /\ rend' = rend
  BY <1>3
<1>4. ASSUME NEW k \in Socks,
             \/ \E ip \in Sources : Accept(k, ip)
             \/ RefuseHello(k) \/ Leave(k) \/ Deregister(k) \/ Elapse(k) \/ DropClaim(k)
             \/ StopWaiting(k) \/ Hand(k) \/ Copy(k) \/ StopReading(k) \/ EndCopy(k)
             \/ \E w \in Socks : Announce(k, w) \/ SayIncoming(k, w)
      PROVE  waiting' \subseteq waiting /\ rend' = rend
  BY <1>4 DEF Accept, RefuseHello, Leave, Deregister, Elapse, DropClaim, StopWaiting, Hand,
              Copy, StopReading, EndCopy, Announce, SayIncoming, streamVars
<1>5. CASE UNCHANGED vars
  BY <1>5 DEF vars
<1> QED
  BY <1>1, <1>2, <1>3, <1>4, <1>5 DEF Next, Task

(* No rendezvous has more Devices waiting than may.                        *)
LEMMA WaitersKept ==
    ASSUME HoldInv, [Next]_vars
    PROVE  WaitersBounded'
<1>0. StreamInv /\ WaitersBounded /\ IsFiniteSet(Running) /\ rend \in [Socks -> Rendezvous]
  BY DEF HoldInv, SlotsHeld, StreamInv, StreamTypes
<1>f. \A r \in Rendezvous : IsFiniteSet(WaitingAt(r)) /\ Cardinality(WaitingAt(r)) \in Nat
  <2>1. \A r \in Rendezvous : WaitingAt(r) \in SUBSET Running
    BY <1>0 DEF StreamInv, StreamTypes, WaitingUnclaimed, WaitingAt, Receiving, Running
  <2> QED
    BY <1>0, <2>1, FS_Subset, FS_CardinalityType
<1>m. MaxWaiting \in Nat
  BY LimitsAssumption
<1>1. CASE \A r \in Rendezvous : WaitingAt(r)' \subseteq WaitingAt(r)
  <2> SUFFICES ASSUME NEW r \in Rendezvous PROVE Cardinality(WaitingAt(r)') <= MaxWaiting
    BY DEF WaitersBounded
  <2>1. IsFiniteSet(WaitingAt(r)') /\ Cardinality(WaitingAt(r)') <= Cardinality(WaitingAt(r))
    BY <1>1, <1>f, FS_Subset
  <2>2. Cardinality(WaitingAt(r)') \in Nat
    BY <2>1, FS_CardinalityType
  <2> QED
    BY <1>0, <1>f, <1>m, <2>1, <2>2 DEF WaitersBounded
<1>2. ASSUME NEW k \in Socks, Cardinality(WaitingAt(rend[k])) < MaxWaiting, rend' = rend,
             waiting' = waiting \cup {k}
      PROVE  WaitersBounded'
  <2> SUFFICES ASSUME NEW r \in Rendezvous PROVE Cardinality(WaitingAt(r)') <= MaxWaiting
    BY DEF WaitersBounded
  <2>1. CASE r = rend[k]
    <3>1. WaitingAt(r)' = WaitingAt(r) \cup {k}
      BY <1>2, <2>1 DEF WaitingAt
    <3>2. Cardinality(WaitingAt(r)') <= Cardinality(WaitingAt(r)) + 1
      <4>1. \/ Cardinality(WaitingAt(r)') = Cardinality(WaitingAt(r))
            \/ Cardinality(WaitingAt(r)') = Cardinality(WaitingAt(r)) + 1
        BY <1>f, <3>1, FS_AddElement
      <4> QED
        BY <1>f, <4>1
    <3>3. IsFiniteSet(WaitingAt(r)') /\ Cardinality(WaitingAt(r)') \in Nat
      BY <1>f, <3>1, FS_AddElement, FS_CardinalityType
    <3>4. Cardinality(WaitingAt(r)) < MaxWaiting
      BY <1>2, <2>1
    <3> QED
      BY <1>f, <1>m, <3>2, <3>3, <3>4
  <2>2. CASE r # rend[k]
    <3>1. WaitingAt(r)' = WaitingAt(r)
      BY <1>2, <2>2 DEF WaitingAt
    <3> QED
      BY <1>0, <3>1 DEF WaitersBounded
  <2> QED
    BY <2>1, <2>2
<1> QED
  BY <1>0, <1>1, <1>2, WaitingSteps

(* At the start nothing is counted and nothing is there.                   *)
LEMMA HoldInit == Init => HoldInv
<1> SUFFICES ASSUME Init PROVE HoldInv
  OBVIOUS
<1>0. MaxConns \in Nat /\ MaxPerSource \in Nat /\ MaxPerToken \in Nat /\ MaxWaiting \in Nat
  BY LimitsAssumption
<1>1. Running = {}
  BY DEF Init, Running
<1>2. SlotsHeld
  BY <1>0, <1>1, FS_EmptySet DEF Init, SlotsHeld
<1>3. SourcesHeld
  <2>1. \A ip \in Sources : Counted(ip) = {}
    BY <1>1 DEF Counted
  <2>2. \A ip \in Sources : perSource[ip] = 0 /\ Cardinality(Counted(ip)) = 0
    BY <2>1, FS_EmptySet DEF Init
  <2>3. from \in [Socks -> Sources \cup {None}] /\ perSource \in [Sources -> 0..MaxPerSource]
    BY <1>0 DEF Init
  <2> QED
    BY <1>1, <2>2, <2>3 DEF SourcesHeld
<1>4. RegsHeld
  BY DEF Init, RegsHeld, AtRegs
<1>5. TokensHeld
  <2>1. \A t \in Tokens : Under(t) = {}
    BY DEF Init, Under, AtRegs
  <2>2. \A t \in Tokens : perToken[t] = 0 /\ Cardinality(Under(t)) = 0
    BY <2>1, FS_EmptySet DEF Init
  <2>3. token \in [Socks -> Tokens \cup {None}] /\ perToken \in [Tokens -> 0..MaxPerToken]
    BY <1>0 DEF Init
  <2>4. \A k \in Socks : pc[k] \notin AtRegs
    BY DEF Init, AtRegs
  <2> QED
    BY <2>2, <2>3, <2>4 DEF TokensHeld
<1>6. WaitersBounded
  <2>1. \A r \in Rendezvous : WaitingAt(r) = {}
    BY DEF Init, WaitingAt
  <2>2. \A r \in Rendezvous : Cardinality(WaitingAt(r)) = 0
    BY <2>1, FS_EmptySet
  <2> QED
    BY <1>0, <2>2 DEF WaitersBounded
<1> QED
  BY <1>2, <1>3, <1>4, <1>5, <1>6, StreamInit DEF HoldInv

(* Every permit, source count, registration, token count and waiting place *)
(* that is out is held by a task that is there, whichever way the tasks    *)
(* before it ended, for any number of sockets and any limits (server.rs:   *)
(* serve_counting, SourceHold::drop, workstation, Registered::drop,        *)
(* device).                                                                *)
THEOREM HoldsKept == Spec => []HoldsAreHeld
<1>1. HoldInv /\ [Next]_vars => HoldInv'
  <2> SUFFICES ASSUME HoldInv, [Next]_vars PROVE HoldInv'
    OBVIOUS
  <2>1. StreamInv'
    BY StreamStep DEF HoldInv
  <2> QED
    BY <2>1, SlotsKept, SourcesKept, RegsKept, TokensKept, WaitersKept DEF HoldInv
<1>2. HoldInv => HoldsAreHeld
  BY DEF HoldInv, HoldsAreHeld, SlotsHeld, SourcesHeld, RegsHeld, TokensHeld, WaitersBounded,
         Counted, Under, AtRegs, StreamInv, WaitingUnclaimed
<1> QED
  BY <1>1, <1>2, HoldInit, PTL DEF Spec
=============================================================================
