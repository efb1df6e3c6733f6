-------------------------- MODULE Ownership_proofs --------------------------
(***************************************************************************)
(* The safety of session ownership, for any sessions, Devices, connections *)
(* and delays: of the arbiter alone (OwnerRequests), of the arbiter with   *)
(* the connections and the trust rows around it (DeviceLink), and of a     *)
(* window that acts on its own copy of the owners (OwnerWindow).  All      *)
(* three rest on what one operation of the arbiter does: OwnerStep.        *)
(*                                                                         *)
(* DeviceLink's inductive invariant is LinkInv: the table matches the      *)
(* threads, a revocation that has marked the row finds it marked, and so   *)
(* every entry it did not find belongs to a thread about to be refused.    *)
(* OwnerWindow's is WindowInv: a gesture on its way names the holder the   *)
(* human saw, and one told "busy" names that very holder.                  *)
(***************************************************************************)
EXTENDS DeviceLink, OwnerRequests, OwnerWindow, TLAPS

-----------------------------------------------------------------------------
(* What the operations of the arbiter do. *)

\* Any one operation of the arbiter.
OwnerStep ==
    \/ \E s \in Sessions : DeskInput(s) \/ SessionEnded(s)
    \/ \E s \in Sessions, d \in Devices : DeviceInput(d, s) \/ Started(d, s)
    \/ \E s \in Sessions, caller, to, expect \in Holders, force \in BOOLEAN,
          live \in SUBSET Devices : SetOwner(caller, s, to, expect, force, live)
    \/ \E d \in Devices : DeviceAway(d) \/ DeviceBack(d) \/ ReleaseDevice(d)
    \/ Lapse
    \/ Second

\* No session gains an owner outside D, and none of the others' releases is
\* called off: the effect a change of owner has on the rest of the daemon.
GrantsOnly(D) ==
    \A s \in Sessions :
        \/ /\ owner'[s] = owner[s]
           /\ releasesIn'[s] = NoRelease => releasesIn[s] = NoRelease
        \/ owner'[s] \in D \cup {Desk}

\* Every operation keeps the types of the arbiter's four maps.
LEMMA OwnerStepTypes ==
    ASSUME OwnersTypeOK, OwnerStep
    PROVE  OwnersTypeOK'
<1>1. ASSUME NEW s \in Sessions, DeskInput(s) \/ SessionEnded(s)
      PROVE  OwnersTypeOK'
  BY <1>1, BusyAssumption, GraceAssumption
     DEF DeskInput, SessionEnded, Forget, OwnersTypeOK, Holders, Quiet, NoRelease
<1>2. ASSUME NEW s \in Sessions, NEW d \in Devices, DeviceInput(d, s) \/ Started(d, s)
      PROVE  OwnersTypeOK'
  BY <1>2, BusyAssumption, GraceAssumption
     DEF DeviceInput, Started, Take, ownerVars, OwnersTypeOK, Holders, Quiet, NoRelease
<1>3. ASSUME NEW s \in Sessions, NEW caller \in Holders, NEW to \in Holders,
             NEW expect \in Holders, NEW force \in BOOLEAN, NEW live \in SUBSET Devices,
             SetOwner(caller, s, to, expect, force, live)
      PROVE  OwnersTypeOK'
  BY <1>3, BusyAssumption, GraceAssumption
     DEF SetOwner, Take, Forget, ownerVars, OwnersTypeOK, Holders, Quiet, NoRelease
<1>4. ASSUME NEW d \in Devices, DeviceAway(d) \/ DeviceBack(d) \/ ReleaseDevice(d)
      PROVE  OwnersTypeOK'
  BY <1>4, BusyAssumption, GraceAssumption
     DEF DeviceAway, DeviceBack, ReleaseDevice, Forget, OwnersTypeOK, Holders,
         Quiet, NoRelease
<1>5. CASE Lapse
  BY <1>5, BusyAssumption, GraceAssumption
     DEF Lapse, Forget, OwnersTypeOK, Holders, Quiet, NoRelease
<1>6. CASE Second
  BY <1>6, BusyAssumption, GraceAssumption
     DEF Second, Older, OwnersTypeOK, Holders, Quiet, NoRelease
<1> QED
  BY <1>1, <1>2, <1>3, <1>4, <1>5, <1>6 DEF OwnerStep

\* Every operation keeps the two clocks apart.
LEMMA OwnerStepCoherent ==
    ASSUME OwnersTypeOK, RecordsCoherent, OwnerStep
    PROVE  RecordsCoherent'
<1>1. ASSUME NEW s \in Sessions, DeskInput(s) \/ SessionEnded(s)
      PROVE  RecordsCoherent'
  BY <1>1, BusyAssumption, GraceAssumption, DeskAssumption
     DEF DeskInput, SessionEnded, Forget, OwnersTypeOK, RecordsCoherent, Holders,
         Quiet, NoRelease
<1>2. ASSUME NEW s \in Sessions, NEW d \in Devices, DeviceInput(d, s)
      PROVE  RecordsCoherent'
  BY <1>2, BusyAssumption, GraceAssumption, DeskAssumption
     DEF DeviceInput, InputVerdict, Take, ownerVars, OwnersTypeOK, RecordsCoherent, Holders,
         Quiet, NoRelease
<1>3. ASSUME NEW s \in Sessions, NEW d \in Devices, Started(d, s)
      PROVE  RecordsCoherent'
  BY <1>3, BusyAssumption, GraceAssumption, DeskAssumption
     DEF Started, Take, OwnersTypeOK, RecordsCoherent, Holders, Quiet, NoRelease
<1>4. ASSUME NEW s \in Sessions, NEW caller \in Holders, NEW to \in Holders,
             NEW expect \in Holders, NEW force \in BOOLEAN, NEW live \in SUBSET Devices,
             SetOwner(caller, s, to, expect, force, live)
      PROVE  RecordsCoherent'
  BY <1>4, BusyAssumption, GraceAssumption, DeskAssumption
     DEF SetOwner, Take, Forget, ownerVars, OwnersTypeOK, RecordsCoherent, Holders,
         Quiet, NoRelease
<1>5. ASSUME NEW d \in Devices, DeviceAway(d) \/ DeviceBack(d) \/ ReleaseDevice(d)
      PROVE  RecordsCoherent'
  BY <1>5, BusyAssumption, GraceAssumption, DeskAssumption
     DEF DeviceAway, DeviceBack, ReleaseDevice, Forget, Held, OwnersTypeOK, RecordsCoherent, Holders,
         Quiet, NoRelease
<1>6. CASE Lapse
  BY <1>6, BusyAssumption, GraceAssumption, DeskAssumption
     DEF Lapse, Forget, Lapsed, OwnersTypeOK, RecordsCoherent, Holders, Quiet, NoRelease
<1>7. CASE Second
  BY <1>7, BusyAssumption, GraceAssumption, DeskAssumption
     DEF Second, Older, OwnersTypeOK, RecordsCoherent, Holders, Quiet, NoRelease
<1> QED
  BY <1>1, <1>2, <1>3, <1>4, <1>5, <1>6, <1>7 DEF OwnerStep

\* A Device's input makes nobody else the owner of anything.
LEMMA InputGrants ==
    ASSUME OwnersTypeOK, NEW d \in Devices, NEW s \in Sessions, DeviceInput(d, s)
    PROVE  GrantsOnly({d})
  BY DEF OwnersTypeOK, DeviceInput, Take, GrantsOnly, ownerVars

\* A start makes the starter the owner.
LEMMA StartedGrants ==
    ASSUME OwnersTypeOK, NEW d \in Devices, NEW s \in Sessions, Started(d, s)
    PROVE  GrantsOnly({d})
  BY DEF OwnersTypeOK, Started, Take, GrantsOnly

\* A set makes nobody the owner but its caller or a Device that is connected.
LEMMA SetGrants ==
    ASSUME OwnersTypeOK, NEW s \in Sessions, NEW caller \in Holders,
           NEW to \in Holders, NEW expect \in Holders, NEW force \in BOOLEAN,
           NEW live \in SUBSET Devices, SetOwner(caller, s, to, expect, force, live)
    PROVE  GrantsOnly({caller} \cup live)
<1>1. CASE SetVerdict(caller, s, to, expect, force, live) # "done"
  BY <1>1 DEF SetOwner, GrantsOnly, ownerVars
<1>2. CASE SetVerdict(caller, s, to, expect, force, live) = "done" /\ to = Desk
  BY <1>2 DEF SetOwner, Forget, GrantsOnly, OwnersTypeOK
<1>3. CASE SetVerdict(caller, s, to, expect, force, live) = "done" /\ to # Desk
  <2>1. to \in {caller} \cup live
    BY <1>3 DEF SetVerdict, Holders
  <2>2. Take(s, to, Quiet)
    BY <1>3 DEF SetOwner
  <2> QED
    BY <2>1, <2>2 DEF Take, GrantsOnly, OwnersTypeOK
<1> QED
  BY <1>1, <1>2, <1>3

\* What only releases sessions makes nobody an owner.
LEMMA ReleaseGrants ==
    ASSUME OwnersTypeOK,
           \/ Lapse \/ Second
           \/ \E d \in Devices : ReleaseDevice(d) \/ DeviceAway(d)
           \/ \E s \in Sessions : SessionEnded(s) \/ DeskInput(s)
    PROVE  GrantsOnly({})
<1>1. CASE Lapse
  BY <1>1, GraceAssumption
     DEF Lapse, Forget, OwnersTypeOK, GrantsOnly, NoRelease
<1>2. CASE Second
  BY <1>2, GraceAssumption
     DEF Second, OwnersTypeOK, GrantsOnly, NoRelease
<1>3. ASSUME NEW d \in Devices, ReleaseDevice(d) \/ DeviceAway(d)
      PROVE  GrantsOnly({})
  BY <1>3, GraceAssumption
     DEF ReleaseDevice, DeviceAway, Forget, OwnersTypeOK, GrantsOnly, NoRelease
<1>4. ASSUME NEW s \in Sessions, SessionEnded(s) \/ DeskInput(s)
      PROVE  GrantsOnly({})
  BY <1>4, GraceAssumption
     DEF SessionEnded, DeskInput, Forget, OwnersTypeOK, GrantsOnly, NoRelease
<1> QED
  BY <1>1, <1>2, <1>3, <1>4

-----------------------------------------------------------------------------
(* The arbiter on its own. *)

\* A step of the requests is a step of the arbiter.
LEMMA RequestIsOwnerStep ==
    ASSUME RequestsNext
    PROVE  OwnerStep
<1>1. CASE \E d \in Devices, s \in Sessions : ServeInput(d, s) \/ ServeStarted(d, s)
  BY <1>1 DEF OwnerStep, ServeInput, ServeStarted
<1>2. ASSUME NEW caller \in Holders, NEW to \in Holders, NEW expect \in Holders,
             NEW s \in Sessions, NEW force \in BOOLEAN, NEW live \in {{}, Devices},
             ServeSet(caller, s, to, expect, force, live)
      PROVE  OwnerStep
  <2>1. live \in SUBSET Devices
    OBVIOUS
  <2> QED
    BY <1>2, <2>1 DEF OwnerStep, ServeSet
<1>3. CASE \E s \in Sessions : ServeDeskInput(s) \/ ServeEnd(s)
  BY <1>3 DEF OwnerStep, ServeDeskInput, ServeEnd
<1>4. CASE \E d \in Devices : ServeAway(d) \/ ServeBack(d) \/ ServeRelease(d)
  BY <1>4 DEF OwnerStep, ServeAway, ServeBack, ServeRelease
<1>5. CASE ServeLapse \/ ServeSecond
  BY <1>5 DEF OwnerStep, ServeLapse, ServeSecond
<1> QED
  BY <1>1, <1>2, <1>3, <1>4, <1>5 DEF RequestsNext

\* What an answer can be.
LEMMA RequestAnswers ==
    ASSUME RequestsNext
    PROVE  answer' \in [call : Calls, by : Holders, force : BOOLEAN, said : Verdicts]
<1> DEFINE Answers == [call : Calls, by : Holders, force : BOOLEAN, said : Verdicts]
<1>1. ASSUME NEW d \in Devices, NEW s \in Sessions, ServeInput(d, s)
      PROVE  answer' \in Answers
  <2>1. InputVerdict(d, s) \in Verdicts
    BY DEF InputVerdict, Verdicts
  <2>2. d \in Holders
    BY DEF Holders
  <2> QED
    BY <1>1, <2>1, <2>2 DEF ServeInput, Answer, Calls
<1>2. ASSUME NEW caller \in Holders, NEW to \in Holders, NEW expect \in Holders,
             NEW s \in Sessions, NEW force \in BOOLEAN, NEW live \in {{}, Devices},
             ServeSet(caller, s, to, expect, force, live)
      PROVE  answer' \in Answers
  <2>1. SetVerdict(caller, s, to, expect, force, live) \in Verdicts
    BY DEF SetVerdict, Verdicts
  <2> QED
    BY <1>2, <2>1 DEF ServeSet, Answer, Calls
<1>3. CASE \E call \in Calls : Did(call)
  BY <1>3 DEF Did, Answer, Holders, Verdicts
<1>4. \/ \E d \in Devices, s \in Sessions : ServeInput(d, s)
      \/ \E caller, to, expect \in Holders, s \in Sessions, force \in BOOLEAN,
            live \in {{}, Devices} : ServeSet(caller, s, to, expect, force, live)
      \/ \E call \in Calls : Did(call)
  BY DEF RequestsNext, Calls, ServeStarted, ServeDeskInput, ServeEnd, ServeAway,
         ServeBack, ServeRelease, ServeLapse, ServeSecond
<1> QED
  BY <1>1, <1>2, <1>3, <1>4

\* Types and the separation of the two clocks, together: neither needs more.
RequestsInv == RequestsTypeOK /\ RecordsCoherent

\* The arbiter keeps its types and its two clocks apart, whatever it is asked.
THEOREM ArbiterCoherent == RequestsSpec => [](RequestsTypeOK /\ RecordsCoherent)
<1>1. RequestsInit => RequestsInv
  BY BusyAssumption, GraceAssumption
     DEF RequestsInit, InitOwners, RequestsInv, RequestsTypeOK, OwnersTypeOK, RecordsCoherent, Answer,
         Holders, Calls, Verdicts, Quiet, NoRelease
<1>2. RequestsInv /\ [RequestsNext]_requestVars => RequestsInv'
  <2> SUFFICES ASSUME RequestsInv, [RequestsNext]_requestVars PROVE RequestsInv'
    OBVIOUS
  <2>1. CASE RequestsNext
    BY <2>1, RequestIsOwnerStep, RequestAnswers, OwnerStepTypes, OwnerStepCoherent
       DEF RequestsInv, RequestsTypeOK
  <2>2. CASE UNCHANGED requestVars
    BY <2>2 DEF RequestsInv, RequestsTypeOK, OwnersTypeOK, RecordsCoherent, requestVars
  <2> QED
    BY <2>1, <2>2
<1> QED
  BY <1>1, <1>2, PTL DEF RequestsSpec, RequestsInv

\* A holder that is typing is asked before its session is taken.
THEOREM HolderAsked == RequestsSpec => HolderIsAskedFirst
<1> DEFINE Asked(s) ==
      owner'[s] # owner[s] /\ Fresh(HolderTyped(s)) =>
         \/ answer'.by = owner[s]
         \/ answer'.force
         \/ answer'.call \in {"started", "end", "lapse", "release"}
<1>1. RequestsTypeOK /\ [RequestsNext]_requestVars => [\A s \in Sessions : Asked(s)]_requestVars
  <2> SUFFICES ASSUME RequestsTypeOK, RequestsNext, NEW s \in Sessions,
                      owner'[s] # owner[s], Fresh(HolderTyped(s))
               PROVE  \/ answer'.by = owner[s]
                      \/ answer'.force
                      \/ answer'.call \in {"started", "end", "lapse", "release"}
    OBVIOUS
  <2>1. ASSUME NEW d \in Devices, NEW r \in Sessions, ServeInput(d, r)
        PROVE  FALSE
    BY <2>1 DEF ServeInput, DeviceInput, InputVerdict, Take, HolderTyped, ownerVars,
                RequestsTypeOK, OwnersTypeOK
  <2>2. ASSUME NEW caller \in Holders, NEW to \in Holders, NEW expect \in Holders,
               NEW r \in Sessions, NEW force \in BOOLEAN, NEW live \in {{}, Devices},
               ServeSet(caller, r, to, expect, force, live)
        PROVE  answer'.by = owner[s] \/ answer'.force
    <3>1. SetVerdict(caller, r, to, expect, force, live) = "done"
      BY <2>2 DEF ServeSet, SetOwner, ownerVars
    <3>2. r = s
      BY <2>2, <3>1 DEF ServeSet, SetOwner, Take, Forget, RequestsTypeOK, OwnersTypeOK
    <3>3. caller = owner[s] \/ force
      BY <3>1, <3>2 DEF SetVerdict
    <3> QED
      BY <2>2, <3>3 DEF ServeSet, Answer
  <2>3. CASE \E d \in Devices, r \in Sessions : ServeStarted(d, r)
    BY <2>3 DEF ServeStarted, Did, Answer
  <2>4. CASE \E r \in Sessions : ServeDeskInput(r)
    BY <2>4 DEF ServeDeskInput, DeskInput
  <2>5. CASE \E r \in Sessions : ServeEnd(r)
    BY <2>5 DEF ServeEnd, Did, Answer
  <2>6. CASE \E d \in Devices : ServeAway(d) \/ ServeBack(d)
    BY <2>6 DEF ServeAway, ServeBack, DeviceAway, DeviceBack
  <2>7. CASE \E d \in Devices : ServeRelease(d)
    BY <2>7 DEF ServeRelease, Did, Answer
  <2>8. CASE ServeLapse
    BY <2>8 DEF ServeLapse, Did, Answer
  <2>9. CASE ServeSecond
    BY <2>9 DEF ServeSecond, Second
  <2> QED
    BY <2>1, <2>2, <2>3, <2>4, <2>5, <2>6, <2>7, <2>8, <2>9 DEF RequestsNext
<1> QED
  BY <1>1, ArbiterCoherent, PTL DEF RequestsSpec, HolderIsAskedFirst

\* An away owner's grace is never restarted.
THEOREM GraceKept == RequestsSpec => GraceIsNotRestarted
<1>1. RequestsTypeOK /\ [RequestsNext]_requestVars =>
        [\A s \in Sessions :
            releasesIn[s] # NoRelease =>
               \/ releasesIn'[s] <= releasesIn[s]
               \/ releasesIn'[s] = NoRelease]_requestVars
  <2> SUFFICES ASSUME RequestsTypeOK, RequestsNext, NEW s \in Sessions, releasesIn[s] # NoRelease
               PROVE  releasesIn'[s] <= releasesIn[s] \/ releasesIn'[s] = NoRelease
    OBVIOUS
  <2>0. releasesIn[s] \in Nat /\ releasesIn \in [Sessions -> 0..NoRelease]
    BY GraceAssumption DEF RequestsTypeOK, OwnersTypeOK, NoRelease
  <2>1. CASE OwnerStep
    <3>1. ASSUME NEW r \in Sessions, DeskInput(r) \/ SessionEnded(r)
          PROVE  releasesIn'[s] = releasesIn[s] \/ releasesIn'[s] = NoRelease
      BY <3>1 DEF DeskInput, SessionEnded, Forget
    <3>2. ASSUME NEW r \in Sessions, NEW d \in Devices, DeviceInput(d, r) \/ Started(d, r)
          PROVE  releasesIn'[s] = releasesIn[s] \/ releasesIn'[s] = NoRelease
      BY <3>2, <2>0 DEF DeviceInput, Started, Take, ownerVars
    <3>3. ASSUME NEW r \in Sessions, NEW caller \in Holders, NEW to \in Holders,
                 NEW expect \in Holders, NEW force \in BOOLEAN,
                 NEW live \in SUBSET Devices,
                 SetOwner(caller, r, to, expect, force, live)
          PROVE  releasesIn'[s] = releasesIn[s] \/ releasesIn'[s] = NoRelease
      BY <3>3, <2>0 DEF SetOwner, Take, Forget, ownerVars
    <3>4. ASSUME NEW d \in Devices, DeviceAway(d) \/ DeviceBack(d) \/ ReleaseDevice(d)
          PROVE  releasesIn'[s] = releasesIn[s] \/ releasesIn'[s] = NoRelease
      BY <3>4 DEF DeviceAway, DeviceBack, ReleaseDevice, Forget
    <3>5. CASE Lapse
      BY <3>5, <2>0 DEF Lapse, Forget
    <3>6. CASE Second
      BY <3>6, <2>0, GraceAssumption DEF Second, NoRelease
    <3> QED
      BY <2>0, <2>1, <3>1, <3>2, <3>3, <3>4, <3>5, <3>6 DEF OwnerStep
  <2> QED
    BY <2>1, RequestIsOwnerStep
<1> QED
  BY <1>1, ArbiterCoherent, PTL DEF RequestsSpec, GraceIsNotRestarted

-----------------------------------------------------------------------------
(* The arbiter, the connections and the trust rows. *)

\* The row of a Device whose revocation has begun, and that has not been
\* paired again, has ended.
RevokedRowsEnded ==
    \A d \in Devices :
        desk[d] \in {"revoked", "shut", "released", "allRevoked", "allShut"} =>
            row[d] = "ended"

LinkInv ==
    /\ TypeOK
    /\ TableMatchesThreads
    /\ RevokedRowsEnded
    /\ RevocationFindsEveryConnection

\* Every step is one operation of the arbiter, or leaves it alone.
LEMMA LinkOwnerStep ==
    ASSUME TypeOK, Next
    PROVE  OwnerStep \/ UNCHANGED ownerVars
<1>1. ASSUME NEW c \in Conns, Thread(c)
      PROVE  OwnerStep \/ UNCHANGED ownerVars
  <2>0. dev[c] \in Devices /\ dev[c] \in Holders
    BY DEF TypeOK, Holders
  <2>1. CASE Enter(c) \/ TurnAway(c) \/ ReadRow(c) \/ Create(c) \/ RemoveRow(c)
             \/ RemoveOthers(c) \/ DropEntry(c) \/ DropLooks(c)
    BY <2>1 DEF Enter, TurnAway, ReadRow, Create, RemoveRow, RemoveOthers,
                DropEntry, DropLooks
  <2>2. CASE NoteRefusal(c) \/ ComeBack(c) \/ RemoveSessions(c) \/ DropAway(c)
    BY <2>0, <2>2 DEF NoteRefusal, ComeBack, RemoveSessions, DropAway, OwnerStep
  <2>3. CASE \E s \in Sessions : Input(c, s) \/ NoteStarted(c, s)
    BY <2>0, <2>3 DEF Input, NoteStarted, OwnerStep
  <2>4. ASSUME NEW s \in Sessions, NEW to \in Holders, NEW expect \in Holders,
               NEW force \in BOOLEAN, DeviceSet(c, s, to, expect, force)
        PROVE  OwnerStep
    <3>1. Live \in SUBSET Devices
      BY DEF Live, TypeOK
    <3> QED
      BY <2>0, <2>4, <3>1 DEF DeviceSet, OwnerStep
  <2> QED
    BY <1>1, <2>1, <2>2, <2>3, <2>4 DEF Thread, Handle
<1>2. ASSUME NEW s \in Sessions, NEW to \in Holders, NEW expect \in Holders,
             NEW force \in BOOLEAN, DeskSet(s, to, expect, force)
      PROVE  OwnerStep
  <2>1. Live \in SUBSET Devices /\ Desk \in Holders
    BY DEF Live, TypeOK, Holders
  <2> QED
    BY <1>2, <2>1 DEF DeskSet, OwnerStep
<1>3. CASE \E s \in Sessions : DeskTypes(s) \/ EndSession(s)
  BY <1>3 DEF DeskTypes, EndSession, OwnerStep
<1>4. CASE TickLapse \/ Tick
  BY <1>4 DEF TickLapse, Tick, OwnerStep
<1>5. ASSUME NEW d \in Devices,
             \/ RevokeRow(d) \/ Revocation(d) \/ PairAgain(d)
             \/ RevokeElsewhere(d) \/ RefuseAtTheDoor(d)
      PROVE  OwnerStep \/ UNCHANGED ownerVars
  BY <1>5 DEF RevokeRow, Revocation, RevokeShut, RevokeRelease, PairShut, PairAgain,
              RevokeElsewhere, RefuseAtTheDoor, OwnerStep
<1>6. CASE RevokeAllRows \/ RevokeAllShut \/ RevokeAllList
  BY <1>6 DEF RevokeAllRows, RevokeAllShut, RevokeAllList
<1>7. ASSUME NEW c \in Conns,
             \/ \E d \in Devices : Judge(c, d)
             \/ Request(c) \/ EndOfStream(c) \/ HangUp(c) \/ CarryEnds(c)
      PROVE  UNCHANGED ownerVars
  BY <1>7 DEF Judge, Request, EndOfStream, HangUp, CarryEnds
<1> QED
  BY <1>1, <1>2, <1>3, <1>4, <1>5, <1>6, <1>7 DEF Next, DeskGesture

\* Every step keeps the types.
LEMMA LinkTypes ==
    ASSUME TypeOK, [Next]_vars
    PROVE  TypeOK'
<1>1. OwnersTypeOK'
  <2>1. CASE OwnerStep
    BY <2>1, OwnerStepTypes DEF TypeOK
  <2>2. CASE UNCHANGED ownerVars
    BY <2>2 DEF TypeOK, OwnersTypeOK, ownerVars
  <2> QED
    BY <2>1, <2>2, LinkOwnerStep DEF vars, ownerVars
<1> DEFINE LinkTypeOK ==
      /\ row \in [Devices -> Rows] /\ desk \in [Devices -> Phases]
      /\ pc \in [Conns -> Places] /\ dev \in [Conns -> Devices]
      /\ table \subseteq Conns /\ shut \subseteq Conns
<1>2. LinkTypeOK
  BY DEF TypeOK
<1>3. ASSUME NEW c \in Conns, Thread(c)
      PROVE  LinkTypeOK'
  <2>1. CASE Enter(c) \/ TurnAway(c) \/ ReadRow(c) \/ NoteRefusal(c) \/ ComeBack(c)
    BY <1>2, <2>1 DEF Enter, TurnAway, ReadRow, NoteRefusal, ComeBack, Go, Places
  <2>2. CASE Handle(c) \/ (\E s \in Sessions : NoteStarted(c, s))
    BY <1>2, <2>2 DEF Handle, Input, DeviceSet, Create, RemoveRow, NoteStarted,
                      Answered, Go, Places, Rows
  <2>3. CASE \/ RemoveSessions(c) \/ RemoveOthers(c) \/ DropEntry(c)
             \/ DropLooks(c) \/ DropAway(c)
    BY <1>2, <2>3 DEF RemoveSessions, RemoveOthers, DropEntry, DropLooks, DropAway,
                      Go, Places, Of
  <2> QED
    BY <1>3, <2>1, <2>2, <2>3 DEF Thread
<1>4. ASSUME NEW c \in Conns,
             \/ \E d \in Devices : Judge(c, d)
             \/ Request(c) \/ EndOfStream(c) \/ HangUp(c) \/ CarryEnds(c)
      PROVE  LinkTypeOK'
  BY <1>2, <1>4 DEF Judge, Request, EndOfStream, HangUp, CarryEnds, Go, Places
<1>5. ASSUME NEW d \in Devices,
             \/ RevokeRow(d) \/ Revocation(d) \/ PairAgain(d)
             \/ RevokeElsewhere(d) \/ RefuseAtTheDoor(d)
      PROVE  LinkTypeOK'
  BY <1>2, <1>5 DEF RevokeRow, Revocation, RevokeShut, RevokeRelease, PairShut,
                    PairAgain, RevokeElsewhere, RefuseAtTheDoor, linkVars,
                    Rows, Phases, Of
<1>6. ASSUME RevokeAllRows \/ RevokeAllShut \/ RevokeAllList
      PROVE  LinkTypeOK'
  BY <1>2, <1>6 DEF RevokeAllRows, RevokeAllShut, RevokeAllList, Rows, Phases
<1>7. ASSUME DeskGesture \/ TickLapse \/ Tick \/ UNCHANGED vars
      PROVE  LinkTypeOK'
  BY <1>2, <1>7 DEF DeskGesture, DeskTypes, EndSession, DeskSet, TickLapse, Tick,
                    linkVars, vars
<1>8. LinkTypeOK'
  BY <1>3, <1>4, <1>5, <1>6, <1>7 DEF Next
<1> QED
  BY <1>1, <1>8 DEF TypeOK

\* Every step keeps the table and the threads together.
LEMMA LinkTable ==
    ASSUME TypeOK, TableMatchesThreads, [Next]_vars
    PROVE  TableMatchesThreads'
<1>1. ASSUME NEW c \in Conns, Thread(c)
      PROVE  TableMatchesThreads'
  <2> USE <1>1 DEF TableMatchesThreads, TypeOK, Go, Registered
  <2>1. CASE Enter(c) \/ TurnAway(c) \/ ReadRow(c) \/ NoteRefusal(c) \/ ComeBack(c)
    BY <2>1 DEF Enter, TurnAway, ReadRow, NoteRefusal, ComeBack
  <2>2. CASE Handle(c) \/ (\E s \in Sessions : NoteStarted(c, s))
    BY <2>2 DEF Handle, Input, DeviceSet, Create, RemoveRow, NoteStarted, Answered
  <2>3. CASE \/ RemoveSessions(c) \/ RemoveOthers(c) \/ DropEntry(c)
             \/ DropLooks(c) \/ DropAway(c)
    BY <2>3 DEF RemoveSessions, RemoveOthers, DropEntry, DropLooks, DropAway
  <2> QED
    BY <2>1, <2>2, <2>3 DEF Thread
<1>2. ASSUME NEW c \in Conns,
             \/ \E d \in Devices : Judge(c, d)
             \/ Request(c) \/ EndOfStream(c) \/ HangUp(c) \/ CarryEnds(c)
      PROVE  TableMatchesThreads'
  BY <1>2 DEF TableMatchesThreads, TypeOK, Registered, Judge, Request, EndOfStream,
              HangUp, CarryEnds, Go
<1>3. CASE UNCHANGED <<pc, table>>
  BY <1>3 DEF TableMatchesThreads
<1>4. CASE \/ \E d \in Devices : \/ RevokeRow(d) \/ Revocation(d) \/ PairAgain(d)
                                 \/ RevokeElsewhere(d) \/ RefuseAtTheDoor(d)
           \/ RevokeAllRows \/ RevokeAllShut \/ RevokeAllList
           \/ DeskGesture \/ TickLapse \/ Tick \/ UNCHANGED vars
  <2>1. UNCHANGED <<pc, table>>
    BY <1>4 DEF RevokeRow, Revocation, RevokeShut, RevokeRelease, PairShut,
                PairAgain, RevokeElsewhere, RefuseAtTheDoor, RevokeAllRows,
                RevokeAllShut, RevokeAllList, DeskGesture, DeskTypes, EndSession,
                DeskSet, TickLapse, Tick, linkVars, vars
  <2> QED
    BY <2>1, <1>3
<1> QED
  BY <1>1, <1>2, <1>4 DEF Next

\* What a connection's thread may do, seen from a revocation.
ThreadStep(c) ==
    \/ \E d \in Devices : Judge(c, d)
    \/ Thread(c) \/ Request(c) \/ EndOfStream(c) \/ HangUp(c) \/ CarryEnds(c)

\* What the desk and the trust store may do.
DeskStep ==
    \/ \E d \in Devices : \/ RevokeRow(d) \/ Revocation(d) \/ PairAgain(d)
                          \/ RevokeElsewhere(d) \/ RefuseAtTheDoor(d)
    \/ RevokeAllRows \/ RevokeAllShut \/ RevokeAllList
    \/ DeskGesture \/ TickLapse \/ Tick \/ UNCHANGED vars

\* A step is a thread's or the desk's.
LEMMA ThreadOrDesk ==
    ASSUME [Next]_vars
    PROVE  (\E c \in Conns : ThreadStep(c)) \/ DeskStep
  BY DEF Next, ThreadStep, DeskStep

\* A thread leaves the desk's revocations alone, and trusts no row anew.
LEMMA ThreadKeepsRows ==
    ASSUME TypeOK, NEW c \in Conns, ThreadStep(c)
    PROVE  desk' = desk /\ \A d \in Devices : row[d] = "ended" => row'[d] = "ended"
<1> USE DEF TypeOK
<1>1. CASE RemoveRow(c)
  BY <1>1 DEF RemoveRow
<1>2. CASE ThreadStep(c) /\ ~RemoveRow(c)
  <2>1. UNCHANGED <<row, desk>>
    BY <1>2 DEF ThreadStep, Thread, Handle, Judge, Enter, TurnAway, ReadRow,
                NoteRefusal, ComeBack, Request, Input, DeviceSet, Create,
                NoteStarted, RemoveSessions, RemoveOthers, HangUp, CarryEnds,
                EndOfStream, DropEntry, DropLooks, DropAway
  <2> QED
    BY <2>1
<1> QED
  BY <1>1, <1>2

\* A row ends and is not revived while a revocation of it stands.
LEMMA LinkRows ==
    ASSUME TypeOK, RevokedRowsEnded, [Next]_vars
    PROVE  RevokedRowsEnded'
<1>1. ASSUME NEW c \in Conns, ThreadStep(c)
      PROVE  RevokedRowsEnded'
  BY <1>1, ThreadKeepsRows DEF RevokedRowsEnded
<1>2. ASSUME DeskStep
      PROVE  RevokedRowsEnded'
  <2> USE DEF RevokedRowsEnded, TypeOK
  <2>1. CASE \E d \in Devices : \/ RevokeRow(d) \/ PairAgain(d) \/ RevokeElsewhere(d)
                                \/ RevokeShut(d) \/ RevokeRelease(d) \/ PairShut(d)
    BY <2>1 DEF RevokeRow, PairAgain, RevokeElsewhere, RevokeShut, RevokeRelease,
                PairShut
  <2>2. CASE RevokeAllRows \/ RevokeAllShut \/ RevokeAllList
    BY <2>2 DEF RevokeAllRows, RevokeAllShut, RevokeAllList
  <2>3. CASE \/ \E d \in Devices : RefuseAtTheDoor(d)
             \/ DeskGesture \/ TickLapse \/ Tick \/ UNCHANGED vars
    BY <2>3 DEF RefuseAtTheDoor, DeskGesture, DeskTypes, EndSession, DeskSet,
                TickLapse, Tick, linkVars, vars
  <2> QED
    BY <1>2, <2>1, <2>2, <2>3 DEF DeskStep, Revocation
<1> QED
  BY <1>1, <1>2, ThreadOrDesk

\* What a thread does to the entries of a Device whose row has ended: one it
\* adds is unread, one that was shut or unread stays so or goes.
LEMMA ThreadKeepsFound ==
    ASSUME TypeOK, TableMatchesThreads, NEW c \in Conns, ThreadStep(c),
           NEW d \in Devices, row[d] = "ended",
           \A e \in Of(d) : e \in shut \/ pc[e] = "entered"
    PROVE  (\A e \in Of(d) : e \in shut \/ pc[e] = "entered")'
<1> USE DEF TypeOK, TableMatchesThreads, Registered, Go, Of
<1>1. CASE \/ \E f \in Devices : Judge(c, f)
           \/ Enter(c) \/ TurnAway(c)
  BY <1>1 DEF Judge, Enter, TurnAway
<1>2. CASE ReadRow(c)
  BY <1>2 DEF ReadRow
<1>3. CASE \/ NoteRefusal(c) \/ ComeBack(c) \/ Request(c) \/ Handle(c)
           \/ \E s \in Sessions : NoteStarted(c, s)
  BY <1>3 DEF NoteRefusal, ComeBack, Request, Handle, Input, DeviceSet, Create,
              RemoveRow, NoteStarted, Answered
<1>4. CASE RemoveSessions(c) \/ RemoveOthers(c) \/ EndOfStream(c)
  BY <1>4 DEF RemoveSessions, RemoveOthers, EndOfStream
<1>5. CASE HangUp(c) \/ CarryEnds(c)
  BY <1>5 DEF HangUp, CarryEnds
<1>6. CASE DropEntry(c) \/ DropLooks(c) \/ DropAway(c)
  BY <1>6 DEF DropEntry, DropLooks, DropAway
<1> QED
  BY <1>1, <1>2, <1>3, <1>4, <1>5, <1>6 DEF ThreadStep, Thread

\* A revocation that has shut what it found stays right about what it missed.
LEMMA LinkFound ==
    ASSUME LinkInv, [Next]_vars
    PROVE  RevocationFindsEveryConnection'
<1> USE DEF LinkInv
<1>1. ASSUME NEW c \in Conns, ThreadStep(c)
      PROVE  RevocationFindsEveryConnection'
  BY <1>1, ThreadKeepsRows, ThreadKeepsFound DEF RevocationFindsEveryConnection
<1>2. ASSUME DeskStep
      PROVE  RevocationFindsEveryConnection'
  <2>0. RevokedRowsEnded'
    BY LinkRows
  <2>1. ASSUME NEW d \in Devices,
               \/ RevokeRow(d) \/ PairAgain(d) \/ RevokeElsewhere(d)
               \/ RevokeShut(d) \/ RevokeRelease(d) \/ PairShut(d)
        PROVE  RevocationFindsEveryConnection'
    BY <2>0, <2>1 DEF RevokeRow, PairAgain, RevokeElsewhere, RevokeShut,
                      RevokeRelease, PairShut, Of, TypeOK,
                      RevokedRowsEnded, RevocationFindsEveryConnection
  <2>2. CASE RevokeAllRows \/ RevokeAllShut \/ RevokeAllList
    BY <2>0, <2>2 DEF RevokeAllRows, RevokeAllShut, RevokeAllList, Of, TypeOK,
                      RevokedRowsEnded, RevocationFindsEveryConnection
  <2>3. CASE \/ \E d \in Devices : RefuseAtTheDoor(d)
             \/ DeskGesture \/ TickLapse \/ Tick \/ UNCHANGED vars
    <3>1. UNCHANGED linkVars
      BY <2>3 DEF RefuseAtTheDoor, DeskGesture, DeskTypes, EndSession, DeskSet,
                  TickLapse, Tick, linkVars, vars
    <3> QED
      BY <3>1 DEF linkVars, Of, RevocationFindsEveryConnection
  <2> QED
    BY <1>2, <2>1, <2>2, <2>3 DEF DeskStep, Revocation
<1> QED
  BY <1>1, <1>2, ThreadOrDesk

\* A revocation and a registration cannot miss each other, in whatever order
\* their steps fall, and the table a revocation goes by is the truth.
THEOREM LinkSafe ==
    Spec => [](TypeOK /\ TableMatchesThreads /\ RevocationFindsEveryConnection)
<1>1. Init => LinkInv
  <2> SUFFICES ASSUME Init PROVE LinkInv
    OBVIOUS
  <2>1. TypeOK
    BY BusyAssumption, GraceAssumption
       DEF Init, InitOwners, TypeOK, OwnersTypeOK, Holders, Quiet, NoRelease,
           Rows, Phases, Places
  <2>2. TableMatchesThreads
    BY DEF Init, TableMatchesThreads, Registered
  <2>3. RevokedRowsEnded /\ RevocationFindsEveryConnection
    BY DEF Init, RevokedRowsEnded, RevocationFindsEveryConnection
  <2> QED
    BY <2>1, <2>2, <2>3 DEF LinkInv
<1>2. LinkInv /\ [Next]_vars => LinkInv'
  <2> SUFFICES ASSUME LinkInv, [Next]_vars PROVE LinkInv'
    OBVIOUS
  <2>1. TypeOK' /\ TableMatchesThreads' /\ RevokedRowsEnded'
    BY LinkTypes, LinkTable, LinkRows DEF LinkInv
  <2> QED
    BY <2>1, LinkFound DEF LinkInv
<1> QED
  BY <1>1, <1>2, PTL DEF Spec, LinkInv

\* Whatever threads come, go and are shut, the table a revocation goes by
\* lists exactly the connections between their entry and their own removal
\* (register_device_connection, DeviceConnectionSlot::drop).
THEOREM TableListsThreads == Spec => []TableMatchesThreads
  BY LinkSafe, PTL

-----------------------------------------------------------------------------
(* No owner is left that nobody has noticed is gone. *)

\* A Device that has an entry, or that a thread is about to report gone.
Watched(d) ==
    \/ d \in Live
    \/ \E c \in Conns : dev[c] = d /\ pc[c] \in {"gone", "away", "refused"}

\* The invariant in these words: every owner that is not away is watched.
LEMMA NoticedMeansWatched ==
    AbsentOwnerIsNoticed <=>
      \A s \in Sessions :
        owner[s] # Desk /\ releasesIn[s] = NoRelease => Watched(owner[s])
  BY DEF AbsentOwnerIsNoticed, Watched

\* A step that leaves every watched Device watched, and makes only watched
\* Devices owners, keeps it.
LEMMA WatchKept ==
    ASSUME TypeOK, AbsentOwnerIsNoticed,
           \A d \in Devices : Watched(d) => Watched(d)',
           NEW D, GrantsOnly(D), \A d \in D \ {Desk} : Watched(d)'
    PROVE  AbsentOwnerIsNoticed'
<1>1. \A s \in Sessions : owner[s] \in Devices \cup {Desk}
  BY DEF TypeOK, OwnersTypeOK, Holders
<1>2. \A s \in Sessions :
        owner[s] # Desk /\ releasesIn[s] = NoRelease => Watched(owner[s])
  BY NoticedMeansWatched
<1>3. ASSUME NEW s \in Sessions, owner'[s] # Desk, releasesIn'[s] = NoRelease
      PROVE  Watched(owner[s])'
  <2>1. CASE owner'[s] = owner[s] /\ releasesIn[s] = NoRelease
    <3>1. owner[s] \in Devices /\ Watched(owner[s])
      BY <1>1, <1>2, <1>3, <2>1
    <3>2. PICK d \in Devices : d = owner[s] /\ Watched(d)
      BY <3>1
    <3>3. Watched(d)'
      BY <3>2
    <3> QED
      BY <2>1, <3>2, <3>3 DEF Watched, Live
  <2>2. CASE owner'[s] \in D \cup {Desk}
    <3>1. PICK d \in D \ {Desk} : d = owner'[s]
      BY <1>3, <2>2
    <3>2. Watched(d)'
      BY <3>1
    <3> QED
      BY <3>1, <3>2 DEF Watched, Live
  <2> QED
    BY <1>3, <2>1, <2>2 DEF GrantsOnly
<1> QED
  BY <1>3 DEF AbsentOwnerIsNoticed, Watched, NoRelease

\* Leaving the arbiter alone makes nobody an owner.
LEMMA UnchangedGrants ==
    ASSUME UNCHANGED ownerVars
    PROVE  GrantsOnly({})
  BY DEF ownerVars, GrantsOnly

\* A thread that only moves inside the table keeps everybody watched.
LEMMA MoveKeepsWatch ==
    ASSUME TypeOK, TableMatchesThreads, NEW c \in Conns, c \in table,
           dev' = dev, table' = table, \E p \in Places : Go(c, p)
    PROVE  \A d \in Devices : Watched(d) => Watched(d)'
  BY DEF TypeOK, TableMatchesThreads, Registered, Go, Watched, Live

\* A thread's step.
LEMMA ThreadNoticed ==
    ASSUME StoreMayFail = FALSE, TypeOK, TableMatchesThreads, AbsentOwnerIsNoticed,
           NEW c \in Conns, ThreadStep(c)
    PROVE  AbsentOwnerIsNoticed'
<1>0. dev[c] \in Devices /\ dev[c] \in Holders /\ dev[c] # Desk
  BY DeskAssumption DEF TypeOK, Holders
<1>1. CASE \E d \in Devices : Judge(c, d)
  <2>1. \A d \in Devices : Watched(d) => Watched(d)'
    BY <1>1 DEF Judge, Go, TypeOK, TableMatchesThreads, Registered, Watched, Live
  <2> QED
    BY <1>1, <2>1, UnchangedGrants, WatchKept DEF Judge
<1>2. CASE TurnAway(c) \/ Enter(c)
  <2>1. \A d \in Devices : Watched(d) => Watched(d)'
    BY <1>2 DEF TurnAway, Enter, Go, TypeOK, Watched, Live
  <2> QED
    BY <1>2, <2>1, UnchangedGrants, WatchKept DEF TurnAway, Enter
<1>3. CASE ReadRow(c) \/ DropEntry(c)
  <2>1. \A d \in Devices : Watched(d) => Watched(d)'
    BY <1>3 DEF ReadRow, DropEntry, Go, TypeOK, TableMatchesThreads, Registered,
                Watched, Live
  <2> QED
    BY <1>3, <2>1, UnchangedGrants, WatchKept DEF ReadRow, DropEntry
<1>4. CASE DropLooks(c)
  <2>1. \A d \in Devices : Watched(d) => Watched(d)'
    BY <1>4 DEF DropLooks, Go, TypeOK, Watched, Live
  <2> QED
    BY <1>4, <2>1, UnchangedGrants, WatchKept DEF DropLooks
<1>5. CASE HangUp(c) \/ CarryEnds(c)
  <2>1. \A d \in Devices : Watched(d) => Watched(d)'
    BY <1>5 DEF HangUp, CarryEnds, Watched, Live
  <2> QED
    BY <1>5, <2>1, UnchangedGrants, WatchKept DEF HangUp, CarryEnds
<1>6. CASE \/ Request(c) \/ EndOfStream(c) \/ Create(c) \/ RemoveRow(c)
           \/ RemoveOthers(c)
  <2>1. /\ c \in table /\ dev' = dev /\ table' = table
        /\ \E p \in Places : Go(c, p)
        /\ UNCHANGED ownerVars
    BY <1>6 DEF Request, EndOfStream, Create, RemoveRow, RemoveOthers,
                TableMatchesThreads, Registered, Places
  <2> QED
    BY <2>1, MoveKeepsWatch, UnchangedGrants, WatchKept
<1>7. CASE \E s \in Sessions : Input(c, s) \/ NoteStarted(c, s)
  <2>1. /\ c \in table /\ dev' = dev /\ table' = table
        /\ \E p \in Places : Go(c, p)
        /\ \E s \in Sessions : DeviceInput(dev[c], s) \/ Started(dev[c], s)
    BY <1>7 DEF Input, NoteStarted, Answered, TableMatchesThreads, Registered, Places
  <2>2. GrantsOnly({dev[c]})
    BY <1>0, <2>1, InputGrants, StartedGrants DEF TypeOK
  <2>3. Watched(dev[c])'
    BY <2>1 DEF Watched, Live
  <2>4. \A d \in {dev[c]} \ {Desk} : Watched(d)'
    BY <2>1 DEF Watched, Live
  <2> QED
    BY <2>1, <2>2, <2>4, MoveKeepsWatch, WatchKept
<1>8. ASSUME NEW s \in Sessions, NEW to \in Holders, NEW expect \in Holders,
             NEW force \in BOOLEAN, DeviceSet(c, s, to, expect, force)
      PROVE  AbsentOwnerIsNoticed'
  <2>1. /\ c \in table /\ dev' = dev /\ table' = table
        /\ \E p \in Places : Go(c, p)
        /\ SetOwner(dev[c], s, to, expect, force, Live)
    BY <1>8 DEF DeviceSet, Answered, TableMatchesThreads, Registered, Places
  <2>2. Live \in SUBSET Devices
    BY DEF Live, TypeOK
  <2>3. GrantsOnly({dev[c]} \cup Live)
    BY <1>0, <2>1, <2>2, SetGrants DEF TypeOK
  <2>4. \A d \in ({dev[c]} \cup Live) \ {Desk} : Watched(d)'
    BY <2>1 DEF Watched, Live
  <2> QED
    BY <2>1, <2>3, <2>4, MoveKeepsWatch, WatchKept
<1>9. CASE RemoveSessions(c)
  <2>1. /\ c \in table /\ dev' = dev /\ table' = table
        /\ \E p \in Places : Go(c, p)
        /\ ReleaseDevice(dev[c])
    BY <1>9 DEF RemoveSessions, TableMatchesThreads, Registered, Places
  <2>2. GrantsOnly({})
    BY <1>0, <2>1, ReleaseGrants DEF TypeOK
  <2> QED
    BY <2>1, <2>2, MoveKeepsWatch, WatchKept
<1>10. CASE ComeBack(c)
  <2>1. /\ c \in table /\ dev' = dev /\ table' = table
        /\ \E p \in Places : Go(c, p)
        /\ DeviceBack(dev[c])
    BY <1>10 DEF ComeBack, TableMatchesThreads, Registered, Places
  <2>2. GrantsOnly({dev[c]})
    BY <2>1 DEF DeviceBack, GrantsOnly
  <2>3. \A d \in {dev[c]} \ {Desk} : Watched(d)'
    BY <2>1 DEF Watched, Live
  <2> QED
    BY <2>1, <2>2, <2>3, MoveKeepsWatch, WatchKept
<1>11. CASE NoteRefusal(c) \/ DropAway(c)
  <2>1. ASSUME NEW s \in Sessions, owner'[s] # Desk, releasesIn'[s] = NoRelease
        PROVE  /\ owner'[s] = owner[s] /\ releasesIn[s] = NoRelease
               /\ owner[s] # dev[c]
    BY <1>11, <2>1, GraceAssumption
       DEF NoteRefusal, DropAway, ReleaseDevice, Forget, Held, DeviceAway,
           NoRelease, TypeOK, OwnersTypeOK
  <2>2. \A d \in Devices \ {dev[c]} : Watched(d) => Watched(d)'
    BY <1>11 DEF NoteRefusal, DropAway, Go, TypeOK, Watched, Live
  <2>3. ASSUME NEW s \in Sessions, owner'[s] # Desk, releasesIn'[s] = NoRelease
        PROVE  Watched(owner[s])'
    <3>1. PICK d \in Devices \ {dev[c]} : d = owner[s] /\ Watched(d)
      BY <2>1, <2>3, NoticedMeansWatched DEF TypeOK, OwnersTypeOK, Holders
    <3>2. Watched(d)' /\ owner'[s] = d
      BY <2>1, <2>2, <2>3, <3>1
    <3> QED
      BY <3>2 DEF Watched, Live
  <2> QED
    BY <2>3 DEF AbsentOwnerIsNoticed, Watched, NoRelease
<1> QED
  BY <1>1, <1>2, <1>3, <1>4, <1>5, <1>6, <1>7, <1>8, <1>9, <1>10, <1>11
     DEF ThreadStep, Thread, Handle

\* The desk's step.
LEMMA DeskNoticed ==
    ASSUME TypeOK, AbsentOwnerIsNoticed, DeskStep
    PROVE  AbsentOwnerIsNoticed'
<1>1. UNCHANGED <<pc, dev, table>>
  BY DEF DeskStep, RevokeRow, Revocation, RevokeShut, RevokeRelease, PairShut,
         PairAgain, RevokeElsewhere, RefuseAtTheDoor, RevokeAllRows, RevokeAllShut,
         RevokeAllList, DeskGesture, DeskTypes, EndSession, DeskSet, TickLapse,
         Tick, linkVars, vars
<1>2. \A d \in Devices : Watched(d) => Watched(d)'
  BY <1>1 DEF Watched, Live
<1>3. CASE GrantsOnly({})
  BY <1>2, <1>3, WatchKept
<1>4. ASSUME NEW s \in Sessions, NEW to \in Holders, NEW expect \in Holders,
             NEW force \in BOOLEAN, DeskSet(s, to, expect, force)
      PROVE  AbsentOwnerIsNoticed'
  <2>1. Live \in SUBSET Devices /\ Desk \in Holders
    BY DEF Live, TypeOK, Holders
  <2>2. GrantsOnly({Desk} \cup Live)
    BY <1>4, <2>1, SetGrants DEF DeskSet, TypeOK
  <2>3. \A d \in ({Desk} \cup Live) \ {Desk} : Watched(d)'
    BY <1>1 DEF Watched, Live
  <2> QED
    BY <1>2, <2>2, <2>3, WatchKept
<1>5. CASE \/ \E d \in Devices : RevokeRelease(d) \/ RefuseAtTheDoor(d)
           \/ \E s \in Sessions : DeskTypes(s) \/ EndSession(s)
           \/ TickLapse \/ Tick
  <2>1. \/ Lapse \/ Second
        \/ \E d \in Devices : ReleaseDevice(d) \/ DeviceAway(d)
        \/ \E s \in Sessions : SessionEnded(s) \/ DeskInput(s)
    BY <1>5 DEF RevokeRelease, RefuseAtTheDoor, DeskTypes, EndSession, TickLapse, Tick
  <2> QED
    BY <1>3, <2>1, ReleaseGrants DEF TypeOK
<1>6. CASE \/ \E d \in Devices : \/ RevokeRow(d) \/ PairAgain(d) \/ RevokeElsewhere(d)
                                 \/ RevokeShut(d) \/ PairShut(d)
           \/ RevokeAllRows \/ RevokeAllShut \/ RevokeAllList \/ UNCHANGED vars
  <2>1. UNCHANGED ownerVars
    BY <1>6 DEF RevokeRow, PairAgain, RevokeElsewhere, RevokeShut, PairShut,
                RevokeAllRows, RevokeAllShut, RevokeAllList, vars, ownerVars
  <2> QED
    BY <1>3, <2>1, UnchangedGrants
<1> QED
  BY <1>4, <1>5, <1>6 DEF DeskStep, Revocation, DeskGesture

\* While the trust store can be read, an owner without a connection is always
\* in its grace or about to be put there: no session is stranded with a Device
\* that left.
THEOREM OwnersNoticed ==
    ASSUME StoreMayFail = FALSE
    PROVE  Spec => []AbsentOwnerIsNoticed
<1>1. Init => AbsentOwnerIsNoticed
  BY DEF Init, InitOwners, AbsentOwnerIsNoticed
<1>2. TypeOK /\ TableMatchesThreads /\ AbsentOwnerIsNoticed /\ [Next]_vars
        => AbsentOwnerIsNoticed'
  BY ThreadNoticed, DeskNoticed, ThreadOrDesk
<1> QED
  BY <1>1, <1>2, LinkSafe, PTL DEF Spec

-----------------------------------------------------------------------------
(* A window and its copy. *)

\* A read on its way back lists holders.
ListRead == read.at = "told" => read.list \in Copies

\* A gesture on its way names a session and holders.
GestureNames ==
    gesture.at # "none" =>
        /\ gesture.session \in Sessions
        /\ gesture.to \in Holders /\ gesture.expect \in Holders
        /\ gesture.force \in BOOLEAN
        /\ gesture.at # "sent" => gesture.holder \in Holders
        /\ gesture.at = "told" => gesture = Told(gesture, gesture.said, gesture.holder)

\* A gesture sent expects the holder the human saw.  One told "busy" met that
\* holder, so the question about it names who the gesture still expects.
GestureExpects ==
    /\ gesture.at = "sent" => gesture.expect = asked
    /\ gesture.at = "told" /\ gesture.said = "busy"
          => gesture.expect = gesture.holder
    /\ gesture.at = "confirming" => gesture.expect = gesture.holder

WindowInv == WindowTypeOK /\ ListRead /\ GestureNames /\ GestureExpects

\* A step of the window or of the daemon around it is one operation of the
\* arbiter, or leaves it alone.
LEMMA WindowOwnerStep ==
    ASSUME GestureNames, WindowNext
    PROVE  OwnerStep \/ UNCHANGED ownerVars
<1>1. CASE \E d \in Devices, s \in Sessions : DeviceTypes(d, s) \/ DeviceStarts(d, s)
  BY <1>1 DEF DeviceTypes, DeviceStarts, OwnerStep
<1>2. ASSUME NEW d \in Devices, NEW s \in Sessions, NEW to \in Holders,
             NEW expect \in Holders, DeviceSets(d, s, to, expect)
      PROVE  OwnerStep
  <2>1. d \in Holders /\ FALSE \in BOOLEAN /\ Devices \in SUBSET Devices
    BY DEF Holders
  <2> QED
    BY <1>2, <2>1 DEF DeviceSets, OwnerStep
<1>3. CASE DaemonChanges
  BY <1>3 DEF DaemonChanges, OwnerStep
<1>4. CASE ServeGesture
  <2>1. Desk \in Holders /\ Devices \in SUBSET Devices
    BY DEF Holders
  <2>2. /\ gesture.session \in Sessions /\ gesture.force \in BOOLEAN
        /\ gesture.to \in Holders /\ gesture.expect \in Holders
    BY <1>4 DEF ServeGesture, GestureNames
  <2>3. SetOwner(Desk, gesture.session, gesture.to, gesture.expect, gesture.force, Devices)
    BY <1>4 DEF ServeGesture
  <2> QED
    BY <2>1, <2>2, <2>3 DEF OwnerStep
<1>5. CASE (\E s \in Sessions : DeskInputs(s)) \/ TimePasses
  BY <1>5 DEF DeskInputs, TimePasses, OwnerStep
<1>6. CASE \/ ServeRead \/ Refresh \/ HearList \/ LoseRead \/ StartOver
           \/ HearAnswer \/ ConfirmForce \/ LetItBe \/ LoseAnswer
           \/ \E t \in Threads : HearChange(t)
           \/ \E s \in Sessions, to \in Holders : Decide(s, to)
  BY <1>6 DEF ServeRead, HearChange, Refresh, HearList, LoseRead, StartOver, Decide,
              HearAnswer, ConfirmForce, LetItBe, LoseAnswer
<1> QED
  BY <1>1, <1>2, <1>3, <1>4, <1>5, <1>6 DEF WindowNext

\* What a thread of the daemon leaves behind it: changes that name sessions
\* and holders, and the window as it was.
LEMMA ChangeTypes ==
    ASSUME WindowInv, OwnersTypeOK', NEW t \in Threads, ChangedBy(t)
    PROVE  WindowInv'
<1>1. Changes \in SUBSET (Sessions \X Holders)
  BY DEF Changes, OwnersTypeOK
<1>2. unsent' \in [Threads -> SUBSET (Sessions \X Holders)]
  BY <1>1 DEF ChangedBy, WindowInv, WindowTypeOK
<1>3. UNCHANGED copyVars
  BY DEF ChangedBy
<1> QED
  BY <1>2, <1>3 DEF copyVars, WindowInv, WindowTypeOK, ListRead, GestureNames,
                    GestureExpects

\* The desk's set, answered: told "busy", the session is still the holder's
\* whom the gesture expects.
LEMMA ServedTells ==
    ASSUME WindowInv, OwnersTypeOK', ServeGesture
    PROVE  WindowInv'
<1> DEFINE s == gesture.session
           said == SetVerdict(Desk, gesture.session, gesture.to, gesture.expect,
                              gesture.force, Devices)
<1>1. gesture.at = "sent" /\ gesture' = Told(gesture, said, owner'[s])
  BY DEF ServeGesture
<1>2. s \in Sessions
  BY <1>1 DEF WindowInv, GestureNames
<1>3. owner'[s] \in Holders
  BY <1>2 DEF OwnersTypeOK
<1>4. ASSUME said = "busy"
      PROVE  owner'[s] = gesture.expect
  <2>1. owner[s] = gesture.expect
    BY <1>4 DEF SetVerdict
  <2>2. UNCHANGED ownerVars
    BY <1>4 DEF ServeGesture, SetOwner
  <2> QED
    BY <2>1, <2>2 DEF ownerVars
<1>5. GestureNames'
  BY <1>1, <1>2, <1>3 DEF Told, WindowInv, GestureNames
<1>6. GestureExpects'
  <2> HIDE DEF s, said
  <2> QED
    BY <1>1, <1>4 DEF Told, GestureExpects
<1>7. unsent' \in [Threads -> SUBSET (Sessions \X Holders)]
  <2>1. Changes \in SUBSET (Sessions \X Holders)
    BY DEF Changes, OwnersTypeOK
  <2> QED
    BY <2>1 DEF ServeGesture, WindowInv, WindowTypeOK, Threads
<1>8. gesture'.at = "told"
  BY <1>1 DEF Told
<1> QED
  BY <1>5, <1>6, <1>7, <1>8 DEF ServeGesture, WindowInv, WindowTypeOK, ListRead

\* What the window does by itself: it asks for what its copy shows, and
\* insists against the holder the question named.
LEMMA WindowMoves ==
    ASSUME WindowInv,
           \/ ServeRead \/ Refresh \/ HearList \/ LoseRead \/ StartOver
           \/ HearAnswer \/ ConfirmForce \/ LetItBe \/ LoseAnswer
           \/ \E t \in Threads : HearChange(t)
           \/ \E s \in Sessions, to \in Holders : Decide(s, to)
    PROVE  WindowInv'
<1> USE DEF WindowInv, WindowTypeOK, OwnersTypeOK, ownerVars
<1>1. CASE ServeRead \/ Refresh \/ HearList \/ LoseRead \/ StartOver
  <2>1. /\ UNCHANGED <<owner, typed, releasesIn, deskTyped, unsent, gesture, asked>>
        /\ view' \in Copies /\ knows' \in BOOLEAN
        /\ read'.at \in {"none", "sent", "told"} /\ ListRead'
    <3>1. CASE ServeRead
      BY <3>1 DEF ServeRead, ListRead, Copies
    <3>2. CASE Refresh \/ LoseRead
      BY <3>2 DEF Refresh, LoseRead, NoRead, ListRead
    <3>3. CASE HearList
      BY <3>3 DEF HearList, NoRead, ListRead
    <3>4. CASE StartOver
      BY <3>4 DEF StartOver, ListRead, Copies, Holders
    <3> QED
      BY <1>1, <3>1, <3>2, <3>3, <3>4
  <2> QED
    BY <2>1 DEF GestureNames, GestureExpects
<1>2. ASSUME NEW t \in Threads, HearChange(t)
      PROVE  WindowInv'
  <2>1. PICK change \in unsent[t] :
          /\ view' = [view EXCEPT ![change[1]] = change[2]]
          /\ unsent' = [unsent EXCEPT ![t] = @ \ {change}]
          /\ UNCHANGED <<owner, typed, releasesIn, deskTyped, knows, read, gesture,
                         asked>>
    BY <1>2 DEF HearChange, Apply
  <2>2. change[1] \in Sessions /\ change[2] \in Holders
    OBVIOUS
  <2>3. view' \in Copies
    BY <2>1, <2>2 DEF Copies
  <2>4. unsent' \in [Threads -> SUBSET (Sessions \X Holders)]
    BY <2>1
  <2> QED
    BY <2>1, <2>3, <2>4 DEF ListRead, GestureNames, GestureExpects
<1>3. ASSUME NEW s \in Sessions, NEW to \in Holders, Decide(s, to)
      PROVE  WindowInv'
  <2>1. view[s] \in Holders
    BY DEF Copies
  <2>2. /\ gesture' = Gesture("sent", s, to, view[s], FALSE) /\ asked' = view[s]
        /\ UNCHANGED <<owner, typed, releasesIn, deskTyped, unsent, view, knows, read>>
    BY <1>3 DEF Decide
  <2>3. GestureNames' /\ GestureExpects' /\ gesture'.at = "sent"
    BY <2>1, <2>2 DEF Gesture, GestureNames, GestureExpects
  <2> QED
    BY <2>1, <2>2, <2>3 DEF ListRead
<1>4. CASE LetItBe \/ LoseAnswer
  BY <1>4 DEF LetItBe, LoseAnswer, NoGesture, ListRead, GestureNames, GestureExpects
<1>5. CASE ConfirmForce
  <2>1. /\ gesture' = Gesture("sent", gesture.session, gesture.to, gesture.expect, TRUE)
        /\ gesture.at = "confirming" /\ asked' = gesture.holder
        /\ UNCHANGED <<owner, typed, releasesIn, deskTyped, unsent, view, knows, read>>
    BY <1>5 DEF ConfirmForce
  <2>2. GestureNames' /\ GestureExpects' /\ gesture'.at = "sent"
    BY <2>1 DEF Gesture, GestureNames, GestureExpects
  <2> QED
    BY <2>1, <2>2 DEF ListRead, GestureNames
<1>6. CASE HearAnswer
  <2>1. /\ gesture.at = "told"
        /\ UNCHANGED <<owner, typed, releasesIn, deskTyped, unsent, knows, read, asked>>
    BY <1>6 DEF HearAnswer
  <2>2. \/ view' = view
        \/ view' = [view EXCEPT ![gesture.session] = gesture.holder]
    BY <1>6 DEF HearAnswer, Apply
  <2>3. view' \in Copies
    BY <2>1, <2>2 DEF GestureNames, Copies
  <2>4. \/ gesture' = NoGesture
        \/ gesture.said = "busy" /\ gesture' = [gesture EXCEPT !.at = "confirming"]
    BY <1>6 DEF HearAnswer
  <2>5. GestureNames' /\ GestureExpects' /\ gesture'.at \in {"none", "confirming"}
    <3>1. CASE gesture' = NoGesture
      BY <3>1 DEF NoGesture, GestureNames, GestureExpects
    <3>2. CASE gesture.said = "busy" /\ gesture' = [gesture EXCEPT !.at = "confirming"]
      <4>1. gesture = Told(gesture, gesture.said, gesture.holder)
        BY <2>1 DEF GestureNames
      <4>2. /\ gesture'.at = "confirming" /\ gesture'.session = gesture.session
            /\ gesture'.to = gesture.to /\ gesture'.expect = gesture.expect
            /\ gesture'.force = gesture.force /\ gesture'.holder = gesture.holder
        BY <3>2, <4>1 DEF Told
      <4> QED
        BY <2>1, <3>2, <4>2 DEF GestureNames, GestureExpects
    <3> QED
      BY <2>4, <3>1, <3>2
  <2> QED
    BY <2>1, <2>3, <2>5 DEF ListRead
<1> QED
  BY <1>1, <1>2, <1>3, <1>4, <1>5, <1>6

\* Every step of the window and of the daemon around it keeps the invariant.
LEMMA WindowKept ==
    ASSUME WindowInv, [WindowNext]_windowVars
    PROVE  WindowInv'
<1>1. OwnersTypeOK'
  <2>1. OwnerStep \/ UNCHANGED ownerVars
    BY WindowOwnerStep DEF WindowInv, windowVars, ownerVars
  <2> QED
    BY <2>1, OwnerStepTypes DEF WindowInv, WindowTypeOK, OwnersTypeOK, ownerVars
<1>2. CASE \E t \in Threads : ChangedBy(t)
  BY <1>1, <1>2, ChangeTypes
<1>3. CASE ServeGesture
  BY <1>1, <1>3, ServedTells
<1>4. CASE UNCHANGED <<unsent, copyVars>>
  BY <1>1, <1>4 DEF copyVars, WindowInv, WindowTypeOK, ListRead, GestureNames,
                    GestureExpects
<1>5. CASE \/ ServeRead \/ Refresh \/ HearList \/ LoseRead \/ StartOver
           \/ HearAnswer \/ ConfirmForce \/ LetItBe \/ LoseAnswer
           \/ \E t \in Threads : HearChange(t)
           \/ \E s \in Sessions, to \in Holders : Decide(s, to)
  BY <1>5, WindowMoves
<1>6. CASE \/ \E d \in Devices, s \in Sessions : DeviceTypes(d, s) \/ DeviceStarts(d, s)
           \/ \E d \in Devices, s \in Sessions, to, expect \in Holders :
                 DeviceSets(d, s, to, expect)
           \/ DaemonChanges
  BY <1>2, <1>6 DEF DeviceTypes, DeviceStarts, DeviceSets, DaemonChanges, Threads
<1>7. CASE (\E s \in Sessions : DeskInputs(s)) \/ TimePasses \/ UNCHANGED windowVars
  BY <1>4, <1>7 DEF DeskInputs, TimePasses, windowVars, copyVars
<1> QED
  BY <1>3, <1>5, <1>6, <1>7 DEF WindowNext

\* The window starts with nothing asked, read or on its way.
LEMMA WindowStarts ==
    ASSUME WindowInit
    PROVE  WindowInv
<1>1. OwnersTypeOK
  BY BusyAssumption, GraceAssumption
     DEF WindowInit, InitOwners, OwnersTypeOK, Holders, Quiet, NoRelease
<1> QED
  BY <1>1 DEF WindowInit, WindowInv, WindowTypeOK, ListRead, GestureNames,
              GestureExpects, NoRead, NoGesture, Copies, Holders

\* What the window holds stays what the code's types allow.
THEOREM WindowSafe == WindowSpec => []WindowInv
  BY WindowStarts, WindowKept, PTL DEF WindowSpec

\* Whatever pushes, reads and answers it has missed, a window never takes a
\* session from a holder the human had not seen (changeOwner, `set`).
THEOREM SeenHolderLoses == WindowSpec => TakesOnlyFromTheSeen
<1>1. WindowInv /\ [WindowNext]_windowVars =>
        [\A s \in Sessions :
            ServeGesture /\ owner'[s] # owner[s] => owner[s] = asked]_windowVars
  <2> SUFFICES ASSUME WindowInv, ServeGesture, NEW s \in Sessions, owner'[s] # owner[s]
               PROVE  owner[s] = asked
    OBVIOUS
  <2>1. /\ gesture.session \in Sessions /\ gesture.expect = asked
        /\ SetOwner(Desk, gesture.session, gesture.to, gesture.expect, gesture.force,
                    Devices)
    BY DEF ServeGesture, WindowInv, GestureNames, GestureExpects
  <2>2. SetVerdict(Desk, gesture.session, gesture.to, gesture.expect, gesture.force,
                   Devices) = "done"
    BY <2>1 DEF SetOwner, ownerVars
  <2>3. s = gesture.session
    BY <2>1, <2>2 DEF SetOwner, Take, Forget, WindowInv, WindowTypeOK, OwnersTypeOK
  <2> QED
    BY <2>1, <2>2, <2>3 DEF SetVerdict
<1> QED
  BY <1>1, WindowSafe, PTL DEF WindowSpec, TakesOnlyFromTheSeen
=============================================================================
