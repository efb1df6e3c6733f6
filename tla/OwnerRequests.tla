--------------------------- MODULE OwnerRequests ---------------------------
(***************************************************************************)
(* The arbiter on its own, serving every request the daemon can put to it  *)
(* in any order: the desk's and the Devices' input, `SetSessionOwner` from *)
(* either, a Device's start of a session, and the events of the link       *)
(* (server.rs calls them from the connection threads).  Which Devices are  *)
(* connected is left open here: DeviceLink models it.                      *)
(***************************************************************************)
EXTENDS SessionOwners

VARIABLE answer    \* the call just served, and what it was told

requestVars == <<owner, typed, releasesIn, deskTyped, answer>>

Calls == {"none", "input", "deskInput", "started", "set", "away", "back",
          "lapse", "release", "end", "second"}
Verdicts == {"none", "own", "owned", "busy", "claimed", "changed",
             "unchanged", "notConnected", "done"}

\* What a property needs to know of a call: its kind, who made it (the desk
\* for what the daemon does by itself), whether it was forced, the verdict.
Answer(call, by, force, said) ==
    [call |-> call, by |-> by, force |-> force, said |-> said]

Did(call) == answer' = Answer(call, Desk, FALSE, "none")

RequestsInit == InitOwners /\ answer = Answer("none", Desk, FALSE, "none")

RequestsTypeOK ==
    /\ OwnersTypeOK
    /\ answer \in [call : Calls, by : Holders, force : BOOLEAN, said : Verdicts]

-----------------------------------------------------------------------------
ServeInput(d, s) ==
    /\ DeviceInput(d, s)
    /\ answer' = Answer("input", d, FALSE, InputVerdict(d, s))

ServeSet(caller, s, to, expect, force, live) ==
    /\ SetOwner(caller, s, to, expect, force, live)
    /\ answer' = Answer("set", caller, force,
                        SetVerdict(caller, s, to, expect, force, live))

ServeStarted(d, s) == Started(d, s) /\ Did("started")

ServeDeskInput(s) == DeskInput(s) /\ Did("deskInput")

ServeAway(d) == DeviceAway(d) /\ Did("away")

ServeBack(d) == DeviceBack(d) /\ Did("back")

ServeRelease(d) == ReleaseDevice(d) /\ Did("release")

ServeEnd(s) == SessionEnded(s) /\ Did("end")

\* The owner-lapse ticker, on the second that finds something to release.
ServeLapse == Lapsed # {} /\ Lapse /\ Did("lapse")

ServeSecond == Second /\ Did("second")

RequestsNext ==
    \/ \E d \in Devices, s \in Sessions : ServeInput(d, s) \/ ServeStarted(d, s)
    \/ \E caller, to, expect \in Holders, s \in Sessions, force \in BOOLEAN,
          live \in {{}, Devices} :   \* only whether `to` is in it matters
             ServeSet(caller, s, to, expect, force, live)
    \/ \E s \in Sessions : ServeDeskInput(s) \/ ServeEnd(s)
    \/ \E d \in Devices : ServeAway(d) \/ ServeBack(d) \/ ServeRelease(d)
    \/ ServeLapse
    \/ ServeSecond

\* Time passes, and the ticker thread wakes every second.
RequestsSpec ==
    /\ RequestsInit /\ [][RequestsNext]_requestVars
    /\ WF_requestVars(ServeLapse) /\ WF_requestVars(ServeSecond)

-----------------------------------------------------------------------------
\* A holder that typed a moment ago loses its session only to a call it made
\* itself, a forced one, or one that asks nobody: the session's start or end,
\* a lapse, a revocation ("Busy: the confirm" of the ownership spec).
HolderIsAskedFirst ==
    [][\A s \in Sessions :
         owner'[s] # owner[s] /\ Fresh(HolderTyped(s)) =>
            \/ answer'.by = owner[s]
            \/ answer'.force
            \/ answer'.call \in {"started", "end", "lapse", "release"}]_requestVars

\* A grace once started only runs down, until the session has no release
\* waiting at all: nothing that happens while the owner is away restarts it.
GraceIsNotRestarted ==
    [][\A s \in Sessions :
         releasesIn[s] # NoRelease =>
            \/ releasesIn'[s] <= releasesIn[s]
            \/ releasesIn'[s] = NoRelease]_requestVars

\* A session whose owner went away does not wait for ever: its release is
\* carried out or called off (spawn_owner_lapse, "with nobody asking").
GraceEnds ==
    \A s \in Sessions : releasesIn[s] # NoRelease ~> releasesIn[s] = NoRelease
=============================================================================
