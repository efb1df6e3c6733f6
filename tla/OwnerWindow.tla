---------------------------- MODULE OwnerWindow ----------------------------
(***************************************************************************)
(* The copy of the owners a window keeps (app/src/lib/core/                *)
(* sessionOwnershipState.ts), and how it is kept: every thread of the      *)
(* daemon that changes an owner pushes the change after it has let go of   *)
(* the arbiter's lock (server.rs, announce_owners), so the pushes of two   *)
(* threads reach the window in either order.  Answers to the window's own  *)
(* requests come back on another connection, and pass pushes and are       *)
(* passed by them.                                                         *)
(*                                                                         *)
(* The window is the desk's.  One daemon thread per Device stands for its  *)
(* connections, Desk for the desk's command connection, and Daemon for the *)
(* ticker and the session pumps.                                           *)
(***************************************************************************)
EXTENDS SessionOwners

CONSTANT Daemon

ASSUME DaemonAssumption == Daemon \notin Devices \cup {Desk}

VARIABLES
    unsent,    \* per thread: the changes it has made and not yet pushed
    view,      \* the window's copy: the owner it has for each session
    knows,     \* whether a read has told it who it is (`viewer`)
    read,      \* its latest ListSessionOwners, the only one it will take
    gesture,   \* its SetSessionOwner in progress
    asked      \* the holder the human said yes to taking from

windowVars == <<owner, typed, releasesIn, deskTyped, unsent, view, knows, read,
                gesture, asked>>
copyVars == <<view, knows, read, gesture, asked>>

Threads == Devices \cup {Desk, Daemon}
Copies == [Sessions -> Holders]

NoRead == [at |-> "none", list |-> {}]
NoGesture == [at |-> "none"]

Gesture(at, s, to, expect, force) ==
    [at |-> at, session |-> s, to |-> to, expect |-> expect, force |-> force]
Told(g, said, holder) ==
    [at |-> "told", session |-> g.session, to |-> g.to, expect |-> g.expect,
     force |-> g.force, said |-> said, holder |-> holder]

WindowInit ==
    /\ InitOwners
    /\ unsent = [t \in Threads |-> {}]
    /\ view = [s \in Sessions |-> Desk]
    /\ knows = FALSE /\ read = NoRead /\ gesture = NoGesture /\ asked = Desk

WindowTypeOK ==
    /\ OwnersTypeOK
    /\ unsent \in [Threads -> SUBSET (Sessions \X Holders)]
    /\ view \in Copies /\ knows \in BOOLEAN
    /\ asked \in Holders
    /\ read.at \in {"none", "sent", "told"}
    /\ gesture.at \in {"none", "sent", "told", "confirming"}

-----------------------------------------------------------------------------
(* The daemon. *)

\* What a change has to be pushed for: the sessions whose record it changed.
Changes == {<<s, owner'[s]>> : s \in {r \in Sessions :
              owner'[r] # owner[r] \/ releasesIn'[r] # releasesIn[r]}}

\* Thread `t` changed owners under the lock; what it has to push it will,
\* before it does anything else.
ChangedBy(t) ==
    /\ unsent[t] = {}
    /\ unsent' = [unsent EXCEPT ![t] = Changes]
    /\ UNCHANGED copyVars

DeviceTypes(d, s) == DeviceInput(d, s) /\ ChangedBy(d)

DeviceStarts(d, s) == Started(d, s) /\ ChangedBy(d)

DeviceSets(d, s, to, expect) ==
    /\ SetOwner(d, s, to, expect, FALSE, Devices)
    /\ ChangedBy(d)

\* The daemon by itself: a lapse, a Device gone or back, a session's end.
DaemonChanges ==
    /\ \/ Lapse
       \/ \E d \in Devices : DeviceAway(d) \/ DeviceBack(d) \/ ReleaseDevice(d)
       \/ \E s \in Sessions : SessionEnded(s)
    /\ ChangedBy(Daemon)

DeskInputs(s) == DeskInput(s) /\ UNCHANGED <<unsent, copyVars>>

TimePasses == Second /\ UNCHANGED <<unsent, copyVars>>

\* The desk's SetSessionOwner served: pushed like any change, and answered.
ServeGesture ==
    /\ gesture.at = "sent" /\ unsent[Desk] = {}
    /\ SetOwner(Desk, gesture.session, gesture.to, gesture.expect, gesture.force, Devices)
    /\ unsent' = [unsent EXCEPT ![Desk] = Changes]
    /\ gesture' = Told(gesture,
                       SetVerdict(Desk, gesture.session, gesture.to, gesture.expect,
                                  gesture.force, Devices),
                       owner'[gesture.session])
    /\ UNCHANGED <<view, knows, read, asked>>

ServeRead ==
    /\ read.at = "sent"
    /\ read' = [at |-> "told", list |-> owner]
    /\ UNCHANGED <<ownerVars, unsent, view, knows, gesture, asked>>

-----------------------------------------------------------------------------
(* The window. *)

\* withOwnership: a change applied, whatever was there.
Apply(s, holder) == view' = [view EXCEPT ![s] = holder]

\* A push arrives.
HearChange(t) ==
    \E change \in unsent[t] :
        /\ Apply(change[1], change[2])
        /\ unsent' = [unsent EXCEPT ![t] = @ \ {change}]
        /\ UNCHANGED <<ownerVars, knows, read, gesture, asked>>

\* refreshSessionOwners: a newer read takes an older one's place.
Refresh ==
    /\ read' = [at |-> "sent", list |-> {}]
    /\ UNCHANGED <<ownerVars, unsent, view, knows, gesture, asked>>

HearList ==
    /\ read.at = "told"
    /\ view' = read.list /\ knows' = TRUE /\ read' = NoRead
    /\ UNCHANGED <<ownerVars, unsent, gesture, asked>>

\* A read that fails leaves the last answer standing.
LoseRead ==
    /\ read.at \in {"sent", "told"}
    /\ read' = NoRead
    /\ UNCHANGED <<ownerVars, unsent, view, knows, gesture, asked>>

\* watchSessionOwners starting over: it knows nothing, no read under way is
\* its own, and it reads.
StartOver ==
    /\ view' = [s \in Sessions |-> Desk] /\ knows' = FALSE
    /\ read' = [at |-> "sent", list |-> {}]
    /\ UNCHANGED <<ownerVars, unsent, gesture, asked>>

\* Take over, hand over, release: the owner it names is the one it shows.
Decide(s, to) ==
    /\ gesture = NoGesture
    /\ gesture' = Gesture("sent", s, to, view[s], FALSE)
    /\ asked' = view[s]
    /\ UNCHANGED <<ownerVars, unsent, view, knows, read>>

HearAnswer ==
    /\ gesture.at = "told"
    /\ \/ /\ gesture.said \in {"done", "unchanged", "changed"}
          /\ Apply(gesture.session, gesture.holder)
          /\ gesture' = NoGesture
       \/ /\ gesture.said \in {"busy", "notConnected"}
          /\ gesture' = IF gesture.said = "busy" /\ ~gesture.force
                        THEN [gesture EXCEPT !.at = "confirming"] ELSE NoGesture
          /\ UNCHANGED view
    /\ UNCHANGED <<ownerVars, unsent, knows, read, asked>>

\* The holder is typing: the human is shown its name, and sends it again with
\* `force`, or lets it be.
ConfirmForce ==
    /\ gesture.at = "confirming"
    /\ asked' = gesture.holder
    /\ gesture' = Gesture("sent", gesture.session, gesture.to, gesture.expect, TRUE)
    /\ UNCHANGED <<ownerVars, unsent, view, knows, read>>

LetItBe ==
    /\ gesture.at = "confirming"
    /\ gesture' = NoGesture
    /\ UNCHANGED <<ownerVars, unsent, view, knows, read, asked>>

\* The call failed, perhaps after the daemon had served it.
LoseAnswer ==
    /\ gesture.at \in {"sent", "told"}
    /\ gesture' = NoGesture
    /\ UNCHANGED <<ownerVars, unsent, view, knows, read, asked>>

-----------------------------------------------------------------------------
WindowNext ==
    \/ \E d \in Devices, s \in Sessions : DeviceTypes(d, s) \/ DeviceStarts(d, s)
    \/ \E d \in Devices, s \in Sessions, to, expect \in Holders :
          DeviceSets(d, s, to, expect)
    \/ DaemonChanges
    \/ \E s \in Sessions : DeskInputs(s)
    \/ TimePasses
    \/ ServeGesture \/ ServeRead
    \/ \E t \in Threads : HearChange(t)
    \/ Refresh \/ HearList \/ LoseRead \/ StartOver
    \/ \E s \in Sessions, to \in Holders : Decide(s, to)
    \/ HearAnswer \/ ConfirmForce \/ LetItBe \/ LoseAnswer

WindowSpec == WindowInit /\ [][WindowNext]_windowVars

-----------------------------------------------------------------------------
\* However stale its copy, the window takes a session only from the holder the
\* human saw: the owner shown when the gesture began, or the one the "is
\* typing right now" question named (changeOwner captures `expect` once).
TakesOnlyFromTheSeen ==
    [][\A s \in Sessions :
         ServeGesture /\ owner'[s] # owner[s] => owner[s] = asked]_windowVars

\* Once it has read the owners, and with nothing under way between it and the
\* daemon, the window's copy says what the arbiter says (withOwnership: "the
\* latest one is the truth").
QuietCopyIsRight ==
    (/\ knows
     /\ \A t \in Threads : unsent[t] = {}
     /\ read = NoRead /\ gesture = NoGesture)
        => view = owner
=============================================================================
