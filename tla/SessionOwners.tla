--------------------------- MODULE SessionOwners ---------------------------
(***************************************************************************)
(* The daemon's session arbiter (crates/daemon/src/ownership.rs): which    *)
(* Device each session takes input from.  No record means the session is   *)
(* the desk's.  Every operation below is one method of `Owners`, run under *)
(* the one mutex `session_owners`, so each is one atomic step.             *)
(*                                                                         *)
(* Time.  The code stores epoch seconds and only ever compares a stored    *)
(* second with now, so the model stores AGES: how long ago a holder typed, *)
(* saturating at BusySecs ("not a moment ago", which is also what a        *)
(* missing stamp means), and how long until an away owner's session is     *)
(* released, with NoRelease for an owner that is not away.                 *)
(***************************************************************************)
EXTENDS Naturals, FiniteSets

CONSTANTS
    Sessions,    \* session ids
    Devices,     \* paired Devices' ids
    Desk,        \* the holder of a session without a record
    BusySecs,    \* OWNER_BUSY_SECS
    GraceSecs    \* OWNER_GRACE_SECS

ASSUME DeskAssumption == Desk \notin Devices
ASSUME BusyAssumption == BusySecs \in Nat \ {0}
ASSUME GraceAssumption == GraceSecs \in Nat \ {0}

VARIABLES
    owner,       \* by_session: the owning Device, or Desk
    typed,       \* age of the owner's typed_at
    releasesIn,  \* seconds until releases_at, or NoRelease
    deskTyped    \* age of desk_typed, the desk's last input

ownerVars == <<owner, typed, releasesIn, deskTyped>>

Holders == Devices \cup {Desk}

\* A stamp that is missing or too old to matter.
Quiet == BusySecs

\* releases_at of an owner that is not away: none.
NoRelease == GraceSecs + 1

Fresh(age) == age < BusySecs

\* The sessions `d` holds a record for.
Held(d) == {s \in Sessions : owner[s] = d}

\* How long ago whoever holds `s` typed: the record's stamp, or the desk's.
HolderTyped(s) == IF owner[s] = Desk THEN deskTyped[s] ELSE typed[s]

InitOwners ==
    /\ owner = [s \in Sessions |-> Desk]
    /\ typed = [s \in Sessions |-> Quiet]
    /\ releasesIn = [s \in Sessions |-> NoRelease]
    /\ deskTyped = [s \in Sessions |-> Quiet]

OwnersTypeOK ==
    /\ owner \in [Sessions -> Holders]
    /\ typed \in [Sessions -> 0..BusySecs]
    /\ releasesIn \in [Sessions -> 0..NoRelease]
    /\ deskTyped \in [Sessions -> 0..BusySecs]

-----------------------------------------------------------------------------
(* What every change of owner comes down to. *)

\* `take`: a fresh record for `d`, and the desk's stamp forgotten.
Take(s, d, age) ==
    /\ owner' = [owner EXCEPT ![s] = d]
    /\ typed' = [typed EXCEPT ![s] = age]
    /\ releasesIn' = [releasesIn EXCEPT ![s] = NoRelease]
    /\ deskTyped' = [deskTyped EXCEPT ![s] = Quiet]

\* The records of the sessions in S are removed.
Forget(S) ==
    /\ owner' = [s \in Sessions |-> IF s \in S THEN Desk ELSE owner[s]]
    /\ typed' = [s \in Sessions |-> IF s \in S THEN Quiet ELSE typed[s]]
    /\ releasesIn' =
         [s \in Sessions |-> IF s \in S THEN NoRelease ELSE releasesIn[s]]

-----------------------------------------------------------------------------
(* The operations. *)

\* Mutant: the desk's write is taken for its typing whoever owns the session.
DeskInputAlways(s) ==
    /\ deskTyped' = [deskTyped EXCEPT ![s] = 0]
    /\ UNCHANGED <<owner, typed, releasesIn>>

\* Remembered only while no Device owns the session: while one does, the
\* desk's write is the owner's own forwarded input.
DeskInput(s) ==
    /\ deskTyped' = IF owner[s] = Desk
                    THEN [deskTyped EXCEPT ![s] = 0] ELSE deskTyped
    /\ UNCHANGED <<owner, typed, releasesIn>>

InputVerdict(d, s) ==
    IF owner[s] = d THEN "own"
    ELSE IF owner[s] # Desk THEN "owned"
    ELSE IF Fresh(deskTyped[s]) THEN "busy"
    ELSE "claimed"

DeviceInput(d, s) ==
    \/ /\ InputVerdict(d, s) = "own"
       /\ typed' = [typed EXCEPT ![s] = 0]
       /\ UNCHANGED <<owner, releasesIn, deskTyped>>
    \/ /\ InputVerdict(d, s) = "claimed"
       /\ Take(s, d, 0)
    \/ /\ InputVerdict(d, s) \in {"owned", "busy"}
       /\ UNCHANGED ownerVars

\* A Device's create_session was answered with `s`.
Started(d, s) == Take(s, d, Quiet)

\* Mutants of the verdict, each without one of its three refusals.
SetVerdictNeverBusy(caller, s, to, expect, force, live) ==
    IF owner[s] # expect THEN "changed"
    ELSE IF to = owner[s] THEN "unchanged"
    ELSE IF to \in Devices \ ({caller} \cup live) THEN "notConnected"
    ELSE "done"

SetVerdictBlind(caller, s, to, expect, force, live) ==
    IF to = owner[s] THEN "unchanged"
    ELSE IF to \in Devices \ ({caller} \cup live) THEN "notConnected"
    ELSE IF caller # owner[s] /\ ~force /\ Fresh(HolderTyped(s)) THEN "busy"
    ELSE "done"

SetVerdictAnyTarget(caller, s, to, expect, force, live) ==
    IF owner[s] # expect THEN "changed"
    ELSE IF to = owner[s] THEN "unchanged"
    ELSE IF caller # owner[s] /\ ~force /\ Fresh(HolderTyped(s)) THEN "busy"
    ELSE "done"

\* What `set` answers, its refusals in the order the code tries them.
\* `live` holds the Devices with a connection.
SetVerdict(caller, s, to, expect, force, live) ==
    IF owner[s] # expect THEN "changed"
    ELSE IF to = owner[s] THEN "unchanged"
    ELSE IF to \in Devices \ ({caller} \cup live) THEN "notConnected"
    ELSE IF caller # owner[s] /\ ~force /\ Fresh(HolderTyped(s)) THEN "busy"
    ELSE "done"

SetOwner(caller, s, to, expect, force, live) ==
    IF SetVerdict(caller, s, to, expect, force, live) # "done"
    THEN UNCHANGED ownerVars
    ELSE IF to = Desk
    THEN Forget({s}) /\ deskTyped' = [deskTyped EXCEPT ![s] = Quiet]
    ELSE Take(s, to, Quiet)

\* Mutant: every close of a connection starts the grace, away already or not.
DeviceAwayAgain(d) ==
    /\ releasesIn' = [s \in Sessions |->
                        IF owner[s] = d THEN GraceSecs ELSE releasesIn[s]]
    /\ UNCHANGED <<owner, typed, deskTyped>>

\* The Device's last connection closed. An away owner's grace is not
\* started a second time.
DeviceAway(d) ==
    /\ releasesIn' = [s \in Sessions |->
                        IF owner[s] = d /\ releasesIn[s] = NoRelease
                        THEN GraceSecs ELSE releasesIn[s]]
    /\ UNCHANGED <<owner, typed, deskTyped>>

DeviceBack(d) ==
    /\ releasesIn' = [s \in Sessions |->
                        IF owner[s] = d THEN NoRelease ELSE releasesIn[s]]
    /\ UNCHANGED <<owner, typed, deskTyped>>

\* The sessions the ticker finds past their grace.
Lapsed == {s \in Sessions : owner[s] # Desk /\ releasesIn[s] = 0}

Lapse == Forget(Lapsed) /\ UNCHANGED deskTyped

ReleaseDevice(d) == Forget(Held(d)) /\ UNCHANGED deskTyped

SessionEnded(s) ==
    /\ Forget({s})
    /\ deskTyped' = [deskTyped EXCEPT ![s] = Quiet]

Older(age) == IF age < BusySecs THEN age + 1 ELSE age

\* A second passes.
Second ==
    /\ typed' = [s \in Sessions |-> Older(typed[s])]
    /\ deskTyped' = [s \in Sessions |-> Older(deskTyped[s])]
    /\ releasesIn' = [s \in Sessions |->
                        IF releasesIn[s] \in 1..GraceSecs
                        THEN releasesIn[s] - 1 ELSE releasesIn[s]]
    /\ UNCHANGED owner

-----------------------------------------------------------------------------
\* The two clocks a take-over is held to never disagree about whose typing
\* counts: the desk's stamp exists only while no Device owns the session, and
\* a session that is the desk's has neither an owner's stamp nor a release
\* waiting (ownership.rs: "remembered only while no Device owns the session").
RecordsCoherent ==
    \A s \in Sessions :
        /\ owner[s] # Desk => deskTyped[s] = Quiet
        /\ owner[s] = Desk => typed[s] = Quiet /\ releasesIn[s] = NoRelease
=============================================================================
