----------------------------- MODULE DeviceLink -----------------------------
(***************************************************************************)
(* Session ownership composed with what it depends on: the connections the *)
(* Devices hold, each served by a thread of its own, the trust rows those  *)
(* threads read, and the desk's revocations and pairings, which run on     *)
(* other threads (crates/daemon/src/server.rs, remote.rs).                 *)
(*                                                                         *)
(* The code takes one lock at a time, so one action is what a thread does  *)
(* under one lock; what it has read and not yet acted on is its `pc`:      *)
(*                                                                         *)
(*   idle -> judged -> entered -> admitted -> serving <-> cleared          *)
(*             |          |                    |  ^    -> answered         *)
(*           (busy)    refused              ending <- removing, removed    *)
(*                                             |                           *)
(*                                  gone -> away -> idle                   *)
(***************************************************************************)
EXTENDS SessionOwners

CONSTANTS
    Conns,          \* connection threads
    MaxConns,       \* MAX_CONNECTIONS_PER_DEVICE
    StoreMayFail    \* whether a read of the trust store can fail

ASSUME MaxConnsAssumption == MaxConns \in Nat \ {0}
ASSUME StoreAssumption == StoreMayFail \in BOOLEAN
ASSUME ConnsAssumption == IsFiniteSet(Conns)

VARIABLES
    row,      \* a Device's row in the trust store: would it be admitted
    desk,     \* per Device: how far a revocation or a pairing has come
    pc,       \* where each connection's thread is
    dev,      \* the Device it carries
    table,    \* device_connections
    shut      \* the connections whose socket has been shut down

linkVars == <<row, desk, pc, dev, table, shut>>
vars == <<owner, typed, releasesIn, deskTyped, row, desk, pc, dev, table, shut>>

Rows == {"trusted", "ended"}
Phases == {"none", "revoked", "shut", "released", "paired",
           "allRevoked", "allShut"}
Places == {"idle", "judged", "entered", "refused", "admitted", "serving",
           "cleared", "answered", "removing", "removed", "ending", "gone",
           "away"}

\* Where a thread is between its entry and its removal from the table.
Registered == {"entered", "admitted", "serving", "cleared", "answered",
               "removing", "removed", "ending"}

\* Where its socket still matters to it.
Carried == {"admitted", "serving", "cleared", "answered"}

Init ==
    /\ InitOwners
    /\ row = [d \in Devices |-> "trusted"]
    /\ desk = [d \in Devices |-> "none"]
    /\ pc = [c \in Conns |-> "idle"]
    /\ dev \in [Conns -> Devices]
    /\ table = {}
    /\ shut = {}

TypeOK ==
    /\ OwnersTypeOK
    /\ row \in [Devices -> Rows]
    /\ desk \in [Devices -> Phases]
    /\ pc \in [Conns -> Places]
    /\ dev \in [Conns -> Devices]
    /\ table \subseteq Conns
    /\ shut \subseteq Conns

Of(d) == {c \in table : dev[c] = d}

\* device_is_live, for every Device at once.
Live == {dev[c] : c \in table}

Go(c, place) == pc' = [pc EXCEPT ![c] = place]

\* A read of the row that does not say yes: it has ended, or it could not be
\* read ("A store that cannot be read has not said yes").
Refusable(d) == row[d] = "ended" \/ StoreMayFail

-----------------------------------------------------------------------------
(* A connection from its handshake to its first request. *)

\* remote.rs judged the key that handshook and spawned the thread.
Judge(c, d) ==
    /\ pc[c] = "idle" /\ row[d] = "trusted"
    /\ Go(c, "judged") /\ dev' = [dev EXCEPT ![c] = d]
    /\ UNCHANGED <<ownerVars, row, desk, table, shut>>

\* One that knocks without a row is refused there, and what it owned goes
\* back to the desk.
RefuseAtTheDoor(d) ==
    /\ row[d] = "ended" /\ Held(d) # {}
    /\ ReleaseDevice(d)
    /\ UNCHANGED linkVars

\* Busy: the Device, or the daemon, holds as many connections as it may. The
\* daemon's ceiling counts clients this model leaves out, so it can bite at
\* any time.
TurnAway(c) ==
    /\ pc[c] = "judged"
    /\ Go(c, "idle")
    /\ UNCHANGED <<ownerVars, row, desk, dev, table, shut>>

\* Mutant: the row judged at the handshake is not read again.
EnterAdmitted(c) ==
    /\ pc[c] = "judged" /\ Cardinality(Of(dev[c])) < MaxConns
    /\ Go(c, "admitted") /\ table' = table \cup {c}
    /\ UNCHANGED <<ownerVars, row, desk, dev, shut>>

Enter(c) ==
    /\ pc[c] = "judged" /\ Cardinality(Of(dev[c])) < MaxConns
    /\ Go(c, "entered") /\ table' = table \cup {c}
    /\ UNCHANGED <<ownerVars, row, desk, dev, shut>>

\* The row is read after the entry exists. A refusal that ends the Device's
\* trust is noted by remote.rs, in a step of its own; a store that could not
\* be read is not such a refusal.
ReadRow(c) ==
    /\ pc[c] = "entered"
    /\ \/ /\ row[dev[c]] = "trusted"
          /\ Go(c, "admitted")
          /\ UNCHANGED <<table, shut>>
       \/ /\ row[dev[c]] = "ended"
          /\ Go(c, "refused")
          /\ table' = table \ {c} /\ shut' = shut \ {c}
       \/ /\ StoreMayFail
          /\ Go(c, "idle")
          /\ table' = table \ {c} /\ shut' = shut \ {c}
    /\ UNCHANGED <<ownerVars, row, desk, dev>>

NoteRefusal(c) ==
    /\ pc[c] = "refused"
    /\ ReleaseDevice(dev[c]) /\ Go(c, "idle")
    /\ UNCHANGED <<row, desk, dev, table, shut>>

ComeBack(c) ==
    /\ pc[c] = "admitted"
    /\ DeviceBack(dev[c]) /\ Go(c, "serving")
    /\ UNCHANGED <<row, desk, dev, table, shut>>

-----------------------------------------------------------------------------
(* Requests. *)

\* A request was read, perhaps one buffered before the socket was shut, and
\* the row is asked about once more.
Request(c) ==
    /\ pc[c] = "serving"
    /\ \/ row[dev[c]] = "trusted" /\ Go(c, "cleared")
       \/ Refusable(dev[c]) /\ Go(c, "ending")
    /\ UNCHANGED <<ownerVars, row, desk, dev, table, shut>>

\* The answer is written before the next request is read, and a write to a
\* socket that was shut ends the loop.
Answered(c) == Go(c, IF c \in shut THEN "ending" ELSE "serving")

Input(c, s) ==
    /\ pc[c] = "cleared"
    /\ DeviceInput(dev[c], s) /\ Answered(c)
    /\ UNCHANGED <<row, desk, dev, table, shut>>

DeviceSet(c, s, to, expect, force) ==
    /\ pc[c] = "cleared"
    /\ SetOwner(dev[c], s, to, expect, force, Live) /\ Answered(c)
    /\ UNCHANGED <<row, desk, dev, table, shut>>

\* create_session: the desk started a session and the Device was told so.
\* The record follows the answer, and only an answer that could be written.
Create(c) ==
    /\ pc[c] = "cleared"
    /\ Go(c, IF c \in shut THEN "ending" ELSE "answered")
    /\ UNCHANGED <<ownerVars, row, desk, dev, table, shut>>

NoteStarted(c, s) ==
    /\ pc[c] = "answered"
    /\ Started(dev[c], s) /\ Go(c, "serving")
    /\ UNCHANGED <<row, desk, dev, table, shut>>

\* RemoveThisDevice: the row goes, then the sessions, then the other
\* connections; this one ends by itself.
RemoveRow(c) ==
    /\ pc[c] = "cleared"
    /\ row' = [row EXCEPT ![dev[c]] = "ended"] /\ Go(c, "removing")
    /\ UNCHANGED <<ownerVars, desk, dev, table, shut>>

RemoveSessions(c) ==
    /\ pc[c] = "removing"
    /\ ReleaseDevice(dev[c]) /\ Go(c, "removed")
    /\ UNCHANGED <<row, desk, dev, table, shut>>

RemoveOthers(c) ==
    /\ pc[c] = "removed"
    /\ shut' = shut \cup (Of(dev[c]) \ {c}) /\ Go(c, "ending")
    /\ UNCHANGED <<ownerVars, row, desk, dev, table>>

Handle(c) ==
    \/ \E s \in Sessions : Input(c, s)
    \/ \E s \in Sessions, to, expect \in Holders, force \in BOOLEAN :
          DeviceSet(c, s, to, expect, force)
    \/ Create(c)
    \/ RemoveRow(c)

-----------------------------------------------------------------------------
(* A connection's end. *)

\* The Device hangs up, the network drops, or the transport is switched off.
HangUp(c) ==
    /\ pc[c] \in Carried /\ c \notin shut
    /\ shut' = shut \cup {c}
    /\ UNCHANGED <<ownerVars, row, desk, pc, dev, table>>

\* What carries the connection polls the row: a revocation at another
\* daemon's desk shuts nothing here.
CarryEnds(c) ==
    /\ pc[c] \in Carried /\ c \notin shut
    /\ Refusable(dev[c])
    /\ shut' = shut \cup {c}
    /\ UNCHANGED <<ownerVars, row, desk, pc, dev, table>>

EndOfStream(c) ==
    /\ pc[c] = "serving" /\ c \in shut
    /\ Go(c, "ending")
    /\ UNCHANGED <<ownerVars, row, desk, dev, table, shut>>

\* DeviceConnectionSlot::drop, three locks one after the other.
DropEntry(c) ==
    /\ pc[c] = "ending"
    /\ Go(c, "gone") /\ table' = table \ {c} /\ shut' = shut \ {c}
    /\ UNCHANGED <<ownerVars, row, desk, dev>>

\* Mutants: nobody is told the Device is away; a Device whose trust has ended
\* is not, its sessions having been released.
DropLooksNoMore(c) ==
    /\ pc[c] = "gone"
    /\ Go(c, "idle")
    /\ UNCHANGED <<ownerVars, row, desk, dev, table, shut>>

DropLooksTrusted(c) ==
    /\ pc[c] = "gone"
    /\ Go(c, IF dev[c] \in Live \/ row[dev[c]] = "ended" THEN "idle" ELSE "away")
    /\ UNCHANGED <<ownerVars, row, desk, dev, table, shut>>

DropLooks(c) ==
    /\ pc[c] = "gone"
    /\ Go(c, IF dev[c] \in Live THEN "idle" ELSE "away")
    /\ UNCHANGED <<ownerVars, row, desk, dev, table, shut>>

DropAway(c) ==
    /\ pc[c] = "away"
    /\ DeviceAway(dev[c]) /\ Go(c, "idle")
    /\ UNCHANGED <<row, desk, dev, table, shut>>

-----------------------------------------------------------------------------
(* The desk, and the daemon's own ticker. *)

\* revoke_device: the row, the connections, the sessions.
RevokeRow(d) ==
    /\ desk[d] = "none"
    /\ row' = [row EXCEPT ![d] = "ended"]
    /\ desk' = [desk EXCEPT ![d] = "revoked"]
    /\ UNCHANGED <<ownerVars, pc, dev, table, shut>>

\* Mutant: what is shut is taken off the table too.
RevokeShutRemoving(d) ==
    /\ desk[d] = "revoked"
    /\ shut' = shut \cup Of(d) /\ table' = table \ Of(d)
    /\ desk' = [desk EXCEPT ![d] = "shut"]
    /\ UNCHANGED <<ownerVars, row, pc, dev>>

RevokeShut(d) ==
    /\ desk[d] = "revoked"
    /\ shut' = shut \cup Of(d)
    /\ desk' = [desk EXCEPT ![d] = "shut"]
    /\ UNCHANGED <<ownerVars, row, pc, dev, table>>

RevokeRelease(d) ==
    /\ desk[d] = "shut"
    /\ ReleaseDevice(d)
    /\ desk' = [desk EXCEPT ![d] = "released"]
    /\ UNCHANGED <<row, pc, dev, table, shut>>

\* revoke_all_devices: every row, every connection, then the sessions of the
\* Devices it finds owning one.
RevokeAllRows ==
    /\ \A d \in Devices : desk[d] \in {"none", "released"}
    /\ row' = [d \in Devices |-> "ended"]
    /\ desk' = [d \in Devices |-> "allRevoked"]
    /\ UNCHANGED <<ownerVars, pc, dev, table, shut>>

RevokeAllShut ==
    /\ \A d \in Devices : desk[d] = "allRevoked"
    /\ shut' = shut \cup table
    /\ desk' = [d \in Devices |-> "allShut"]
    /\ UNCHANGED <<ownerVars, row, pc, dev, table>>

RevokeAllList ==
    /\ \A d \in Devices : desk[d] = "allShut"
    /\ desk' = [d \in Devices |-> IF Held(d) # {} THEN "shut" ELSE "released"]
    /\ UNCHANGED <<ownerVars, row, pc, dev, table, shut>>

\* The other daemon that shares the store revoked the Device.
RevokeElsewhere(d) ==
    /\ row[d] = "trusted"
    /\ row' = [row EXCEPT ![d] = "ended"]
    /\ UNCHANGED <<ownerVars, desk, pc, dev, table, shut>>

\* confirm_pairing of a Device that has, or had, a row: the row is revived,
\* then the connections made under the old one are shut.
PairAgain(d) ==
    /\ desk[d] \in {"none", "released"}
    /\ row' = [row EXCEPT ![d] = "trusted"]
    /\ desk' = [desk EXCEPT ![d] = "paired"]
    /\ UNCHANGED <<ownerVars, pc, dev, table, shut>>

PairShut(d) ==
    /\ desk[d] = "paired"
    /\ shut' = shut \cup Of(d)
    /\ desk' = [desk EXCEPT ![d] = "none"]
    /\ UNCHANGED <<ownerVars, row, pc, dev, table>>

DeskTypes(s) == DeskInput(s) /\ UNCHANGED linkVars

DeskSet(s, to, expect, force) ==
    /\ SetOwner(Desk, s, to, expect, force, Live)
    /\ UNCHANGED linkVars

EndSession(s) == SessionEnded(s) /\ UNCHANGED linkVars

TickLapse == Lapsed # {} /\ Lapse /\ UNCHANGED linkVars

Tick == Second /\ UNCHANGED linkVars

-----------------------------------------------------------------------------
Thread(c) ==
    \/ Enter(c) \/ TurnAway(c) \/ ReadRow(c) \/ NoteRefusal(c) \/ ComeBack(c)
    \/ Handle(c)
    \/ \E s \in Sessions : NoteStarted(c, s)
    \/ RemoveSessions(c) \/ RemoveOthers(c)
    \/ DropEntry(c) \/ DropLooks(c) \/ DropAway(c)

Revocation(d) == RevokeShut(d) \/ RevokeRelease(d) \/ PairShut(d)

DeskGesture ==
    \/ \E s \in Sessions : DeskTypes(s) \/ EndSession(s)
    \/ \E s \in Sessions, to, expect \in Holders, force \in BOOLEAN :
          DeskSet(s, to, expect, force)

Next ==
    \/ \E c \in Conns, d \in Devices : Judge(c, d)
    \/ \E c \in Conns : Thread(c) \/ Request(c) \/ EndOfStream(c)
                        \/ HangUp(c) \/ CarryEnds(c)
    \/ \E d \in Devices : RevokeRow(d) \/ Revocation(d) \/ PairAgain(d)
                            \/ RevokeElsewhere(d) \/ RefuseAtTheDoor(d)
    \/ RevokeAllRows \/ RevokeAllShut \/ RevokeAllList
    \/ DeskGesture
    \/ TickLapse
    \/ Tick

Spec == Init /\ [][Next]_vars

\* A thread that can run does, a carrier whose Device's row ended notices at
\* its next poll, time passes and the ticker wakes. A reader whose socket is
\* shut has finitely many requests left to find, so it comes to the end of
\* them: strong fairness. Nobody has to connect, ask, hang up, revoke or pair.
Fairness ==
    /\ \A c \in Conns :
          /\ WF_vars(Thread(c))
          /\ WF_vars(row[dev[c]] = "ended" /\ CarryEnds(c))
          /\ SF_vars(EndOfStream(c))
    /\ \A d \in Devices : WF_vars(Revocation(d))
    /\ WF_vars(RevokeAllShut) /\ WF_vars(RevokeAllList)
    /\ WF_vars(TickLapse) /\ WF_vars(Tick)

FairSpec == Spec /\ Fairness

-----------------------------------------------------------------------------
\* register_device_connection: "a revocation that came first is seen in the
\* row, and one that comes after finds the entry". Once a revocation has shut
\* what it found, the Device's only other entries are of threads that have
\* yet to read the row, which says no.
RevocationFindsEveryConnection ==
    \A d \in Devices : desk[d] \in {"shut", "released", "allShut"} =>
        /\ row[d] = "ended"
        /\ \A c \in Of(d) : c \in shut \/ pc[c] = "entered"

\* The table is what a revocation goes by, so it lists exactly the threads
\* between their entry and their own removal: none is served unlisted, and no
\* entry outlives its thread ("Shut down, not removed").
TableMatchesThreads ==
    \A c \in Conns : c \in table <=> pc[c] \in Registered

\* A session is never left with an owner that is not there: an owner with no
\* connection is away with its grace running, or a thread that saw its last
\* connection go is about to say so.
AbsentOwnerIsNoticed ==
    \A s \in Sessions :
        owner[s] # Desk /\ releasesIn[s] = NoRelease /\ owner[s] \notin Live =>
            \E c \in Conns :
                dev[c] = owner[s] /\ pc[c] \in {"gone", "away", "refused"}

\* The grace is for a Device that has left: one that is being served, its
\* socket open, has no session the ticker would take from it.
LapseSparesTheConnected ==
    \A s \in Lapsed : ~\E c \in table :
        dev[c] = owner[s] /\ pc[c] = "serving" /\ c \notin shut

\* An owner that stays away loses its sessions, with nobody asking.
AbsentOwnerLetsGo ==
    \A s \in Sessions, d \in Devices :
        owner[s] = d /\ d \notin Live ~> owner[s] # d \/ d \in Live

\* A revoked Device leaves: its connections end, and every session it took
\* on the way out goes back, unless it is paired again.
RevokedLeaves ==
    \A d \in Devices :
        desk[d] = "released" ~>
            (Of(d) = {} /\ Held(d) = {}) \/ desk[d] # "released"
=============================================================================
