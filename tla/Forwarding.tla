----------------------------- MODULE Forwarding -----------------------------
(***************************************************************************)
(* Forwarding: a Device's call, taken by the daemon thread that serves it, *)
(* is handed to the desktop app over the app's forwarding connection and   *)
(* waited for (crates/daemon/src/server.rs, ask_desktop; app/src-tauri/    *)
(* src/forwarding.rs).                                                     *)
(*                                                                         *)
(*   a call (ask):    new -> looked -> listed -> waiting -> done | failed  *)
(*                                            -> unsent, late -> failed    *)
(*   a connection's daemon thread (dpc):                                   *)
(*      none -> greeting -> registered -> serving                          *)
(*           -> ending -> failing -> telling -> gone                       *)
(*   the app's redial loop (lpc):                                          *)
(*      unborn -> dial -> hello -> greeted -> publish -> serve -> dial...  *)
(*                                                              -> done    *)
(*                                                                         *)
(* One action is what a thread does under one lock.  A call's kind matters *)
(* only for who answers it: a command is run by the connection's           *)
(* dispatcher thread, an attention or a bundle ask is answered on the      *)
(* spot.  Which of the calls under way on a connection is acted on next is *)
(* left open.                                                              *)
(***************************************************************************)
EXTENDS Naturals, FiniteSets

CONSTANTS
    Calls,      \* call ids
    Commands,   \* the calls that are forwarded commands
    Conns,      \* forwarding connections
    Loops,      \* runs of keep_connected, one for each `start`
    None,
    MayFail     \* whether a handshake or a read can fail on a whole socket

ASSUME NoneAssumption == None \notin Conns \cup Loops
ASSUME CommandsAssumption == Commands \subseteq Calls
ASSUME MayFailAssumption == MayFail \in BOOLEAN

VARIABLES
    ask,       \* where each call's ask_desktop is
    to,        \* the connection it was looked up to go to
    pending,   \* pending_forwards: the calls with a waiter listed
    mail,      \* what was sent on a waiter's channel
    slot,      \* `forwarding`: the registered connection
    dpc,       \* where each connection's daemon thread is
    old,       \* the connection it took the slot from
    tell,      \* the waiters it took out and has yet to tell
    cut,       \* sockets shut down, or closed at an end
    job,       \* how far each call is on each connection
    runs,      \* how often each call was dispatched
    wanted,    \* the loop of the current FORWARDING_EPOCH
    lpc, at,   \* where each loop is, and the connection it is on
    offer      \* Forwarding.offer: the connection events are queued for

askVars == <<ask, to>>
waiterVars == <<pending, mail>>
slotVars == <<slot, dpc, old, tell>>
loopVars == <<wanted, lpc, at, offer>>
vars == <<ask, to, pending, mail, slot, dpc, old, tell, cut, job, runs,
          wanted, lpc, at, offer>>

\* Where an ask holds on to its connection's writer.
Holding == {"looked", "listed", "unsent", "waiting", "late"}

\* Where a loop is on a connection.
OnConn == {"hello", "greeted", "publish", "serve"}

Init ==
    /\ ask = [c \in Calls |-> "new"] /\ to = [c \in Calls |-> None]
    /\ pending = {} /\ mail = [c \in Calls |-> "none"]
    /\ slot = None /\ dpc = [k \in Conns |-> "none"]
    /\ old = [k \in Conns |-> None] /\ tell = [k \in Conns |-> {}]
    /\ cut = {} /\ job = [k \in Conns |-> [c \in Calls |-> "none"]]
    /\ runs = [c \in Calls |-> 0]
    /\ wanted = None /\ lpc = [l \in Loops |-> "unborn"]
    /\ at = [l \in Loops |-> None] /\ offer = None

TypeOK ==
    /\ ask \in [Calls -> Holding \cup {"new", "done", "failed"}]
    /\ to \in [Calls -> Conns \cup {None}]
    /\ \A c \in Calls : ask[c] \in Holding => to[c] \in Conns
    /\ pending \subseteq Calls /\ mail \in [Calls -> {"none", "done", "gone"}]
    /\ slot \in Conns \cup {None}
    /\ dpc \in [Conns -> {"none", "greeting", "registered", "serving", "ending",
                          "failing", "telling", "gone"}]
    /\ old \in [Conns -> Conns \cup {None}] /\ tell \in [Conns -> SUBSET Calls]
    /\ cut \subseteq Conns
    /\ job \in [Conns -> [Calls ->
                  {"none", "wire", "todo", "running", "result", "reply"}]]
    /\ runs \in [Calls -> Nat]
    /\ wanted \in Loops \cup {None} /\ offer \in Conns \cup {None}
    /\ lpc \in [Loops -> OnConn \cup {"unborn", "dial", "done"}]
    /\ at \in [Loops -> Conns \cup {None}]
    /\ \A l \in Loops : lpc[l] \in OnConn => at[l] \in Conns

Asks(c, place) == ask' = [ask EXCEPT ![c] = place]
Thread(k, place) == dpc' = [dpc EXCEPT ![k] = place]
Loop(l, place) == lpc' = [lpc EXCEPT ![l] = place]
Job(k, c, place) ==
    job' = [j \in Conns |-> [d \in Calls |-> IF j = k /\ d = c THEN place ELSE job[j][d]]]

\* The calls of connection `k` that are at one of `places` are lost.
Lose(k, places) ==
    job' = [j \in Conns |-> [c \in Calls |->
               IF j = k /\ job[j][c] \in places THEN "none" ELSE job[j][c]]]

-----------------------------------------------------------------------------
(* ask_desktop, on the thread of the Device that asks. *)

\* No desktop is connected, or the registered one's writer is cloned out.
LookUp(c) ==
    /\ ask[c] = "new"
    /\ to' = [to EXCEPT ![c] = slot]
    /\ Asks(c, IF slot = None THEN "failed" ELSE "looked")
    /\ UNCHANGED <<waiterVars, slotVars, cut, job, runs, loopVars>>

List(c) ==
    /\ ask[c] = "looked"
    /\ pending' = pending \cup {c} /\ Asks(c, "listed")
    /\ UNCHANGED <<to, mail, slotVars, cut, job, runs, loopVars>>

Write(c) ==
    /\ ask[c] = "listed"
    /\ IF to[c] \in cut
       THEN Asks(c, "unsent") /\ UNCHANGED job
       ELSE Asks(c, "waiting") /\ Job(to[c], c, "wire")
    /\ UNCHANGED <<to, waiterVars, slotVars, cut, runs, loopVars>>

\* Mutant: an ask whose connection was lost asks again.
HearRetrying(c) ==
    /\ ask[c] = "waiting" /\ mail[c] # "none"
    /\ Asks(c, IF mail[c] = "done" THEN "done" ELSE "new")
    /\ mail' = [mail EXCEPT ![c] = "none"]
    /\ UNCHANGED <<to, pending, slotVars, cut, job, runs, loopVars>>

Hear(c) ==
    /\ ask[c] = "waiting" /\ mail[c] # "none"
    /\ Asks(c, IF mail[c] = "done" THEN "done" ELSE "failed")
    /\ UNCHANGED <<to, waiterVars, slotVars, cut, job, runs, loopVars>>

\* Mutant: no budget.
ElapseNever(c) ==
    /\ ask[c] = "waiting" /\ mail[c] # "none"
    /\ Asks(c, "late")
    /\ UNCHANGED <<to, waiterVars, slotVars, cut, job, runs, loopVars>>

\* The budget runs out first.
Elapse(c) ==
    /\ ask[c] = "waiting" /\ mail[c] = "none"
    /\ Asks(c, "late")
    /\ UNCHANGED <<to, waiterVars, slotVars, cut, job, runs, loopVars>>

\* Mutant: the waiter stays listed.
GiveUpListed(c) ==
    /\ ask[c] \in {"unsent", "late"}
    /\ Asks(c, "failed")
    /\ UNCHANGED <<to, waiterVars, slotVars, cut, job, runs, loopVars>>

\* The waiter is taken off the list, if it is still on it. What was sent to
\* it meanwhile is lost.
GiveUp(c) ==
    /\ ask[c] \in {"unsent", "late"}
    /\ pending' = pending \ {c} /\ Asks(c, "failed")
    /\ UNCHANGED <<to, mail, slotVars, cut, job, runs, loopVars>>

-----------------------------------------------------------------------------
(* A forwarding connection's daemon thread. *)

\* The app's Hello: the connection takes the slot, whoever had it.
Register(k) ==
    /\ dpc[k] = "greeting"
    /\ slot' = k /\ old' = [old EXCEPT ![k] = slot]
    /\ Thread(k, "registered")
    /\ UNCHANGED <<askVars, waiterVars, tell, cut, job, runs, loopVars>>

\* Mutant: the one replaced is just forgotten.
ShutOldNever(k) ==
    /\ dpc[k] = "registered"
    /\ old' = [old EXCEPT ![k] = None]
    /\ Thread(k, IF k \in cut THEN "ending" ELSE "serving")
    /\ UNCHANGED <<askVars, waiterVars, slot, tell, cut, job, runs, loopVars>>

\* "The one replaced is shut, not just forgotten", and the Hello is
\* answered: a write that fails ends the thread.
ShutOld(k) ==
    /\ dpc[k] = "registered"
    /\ cut' = cut \cup ({old[k]} \ {None})
    /\ old' = [old EXCEPT ![k] = None]
    /\ Thread(k, IF k \in cut THEN "ending" ELSE "serving")
    /\ UNCHANGED <<askVars, waiterVars, slot, tell, job, runs, loopVars>>

\* An answer goes to the waiter of its call id, if one is listed.
Complete(k, c) ==
    /\ dpc[k] = "serving" /\ job[k][c] = "reply"
    /\ Job(k, c, "none")
    /\ pending' = pending \ {c}
    /\ mail' = IF c \in pending THEN [mail EXCEPT ![c] = "done"] ELSE mail
    /\ Thread(k, IF k \in cut THEN "ending" ELSE "serving")
    /\ UNCHANGED <<askVars, slot, old, tell, cut, runs, loopVars>>

\* The socket ended, or what was read from it could not be (an answer longer
\* than a line may be).
StopReading(k) ==
    /\ dpc[k] \in {"greeting", "serving"} /\ (k \in cut \/ MayFail)
    /\ Thread(k, IF dpc[k] = "serving" THEN "ending" ELSE "gone")
    /\ UNCHANGED <<askVars, waiterVars, slot, old, tell, cut, job, runs, loopVars>>

\* ForwardingSlot::drop, and fail_pending_forwards: the slot is given up if
\* it is still this connection's, its waiters are taken, and then told.
DropSlot(k) ==
    /\ dpc[k] = "ending"
    /\ slot' = IF slot = k THEN None ELSE slot
    /\ Lose(k, {"reply"}) /\ Thread(k, "failing")
    /\ UNCHANGED <<askVars, waiterVars, old, tell, cut, runs, loopVars>>

\* Mutant: only the registered connection's end fails its waiters.
FailPendingCurrent(k) ==
    /\ dpc[k] = "failing"
    /\ tell' = [tell EXCEPT ![k] = {c \in pending : to[c] = k /\ slot = None}]
    /\ pending' = pending \ tell'[k]
    /\ Thread(k, "telling")
    /\ UNCHANGED <<askVars, mail, slot, old, cut, job, runs, loopVars>>

FailPending(k) ==
    /\ dpc[k] = "failing"
    /\ tell' = [tell EXCEPT ![k] = {c \in pending : to[c] = k}]
    /\ pending' = pending \ tell'[k]
    /\ Thread(k, "telling")
    /\ UNCHANGED <<askVars, mail, slot, old, cut, job, runs, loopVars>>

Tell(k) ==
    /\ dpc[k] = "telling"
    /\ mail' = [c \in Calls |-> IF c \in tell[k] THEN "gone" ELSE mail[c]]
    /\ tell' = [tell EXCEPT ![k] = {}] /\ Thread(k, "gone")
    /\ UNCHANGED <<askVars, pending, slot, old, cut, job, runs, loopVars>>

\* The daemon's end closes once the thread is gone and no ask has its writer.
Close(k) ==
    /\ dpc[k] = "gone" /\ k \notin cut
    /\ \A c \in Calls : ask[c] \in Holding => to[c] # k
    /\ cut' = cut \cup {k}
    /\ UNCHANGED <<askVars, waiterVars, slotVars, job, runs, loopVars>>

-----------------------------------------------------------------------------
(* The app's redial loop, keep_connected. *)

\* bootstrap, or a reconnect: the epoch moves on, and the loop before it is
\* to end.
Start(l) ==
    /\ lpc[l] = "unborn"
    /\ wanted' = l /\ offer' = None /\ Loop(l, "dial")
    /\ UNCHANGED <<askVars, waiterVars, slotVars, cut, job, runs, at>>

\* Nothing names what connection `k` last was.
Fresh(k) ==
    /\ dpc[k] \in {"none", "gone"} /\ \A l \in Loops : at[l] # k
    /\ \A c \in Calls : job[k][c] \in {"none", "reply"}
    /\ \A c \in Calls : ask[c] \in Holding => to[c] # k
    /\ slot # k /\ \A j \in Conns : old[j] # k

Dial(l, k) ==
    /\ lpc[l] = "dial" /\ wanted = l /\ Fresh(k)
    /\ Thread(k, "greeting") /\ cut' = cut \ {k}
    /\ at' = [at EXCEPT ![l] = k] /\ Loop(l, "hello")
    /\ offer' = IF offer = k THEN None ELSE offer
    /\ Lose(k, {"reply"})
    /\ UNCHANGED <<askVars, waiterVars, slot, old, tell, runs, wanted>>

\* The Hello's answer is read. Read late, after the thread that wrote it
\* ended, it is as if it had been read at once and acted on late.
Greeted(l) ==
    /\ lpc[l] = "hello" /\ dpc[at[l]] = "serving"
    /\ Loop(l, "greeted")
    /\ UNCHANGED <<askVars, waiterVars, slotVars, cut, job, runs, wanted, at, offer>>

\* The connection is over at the app's end; the loop dials again, unless it
\* is no longer wanted. What its reader had, and results not yet written, go.
Leave(l) ==
    /\ cut' = cut \cup {at[l]} /\ at' = [at EXCEPT ![l] = None]
    /\ Loop(l, IF wanted = l THEN "dial" ELSE "done")
    /\ Lose(at[l], {"wire", "result"})
    /\ UNCHANGED <<askVars, waiterVars, slotVars, runs, wanted, offer>>

HelloFails(l) ==
    /\ lpc[l] = "hello" /\ (at[l] \in cut \/ dpc[at[l]] = "gone" \/ MayFail)
    /\ Leave(l)

\* `serve` looks whether it is still wanted, and then publishes its queue.
Check(l) ==
    /\ lpc[l] = "greeted"
    /\ \/ wanted # l /\ Leave(l)
       \/ /\ wanted = l /\ Loop(l, "publish")
          /\ UNCHANGED <<askVars, waiterVars, slotVars, cut, job, runs, wanted, at,
                         offer>>

Publish(l) ==
    /\ lpc[l] = "publish"
    /\ offer' = at[l] /\ Loop(l, "serve")
    /\ UNCHANGED <<askVars, waiterVars, slotVars, cut, job, runs, wanted, at>>

Read(l, c) ==
    /\ lpc[l] = "serve" /\ job[at[l]][c] = "wire"
    /\ c \in Commands \/ at[l] \notin cut
    /\ IF c \in Commands
       THEN Job(at[l], c, "todo") /\ UNCHANGED runs
       ELSE Job(at[l], c, "reply") /\ runs' = [runs EXCEPT ![c] = @ + 1]
    /\ UNCHANGED <<askVars, waiterVars, slotVars, cut, loopVars>>

WriteResult(l, c) ==
    /\ lpc[l] = "serve" /\ job[at[l]][c] = "result"
    /\ at[l] \notin cut
    /\ Job(at[l], c, "reply")
    /\ UNCHANGED <<askVars, waiterVars, slotVars, cut, runs, loopVars>>

\* It is not wanted, the daemon's end closed, or a read or a write failed.
EndServe(l) ==
    /\ lpc[l] = "serve" /\ (wanted # l \/ at[l] \in cut \/ MayFail)
    /\ Leave(l)

StopDialling(l) ==
    /\ lpc[l] = "dial" /\ wanted # l
    /\ Loop(l, "done")
    /\ UNCHANGED <<askVars, waiterVars, slotVars, cut, job, runs, wanted, at, offer>>

-----------------------------------------------------------------------------
(* The dispatcher, one per connection. It may outlive `serve`: the command   *)
(* it is on, or one it finds queued, is its last.                            *)

Dispatch(k, c) ==
    /\ job[k][c] = "todo" /\ \A d \in Calls : job[k][d] # "running"
    /\ Job(k, c, "running")
    /\ runs' = [runs EXCEPT ![c] = @ + 1]
    /\ UNCHANGED <<askVars, waiterVars, slotVars, cut, loopVars>>

Dispatched(k, c) ==
    /\ job[k][c] = "running"
    /\ IF \E l \in Loops : at[l] = k
       THEN Job(k, c, "result")
       ELSE Lose(k, {"running", "todo"})
    /\ UNCHANGED <<askVars, waiterVars, slotVars, cut, runs, loopVars>>

-----------------------------------------------------------------------------
Asker(c) == List(c) \/ Write(c) \/ Hear(c) \/ Elapse(c) \/ GiveUp(c)

Daemon(k) ==
    \/ Register(k) \/ ShutOld(k) \/ DropSlot(k) \/ FailPending(k) \/ Tell(k)
    \/ Close(k) \/ (k \in cut /\ StopReading(k))
    \/ \E c \in Calls : Complete(k, c)

App(l) ==
    \/ \E k \in Conns : Dial(l, k)
    \/ Greeted(l) \/ Check(l) \/ Publish(l) \/ StopDialling(l)
    \/ at[l] \in cut /\ (HelloFails(l) \/ EndServe(l))
    \/ wanted # l /\ EndServe(l)
    \/ \E c \in Calls : Read(l, c) \/ WriteResult(l, c)

Next ==
    \/ \E c \in Calls : LookUp(c) \/ Asker(c)
    \/ \E k \in Conns : Daemon(k) \/ StopReading(k)
    \/ \E l \in Loops : Start(l) \/ App(l) \/ HelloFails(l) \/ EndServe(l)
    \/ \E k \in Conns, c \in Calls : Dispatch(k, c) \/ Dispatched(k, c)

Spec == Init /\ [][Next]_vars

\* The thread of a Device that asked runs, and time passes. The app may hang.
FairAsks == Spec /\ \A c \in Calls : WF_vars(Asker(c))

\* The daemon's threads and the app's run. Nobody has to ask, or to start.
FairSpec ==
    /\ FairAsks
    /\ \A k \in Conns : WF_vars(Daemon(k))
    /\ \A l \in Loops : WF_vars(App(l))
    /\ \A k \in Conns, c \in Calls : WF_vars(Dispatch(k, c) \/ Dispatched(k, c))

-----------------------------------------------------------------------------
\* Every listed waiter is an ask that has yet to return: no way out of
\* ask_desktop leaves one behind for an answer that nobody waits for.
PendingIsAwaited == \A c \in pending : ask[c] \in Holding

\* fail_pending_forwards: an ask still waiting on a connection that is gone
\* has been told so. The budget is for a desktop that is there and slow
\* ("The desktop app is connected and did not answer in time").
LostAsksAreFailed ==
    \A c \in Calls : ask[c] = "waiting" /\ dpc[to[c]] = "gone" => mail[c] # "none"

\* What the app's current loop serves is what events are queued for
\* (forwarding.rs, `serve`: "Only publish while still wanted").
EventsReachTheServed ==
    \A l \in Loops : l = wanted /\ lpc[l] = "serve" => offer = at[l]

\* However the app hangs and connections come and go, a Device that asks is
\* answered.
EveryAskEnds ==
    \A c \in Calls : ask[c] # "new" ~> ask[c] \in {"done", "failed"}

\* An app that stays up has the slot, for good, whatever older loops of its
\* own did to it (register_forwarding: "Shut, it redials and takes the slot
\* back").
DeskComesBack ==
    <>[](wanted = None \/ (lpc[wanted] = "serve" /\ slot = at[wanted]))

\* What the Device was told of each call.
Said == [c \in Calls |-> IF ask[c] \in {"done", "failed"} THEN ask[c] ELSE "nothing"]

Promise == INSTANCE ForwardCalls WITH ran <- runs, said <- Said

\* Forwarding keeps what ForwardCalls promises.
KeepsPromise == Promise!Spec
=============================================================================
