# Verification of Gavin

Gavin is a desktop application that runs AI coding agents in terminal sessions. A
daemon (Rust, `crates/daemon`) owns the sessions; a desktop app (Tauri,
`app/src-tauri`, with a TypeScript window in `app/src`) drives it; phones
("Devices", running the Companion) reach the same daemon through a Relay
(`crates/gavin-relay`) or directly, see its sessions and type into them.

This directory holds TLA+ modules for the part of Gavin in which several parties
act on the same thing at once: who a session takes input from, who is connected
and still trusted, how a phone is paired, how its stream and a workstation's are
brought together, how its call is carried out by the desktop app, whom a terminal
is sized for, how the app's requests reach the daemon, how a plan's rails are run
and how windows keep their copies of it. `PROJECT.json` maps each definition to the
source lines it models and lists the runs, their mutants, the hazards and the
theorems.

To check a run: `tlc -workers 2 -config DeviceLink.cfg DeviceLink`. To check a
proof: `tlapm Ownership_proofs.tla`.

## 1. Inventory

| Component | State it keeps | Operations | Talks to | What is hard | What makes it correct |
|---|---|---|---|---|---|
| Session arbiter (`daemon/ownership.rs`) | per session: owning Device, its last input, its release time; the desk's last input | desk and Device input, `set`, started, away, back, lapse, release, ended | called under one mutex by every connection thread and the ticker | stale `expect`, a flapping owner, two clocks | records coherent; a typing holder is asked first; a grace runs once and ends |
| Device connections and revocation (`daemon/server.rs`, `remote.rs`, `trust.rs`) | `device_connections`, trust rows, sockets shut | register, request, remove itself, drop; revoke one, all; re-pair | arbiter, trust store, desk | one lock at a time: look then act | a revocation misses no connection; no session is left with an owner that is not there |
| Ownership in a window (`app/src/lib/core/sessionOwnership*.ts`) | copy of owners, the reading in flight, the gesture in flight | refresh, push, take over, release, hand over, confirm | daemon's command and push connections | answers and pushes pass one another | a take-over is from the holder the human was shown; the copy converges |
| Relay (`gavin-relay/server.rs`) | permits, counts per source and token, registrations, waiting streams, claims | accept, register, wait, announce, pick up, hand over, copy, deadlines | daemon's dialler, Devices | a deadline against a hand-over; counts on every way out | no socket lost or joined twice; counts come back; nobody hangs |
| Forwarding to the desktop app (`daemon/server.rs`, `src-tauri/forwarding.rs`) | the slot, `pending_forwards`, the app's epoch, offer and redial loops | `ask_desktop`, register, complete, fail pending, `start`, `serve`, dispatch | Device threads, the app | lost connections, two loops, a late answer | a call runs at most once; an ask always ends; the live loop ends up in the slot |
| Pty size borrowing (`daemon/pty_borrow.rs`, `server.rs`) | borrower and the desk's size per session | desk and Device resize, gone, ended | connections, ptys, screens, the desk | decide under a lock, apply after it | a Device that is gone keeps no terminal at its size; PTY, screen and what the desk shows agree with the borrow |
| Pairing (`daemon/server.rs`, `remote.rs`, `pairing.rs`) | the offer, the handshakes that wait for the human | begin, spend, wait, give up, Confirm, Reject, Revoke all | trust store, desk | two handshakes, one secret; a timeout against Confirm; a refused write | what the Device is told is true; one secret, one question |
| Trust store (`daemon/trust.rs`) | rows and generations in a file two daemons share | confirm, revoke, revive, rotate, poll | both daemons | lost update | a revocation is never undone by another's write |
| Rails (`orchestration.ts`, `orchestrationState.ts`) | a run row per rail and step, the pass under way | tick, reconcile, launch, stall, loop, advance; play, pause, skip, retry, stop | sessions, cards, pull requests, the daemon | a list of actions decided first, carried out await by await | rows are true; a running rail is never stuck; no second agent |
| Plan copies (`orchestrationState.ts`, `daemon/orchestration.rs`, `server.rs`) | a copy of the plan per window, saves and reads in flight | edit, write a row, save, roll back, read, push, announce | windows, agents, the daemon | optimistic copies, three paths for one truth | no window loses its own write; copies converge |
| Command lane (`src-tauri/command_lane.rs`, `session.rs`) | queue, connection, replies owed, version gate | submit, withdraw, settle, write, read, redial, swap | window's commands, the daemon | replies without ids, late replies, restarts | answers go to their callers; nothing runs twice or after it was refused |
| Dial to the Relay, direct connections (`desk_relay.rs`, `direct.rs`, `gavin-relay/client.rs`) | candidates, back-off | dial, re-dial, switch | Relay | switching off against a dial in flight | off means off |
| Push gateway (`crates/push-gateway`) | grants, rates, a durable store | grant, revoke, send | daemons, push services | crash between store and send | no send without a grant |
| Scheduled tasks (`daemon/scheduled.rs`) | tasks, claims | claim, run, release | windows | two windows claim one task | a due task is run once |
| Handshakes (`unlock.rs`, `connect.rs`, `companion-core`) | session keys | - | - | cryptography | their verdict is an input of DeviceLink |
| Presence; session registry and ptys; workspace log and memory; git; headroom and browser; singleton lock and bridge; MCP server; desktop host; window layout; Companion; Relay start-up | see `PROJECT.json` | - | - | I/O, one writer, or other programs | not modelled |

How they meet. A Device's connection is accepted by `remote.rs` or through the
Relay, judged against the trust store and served by a thread of its own. That
thread puts input and ownership requests to the arbiter, answers others itself
and forwards the rest to the app with `ask_desktop`. The desk's requests, the
revocations and pairings made at the desk, and the owner-lapse ticker run on other
threads. The paths modelled here take one of the
daemon's locks at a time, so all of these interleave at every unlock. Changes of owner are pushed to the windows after the
arbiter's lock has been let go. On the desk's side every command of a window is one
request on a command lane; the scheduler of the rails runs in the window, writes its
rows through that lane and hears the daemon's pushes on a connection of its own.

## 2. Plan

Done, in this order:

1. `SessionOwners`, the arbiter's operations; `OwnerRequests`, the arbiter alone.
2. `DeviceLink`, the arbiter composed with connections, trust rows and revocation.
3. `OwnerWindow`, the arbiter composed with a window's copy of it.
4. `Relay` and its abstraction `RelayPairing`.
5. `Forwarding` and its abstraction `ForwardCalls`.
6. The theorems of section 6.
7. `PtyBorrow`, the borrows and the effects of a decision on the threads that carry
   them out.
8. `Rails`, the scheduler, and `PlanCopy`, the plan it runs as windows hold it.
9. `CommandLane`, the requests of the desk and a restart of the daemon under them.
10. `Pairing`, with the part of the trust store it writes.
11. The theorems of `Pairing`, `PtyBorrow` and `CommandLane`, and the two invariants of
    `Relay` and `DeviceLink` that had none.
12. The theorems of the window's modules: `TakesOnlyFromTheSeen`, both properties of
    `PlanCopy`, `LoopBudget`, `StallsPause`, `RunningRailsWait`, `RowsAreTrue` and
    `NoSecondAgent` of `Rails`. With these, every safety property of the runs is proved.

Next, in this order:

1. The trust store shared by two daemons: a store specification that the rows of
   DeviceLink and Pairing refine.
2. The daemon's dial to the Relay, composed with `Relay`; scheduled claims; the push
   gateway's grants and durable store.

## 3. Modules and the code

| Module | Extends | Models |
|---|---|---|
| `SessionOwners` | - | `Owners` of `ownership.rs`: one operator per method |
| `OwnerRequests` | SessionOwners | the arbiter under any order of requests, with the answer to the last |
| `DeviceLink` | SessionOwners | connection threads, trust rows, revocation, pairing, ticker |
| `OwnerWindow` | SessionOwners | a window's copy, its reads and its gestures |
| `Relay` | - | the Relay's tasks and tables |
| `RelayPairing` | - | what the Relay promises of streams (abstract) |
| `Forwarding` | - | `ask_desktop`, the slot, the app's loops and dispatcher |
| `ForwardCalls` | - | what forwarding promises of calls (abstract) |
| `PtyBorrow` | - | the borrows of terminal sizes and what follows a decision |
| `Rails` | - | the scheduler's passes, the executor, the human's presses, faults |
| `PlanCopy` | - | the plan in SQLite and in each window, saves, reads and pushes |
| `CommandLane` | - | one lane, its worker, the daemon's end and a restart |
| `Pairing` | - | offer, handshakes, the human's answers, Revoke all |
| `MCOwnerWindow`, `MCPlanCopy`, `MCPtyBorrow`, `MCRails` | the module named | symmetry sets, and the functions a configuration names |
| `*_proofs` | the module named, TLAPS | the inductive invariants, lemmas and theorems |
| `Ownership_proofs` | DeviceLink, OwnerRequests, OwnerWindow, TLAPS | the theorems of the three modules that use the arbiter, over the same lemmas about its operations |

Definitions named as mutants in a comment (`SetVerdictBlind`, `EnterAdmitted`, ...)
are deliberate mistakes. No specification uses them; each shows that a property
notices the mistake when it takes the place of the right definition.

**SessionOwners.** `owner[s]` is `by_session`, with `Desk` for no record. The code
stores epoch seconds and only compares them with now, so the model keeps ages:
`typed` and `deskTyped` saturate at `BusySecs`, where all older stamps, and a
missing one, behave alike; `releasesIn` counts down from `GraceSecs`, with
`NoRelease` for an owner that is not away. `SetVerdict` has the refusals of `set`
in the code's order. Every method runs under one mutex, so each is one step.

**OwnerRequests.** One action per call that reaches the arbiter (`ServeInput` to
`ServeLapse`, and `ServeSecond` for time). `answer` records
who made the last call, whether it was forced and what it was told, because "the
holder is asked first" is about the call and not only about the records.

**DeviceLink.** One action is what a thread does under one lock; what it has read
and not yet acted on is its place `pc[c]`. `Judge`, `Enter`, `ReadRow`, `ComeBack`
are the door and `register_device_connection`; `Request` and the handlers are
`handle_client`'s loop; `DropEntry`, `DropLooks`, `DropAway` are the three locks of
`DeviceConnectionSlot::drop`; `RevokeRow`, `RevokeShut`, `RevokeRelease` are
`revoke_device`, and `RevokeAll...` the same for all; `PairAgain`, `PairShut` are
what a confirmed pairing does to a Device that has a row; `RevokeElsewhere` is the
other daemon that shares the store, and `CarryEnds` the poll that notices it.
`StoreMayFail` says whether a read of the store can fail.

**OwnerWindow.** `unsent[t]` holds the changes a daemon thread has made and not yet
pushed: they are announced after the lock is let go, and each thread's may arrive
at any time. `read` and `gesture` are the window's two kinds of request, whose
answers come on another connection and pass the pushes. `asked` is what the human
saw: the owner shown when the gesture began or the one the confirmation named.

**Relay.** `pc[k]` is where a socket's task is (the diagram is in the module).
`slots`, `perSource`, `regs`, `perToken` and `waiting` are the tables; a Device's
socket is also the name of its stream. A deadline is `Elapse` or `RefuseHello`,
which may come at any time. A `lent` socket is a workstation's stream whose own
task is over and which a Device's task holds. `Watched` is the sockets `Settles`
speaks of: no action tells sockets apart, so what holds of one holds of each, and
TLC need follow only one.

**Forwarding.** `ask[c]` is where a call's `ask_desktop` is, `dpc[k]` where a
connection's daemon thread is, `lpc[l]` where a redial loop of the app is, and
`job[k][c]` how far a call is on a connection. `cut` holds the sockets whose end is
visible to the other side: when the daemon's thread ends, an ask that still holds
the writer keeps the socket open, so `Close` waits for it, as in the code. `MayFail`
says whether a handshake or a read may fail on a whole socket.

**PtyBorrow.** `bySession` and `deskSize` are `Borrows`; `Decide...` and `Gone` are what
a handler does under its lock, and `todo[t]` is what its thread still has to do after
letting go, in the code's order: resize the PTY, resize the screen, announce. `Connect`
to `Gone` are the entry and the drop of a connection. `alone` and `right` remember
whether an operation met another on the same terminal.

**Rails.** `pass` is the list of actions `nextActions` decided, taken off one await at a
time; `cpu` is the continuation that runs now and cannot be interrupted; `hand` is what
the human's press does at its own awaits. `row`, `rail` are `stepRuns` and `railRuns`,
`ses` the session a step made, if any. The rules of `nextActions` are operators
(`ReconcileRule`, `RunningRule`, `LoopVerdict`, ...), the executor's cases are actions
(`Do...`). A write the daemon refuses is rolled back and counted in `refused`. `overridden`
remembers what a pass went on with though a press had undone it: an advance, which does
not read its rail again, that set running a rail stopped meanwhile (`"rail"`), and a launch
still under way when a press started its rail past the step (`"step"`). `FlattenSeq` joins what is decided of the steps, stages and
rails, one after the other. `OncesAssumption` is that ids are unique: no rail, and no
step of any rail, is listed twice. `MCRails`
holds two plans: in Loop a command and a card run side by side before a check that sends
the rail back, and a second rail waits for the first; in Wait a step starts another
rail, with an agent, a wait on its pull request and a command.

**PlanCopy.** A plan is the set of edits that made it and a row is the number of the
write that made it, so "whose change is this" can be asked of any copy. `saves` and
`reads` are the requests in flight; `latest` and `mine` stand for the epochs and object
identities the code compares. `pushing` is `push_orchestration` between its read of the
store and its write to the windows; `events` keeps a window's pushes in order, while
answers come on the lane and announcements from window to window.

**CommandLane.** `Admit` and `Enqueue` are the two steps of a submit, `TakeAsk` to `Read`
those of the worker, `BeginSwap` to `AbortSwap` those of `reconnect_swapping`. A connection keeps what
was written and not served and the lines not read, so a reply can be late, too long, or
a push nobody asked for; `owed` is the replies an ssh link still waits for. A caller ends
`answered`, `unsent` (the daemon never had it) or `unknown`.

**Pairing.** `pc[a]` is where a stream's thread is in `pair_over`, `await_decision` and
`give_up`; `desk[t]` what a request of the desk has still to do, one lock at a time.
`offer` is the secret on the screen, `waiting` the handshakes the human is asked about,
`key` how often Revoke all rotated the daemon's static key. A handshake on a secret or
a key other than the one on the screen fails.

## 4. Runs

States are distinct states found by TLC.

| Run | Instance | Shows |
|---|---|---|
| `owner_requests` | 2 sessions, 2 Devices, busy and grace 2 s; 19 233 states | records coherent (`RecordsCoherent`); no typing holder loses a session unasked (`HolderIsAskedFirst`); a grace is never restarted and always ends (`GraceIsNotRestarted`, `GraceEnds`) |
| `device_link` | 1 session, 1 Device, 2 threads, fairness; 18 308 states | `RevocationFindsEveryConnection`, `TableMatchesThreads`, `AbsentOwnerIsNoticed`; an owner that stays away lets go (`AbsentOwnerLetsGo`); a revoked Device ends with no connection and no session (`RevokedLeaves`) |
| `owner_window` | 1 session, 2 Devices, symmetry; 670 822 states | `TakesOnlyFromTheSeen`, however stale the copy |
| `relay` | 4 sockets, 1 source, 2 rendezvous ids, fairness; 343 880 states | `HoldsAreHeld`, `LentIsHeld`, refinement of RelayPairing (`KeepsPairing`); `Settles`: every socket ends up registered, joined or closed |
| `forwarding` | 1 command, 2 connections, 1 loop, anything may fail, the app may hang; 44 318 states | `PendingIsAwaited`, refinement of ForwardCalls (`KeepsPromise`), `EveryAskEnds` |
| `forwarding_returns` | 1 ask, 3 connections, 2 loops, fairness; 333 104 states | `LostAsksAreFailed` and `DeskComesBack`: the wanted loop ends up in the slot for good |
| `rails_loop` | plan Loop, 2 presses, 1 retry; 978 000 states | with presses at any await: the rows whose turn it is stay true (`RowsAreTrue`), a running rail is never stuck unless an advance overrode a Reset (`RunningRailsWait`), a stall pauses (`StallsPause`), a loop keeps its budget (`LoopBudget`), no running step gets a second agent (`NoSecondAgent`) |
| `rails_wait` | plan Wait, 1 press, 1 fault; 147 000 states | `RowsAreTrue` and `RunningRailsWait` after a restart of the daemon, a reload of the window or a refused write; every tick ends (`TicksDrain`) |
| `pty_borrow` | 1 terminal, 2 Devices, 3 connections; 890 000 states | `GoneKeepsNoBorrow`; the terminal is right unless two operations crossed, and again after the next that runs alone (`RightUnlessCrossed`) |
| `command_lane` | 2 requests, local or ssh, 2 versions, 1 restart; 755 000 states | `AnswersMatch`; once at most, and never after it was refused or withdrawn (`RunsAsTold`); `OrderKept`; `GatedForItsDaemon`; `EveryRequestEnds` |
| `plan_copy` | 2 windows and agents, 3 writes, symmetry; 3 328 000 states | no window loses the row it wrote (`OwnRowsKept`); when all is quiet every window shows the stored plan (`QuietPlansAgree`) |
| `pairing` | 2 handshakes, 2 Devices, 2 desk threads, 1 slot, fairness; 248 000 states | `ToldWhatIsTrue`, `OneAskPerSecret`, `RevokeAllReaches`, `EveryAttemptEnds` |

**Why the bounds are enough.** No state constraint is used: apart from the size of
the constants and the bounds on what people and faults do, named below, every run is
exhaustive. Ages saturate and the grace is a countdown,
so time is finite without a clock bound. `BusySecs` and `GraceSecs` of 1 keep both
sides of each comparison; `OwnerRequests` uses 2, so that an age has a value between
fresh and stale and a grace one between started and over. The races of DeviceLink
are between two threads of one Device (an old connection's end against a new one's
start) or between a thread and the desk; sessions do not affect one another in the
arbiter. Two Devices are needed where one takes from another, and `owner_requests`
and `owner_window` have them. In `relay`, every ceiling but the process-wide one is
below the number of sockets that compete for it, so each is reached and refuses. In Forwarding, a lost
ask takes one call and its connection, and the fight over the slot takes two loops
and one connection more than loops. Several calls on one connection, more Devices
and more threads are covered by the theorems and not by TLC.

The newer modules bound what may go on for ever, in the guard of the action that does
it: `MaxConnects` (PtyBorrow) connections, enough for a Device to leave and come back;
`MaxPresses` (Rails) presses of the human and `MaxFaults` reloads, restarts and refused
writes, with `MaxTries` retries, so that a budget is used up and refused; `MaxWrites`
(PlanCopy) edits and row writes, one for each of two windows and one that crosses them,
and `MaxOdd` writes of agents and failed saves; `MaxRestarts`, `MaxConns` and `MaxNoise`
(CommandLane), for one restart around two requests, a redial after each loss, and two of
lost connections, oversized replies and unsolicited pushes; `MaxPresses` (Pairing) new
QRs and Revoke alls, for an offer replaced while a handshake on it runs. Sessions share
nothing in the borrows, so one terminal is enough; one slot of `Cap` makes pairing again
and a refusal for want of room both happen.

Of these the presses of `Rails` matter most: its exceptions (section 7, 7) were found with
more of them than the runs have. The three invariants also hold of instances that take
longer than a run should: Loop with three presses (9 026 000 states); Wait with two
presses and a fault, or three presses (3 489 000 and 2 891 000); a check that shares its
stage with a command, five presses (7 328 000); a sequence before a check, four presses
and a fault, or five presses (7 018 000 and 2 142 000).

**Reuse of names.** Connections, sockets and streams have fresh random ids in the
code. A model value stands for a new one once nothing in the state names the old
one any more (`Unnamed` in Relay, `Fresh` in Forwarding; DeviceLink's threads are
reused from `idle`, when they hold nothing).

**Deadlock** is checked in the arbiter's, the Device's, the window's and the Relay's
runs. In the others calls, presses, requests, connections or attempts are finite in
number, and a system with nobody asking is a legitimate place to stop; that nothing
stops halfway is what their liveness properties and `RunningRailsWait` say.

## 5. Fairness

- `OwnerRequests`, `DeviceLink`: time passes and the ticker, a thread that sleeps a
  second at a time, wakes. The ticker's release and the second are weakly fair.
- `DeviceLink`: a thread that is between two locks goes on; a revocation that has
  begun finishes; what carries a connection polls the row and so notices that it
  ended. A reader whose socket was shut may still find buffered requests, finitely
  many, so reaching the end of the stream is strongly fair: it is enabled again after
  each of them. Nobody has to connect, ask, hang up, revoke or pair.
- `Relay`: a task that can run does, and its deadlines pass. Nobody has to dial,
  read or hang up; a copy may go on for ever, and so `copying` is a place to settle.
- `Forwarding`: `FairAsks` has only the asking thread run and its budget elapse, so
  `EveryAskEnds` holds against an app, and a daemon thread, that hang for good.
  `FairSpec` adds the daemon's and the app's threads, a loop that redials after a
  connection ended, and the dispatcher. Failures that are not caused by a closed
  socket are never forced.
- `Rails`: a pass and a press that are under way go on: every await of theirs settles,
  since each is a request on a lane that ends it (`EveryRequestEnds`). No event of the
  world is forced.
- `CommandLane`: the worker thread runs, and each of its reads has a deadline. The daemon
  need never answer.
- `Pairing`: the thread of a handshake runs, and each of its reads and waits has a
  deadline. Neither the human nor the desk's threads have to do anything.

## 6. Theorems

TLAPS proves these for every value of the constants that satisfies the named
assumptions: `Desk` is no Device, the limits are positive or numbers, and what stands for
"none" is not one of the things it stands for the lack of (no socket, no Device, no
request, no number). `PtyAssumption` also says that a daemon hosts finitely many
terminals, since what a connection's end leaves to do is a list of them, and that
`"quiet"`, an effect with nothing to say, is not the name of a Device; `OncesAssumption`
(Rails) that ids are unique, as the daemon's are. TLC evaluates
them on every run of the module.

| Theorem | States | Argument |
|---|---|---|
| `Ownership_proofs!ArbiterCoherent` | `RequestsSpec => [](RequestsTypeOK /\ RecordsCoherent)` | inductive as it stands; each request is one `OwnerStep`, and the lemmas on that say what such a step does |
| `HolderAsked` | `RequestsSpec => HolderIsAskedFirst` | step by step from the type invariant: of all operations only `set` can take from a typing holder, and its verdict then says busy |
| `GraceKept` | `RequestsSpec => GraceIsNotRestarted` | step by step: only `device_away` starts a countdown, and only where none runs |
| `LinkSafe` | `Spec => [](TypeOK /\ TableMatchesThreads /\ RevocationFindsEveryConnection)` | inductive with `RevokedRowsEnded` added (a revocation under way has its row ended): without it a thread that reads the row after the shut could be admitted |
| `OwnersNoticed` | `Spec => []AbsentOwnerIsNoticed`, if the store can be read | every step grants sessions only to a Device that is watched (in the table, or on its way out with a thread yet to say so), and a Device stops being watched only in steps that mark it away or release it |
| `TableListsThreads` | `Spec => []TableMatchesThreads` | a part of `LinkSafe` |
| `SeenHolderLoses` | `WindowSpec => TakesOnlyFromTheSeen` | `WindowInv` below |
| `Relay_proofs!LentHeld` | `Spec => []LentIsHeld` | `StreamInv` below |
| `RelayPairs` | `Spec => KeepsPairing` | refinement. `StreamInv` follows one stream from hand to hand: a waiting Device has been claimed by nobody, a claim is one task's and of one rendezvous, a received socket is lent to that Device alone. Each step then maps to one step of RelayPairing or none |
| `HoldsKept` | `Spec => []HoldsAreHeld` | `HoldInv` is `StreamInv` with each count equal to the cardinality of the tasks it counts. A step begins a task, ends one, or leaves `Running` as it is (`RunningSteps`), and likewise for registrations and the waiting; `StreamInv` is needed because two actions also close a lent socket, which must not be counted. Finiteness is part of the invariant and not assumed |
| `Forwarding_proofs!WaitersAwaited` | `Spec => []PendingIsAwaited` | `CallInv` below |
| `CallsKept` | `Spec => KeepsPromise` | refinement. `CallInv`: a call is only on the connection it was written to, it was dispatched once iff it is past dispatching, and a waiter is either listed or about to be told, by the thread of its own connection |
| `LostAreFailed` | `Spec => []LostAsksAreFailed`, if sockets end only by closing | `LossInv` adds that a thread on its way out has its socket cut and that an ask on such a connection is still to be found by it, has been told, or will fail its write |
| `Pairing_proofs!DevicesToldTrue` | `Spec => []ToldWhatIsTrue` | `PairingInv` below |
| `SecretsSpentOnce` | `Spec => []OneAskPerSecret` | `PairingInv` |
| `RevokeAllIsFinal` | `Spec => []RevokeAllReaches` | `PairingInv` |
| `PtyBorrow_proofs!GoneDevicesKeepNothing` | `Spec => []GoneKeepsNoBorrow` | a thread that decides a Device's resize has its connection in the table until it has decided |
| `LoneOperationsMend` | `Spec => []RightUnlessCrossed` | `PtyInv` below |
| `CommandLane_proofs!RepliesMatch` | `Spec => []AnswersMatch` | `LaneInv` below |
| `ToldOutcomesHold` | `Spec => []RunsAsTold` | `LaneInv`: `Places` and `Once` |
| `RequestsInOrder` | `Spec => []OrderKept` | `LaneInv`: `InOrder` |
| `VersionsGated` | `Spec => []GatedForItsDaemon` | `LaneInv`: `VersionsKept` |
| `PlanCopy_proofs!OwnRows` | `Spec => []OwnRowsKept` | `PlanInv` below |
| `QuietPlans` | `Spec => []QuietPlansAgree` | `PlanInv`: `QuietInv` |
| `Rails_proofs!BudgetKept` | `Spec => []LoopBudget` | `RailsInv` below |
| `RailsPause` | `Spec => []StallsPause` | `StallsInv` below |
| `RailsWait` | `Spec => []RunningRailsWait` | `WaitsInv` below |
| `RowsHold` | `Spec => []RowsAreTrue` | `TruthInv` below |
| `OneAgent` | `Spec => NoSecondAgent` | `RailsInv`: a create is decided for a step that does not run (`Due`), and nothing between the two makes it run |

`PairingSafe`, `PairingTypes`, `PtySafe`, `LaneSafe`, `LaneTypesHold`, `WindowSafe`, `Types`
(PlanCopy), `RailsInvariant` and `RailsTypes` state the
inductive invariants and the types these rest on. TLC checked each invariant on the
instance of the run before it was proved.

**PairingInv** follows three things from hand to hand. The other end of a handshake's
channel is with its entry, in one request's hands, or used, and never two of these
(`EarlyFree`, `EntriesOpen`, `HandsOne`): so an answer is given once, after the row it
speaks of (`MailTrue`), and a give-up that finds its entry gone knows that an answer
will come. The number of a secret is with the thread that mints it, on the QR, or spent
(`SecretsFresh`): without the minting thread two QRs could share one. The key a handshake
ran under is the one there is, or a Revoke all is still to take back what it leads to,
or crossed it (`RowsFresh`, `OfferFresh`, `WayFresh`).

**PtyInv** says of an operation that is alone on its terminal what it still carries:
the size it will apply and the borrower it will announce are those the table records
(`Underway`, `Carries`), and a terminal with no effect left to come is right (`Settled`).
The table changes only with a decision, and a decision that meets another operation
clears `alone`, so nothing is claimed of what they leave.

**LaneInv** has a part for each property. A request is in one place at a time: queued, in
the worker's hands, written, or acted on (`Places`), and there once (`Once`). The
worker's connection carries at most one request or one answer, the one the worker waits
for or is owed (`InStep`), and the connection of a queued swap carries nothing
(`SwapsFresh`); this is why a reply needs no id. The version a request was gated for is
the one the worker goes by when it comes to its place in the queue (`VersionsKept`),
because the swap that changes it rides in the same queue; and places in the queue are in
the order of the line (`InOrder`). To keep the proof readable, `StepKinds` first shows
that each step is one of thirteen kinds of effect (`Still`, `Wrote`, `Served`, ...), and
each part is then proved once per kind and not once per action and fault.

**WindowInv** follows the window's gesture. One on its way to the daemon expects the
holder the human was shown, and one that was told "busy" met the very holder it expects,
whom the confirmation then shows (`GestureExpects`); the arbiter's verdict compares just
that with the owner there is. Nothing is said of the copy itself, and so the theorem
holds however stale it is.

**PlanInv** has two parts, over one account of who wrote what: the number of a write is
one save's, and what a window has not loaded it has not written (`Numbers`, `Unread`).
For a window's own rows (`RowInv`): a read that will be applied was asked for after the
window's last save (`LatestReads`), so its answer is no older than that (`FreshReads`),
and a save that may still be rolled back found the very copy it puts back (`Undoes`); so
neither an answer nor a rollback takes the window's row away. For all copies
(`QuietInv`): the last push on its way carries the plan last sent (`LastPush`), so once
none is on its way, the copies and the answers that count are of the stored plan.

**RailsInv** says what a pass in progress may still hold although the world went on since
it was decided. Each action left is `Due`: a step to be launched does not run, one to be
bound has its session, a count to be written leaves room for the loop-back it counts.
One action at most launches a step or sends its rail back (`Apart`), so that carrying
out one leaves the others due. No press, restart, reload or refused write between two
awaits makes what is left stale (`Undisturbed`): this is where a second pass during the
first would break it. A running row names a session or needs none (`RunningNamed`),
which is why rule 3 relaunches nothing, and what a loop has spent its row counts, but
for the refused writes (`SpentCounted`). That `nextActions` decides only such actions
rests on what `FlattenSeq` keeps of the lists it joins. The prover has no induction
theorem to offer here, since the library's take an operator; `SetInduction` states
induction for a set of naturals, from the well-foundedness of `<`, and the lemmas on
`FlattenSeq` are proved with it.

**StallsInv** is about a pass that must not forget. `RailsInv` says that nothing left in a
pass is wrong; that a stall pauses its rail says that nothing is missing from it. The
invariant lists what excuses a stalled step of a rail that runs, or that the pass will set
running: launches are held, another pass is to come (`Coming`), the pass has an action
about the step (`About`) or one that stops the rail (`Stops`), the rail is or will be past
the step's stage (`Behind`), or a step before it is not finished and the pass does not
mark it so (`Preceded`). Each action that takes an excuse away leaves another. A stall,
for one, ends with the write of its row and leaves its rail's pause; the write of "done"
that frees a later step was decided by a walk that went past it, and so read the later
step as well. The last needs two facts about the list itself: `nextActions` says of each
step of a running rail's stage what its rule says, unless one before it is unfinished
(`WalkSays`), and says all it has to say of a rail's steps before it moves the rail's
cursor (`Ordered`), so that no action about a step is carried out after the rail has left
it. In a quiet window only the last two excuses remain, and neither holds of a step on
the rail's stage whose turn it is (`QuietStalls`).

**WaitsInv** answers for each rail that runs. It is tended (`Tended`): launches are held,
another pass is to come, a Reset is taking it back, the pass has an action that stops
it, or a step `Works` on the very stage where the pass will have taken it (`AtEnd`): one
that waits for its session, a person, a pull request or a card's develop run, or that the
pass has an action about, but none the pass marks done, since that would leave the stage
with nothing. A pass establishes this because its walk ends either in the rail's
completion or at a stage it does not leave (`WalkEnds`), whose first open step is waited
on or written about (`WalkTends`, `SilentRule`). Four facts keep it so: what takes a step
back for a loop has asked for another pass (`RearmAgain`); a session that is being bound
is new, or what happened to it since has ticked (`BindInv`); a Reset under way ends with
the rail's stop (`ResetTail`); and a rail is taken through its stages in order, so that
the last advance says where it ends (`MayPrecede`).

**TruthInv** answers for each row that says running while nothing outside the window can
finish its step (`Untrue`): another pass is to come, the pass has an action about the
step, or a step before it is not finished and the pass does not mark it so. A pass
establishes this because both rules have something to say of such a row (`UntrueSpoken`),
that of a rail that runs and that of one that does not (`WalkTells`). But the walk of a
running rail begins at its current stage, so a running row *behind* it would never be
read again; that there is none is the other half of the invariant. No step before the
current stage of a rail that is not idle runs, or is still being launched (`CursorInv`),
and what is left of the pass takes no rail past such a step, unless it has marked it done
first (`MoveInv`): an advance leaves only stages whose steps are done or are marked so in
the same pass (`WalkMoves`, `WalkedPast`), in that order (`MayPrecede`); a loop's jump
goes back, or within one stage (`BeforeStage`); and a rail that arms itself, or that a
press starts, is put at its first open step, before which all is finished
(`FirstUnfinishedIs`). A press may start a rail past a step that the pass is still
launching; that is the exception the property names, and `TruthInv` claims nothing after
it, nor after a write the daemon refused (`Safe`).

Two theorems have a hypothesis that is a real limit. `OwnersNoticed` assumes
`StoreMayFail = FALSE`, and `LostAreFailed` assumes `MayFail = FALSE`: without them
the properties are false, see below.

**Only model-checked.** All liveness (`GraceEnds`, `AbsentOwnerLetsGo`,
`RevokedLeaves`, `Settles`, `EveryAskEnds`, `DeskComesBack`, `TicksDrain`,
`EveryRequestEnds`, `EveryAttemptEnds`), which the prover does not handle. No safety
property: each one that a run checks is proved. The attempt to prove the three
properties of a quiet window (`StallsPause`, `RunningRailsWait`, `RowsAreTrue`) showed
that all of them, as first stated, were false beyond the two plans and the presses of
the runs (7 in the next section). They are now stated with the exceptions that brought
to light, and proved with them.

## 7. Where the code and its words part

Each of these is what a comment or document of the repository says, or what one would
expect, and does not hold of what the code does. Where a definition is named it is in
the module and no run checks it; TLC finds a counterexample when it is added to the
configuration named.

1. `LapseSparesTheConnected` (`DeviceLink.cfg`). A Device's old connection looks whether
   the Device is live, finds it is not, and marks it away under another lock. If the
   Device reconnects in between, `device_back` runs first and the mark stays: the Device
   is connected and loses its session when the grace ends (`server.rs:2208`).
2. `QuietCopyIsRight` (`OwnerWindow.cfg`, one Device is enough). A list of owners read
   before a change and heard after its push overwrites the newer owner in the window,
   and nothing corrects it until the next push (`sessionOwnershipState.ts:118`).
   `TakesOnlyFromTheSeen` shows that no session is taken from the wrong holder for it.
3. `OpenSocketsBounded` (`Relay.cfg` with fewer permits than sockets). A handed-over
   socket gives its permit back while it stays open, so more sockets are open than
   `connections`, documented as "Sockets open at once, of every kind"
   (`gavin-relay/server.rs:542`).
4. `LostAsksAreFailed` with `MayFail = TRUE`. An ask that looked up the connection before
   it ended and listed its waiter after the connection's waiters were failed waits its
   whole budget (`server.rs:2864`).
5. `EventsReachTheServed` (`ForwardingReturns.cfg`). A loop that checked `wanted` just
   before a reconnect publishes its queue over the newer loop's, and events are dropped
   (`forwarding.rs:381`).
6. `RunStatePreserved` (`PlanCopy.cfg` with `Windows = {w}`, `Nested = {"child"}`,
   `MaxWrites = 2`, `MaxOdd = 0`). The comment at `orchestrationState.ts:2996` says run
   state survives a push; the push handler carries over the rows of rails and steps
   (`:3026`) and not those of Nested tasks, so any push, the echo of the window's own
   save included, drops them until the next read.
7. A pass that was overtaken leaves a rail behind. `RowsAreTrue` without `InTurn`: a loop
   takes the cursor back (`orchestrationState.ts:2357`) while another command of the
   check's stage runs; that command ends, and the walk of a running rail, which starts at
   its cursor, does not come to it; the re-armed step stalls and the rail is paused. The
   row says running, its session is gone, and nothing ticks until a store changes,
   although the reconciling pass is there to "Write the truth about dead sessions"
   (`orchestration.ts:1944`) for a rail where "a stall paused the rail around it"
   (`:1941`). A plan with an `until` step beside a command, and two presses, are enough;
   `StallsPause` needs the same exception in a sequence.
   `RowsAreTrue` without `"step" \notin overridden`: a rail is reset and started while the
   launch of one of its steps is at an await, the row is marked done before the second
   Start, and the bind then writes `running` over it, behind the cursor; the session dies,
   no rule reads it, and Pause, after which the reconciling pass would, does not tick
   (`orchestrationState.ts:978`). Five presses; the runs have two.
   `RunningRailsWait` without `"rail" \notin overridden`: a rail is reset while a pass that will
   advance it is at an earlier await; the advance sets it running again on a stage whose
   steps are pending (`orchestrationState.ts:2454`), `resetRail` does not tick, and the rail stands
   still until something else does. It takes a launch that crossed an earlier Reset, four
   presses in all.

Smaller ones, met while modelling, each an exception in a property or the reason a
stronger one is not stated:

- With `StoreMayFail = TRUE` in `DeviceLink.cfg`, `AbsentOwnerIsNoticed` is violated: a
  connection that is in the table counts its Device as there, so the desk can hand the
  Device a session; if the connection then cannot read the store (`server.rs:2698`) its
  entry is removed with nobody marking the Device away. And a request cleared before a
  revocation can take a session after the revocation released them (`server.rs:4089`);
  `RevokedLeaves` shows that it goes back.
- Terminals: two resizes decided in one order may be applied in the other, and the wrong
  size stays until the next operation that runs alone (`server.rs:3339`).
- Plans: a save begun during a re-read supersedes it, and what another window wrote about
  a rail stays unseen (`orchestrationState.ts:483`); the push of `gavin_start_rail` during
  a save is not read again (`:3035`); an older push of the window's own takes back a newer
  edit in flight (`:571`); the pushes of two threads may be sent in the other order
  (`server.rs:4971`); `replace_plan` takes the live sessions before the lock (`:4891`).
- Rails: a reload between a session's creation and the write of its row leaves a session
  no row names (`orchestrationState.ts:1742`); a pause pressed while a rail advances is
  overwritten by the advance (`:2453`); the automatic resume of a rail's step looks for
  its step by the ended session and does not find it (`layoutState.ts:4627`).
- Pairing: a Device told expired after `give_up`'s turns may still get its row when the
  Confirm's write takes longer (`remote.rs:1160`); Revoke all misses a handshake between
  its secret and its entry or in a Confirm's hands (`server.rs:4123`); a Confirm the
  store refused puts its handshake back after a new pairing cleared those that waited
  (`server.rs:3731`).
- Command lane: a whole restart may pass between `admit` and the queue
  (`command_lane.rs:297`), and a job queued before a restart may reach the new daemon of
  the same version (`:374`), which `finish_swap`'s comment rules out; it runs once all
  the same.

## 8. What the models leave out

- `SessionOwners`: labels, notices and the wire form of ownership; epoch arithmetic
  (ages stand for it).
- `DeviceLink`: the handshake (its verdict is an input); what requests other than the
  ones that touch ownership or trust do; the daemon-wide ceiling's other clients
  (`TurnAway` may come at any time); generations of rows and the store's file.
- `OwnerWindow`: one window, the desk's. Devices hold copies by the same code, but
  theirs are not modelled. A second refresh supersedes the first, as in the code.
- `Relay`: bytes and the byte budget (reasons for a copy to end), replacement of the
  admission tokens, shutdown.
- `Forwarding`: one app. Event relay and subscriptions are seen only in `offer`; an app
  that quits is a loop that is never heard of again. The order of queued calls is
  left open, so what holds here holds of any order.
- `PtyBorrow`: several terminals at once; the reasons a resize fails.
- `Rails`: Nested tasks' own passes, critiques, branch switches, resumption of
  conversations; one window runs the scheduler, as the code's claim on it has it.
- `PlanCopy`: which steps `dropImpossibleSteps` drops, the tick and the log that follow a
  change; rows and plans are told apart only by who wrote them.
- `CommandLane`: the second lane and requests sent apart, framing, the bridge.
- `Pairing`: the Device's own side, a second daemon on the same store, a restart of the
  daemon (it forgets the offer and those that wait).
- The components marked `not_modelled` in `PROJECT.json`, for the reasons given there.
