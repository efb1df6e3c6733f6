----------------------------- MODULE PtyBorrow -----------------------------
(***************************************************************************)
(* Which client each terminal is sized for: the daemon's pty_borrow.rs and *)
(* the handlers of server.rs that call it.  The table of borrows is kept   *)
(* under one lock, but what a handler decides under it (a resize, a push)  *)
(* it does after letting go, on the thread that serves its connection, so  *)
(* two handlers may decide in one order and act in the other.              *)
(***************************************************************************)
EXTENDS Naturals, FiniteSets, Sequences

CONSTANTS Sessions,     \* terminals
          Devices,      \* paired Devices
          Conns,        \* connections Devices may hold
          DeviceOf,     \* DeviceOf[c]: the Device that dials connection c
          Desk,         \* the thread serving the desk's command connection
          DeskSizes,    \* sizes the desk asks for
          SizeOf,       \* SizeOf[d]: the size Device d asks for
          None,
          MaxConnects   \* bound: connections opened in a behaviour

ASSUME PtyAssumption == /\ DeviceOf \in [Conns -> Devices]
                        /\ None \notin Devices /\ Desk \notin Conns
                        /\ \A d \in Devices : SizeOf[d] \notin DeskSizes
                        /\ "quiet" \notin Devices \cup {None}
                        /\ IsFiniteSet(Sessions) /\ MaxConnects \in Nat

VARIABLES
    life,       \* "alive" in `sessions`, "ending" out of it, "over" forgotten
    table,      \* device_connections
    bySession,  \* Borrows.by_session
    deskSize,   \* Borrows.desk_size
    pty,        \* the size the PTY itself has
    screen,     \* the size of the screen model snapshots are drawn from
    shown,      \* the borrower the desk was last told of
    at,         \* where each thread is, outside of its effects
    req,        \* the resize a thread checked and has not decided
    todo,       \* what a thread still has to do after its decision
    connects,   \* connections opened so far
    asked,      \* history: the size the desk last asked for
    alone,      \* history: the operation on a session has met no other
    right       \* history: what a lone operation last left right

vars == <<life, table, bySession, deskSize, pty, screen, shown,
          at, req, todo, connects, asked, alone, right>>
borrows == <<bySession, deskSize>>
sizes   == <<pty, screen>>
ghosts  == <<asked, alone, right>>

Threads == Conns \cup {Desk}
Sizes   == DeskSizes \cup {SizeOf[d] : d \in Devices}
Spawned == "80x24"   \* a PTY before anybody sized it
Nothing == [s |-> None, size |-> Spawned]

\* One effect of a decision: the size to apply (None: none), the push that
\* follows it, and whether a resize that fails ends the handler (`?`).
Item == [s : Sessions, size : Sizes \cup {None}, say : Devices \cup {None, "quiet"},
         must : BOOLEAN, step : {"pty", "screen", "announce"}]

\* A terminal that thread t has something left to do to.
On(t, s) == \/ at[t] = "decide" /\ req[t].s = s
            \/ \E i \in 1..Len(todo[t]) : todo[t][i].s = s

Busy(s) == \E t \in Threads : On(t, s)

Idle(t) == at[t] = "idle" /\ todo[t] = <<>>

TypeOK ==
    /\ life \in [Sessions -> {"alive", "ending", "over"}]
    /\ table \subseteq Conns
    /\ bySession \in [Sessions -> Devices \cup {None}]
    /\ deskSize \in [Sessions -> DeskSizes \cup {None}]
    /\ pty \in [Sessions -> Sizes \cup {Spawned}]
    /\ screen \in [Sessions -> Sizes \cup {Spawned}]
    /\ shown \in [Sessions -> Devices \cup {None}]
    /\ at \in [Threads -> {"idle", "decide", "judge", "gone"}]
    /\ req \in [Threads -> [s : Sessions, size : Sizes] \cup {Nothing}]
    /\ todo \in [Threads -> Seq(Item)]
    /\ connects \in 0..MaxConnects
    /\ asked \in [Sessions -> DeskSizes \cup {None}]
    /\ alone \in [Sessions -> BOOLEAN]
    /\ right \in [Sessions -> SUBSET {"size", "said"}]

Init ==
    /\ life = [s \in Sessions |-> "alive"]
    /\ table = {}
    /\ bySession = [s \in Sessions |-> None]
    /\ deskSize = [s \in Sessions |-> None]
    /\ pty = [s \in Sessions |-> Spawned]
    /\ screen = [s \in Sessions |-> Spawned]
    /\ shown = [s \in Sessions |-> None]
    /\ at = [t \in Threads |-> "idle"]
    /\ req = [t \in Threads |-> Nothing]
    /\ todo = [t \in Threads |-> <<>>]
    /\ connects = 0
    /\ asked = [s \in Sessions |-> None]
    /\ alone = [s \in Sessions |-> TRUE]
    /\ right = [s \in Sessions |-> {"size", "said"}]

-----------------------------------------------------------------------------
(* History: an operation that starts on a terminal another one is still on *)
(* takes back what was known of it.                                        *)

Starts(S) ==
    /\ alone' = [s \in Sessions |-> IF s \in S THEN ~Busy(s) ELSE alone[s]]
    /\ right' = [s \in Sessions |-> IF s \in S /\ Busy(s) THEN {} ELSE right[s]]
    /\ UNCHANGED asked

Ends(s, what) ==
    /\ right' = [right EXCEPT ![s] = IF alone[s] THEN @ \cup what ELSE @]
    /\ UNCHANGED <<asked, alone>>

-----------------------------------------------------------------------------
(* Connections.                                                            *)

\* A Device's connection is authenticated and enters the table.
Connect(c) ==
    /\ c \notin table /\ Idle(c) /\ connects < MaxConnects
    /\ table' = table \cup {c}
    /\ connects' = connects + 1
    /\ UNCHANGED <<life, borrows, sizes, shown, at, req, todo, ghosts>>

\* DeviceConnectionSlot::drop takes the connection out of the table ...
Disconnect(c) ==
    /\ c \in table /\ Idle(c)
    /\ table' = table \ {c}
    /\ at' = [at EXCEPT ![c] = "judge"]
    /\ UNCHANGED <<life, borrows, sizes, shown, req, todo, connects, ghosts>>

Live(d) == \E c \in table : DeviceOf[c] = d

\* Mutant: the Device is judged before its connection leaves the table.
JudgeEarly(c) ==
    /\ at[c] = "judge"
    /\ at' = [at EXCEPT ![c] = IF \E k \in table \cup {c} : DeviceOf[k] = DeviceOf[c]
                               THEN "idle" ELSE "gone"]
    /\ UNCHANGED <<life, table, borrows, sizes, shown, req, todo, connects, ghosts>>

\* ... looks whether the Device has another one ...
Judge(c) ==
    /\ at[c] = "judge"
    /\ at' = [at EXCEPT ![c] = IF Live(DeviceOf[c]) THEN "idle" ELSE "gone"]
    /\ UNCHANGED <<life, table, borrows, sizes, shown, req, todo, connects, ghosts>>

\* The effects of a borrow that ended (restore_desk_sizes).
Back(s) == [s |-> s, size |-> deskSize[s], say |-> None, must |-> FALSE,
            step |-> IF deskSize[s] = None THEN "announce" ELSE "pty"]

\* The sessions in the order device_gone sorts them into.
SortedIn(S) == CHOOSE q \in [1..Cardinality(S) -> S] : {q[i] : i \in 1..Cardinality(S)} = S

\* ... and gives back every size it borrowed (device_gone).
Gone(c) ==
    LET d    == DeviceOf[c]
        mine == {s \in Sessions : bySession[s] = d}
        q    == SortedIn(mine) IN
    /\ at[c] = "gone"
    /\ bySession' = [s \in Sessions |-> IF s \in mine THEN None ELSE bySession[s]]
    /\ todo' = [todo EXCEPT ![c] = [i \in 1..Cardinality(mine) |-> Back(q[i])]]
    /\ at' = [at EXCEPT ![c] = "idle"]
    /\ Starts(mine)
    /\ UNCHANGED <<life, table, deskSize, sizes, shown, req, connects>>

-----------------------------------------------------------------------------
(* Requests, each on the thread of the connection it came over.            *)

MayAsk(t) == Idle(t) /\ (t = Desk \/ t \in table)

\* ResizeSession from the desk, resize_session from a Device: refused for a
\* session the daemon does not host.
Resize(t, s, size) ==
    /\ MayAsk(t) /\ life[s] = "alive"
    /\ size \in (IF t = Desk THEN DeskSizes ELSE {SizeOf[DeviceOf[t]]})
    /\ at' = [at EXCEPT ![t] = "decide"]
    /\ req' = [req EXCEPT ![t] = [s |-> s, size |-> size]]
    /\ Starts({s})
    /\ UNCHANGED <<life, table, borrows, sizes, shown, todo, connects>>

\* Mutant: a desk resize held back is not remembered for the borrow's end.
DecideDeskForgets ==
    LET s == req[Desk].s  size == req[Desk].size IN
    /\ at[Desk] = "decide"
    /\ deskSize' = [deskSize EXCEPT ![s] = IF bySession[s] = None THEN size ELSE @]
    /\ todo' = [todo EXCEPT ![Desk] = <<
           [s |-> s, size |-> IF bySession[s] = None THEN size ELSE None,
            say |-> IF bySession[s] = None THEN "quiet" ELSE bySession[s], must |-> TRUE,
            step |-> IF bySession[s] = None THEN "pty" ELSE "announce"] >>]
    /\ at' = [at EXCEPT ![Desk] = "idle"]
    /\ req' = [req EXCEPT ![Desk] = Nothing]
    /\ asked' = [asked EXCEPT ![s] = size]
    /\ UNCHANGED <<life, table, bySession, sizes, shown, connects, alone, right>>

\* desk_resize: remembered, and applied unless a Device has the size.
DecideDesk ==
    LET s == req[Desk].s  size == req[Desk].size IN
    /\ at[Desk] = "decide"
    /\ deskSize' = [deskSize EXCEPT ![s] = size]
    /\ todo' = [todo EXCEPT ![Desk] = <<
           IF bySession[s] = None
           THEN [s |-> s, size |-> size, say |-> "quiet", must |-> TRUE, step |-> "pty"]
           ELSE [s |-> s, size |-> None, say |-> bySession[s], must |-> FALSE,
                 step |-> "announce"] >>]
    /\ at' = [at EXCEPT ![Desk] = "idle"]
    /\ req' = [req EXCEPT ![Desk] = Nothing]
    /\ asked' = [asked EXCEPT ![s] = size]
    /\ UNCHANGED <<life, table, bySession, sizes, shown, connects, alone, right>>

\* device_resize: the Device has the size from now on.
DecideDevice(c) ==
    LET s == req[c].s  d == DeviceOf[c] IN
    /\ at[c] = "decide"
    /\ bySession' = [bySession EXCEPT ![s] = d]
    /\ todo' = [todo EXCEPT ![c] = <<[s |-> s, size |-> req[c].size, must |-> TRUE, step |-> "pty",
                                     say |-> IF bySession[s] = d THEN "quiet" ELSE d]>>]
    /\ at' = [at EXCEPT ![c] = "idle"]
    /\ req' = [req EXCEPT ![c] = Nothing]
    /\ UNCHANGED <<life, table, deskSize, sizes, shown, connects, ghosts>>

\* return_pty_size: the desk ends any borrow, a Device only its own.
GiveBack(t, s) ==
    /\ MayAsk(t) /\ bySession[s] # None
    /\ t # Desk => bySession[s] = DeviceOf[t]
    /\ bySession' = [bySession EXCEPT ![s] = None]
    /\ todo' = [todo EXCEPT ![t] = <<Back(s)>>]
    /\ Starts({s})
    /\ UNCHANGED <<life, table, deskSize, sizes, shown, at, req, connects>>

\* kill_session and the pump's teardown take the session out of `sessions` ...
SessionEnds(s) ==
    /\ life[s] = "alive"
    /\ life' = [life EXCEPT ![s] = "ending"]
    /\ UNCHANGED <<table, borrows, sizes, shown, at, req, todo, connects, ghosts>>

\* ... and end_session_owner forgets its borrow afterwards: nothing to give
\* back and nobody to tell.
SessionEnded(s) ==
    /\ life[s] = "ending"
    /\ life' = [life EXCEPT ![s] = "over"]
    /\ bySession' = [bySession EXCEPT ![s] = None]
    /\ deskSize' = [deskSize EXCEPT ![s] = None]
    /\ UNCHANGED <<table, sizes, shown, at, req, todo, connects, ghosts>>

-----------------------------------------------------------------------------
(* What a thread does once it let go of the lock: resize_session sizes the *)
(* PTY and then the screen, each under a lock of its own, and the push     *)
(* comes last.  When the size last moved, which it records in between,     *)
(* only tells a repaint from an agent at work, and is left out.            *)

Next1(t) == Head(todo[t])
Then(t, step) == todo' = [todo EXCEPT ![t] = <<[Head(@) EXCEPT !.step = step]>> \o Tail(@)]
Finish(t, what) == /\ todo' = [todo EXCEPT ![t] = Tail(@)]
                   /\ Ends(Next1(t).s, what)

\* A session that ended meanwhile is not resized: the request fails, while
\* a give-back goes on to its push.
SizePty(t) ==
    LET i == Next1(t) IN
    /\ todo[t] # <<>> /\ i.step = "pty"
    /\ \/ /\ life[i.s] = "alive"
          /\ pty' = [pty EXCEPT ![i.s] = i.size]
          /\ Then(t, "screen") /\ UNCHANGED ghosts
       \/ /\ life[i.s] # "alive" /\ i.must
          /\ Finish(t, {}) /\ UNCHANGED pty
       \/ /\ life[i.s] # "alive" /\ ~i.must
          /\ Then(t, "announce") /\ UNCHANGED <<pty, ghosts>>
    /\ UNCHANGED <<life, table, borrows, screen, shown, at, req, connects>>

SizeScreen(t) ==
    LET i == Next1(t) IN
    /\ todo[t] # <<>> /\ i.step = "screen"
    /\ screen' = [screen EXCEPT ![i.s] = i.size]
    /\ IF i.say = "quiet" THEN Finish(t, {"size"}) ELSE Then(t, "announce") /\ UNCHANGED ghosts
    /\ UNCHANGED <<life, table, borrows, pty, shown, at, req, connects>>

\* announce_pty_borrow, as the desk takes it.
Announce(t) ==
    LET i == Next1(t) IN
    /\ todo[t] # <<>> /\ i.step = "announce"
    /\ shown' = [shown EXCEPT ![i.s] = i.say]
    /\ Finish(t, IF i.size = None THEN {"said"} ELSE {"size", "said"})
    /\ UNCHANGED <<life, table, borrows, sizes, at, req, connects>>

Work(t) == SizePty(t) \/ SizeScreen(t) \/ Announce(t)

DropWork(c) == Judge(c) \/ Gone(c)

Next ==
    \/ \E c \in Conns : Connect(c) \/ Disconnect(c) \/ DropWork(c) \/ DecideDevice(c)
    \/ \E t \in Threads, s \in Sessions :
          (\E size \in Sizes : Resize(t, s, size)) \/ GiveBack(t, s)
    \/ DecideDesk
    \/ \E t \in Threads : Work(t)
    \/ \E s \in Sessions : SessionEnds(s) \/ SessionEnded(s)

Spec == Init /\ [][Next]_vars

-----------------------------------------------------------------------------
(* A Device that is gone keeps no terminal at its size: whatever it still  *)
(* has borrowed, one of its threads is on the way to give back.  The last  *)
(* two connections of a Device may close at once, and one may close while  *)
(* another opens.                                                          *)
GoneKeepsNoBorrow ==
    \A s \in Sessions : bySession[s] # None =>
        \/ Live(bySession[s])
        \/ \E c \in Conns : DeviceOf[c] = bySession[s] /\ at[c] \in {"judge", "gone"}

(* Once an operation on a terminal ran with no other beside it, the        *)
(* terminal is as its borrow says until two operations meet on it: the     *)
(* PTY and the screen agree, on a size of the borrower's                   *)
(* or, with no borrow, on the size the desk last asked for; and the desk   *)
(* shows who has it.  Two operations that cross are what breaks it, and    *)
(* the next one that runs alone mends it.                                  *)
RightUnlessCrossed ==
    \A s \in Sessions : life[s] = "alive" /\ ~Busy(s) =>
        /\ "said" \in right[s] => shown[s] = bySession[s]
        /\ "size" \in right[s] =>
              /\ pty[s] = screen[s]
              /\ bySession[s] # None => pty[s] = SizeOf[bySession[s]]
              /\ bySession[s] = None /\ asked[s] # None => pty[s] = asked[s]
=============================================================================
