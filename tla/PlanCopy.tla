------------------------------ MODULE PlanCopy ------------------------------
(***************************************************************************)
(* The copy of a workspace's plan that each window keeps                   *)
(* (orchestrationState.ts) against the one in the daemon's SQLite          *)
(* (server.rs, orchestration.rs).  A window changes its copy first and     *)
(* saves afterwards; the daemon pushes the plan to every window after each *)
(* plan it stores; a window that saved tells the others, which read again. *)
(* Nothing orders these against each other but the window's count of saves *)
(* in flight and the number each read takes.                               *)
(*                                                                         *)
(* A plan is the set of edits that made it, a row is the write that made   *)
(* it (0: no row).  Reads and saves of the windows share one lane to the   *)
(* daemon; agents reach it over connections of their own.                  *)
(***************************************************************************)
EXTENDS Naturals, Sequences

CONSTANTS Windows,
          Rails,        \* rows of rails: rail_runs, and step_runs alike
          Nested,       \* rows of Nested tasks: nested_runs
          MaxWrites,    \* bound: edits and row writes, by anybody
          MaxOdd        \* bound: writes of agents and failed saves, together

ASSUME PlanAssumption == /\ Rails \cap Nested = {} /\ MaxWrites \in Nat /\ MaxOdd \in Nat
                         /\ "plan" \notin Rails \cup Nested
                         /\ \A w \in Windows : w \notin {"agent", "edit"}

Rows == Rails \cup Nested
Writers == {"lane", "agent"}
Unloaded == [plan |-> {}, rows |-> [r \in Rows |-> 0], loaded |-> FALSE]

VARIABLES
    db,       \* [plan, rows]: what SQLite holds
    log,      \* history: the writes in the order they were begun, a row's by whom
    pushing,  \* per daemon thread: what push_orchestration has to send
    copy,     \* orchestrations[w]
    saves,    \* saves not resolved yet; pendingSaves counts a window's
    reads,    \* reads not resolved yet
    events,   \* pushes on their way to each window, in order
    told,     \* windows another window's announcement is on its way to
    timer,    \* rereads: windows that will read again after the burst
    odd,      \* how many of MaxOdd there have been
    taint,    \* history: what a failed save left wrong in a window's copy
    sent      \* history: the plan in the push that was sent last

vars == <<db, log, pushing, copy, saves, reads, events, told, timer, odd, taint, sent>>

Ids == 1..MaxWrites
Values == 0..MaxWrites
Store == [plan : SUBSET Ids, rows : [Rows -> Values]]
Nothing == [do |-> "none", was |-> [plan |-> {}, rows |-> [r \in Rows |-> 0]], save |-> 0]

Pending(w) == {s \in saves : s.w = w}
Loaded(w) == copy[w].loaded
As(store) == [plan |-> store.plan, rows |-> store.rows, loaded |-> TRUE]
New == Len(log) + 1
Writer(who, what) == IF what = "plan" THEN "edit" ELSE who

Copies == [plan : SUBSET Ids, rows : [Rows -> Values], loaded : BOOLEAN]
SaveRecords == [id : Ids, w : Windows, what : Rows \cup {"plan"}, plan : SUBSET Ids, before : Copies,
                mine : BOOLEAN, at : {"sent", "stored", "ok", "refused", "lost"}]
ReadRecords == [w : Windows, kind : {"fetch", "refresh"}, at : {"asked", "answered"},
                latest : BOOLEAN, was : Store]

TypeOK ==
    /\ db \in Store
    /\ log \in Seq(Windows \cup {"agent", "edit"}) /\ Len(log) <= MaxWrites
    /\ pushing \in [Writers -> [do : {"none", "read", "send"}, was : Store, save : Values]]
    /\ copy \in [Windows -> Copies]
    /\ saves \subseteq SaveRecords /\ reads \subseteq ReadRecords
    /\ events \in [Windows -> Seq(Store)]
    /\ told \subseteq Windows /\ timer \subseteq Windows
    /\ odd \in 0..MaxOdd
    /\ taint \in [Windows -> SUBSET (Rows \cup {"plan"})]
    /\ sent \subseteq Ids

Init ==
    /\ db = [plan |-> {}, rows |-> [r \in Rows |-> 0]]
    /\ log = <<>>
    /\ pushing = [t \in Writers |-> Nothing]
    /\ copy = [w \in Windows |-> Unloaded]
    /\ saves = {} /\ reads = {}
    /\ events = [w \in Windows |-> <<>>]
    /\ told = {} /\ timer = {} /\ odd = 0
    /\ taint = [w \in Windows |-> {}]
    /\ sent = {}

-----------------------------------------------------------------------------
(* A window's store and its numbers.                                       *)

\* nextPlanEpoch: every read of the window's that is out is superseded.  A
\* refresh that is will be dropped when its answer comes, and is forgotten
\* here; a first fetch may still be applied.
Superseded(w, rs) ==
    {d \in rs : d.w # w} \cup
    {[d EXCEPT !.latest = FALSE] : d \in {x \in rs : x.w = w /\ x.kind = "fetch"}}

\* Mutant: a save that fails puts back what it found, whatever came since.
ReplacedNever(w) == saves

\* The window's copy is a new object: no save of its finds its own any more,
\* and what it found is never put back.
Replaced(w) == {s \in saves : s.w # w} \cup
               {[s EXCEPT !.mine = FALSE, !.before = Unloaded] : s \in Pending(w)}

Asked(w, kind) == [w |-> w, kind |-> kind, at |-> "asked", latest |-> TRUE, was |-> Nothing.was]

\* fetchOrchestration, when a view of the workspace first mounts.
Fetch(w) ==
    /\ ~Loaded(w) /\ \A d \in reads : d.w # w
    /\ reads' = Superseded(w, reads) \cup {Asked(w, "fetch")}
    /\ UNCHANGED <<db, log, pushing, copy, saves, events, told, timer, odd, taint, sent>>

\* mutatePlan and mutateRunState: change the copy, take a number, save.  A
\* caller sends a second write of the same thing once the first resolved.
Save(w, what, updated) ==
    /\ Loaded(w) /\ New <= MaxWrites
    /\ \A s \in Pending(w) : s.what # what
    /\ copy' = [copy EXCEPT ![w] = updated]
    /\ log' = Append(log, Writer(w, what))
    /\ reads' = Superseded(w, reads)
    /\ saves' = Replaced(w) \cup
          {[id |-> New, w |-> w, what |-> what, plan |-> updated.plan, before |-> copy[w],
            mine |-> TRUE, at |-> "sent"]}
    /\ UNCHANGED <<db, pushing, events, told, timer, odd, taint, sent>>

Edit(w) == Save(w, "plan", [copy[w] EXCEPT !.plan = @ \cup {New}])
SetRow(w, r) == Save(w, r, [copy[w] EXCEPT !.rows[r] = New])

\* The save resolved: the other windows are told, or the copy is rolled back
\* unless a later change replaced it.
Resolve(s) ==
    /\ \/ /\ s.at = "ok"
          /\ saves' = saves \ {s}
          /\ told' = told \cup (Windows \ {s.w})
          /\ UNCHANGED <<copy, taint>>
       \/ /\ s.at \in {"refused", "lost"} /\ s.mine
          /\ saves' = {z \in Replaced(s.w) : z.id # s.id}
          /\ copy' = [copy EXCEPT ![s.w] = s.before]
          /\ taint' = [taint EXCEPT ![s.w] = IF s.at = "lost" THEN @ \cup {s.what} ELSE @]
          /\ UNCHANGED told
       \/ /\ s.at \in {"refused", "lost"} /\ ~s.mine
          /\ saves' = saves \ {s}
          /\ taint' = [taint EXCEPT ![s.w] = @ \cup {s.what}]
          /\ UNCHANGED <<copy, told>>
    /\ UNCHANGED <<db, log, pushing, reads, events, timer, odd, sent>>

\* A read applies its answer if nothing of the window's came after it.
Applies(d) == IF d.kind = "fetch" THEN d.latest \/ ~Loaded(d.w)
              ELSE d.latest /\ Pending(d.w) = {}

TakeAnswer(d) ==
    /\ d.at = "answered"
    /\ reads' = reads \ {d}
    /\ \/ /\ Applies(d)
          /\ copy' = [copy EXCEPT ![d.w] = As(d.was)]
          /\ saves' = Replaced(d.w)
          /\ taint' = [taint EXCEPT ![d.w] = {}]
       \/ ~Applies(d) /\ UNCHANGED <<copy, saves, taint>>
    /\ UNCHANGED <<db, log, pushing, events, told, timer, odd, sent>>

\* refreshOrchestration's first half: skipped while a save is in flight.
Refresh(w, rs) == IF Pending(w) # {} THEN rs
                  ELSE Superseded(w, rs) \cup {Asked(w, "refresh")}

\* Another window's announcement: a window that never loaded has nothing
\* stale, the others read again after the burst.
Hear(w) ==
    /\ w \in told
    /\ told' = told \ {w}
    /\ timer' = IF Loaded(w) THEN timer \cup {w} ELSE timer
    /\ UNCHANGED <<db, log, pushing, copy, saves, reads, events, odd, taint, sent>>

\* The delay is over: the timer is set again while a save is in flight.
Fire(w) ==
    /\ w \in timer /\ Pending(w) = {}
    /\ timer' = timer \ {w}
    /\ reads' = Refresh(w, reads)
    /\ UNCHANGED <<db, log, pushing, copy, saves, events, told, odd, taint, sent>>

\* railRunsDiffer, over the rows of rails alone.
Differ(w, store) == \E r \in Rails : copy[w].rows[r] # store.rows[r]

\* Mutant: a push that meets a save in flight is dropped.
TakePushUnlessSaving(w) ==
    LET store == Head(events[w]) IN
    /\ events[w] # <<>>
    /\ events' = [events EXCEPT ![w] = Tail(@)]
    /\ saves' = Replaced(w)
    /\ copy' = IF Pending(w) # {} THEN copy
               ELSE IF ~Loaded(w) THEN [copy EXCEPT ![w] = As(store)] ELSE [copy EXCEPT ![w].plan = store.plan]
    /\ reads' = Superseded(w, reads)
    /\ UNCHANGED <<db, log, pushing, told, timer, odd, taint, sent>>

\* orchestration-changed: the plan is replaced, the rows of rails and steps
\* are kept, the rows of Nested tasks are not carried over; a push that
\* disagrees about a rail is answered by reading again.
TakePush(w) ==
    LET store == Head(events[w]) IN
    /\ events[w] # <<>>
    /\ events' = [events EXCEPT ![w] = Tail(@)]
    /\ saves' = Replaced(w)
    /\ \/ /\ ~Loaded(w)
          /\ copy' = [copy EXCEPT ![w] = As(store)]
          /\ reads' = Superseded(w, reads)
       \/ /\ Loaded(w)
          /\ copy' = [copy EXCEPT ![w].plan = store.plan,
                                  ![w].rows = [r \in Rows |-> IF r \in Rails THEN @[r] ELSE 0]]
          /\ reads' = IF Differ(w, store) THEN Refresh(w, Superseded(w, reads)) ELSE Superseded(w, reads)
    /\ UNCHANGED <<db, log, pushing, told, timer, odd, taint, sent>>

Window(w) == \/ Fetch(w) \/ Edit(w) \/ Hear(w) \/ Fire(w) \/ TakePush(w)
             \/ \E r \in Rows : SetRow(w, r)
             \/ \E s \in Pending(w) : Resolve(s)
             \/ \E d \in reads : d.w = w /\ TakeAnswer(d)

-----------------------------------------------------------------------------
(* The daemon.                                                             *)

Change(s, at) == (saves \ {s}) \cup {[s EXCEPT !.at = at]}
Free(t) == pushing[t].do = "none"
Stored(s) == IF s.what = "plan" THEN [db EXCEPT !.plan = s.plan] ELSE [db EXCEPT !.rows[s.what] = s.id]

\* set_rail_run, set_step_run, set_nested_run: the row, and nobody told.
\* set_orchestration: replace_plan, then the push, then the answer.
StoreSave(s) ==
    /\ s.at = "sent" /\ Free("lane")
    /\ db' = Stored(s)
    /\ IF s.what = "plan"
       THEN /\ pushing' = [pushing EXCEPT !["lane"] = [Nothing EXCEPT !.do = "read", !.save = s.id]]
            /\ saves' = Change(s, "stored")
       ELSE saves' = Change(s, "ok") /\ UNCHANGED pushing
    /\ UNCHANGED <<log, copy, reads, events, told, timer, odd, taint, sent>>

\* The save fails: refused before it was stored, or its answer never came.
FailSave(s) ==
    /\ odd < MaxOdd
    /\ \/ s.at = "sent" /\ saves' = Change(s, "refused")
       \/ s.at = "ok" /\ saves' = Change(s, "lost")
    /\ odd' = odd + 1
    /\ UNCHANGED <<db, log, pushing, copy, reads, events, told, timer, taint, sent>>

\* An agent over MCP stores a plan, or arms a rail (gavin_start_rail).
AgentWrites(what) ==
    /\ Free("agent") /\ New <= MaxWrites
    /\ odd < MaxOdd /\ odd' = odd + 1
    /\ log' = Append(log, Writer("agent", what))
    /\ db' = IF what = "plan" THEN [db EXCEPT !.plan = @ \cup {New}] ELSE [db EXCEPT !.rows[what] = New]
    /\ pushing' = [pushing EXCEPT !["agent"] = [Nothing EXCEPT !.do = "read"]]
    /\ UNCHANGED <<copy, saves, reads, events, told, timer, taint, sent>>

\* push_orchestration reads what the store holds by then ...
PushReads(t) ==
    /\ pushing[t].do = "read"
    /\ pushing' = [pushing EXCEPT ![t].do = "send", ![t].was = db]
    /\ UNCHANGED <<db, log, copy, saves, reads, events, told, timer, odd, taint, sent>>

\* ... and writes it to the app, which hands it to every window.
PushSends(t) ==
    /\ pushing[t].do = "send"
    /\ events' = [w \in Windows |-> Append(events[w], pushing[t].was)]
    /\ sent' = pushing[t].was.plan
    /\ saves' = {IF s.id = pushing[t].save /\ s.at = "stored" THEN [s EXCEPT !.at = "ok"] ELSE s : s \in saves}
    /\ pushing' = [pushing EXCEPT ![t] = Nothing]
    /\ UNCHANGED <<db, log, copy, reads, told, timer, odd, taint>>

\* get_orchestration, on the lane the saves ride.
AnswerRead(d) ==
    /\ d.at = "asked" /\ Free("lane")
    /\ reads' = (reads \ {d}) \cup {[d EXCEPT !.at = "answered", !.was = db]}
    /\ UNCHANGED <<db, log, pushing, copy, saves, events, told, timer, odd, taint, sent>>

\* A read that fails leaves what is shown.
FailRead(d) ==
    /\ d.at = "asked"
    /\ reads' = reads \ {d}
    /\ UNCHANGED <<db, log, pushing, copy, saves, events, told, timer, odd, taint, sent>>

Daemon == \/ \E s \in saves : StoreSave(s) \/ FailSave(s)
          \/ \E what \in Rails \cup {"plan"} : AgentWrites(what)
          \/ \E t \in Writers : PushReads(t) \/ PushSends(t)
          \/ \E d \in reads : AnswerRead(d) \/ FailRead(d)

Next == (\E w \in Windows : Window(w)) \/ Daemon

Spec == Init /\ [][Next]_vars
-----------------------------------------------------------------------------
Own(w, r) == db.rows[r] # 0 /\ log[db.rows[r]] = w

(* What a window wrote about a rail last, and the daemon stored, is what   *)
(* the window shows: no read asked for before it, no push that crossed it, *)
(* no answer out of order and no roll back of another save takes it back.  *)
(* Only a save that failed may leave a window showing otherwise: one whose *)
(* answer was lost, or whose roll back a later change forbids.             *)
OwnRowsKept ==
    \A w \in Windows, r \in Rails :
        (/\ Loaded(w) /\ Own(w, r) /\ r \notin taint[w]
         /\ \A s \in Pending(w) : s.what # r) => copy[w].rows[r] = db.rows[r]

Quiet == /\ saves = {} /\ reads = {} /\ told = {} /\ timer = {}
         /\ \A w \in Windows : events[w] = <<>>
         /\ \A t \in Writers : Free(t)

(* When nothing is under way every window shows the plan SQLite holds,     *)
(* whoever wrote it last and in whatever order pushes, answers and saves   *)
(* arrived, unless a failed save left it (and was shown as an error) or    *)
(* two threads of the daemon sent their pushes in the other order.         *)
QuietPlansAgree ==
    Quiet /\ sent = db.plan => \A w \in Windows :
        Loaded(w) /\ "plan" \notin taint[w] => copy[w].plan = db.plan

(* The comment on the push handler: it preserves whatever run state this   *)
(* app already holds.  Rows of Nested tasks included, what a window wrote  *)
(* and the daemon stored is still there.                                   *)
RunStatePreserved ==
    \A w \in Windows, r \in Rows :
        (/\ Loaded(w) /\ Own(w, r) /\ r \notin taint[w]
         /\ \A s \in Pending(w) : s.what # r) => copy[w].rows[r] = db.rows[r]
=============================================================================
