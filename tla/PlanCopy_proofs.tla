--------------------------- MODULE PlanCopy_proofs ---------------------------
(***************************************************************************)
(* The safety of a plan and its copies, for any windows, agents, rows and  *)
(* lengths of a run.  The order of the argument:                           *)
(*                                                                         *)
(*   - every save is told apart by its number (Numbers), and what a window *)
(*     has not loaded it has not written (Unread);                         *)
(*   - a read that will be applied was asked for after the window's last   *)
(*     save (LatestReads), so its answer is no older than that (FreshReads)*)
(*     and applying it loses nothing of the window's own (RowInv);         *)
(*   - a save that may be taken back would change nothing else (Undoes);   *)
(*   - the last push on its way carries the plan last sent (LastPush), so  *)
(*     with none on its way the copies and the answers that count are of   *)
(*     the stored plan (QuietInv).                                         *)
(*                                                                         *)
(* PlanInv is their conjunction; no part of it is inductive without the    *)
(* others.  What a step does to the saves, the store, a copy, the reads    *)
(* and the pushes is stated once each (SavesStep ... SettleStep).          *)
(***************************************************************************)
EXTENDS PlanCopy, TLAPS, SequenceTheorems

\* Numbers name saves: nobody else has one's number, and a window saves a
\* thing once at a time.
Numbers ==
    /\ \A r \in Rows : db.rows[r] <= Len(log)
    /\ \A s \in saves : s.id <= Len(log) /\ log[s.id] = Writer(s.w, s.what)
    /\ \A s, z \in saves : s.id = z.id => s = z
    /\ \A s, z \in saves : s.w = z.w /\ s.what = z.what => s = z
    /\ \A s, z \in saves : s.w = z.w /\ s.mine /\ z.mine => s = z

\* A window that loaded nothing wrote nothing, and its read will be applied.
Unread ==
    \A w \in Windows : ~Loaded(w) =>
        /\ \A i \in 1..Len(log) : log[i] # w
        /\ Pending(w) = {} /\ w \notin timer
        /\ \A d \in reads : d.w = w => d.latest

\* A read is superseded by every save begun after it was asked for.
LatestReads ==
    /\ \A c, d \in reads : c.w = d.w /\ c.latest /\ d.latest => c = d
    /\ \A d \in reads : d.latest => Pending(d.w) = {}

\* The save has not reached the store.
Unstored(s) == s.at \in {"sent", "refused"}

\* An answer that will be applied is no older than the window's own last row.
FreshReads ==
    \A d \in reads, r \in Rows :
        d.latest /\ d.at = "answered" /\ Own(d.w, r) => d.was.rows[r] = db.rows[r]

\* A save that was stored is the window's last of that row, and shown.
SavesStored ==
    \A s \in saves : s.what \in Rows /\ ~Unstored(s) /\ Own(s.w, s.what) => db.rows[s.what] = s.id
SavesShown == \A s \in saves : s.what \in Rails => copy[s.w].rows[s.what] = s.id

\* What a save would put back differs from the copy in what it wrote alone.
Undoes ==
    \A s \in saves : s.mine =>
        /\ s.before.loaded
        /\ \A r \in Rails : r # s.what => s.before.rows[r] = copy[s.w].rows[r]
        /\ s.what # "plan" => s.before.plan = copy[s.w].plan

\* ... and is, for a save not stored, what the window wrote before.
OldRows ==
    \A s \in saves :
        s.mine /\ s.what \in Rails /\ Unstored(s) /\ Own(s.w, s.what) /\ s.what \notin taint[s.w] =>
            s.before.rows[s.what] = db.rows[s.what]

\* No push is on its way to the window, or will be before the plan changes.
Settled(w) == events[w] = <<>> /\ \A t \in Writers : Free(t)
Agreed(w) == Settled(w) /\ sent = db.plan

LastPush == \A w \in Windows : events[w] # <<>> => events[w][Len(events[w])].plan = sent
SettledReads ==
    \A d \in reads : d.latest /\ d.at = "answered" /\ Settled(d.w) => d.was.plan = db.plan
SettledCopies ==
    \A w \in Windows :
        (/\ Agreed(w) /\ Loaded(w) /\ "plan" \notin taint[w]
         /\ \A s \in Pending(w) : s.what = "plan" => ~Unstored(s)) => copy[w].plan = db.plan
OldPlans ==
    \A s \in saves :
        s.mine /\ s.what = "plan" /\ Unstored(s) /\ Agreed(s.w) /\ "plan" \notin taint[s.w] =>
            s.before.plan = db.plan

RowInv == FreshReads /\ SavesStored /\ SavesShown /\ OldRows /\ OwnRowsKept
QuietInv == LastPush /\ SettledReads /\ SettledCopies /\ OldPlans
PlanInv == TypeOK /\ Numbers /\ Unread /\ LatestReads /\ Undoes /\ RowInv /\ QuietInv

-----------------------------------------------------------------------------
(* What is left of a window's reads and saves once its copy was replaced. *)

\* What a read asked for, a save or a push leaves of the reads under way
\* (`latest` in orchestrationState.ts): another window's as they were, the
\* window's own out of date.
LEMMA SupersededReads ==
    ASSUME NEW w \in Windows, NEW rs \in SUBSET ReadRecords
    PROVE  /\ Superseded(w, rs) \subseteq ReadRecords
           /\ \A d \in Superseded(w, rs) : (d \in rs /\ d.w # w) \/ (d.w = w /\ ~d.latest)
           /\ \A d \in rs : d.w # w => d \in Superseded(w, rs)
<1>1. ASSUME NEW d \in ReadRecords
      PROVE  /\ [d EXCEPT !.latest = FALSE] \in ReadRecords
             /\ [d EXCEPT !.latest = FALSE].w = d.w /\ ~[d EXCEPT !.latest = FALSE].latest
  BY DEF ReadRecords
<1>2. ASSUME NEW d \in Superseded(w, rs)
      PROVE  d \in ReadRecords /\ ((d \in rs /\ d.w # w) \/ (d.w = w /\ ~d.latest))
  <2>1. CASE d \in rs /\ d.w # w
    BY <2>1
  <2>2. CASE \E x \in rs : x.w = w /\ d = [x EXCEPT !.latest = FALSE]
    BY <2>2, <1>1
  <2> QED
    BY <2>1, <2>2 DEF Superseded
<1>3. \A d \in rs : d.w # w => d \in Superseded(w, rs)
  BY DEF Superseded
<1> QED
  BY <1>2, <1>3

\* A save that finds its copy replaced.
Cut(s) == [s EXCEPT !.mine = FALSE, !.before = Unloaded]

\* A save with nothing left to put back is still that save.
LEMMA CutSave ==
    ASSUME NEW s \in SaveRecords
    PROVE  /\ Cut(s) \in SaveRecords
           /\ Cut(s).id = s.id /\ Cut(s).w = s.w /\ Cut(s).what = s.what /\ Cut(s).plan = s.plan
           /\ Cut(s).at = s.at /\ ~Cut(s).mine
<1>1. Unloaded \in Copies
  BY PlanAssumption DEF Unloaded, Copies, Values, Rows
<1> QED
  BY <1>1 DEF Cut, SaveRecords

\* What an answer or a push leaves of the saves under way: another window's as
\* they were, and the window's own with a copy that is no longer theirs to undo.
LEMMA ReplacedSaves ==
    ASSUME TypeOK, NEW w \in Windows
    PROVE  /\ Replaced(w) \subseteq SaveRecords
           /\ \A s \in Replaced(w) :
                 (s \in saves /\ s.w # w) \/ \E z \in saves : z.w = w /\ s = Cut(z)
           /\ \A s \in saves : s.w # w => s \in Replaced(w)
           /\ \A s \in saves : s.w = w => Cut(s) \in Replaced(w)
<1>1. ASSUME NEW s \in saves, s.w = w PROVE Cut(s) \in Replaced(w)
  BY <1>1 DEF Replaced, Pending, Cut
<1>2. ASSUME NEW s \in Replaced(w)
      PROVE  (s \in saves /\ s.w # w) \/ \E z \in saves : z.w = w /\ s = Cut(z)
  BY DEF Replaced, Pending, Cut
<1>3. \A s \in saves : s.w # w => s \in Replaced(w)
  BY DEF Replaced
<1>4. Replaced(w) \subseteq SaveRecords
  BY <1>2, CutSave DEF TypeOK
<1> QED
  BY <1>1, <1>2, <1>3, <1>4

\* Every step of the windows, the lane and the agents keeps the types.
LEMMA TypesKept ==
    ASSUME TypeOK, [Next]_vars
    PROVE  TypeOK'
<1>1. CASE UNCHANGED vars
  BY <1>1 DEF TypeOK, vars
<1>w. \A s \in saves : s \in SaveRecords
  BY DEF TypeOK
<1>2. ASSUME NEW w \in Windows, Fetch(w)
      PROVE  TypeOK'
  <2>1. Asked(w, "fetch") \in ReadRecords
    BY PlanAssumption DEF Asked, ReadRecords, Nothing, Store, Values
  <2> QED
    BY <1>2, <2>1, SupersededReads DEF Fetch, TypeOK
<1>3. ASSUME NEW w \in Windows, NEW what \in Rows \cup {"plan"}, NEW updated \in Copies,
             Save(w, what, updated)
      PROVE  TypeOK'
  <2>1. New \in Ids
    BY <1>3 DEF Save, New, Ids, TypeOK
  <2>2. Writer(w, what) \in Windows \cup {"agent", "edit"}
    BY DEF Writer
  <2>3. log' \in Seq(Windows \cup {"agent", "edit"}) /\ Len(log') <= MaxWrites
    BY <1>3, <2>2 DEF Save, New, TypeOK
  <2>4. saves' \subseteq SaveRecords
    <3>1. PICK new : new = [id |-> New, w |-> w, what |-> what, plan |-> updated.plan, before |-> copy[w],
                            mine |-> TRUE, at |-> "sent"]
      OBVIOUS
    <3>2. copy[w] \in Copies /\ updated.plan \in SUBSET Ids
      BY DEF TypeOK, Copies
    <3>3. new \in SaveRecords
      BY <3>1, <3>2, <2>1 DEF SaveRecords
    <3> QED
      BY <1>3, <3>1, <3>3, ReplacedSaves DEF Save
  <2> QED
    BY <1>3, <2>3, <2>4, SupersededReads DEF Save, TypeOK
<1>4. ASSUME NEW w \in Windows, NEW s \in Pending(w), Resolve(s)
      PROVE  TypeOK'
  <2>1. s \in SaveRecords /\ s.w = w
    BY DEF Pending, TypeOK
  <2>2. saves' \subseteq SaveRecords
    BY <1>4, <2>1, ReplacedSaves DEF Resolve, TypeOK
  <2>3. s.before \in Copies /\ s.what \in Rows \cup {"plan"}
    BY <2>1 DEF SaveRecords
  <2>4. copy' \in [Windows -> Copies]
    BY <1>4, <2>1, <2>3 DEF Resolve, TypeOK
  <2>5. taint' \in [Windows -> SUBSET (Rows \cup {"plan"})]
    <3>1. taint[w] \cup {s.what} \in SUBSET (Rows \cup {"plan"})
      BY <2>3 DEF TypeOK
    <3>2. \/ taint' = taint
          \/ taint' = [taint EXCEPT ![w] = taint[w] \cup {s.what}]
      BY <1>4, <2>1 DEF Resolve, TypeOK
    <3> QED
      BY <3>1, <3>2 DEF TypeOK
  <2> QED
    BY <1>4, <2>2, <2>4, <2>5 DEF Resolve, TypeOK
<1>5. ASSUME NEW w \in Windows, NEW d \in reads, d.w = w, TakeAnswer(d)
      PROVE  TypeOK'
  <2>1. As(d.was) \in Copies
    BY DEF TypeOK, ReadRecords, As, Store, Copies
  <2>2. saves' \subseteq SaveRecords /\ reads' \subseteq ReadRecords
    BY <1>5, ReplacedSaves DEF TakeAnswer, TypeOK
  <2>3. copy' \in [Windows -> Copies] /\ taint' \in [Windows -> SUBSET (Rows \cup {"plan"})]
    BY <1>5, <2>1 DEF TakeAnswer, TypeOK
  <2> QED
    BY <1>5, <2>2, <2>3 DEF TakeAnswer, TypeOK
<1>6. ASSUME NEW w \in Windows, Hear(w) \/ Fire(w)
      PROVE  TypeOK'
  <2>1. Asked(w, "refresh") \in ReadRecords
    BY PlanAssumption DEF Asked, ReadRecords, Nothing, Store, Values
  <2> QED
    BY <1>6, <2>1, SupersededReads DEF Hear, Fire, Refresh, TypeOK
<1>7. ASSUME NEW w \in Windows, TakePush(w)
      PROVE  TypeOK'
  <2>1. Asked(w, "refresh") \in ReadRecords
    BY PlanAssumption DEF Asked, ReadRecords, Nothing, Store, Values
  <2>2. PICK store : store = Head(events[w])
    OBVIOUS
  <2>3. store \in Store /\ events' \in [Windows -> Seq(Store)]
    BY <1>7, <2>2 DEF TakePush, TypeOK
  <2>4. As(store) \in Copies
    BY <2>3 DEF As, Store, Copies
  <2>5. copy' \in [Windows -> Copies]
    <3>1. copy[w] \in Copies /\ store.plan \in SUBSET Ids
      BY <2>3 DEF TypeOK, Store
    <3>2. [r \in Rows |-> IF r \in Rails THEN copy[w].rows[r] ELSE 0] \in [Rows -> Values]
      BY PlanAssumption DEF TypeOK, Copies, Values
    <3>3. PICK carried : carried = [r \in Rows |-> IF r \in Rails THEN copy[w].rows[r] ELSE 0]
      OBVIOUS
    <3>4. [copy[w] EXCEPT !.plan = store.plan, !.rows = carried] \in Copies
      BY <3>1, <3>2, <3>3 DEF Copies
    <3>5. CASE ~Loaded(w)
      BY <1>7, <2>2, <2>4, <3>5 DEF TakePush, TypeOK
    <3>6. CASE Loaded(w)
      <4>1. copy' = [copy EXCEPT ![w] = [copy[w] EXCEPT !.plan = store.plan, !.rows = carried]]
        BY <1>7, <2>2, <3>6, <3>3, <3>1 DEF TakePush, TypeOK, Copies
      <4> QED
        BY <4>1, <3>4 DEF TypeOK
    <3> QED
      BY <3>5, <3>6
  <2>6. Superseded(w, reads) \subseteq ReadRecords
    BY SupersededReads DEF TypeOK
  <2>7. reads' \subseteq ReadRecords
    BY <1>7, <2>6, <2>1, SupersededReads DEF TakePush, Refresh
  <2> QED
    BY <1>7, <2>3, <2>5, <2>7, ReplacedSaves DEF TakePush, TypeOK
<1>8. ASSUME NEW s \in saves, StoreSave(s) \/ FailSave(s)
      PROVE  TypeOK'
  <2>0. s.plan \in SUBSET Ids /\ s.id \in Values /\ s.what \in Rows \cup {"plan"}
    BY <1>w, PlanAssumption DEF SaveRecords, Ids, Values
  <2>1. Stored(s) \in Store
    BY <2>0 DEF Stored, TypeOK, Store
  <2>2. saves' \subseteq SaveRecords
    <3>1. ASSUME NEW at \in {"stored", "ok", "refused", "lost"}
          PROVE [s EXCEPT !.at = at] \in SaveRecords
      BY <1>w DEF SaveRecords
    <3> QED
      BY <1>8, <1>w, <3>1 DEF StoreSave, FailSave, Change
  <2>3. pushing' \in [Writers -> [do : {"none", "read", "send"}, was : Store, save : Values]]
    <3>1. [Nothing EXCEPT !.do = "read", !.save = s.id] \in [do : {"none", "read", "send"}, was : Store, save : Values]
      <4>1. Nothing \in [do : {"none", "read", "send"}, was : Store, save : Values]
        BY PlanAssumption DEF Nothing, Store, Values
      <4> QED
        BY <4>1, <2>0
    <3> QED
      BY <1>8, <3>1 DEF StoreSave, FailSave, TypeOK
  <2>4. CASE StoreSave(s)
    BY <2>4, <2>1, <2>2, <2>3 DEF StoreSave, TypeOK
  <2>5. CASE FailSave(s)
    BY <2>5, <2>2, <2>3, PlanAssumption DEF FailSave, TypeOK
  <2> QED
    BY <1>8, <2>4, <2>5
<1>9. ASSUME NEW what \in Rails \cup {"plan"}, AgentWrites(what)
      PROVE  TypeOK'
  <2>1. New \in Ids
    BY <1>9 DEF AgentWrites, New, Ids, TypeOK
  <2>2. log' \in Seq(Windows \cup {"agent", "edit"}) /\ Len(log') <= MaxWrites
    BY <1>9 DEF AgentWrites, New, Writer, TypeOK
  <2>5. New \in Values
    BY <2>1, PlanAssumption DEF Ids, Values
  <2>3. db' \in Store
    <3>1. CASE what = "plan"
      BY <1>9, <2>1, <3>1 DEF AgentWrites, TypeOK, Store
    <3>2. CASE what # "plan"
      BY <1>9, <2>5, <3>2 DEF AgentWrites, TypeOK, Store, Rows
    <3> QED
      BY <3>1, <3>2
  <2>4. pushing' \in [Writers -> [do : {"none", "read", "send"}, was : Store, save : Values]]
    <3>1. [Nothing EXCEPT !.do = "read"] \in [do : {"none", "read", "send"}, was : Store, save : Values]
      BY PlanAssumption DEF Nothing, Store, Values
    <3> QED
      BY <1>9, <3>1 DEF AgentWrites, TypeOK
  <2> QED
    BY <1>9, <2>2, <2>3, <2>4, PlanAssumption DEF AgentWrites, TypeOK
<1>10. ASSUME NEW t \in Writers, PushReads(t)
       PROVE  TypeOK'
  BY <1>10 DEF PushReads, TypeOK
<1>11. ASSUME NEW t \in Writers, PushSends(t)
       PROVE  TypeOK'
  <2>1. pushing[t].was \in Store
    BY DEF TypeOK
  <2>2. pushing' \in [Writers -> [do : {"none", "read", "send"}, was : Store, save : Values]]
    BY <1>11, PlanAssumption DEF PushSends, TypeOK, Nothing, Values, Store
  <2>3. saves' \subseteq SaveRecords
    BY <1>11, <1>w DEF PushSends, SaveRecords
  <2>4. events' \in [Windows -> Seq(Store)]
    BY <1>11, <2>1 DEF PushSends, TypeOK
  <2> QED
    BY <1>11, <2>1, <2>2, <2>3, <2>4 DEF PushSends, TypeOK, Store
<1>12. ASSUME NEW d \in reads, AnswerRead(d) \/ FailRead(d)
       PROVE  TypeOK'
  BY <1>12 DEF AnswerRead, FailRead, TypeOK, ReadRecords
<1>13. ASSUME NEW w \in Windows, Edit(w) \/ \E r \in Rows : SetRow(w, r)
       PROVE  TypeOK'
  <2>1. CASE Edit(w)
    <3>1. PICK updated : updated = [copy[w] EXCEPT !.plan = @ \cup {New}]
      OBVIOUS
    <3>2. Save(w, "plan", updated)
      BY <2>1, <3>1 DEF Edit
    <3>0. New \in Ids
      BY <3>2 DEF Save, New, Ids, TypeOK
    <3>3. updated \in Copies
      BY <3>1, <3>0 DEF TypeOK, Copies
    <3> QED
      BY <3>2, <3>3, <1>3
  <2>2. ASSUME NEW r \in Rows, SetRow(w, r)
        PROVE  TypeOK'
    <3>1. PICK updated : updated = [copy[w] EXCEPT !.rows[r] = New]
      OBVIOUS
    <3>2. Save(w, r, updated)
      BY <2>2, <3>1 DEF SetRow
    <3>0. New \in Values
      BY <3>2, PlanAssumption DEF Save, New, Values, TypeOK
    <3>3. updated \in Copies
      BY <3>1, <3>0 DEF TypeOK, Copies
    <3> QED
      BY <3>2, <3>3, <1>3
  <2> QED
    BY <1>13, <2>1, <2>2
<1> QED
  BY <1>1, <1>2, <1>4, <1>5, <1>6, <1>7, <1>8, <1>9, <1>10, <1>11, <1>12, <1>13
     DEF Next, Window, Daemon

\* Save, the copy and the record told by what the invariant needs of them.
Saved(w, what) ==
    /\ Loaded(w) /\ New <= MaxWrites /\ \A s \in Pending(w) : s.what # what
    /\ log' = Append(log, Writer(w, what))
    /\ \A v \in Windows : v # w => copy'[v] = copy[v]
    /\ copy'[w].loaded
    /\ what = "plan" => copy'[w].rows = copy[w].rows
    /\ what # "plan" => copy'[w].plan = copy[w].plan /\ copy'[w].rows[what] = New
    /\ \A r \in Rows : r # what => copy'[w].rows[r] = copy[w].rows[r]
    /\ reads' = Superseded(w, reads)
    /\ \E new \in SaveRecords :
          /\ saves' = Replaced(w) \cup {new}
          /\ new.id = New /\ new.w = w /\ new.what = what /\ new.before = copy[w]
          /\ new.mine /\ new.at = "sent"
    /\ UNCHANGED <<db, pushing, events, told, timer, odd, taint, sent>>

\* TakePush likewise.
Pushed(w) ==
    /\ events[w] # <<>>
    /\ events'[w] = Tail(events[w]) /\ \A v \in Windows : v # w => events'[v] = events[v]
    /\ saves' = Replaced(w)
    /\ \A v \in Windows : v # w => copy'[v] = copy[v]
    /\ copy'[w].loaded /\ copy'[w].plan = Head(events[w]).plan
    /\ Loaded(w) => \A r \in Rails : copy'[w].rows[r] = copy[w].rows[r]
    /\ reads' = Superseded(w, reads) \/ (Loaded(w) /\ reads' = Refresh(w, Superseded(w, reads)))
    /\ UNCHANGED <<db, log, pushing, told, timer, odd, taint, sent>>

\* A window that edits its plan or sets a row: the copy shows it at once, its
\* reads are out of date, and the save goes out with what it replaced.
LEMMA SavedFacts ==
    ASSUME TypeOK, NEW w \in Windows, Edit(w) \/ \E r \in Rows : SetRow(w, r)
    PROVE  \E what \in Rows \cup {"plan"} : Saved(w, what)
<1>0. copy[w] \in Copies
  BY DEF TypeOK
<1>1. ASSUME NEW what \in Rows \cup {"plan"}, NEW updated \in Copies,
             Save(w, what, updated),
             updated.loaded = copy[w].loaded,
             what = "plan" => updated.rows = copy[w].rows,
             what # "plan" => updated.plan = copy[w].plan /\ updated.rows[what] = New,
             \A r \in Rows : r # what => updated.rows[r] = copy[w].rows[r]
      PROVE  Saved(w, what)
  <2>1. New \in Ids
    BY <1>1 DEF Save, New, Ids, TypeOK
  <2>2. PICK new : new = [id |-> New, w |-> w, what |-> what, plan |-> updated.plan, before |-> copy[w],
                          mine |-> TRUE, at |-> "sent"]
    OBVIOUS
  <2>3. updated.plan \in SUBSET Ids
    BY DEF Copies
  <2>4. new \in SaveRecords
    BY <2>1, <2>2, <2>3, <1>0 DEF SaveRecords
  <2>5. saves' = Replaced(w) \cup {new}
    BY <1>1, <2>2 DEF Save
  <2>6. /\ new.id = New /\ new.w = w /\ new.what = what /\ new.before = copy[w]
        /\ new.mine /\ new.at = "sent"
    BY <2>2
  <2>7. copy'[w] = updated /\ \A v \in Windows : v # w => copy'[v] = copy[v]
    BY <1>1 DEF Save, TypeOK
  <2>8. \E n \in SaveRecords :
          /\ saves' = Replaced(w) \cup {n}
          /\ n.id = New /\ n.w = w /\ n.what = what /\ n.before = copy[w]
          /\ n.mine /\ n.at = "sent"
    BY <2>4, <2>5, <2>6
  <2>9. Loaded(w) /\ updated.loaded
    BY <1>1 DEF Save, Loaded
  <2> QED
    BY <1>1, <2>7, <2>8, <2>9 DEF Saved, Save
<1>2. CASE Edit(w)
  <2>1. PICK updated : updated = [copy[w] EXCEPT !.plan = @ \cup {New}]
    OBVIOUS
  <2>2. Save(w, "plan", updated)
    BY <1>2, <2>1 DEF Edit
  <2>3. New \in Ids
    BY <2>2 DEF Save, New, Ids, TypeOK
  <2>4. /\ updated \in Copies /\ updated.loaded = copy[w].loaded /\ updated.rows = copy[w].rows
    BY <1>0, <2>1, <2>3 DEF Copies
  <2> QED
    BY <1>1, <2>2, <2>4
<1>3. ASSUME NEW r \in Rows, SetRow(w, r)
      PROVE  Saved(w, r)
  <2>1. PICK updated : updated = [copy[w] EXCEPT !.rows[r] = New]
    OBVIOUS
  <2>2. Save(w, r, updated)
    BY <1>3, <2>1 DEF SetRow
  <2>3. New \in Values
    BY <2>2, PlanAssumption DEF Save, New, Values, TypeOK
  <2>4. /\ updated \in Copies /\ updated.loaded = copy[w].loaded /\ updated.plan = copy[w].plan
        /\ updated.rows[r] = New /\ \A q \in Rows : q # r => updated.rows[q] = copy[w].rows[q]
    BY <1>0, <2>1, <2>3 DEF Copies
  <2>5. r # "plan"
    BY PlanAssumption DEF Rows
  <2> QED
    BY <1>1, <2>2, <2>4, <2>5
<1> QED
  BY <1>2, <1>3

\* A window that takes a push: the plan of its copy is the push's, its rows stay,
\* and if it had nothing yet it reads.
LEMMA PushedFacts ==
    ASSUME TypeOK, NEW w \in Windows, TakePush(w)
    PROVE  Pushed(w)
<1>1. PICK store : store = Head(events[w])
  OBVIOUS
<1>2. copy[w] \in Copies
  BY DEF TypeOK
<1>3. PICK carried : carried = [r \in Rows |-> IF r \in Rails THEN copy[w].rows[r] ELSE 0]
  OBVIOUS
<1>4. \A r \in Rails : carried[r] = copy[w].rows[r]
  BY <1>3 DEF Rows
<1>5. CASE ~Loaded(w)
  <2>1. As(store).loaded /\ As(store).plan = store.plan
    BY DEF As
  <2>2. copy'[w] = As(store) /\ (\A v \in Windows : v # w => copy'[v] = copy[v])
    BY <1>1, <1>5 DEF TakePush, TypeOK
  <2>3. events'[w] = Tail(events[w]) /\ (\A v \in Windows : v # w => events'[v] = events[v])
    BY <1>5 DEF TakePush, TypeOK
  <2> QED
    BY <1>1, <1>5, <2>1, <2>2, <2>3 DEF TakePush, Pushed
<1>6. CASE Loaded(w)
  <2>1. copy' = [copy EXCEPT ![w] = [copy[w] EXCEPT !.plan = store.plan, !.rows = carried]]
    BY <1>1, <1>2, <1>3, <1>6 DEF TakePush, TypeOK, Copies
  <2>2. PICK updated : updated = [copy[w] EXCEPT !.plan = store.plan, !.rows = carried]
    OBVIOUS
  <2>3. updated.loaded = copy[w].loaded /\ updated.plan = store.plan /\ updated.rows = carried
    BY <1>2, <2>2 DEF Copies
  <2>4. copy'[w] = updated /\ \A v \in Windows : v # w => copy'[v] = copy[v]
    BY <2>1, <2>2 DEF TypeOK
  <2>5. events'[w] = Tail(events[w]) /\ (\A v \in Windows : v # w => events'[v] = events[v])
    BY DEF TakePush, TypeOK
  <2>6. reads' = Superseded(w, reads) \/ reads' = Refresh(w, Superseded(w, reads))
    BY <1>6 DEF TakePush
  <2> QED
    BY <1>1, <1>4, <1>6, <2>3, <2>4, <2>5, <2>6 DEF TakePush, Pushed, Loaded
<1> QED
  BY <1>5, <1>6

-----------------------------------------------------------------------------
\* What a step makes of a save `z`: it is still the window's, of the same
\* thing; what it would put back, if it may, is the same; only the daemon
\* stores it.
Came(y, z) ==
    /\ y.id = z.id /\ y.w = z.w /\ y.what = z.what
    /\ y.mine => z.mine /\ y.before = z.before
    /\ Unstored(y) => Unstored(z)
    /\ Unstored(z) => Unstored(y) \/ StoreSave(z)
Begun(y) ==
    /\ Saved(y.w, y.what) /\ y.id = New /\ y.before = copy[y.w] /\ Unstored(y)

\* Saves that only lose their way back stay the saves they were.
LEMMA SavesKept ==
    ASSUME TypeOK, Numbers, NEW w \in Windows,
           saves' \subseteq saves \/ saves' \subseteq Replaced(w)
    PROVE  /\ \A y \in saves' : \E z \in saves : Came(y, z)
           /\ \A y, z \in saves' : y.id = z.id => y = z
<1>1. \A z \in saves : Came(z, z)
  BY DEF Came
<1>2. \A z \in saves : Came(Cut(z), z)
  BY CutSave DEF Came, Unstored, TypeOK
<1>3. CASE saves' \subseteq saves
  BY <1>1, <1>3 DEF Numbers
<1>4. CASE saves' \subseteq Replaced(w)
  <2>1. \A y \in saves' : \E z \in saves : Came(y, z)
    BY <1>1, <1>2, <1>4, ReplacedSaves
  <2>2. ASSUME NEW y \in saves', NEW z \in saves', y.id = z.id PROVE y = z
    <3>1. /\ (y \in saves /\ y.w # w) \/ \E s \in saves : s.w = w /\ y = Cut(s)
          /\ (z \in saves /\ z.w # w) \/ \E s \in saves : s.w = w /\ z = Cut(s)
      BY <1>4, ReplacedSaves
    <3>2. \A s \in saves : Cut(s).id = s.id /\ Cut(s).w = s.w
      BY CutSave DEF TypeOK
    <3> QED
      BY <2>2, <3>1, <3>2 DEF Numbers
  <2> QED
    BY <2>1, <2>2
<1> QED
  BY <1>3, <1>4

\* The lane stores or refuses one save, and no other is touched.
LEMMA SavesChanged ==
    ASSUME TypeOK, Numbers, NEW s \in saves, StoreSave(s) \/ FailSave(s)
    PROVE  /\ \A y \in saves' : \E z \in saves : Came(y, z)
           /\ \A y, z \in saves' : y.id = z.id => y = z
           /\ \A z \in saves : \E y \in saves' : Came(y, z)
<1>1. PICK at \in {"stored", "ok", "refused", "lost"} :
         /\ saves' = Change(s, at)
         /\ \/ StoreSave(s) /\ s.at = "sent" /\ at \in {"stored", "ok"}
            \/ s.at = "sent" /\ at = "refused"
            \/ s.at = "ok" /\ at = "lost"
  <2>1. CASE StoreSave(s)
    BY <2>1 DEF StoreSave
  <2>2. CASE FailSave(s)
    BY <2>2 DEF FailSave
  <2> QED
    BY <2>1, <2>2
<1>2. PICK new : new = [s EXCEPT !.at = at]
  OBVIOUS
<1>3. new.id = s.id /\ new.w = s.w /\ new.what = s.what /\ new.mine = s.mine /\ new.before = s.before /\ new.at = at
  BY <1>2 DEF TypeOK, SaveRecords
<1>4. saves' = (saves \ {s}) \cup {new}
  BY <1>1, <1>2 DEF Change
<1>5. Came(new, s)
  BY <1>1, <1>3 DEF Came, Unstored
<1>6. \A z \in saves : Came(z, z)
  BY DEF Came
<1> QED
  BY <1>3, <1>4, <1>5, <1>6 DEF Numbers

\* A push sent answers the save it is for, and no other is touched.
LEMMA SavesAnswered ==
    ASSUME TypeOK, Numbers, NEW t \in Writers, PushSends(t)
    PROVE  /\ \A y \in saves' : \E z \in saves : Came(y, z)
           /\ \A y, z \in saves' : y.id = z.id => y = z
           /\ \A z \in saves : \E y \in saves' : Came(y, z)
<1> DEFINE Next1(s) == IF s.id = pushing[t].save /\ s.at = "stored" THEN [s EXCEPT !.at = "ok"] ELSE s
<1>1. saves' = {Next1(s) : s \in saves}
  BY DEF PushSends
<1>2. ASSUME NEW s \in saves PROVE Came(Next1(s), s) /\ Next1(s).id = s.id
  BY DEF TypeOK, SaveRecords, Came, Unstored
<1> HIDE DEF Next1
<1> QED
  BY <1>1, <1>2 DEF Numbers

\* What a step makes of the saves: each comes from one before it or was begun by
\* the step, and none is dropped but by its own answer.
LEMMA SavesStep ==
    ASSUME TypeOK, Numbers, [Next]_vars
    PROVE  /\ \A y \in saves' : (\E z \in saves : Came(y, z)) \/ Begun(y)
           /\ \A y, z \in saves' : y.id = z.id => y = z
           /\ \A z \in saves : (\E y \in saves' : Came(y, z)) \/ Resolve(z)
<1>0. \A z \in saves : Came(z, z)
  BY DEF Came
<1>c. \A z \in saves : Came(Cut(z), z)
  BY CutSave DEF Came, Unstored, TypeOK
<1>r. ASSUME NEW w \in Windows
      PROVE  \A z \in saves : \E y \in Replaced(w) : Came(y, z)
  BY <1>0, <1>c, ReplacedSaves
<1>1. CASE UNCHANGED saves
  BY <1>1, <1>0 DEF Numbers
<1>2. ASSUME NEW w \in Windows, NEW what \in Rows \cup {"plan"}, Saved(w, what)
      PROVE  /\ \A y \in saves' : (\E z \in saves : Came(y, z)) \/ Begun(y)
             /\ \A y, z \in saves' : y.id = z.id => y = z
             /\ \A z \in saves : \E y \in saves' : Came(y, z)
  <2>1. PICK new \in SaveRecords :
          /\ saves' = Replaced(w) \cup {new}
          /\ new.id = New /\ new.w = w /\ new.what = what /\ new.before = copy[w]
          /\ new.mine /\ new.at = "sent"
    BY <1>2 DEF Saved
  <2>2. Begun(new)
    BY <1>2, <2>1 DEF Begun, Unstored
  <2>3. \A y \in Replaced(w) : \E z \in saves : Came(y, z)
    BY <1>0, <1>c, ReplacedSaves
  <2>4. \A y \in Replaced(w) : y.id # New
    <3>1. \A z \in saves : z.id # New
      BY DEF Numbers, New, TypeOK, SaveRecords, Ids
    <3> QED
      BY <2>3, <3>1 DEF Came
  <2>5. \A y, z \in Replaced(w) : y.id = z.id => y = z
    <3>1. \A s \in saves : Cut(s).id = s.id /\ Cut(s).w = s.w
      BY CutSave DEF TypeOK
    <3>2. \A y \in Replaced(w) : (y \in saves /\ y.w # w) \/ \E s \in saves : s.w = w /\ y = Cut(s)
      BY ReplacedSaves
    <3> QED
      BY <3>1, <3>2 DEF Numbers
  <2> QED
    BY <2>1, <2>2, <2>3, <2>4, <2>5, <1>r
<1>3. ASSUME NEW w \in Windows, NEW s \in Pending(w), Resolve(s)
      PROVE  /\ \A y \in saves' : \E z \in saves : Came(y, z)
             /\ \A y, z \in saves' : y.id = z.id => y = z
             /\ \A z \in saves : (\E y \in saves' : Came(y, z)) \/ Resolve(z)
  <2>1. s \in saves /\ s.w = w
    BY DEF Pending
  <2>2. CASE saves' = saves \ {s}
    BY <2>1, <2>2, <1>3, <1>0, SavesKept
  <2>3. CASE saves' = {z \in Replaced(w) : z.id # s.id}
    <3>1. ASSUME NEW z \in saves, z # s PROVE \E y \in saves' : Came(y, z)
      <4>1. PICK y \in Replaced(w) : Came(y, z)
        BY <1>r
      <4>2. y.id # s.id
        BY <4>1, <3>1, <2>1 DEF Came, Numbers
      <4> QED
        BY <4>1, <4>2, <2>3
    <3>2. saves' \subseteq Replaced(w)
      BY <2>3
    <3> QED
      BY <3>1, <3>2, <1>3, SavesKept
  <2> QED
    BY <1>3, <2>1, <2>2, <2>3 DEF Resolve
<1>4. ASSUME NEW w \in Windows, saves' = Replaced(w)
      PROVE  /\ \A y \in saves' : \E z \in saves : Came(y, z)
             /\ \A y, z \in saves' : y.id = z.id => y = z
             /\ \A z \in saves : \E y \in saves' : Came(y, z)
  BY <1>4, <1>r, SavesKept
<1>5. ASSUME NEW w \in Windows, NEW d \in reads, d.w = w, TakeAnswer(d)
      PROVE  UNCHANGED saves \/ saves' = Replaced(w)
  BY <1>5 DEF TakeAnswer
<1>6. ASSUME NEW w \in Windows, Window(w)
      PROVE  \/ UNCHANGED saves \/ saves' = Replaced(w)
             \/ \E what \in Rows \cup {"plan"} : Saved(w, what)
             \/ \E s \in Pending(w) : Resolve(s)
  BY <1>6, <1>5, SavedFacts DEF Window, Fetch, Hear, Fire, TakePush
<1>7. ASSUME Daemon
      PROVE  \/ UNCHANGED saves \/ \E s \in saves : StoreSave(s) \/ FailSave(s)
             \/ \E t \in Writers : PushSends(t)
  BY <1>7 DEF Daemon, AgentWrites, PushReads, AnswerRead, FailRead
<1> QED
  BY <1>1, <1>2, <1>3, <1>4, <1>6, <1>7, SavesChanged, SavesAnswered DEF Next, vars

\* A row of a window's own in the store was there before, or is the save of it
\* stored just now.
LEMMA OwnStep ==
    ASSUME TypeOK, Numbers, [Next]_vars, NEW w \in Windows, NEW r \in Rows, Own(w, r)'
    PROVE  \/ Own(w, r) /\ db'.rows[r] = db.rows[r]
           \/ \E s \in saves : StoreSave(s) /\ s.w = w /\ s.what = r /\ db'.rows[r] = s.id
<1>1. \A i \in 1..Len(log) : log'[i] = log[i]
  <2>1. log' = log \/ \E x : log' = Append(log, x)
    <3>1. ASSUME NEW v \in Windows, Edit(v) \/ \E q \in Rows : SetRow(v, q)
          PROVE  \E x : log' = Append(log, x)
      BY <3>1, SavedFacts DEF Saved
    <3> QED
      BY <3>1 DEF Next, vars, Window, Fetch, Hear, Fire, TakePush, Resolve, TakeAnswer,
         Daemon, StoreSave, FailSave, AgentWrites, PushReads, PushSends, AnswerRead,
         FailRead
  <2> QED
    BY <2>1 DEF TypeOK
<1>2. db.rows[r] \in 0..Len(log)
  BY DEF Numbers, TypeOK, Store, Values
<1>3. CASE db'.rows[r] = db.rows[r]
  BY <1>1, <1>2, <1>3 DEF Own
<1>4. ASSUME NEW s \in saves, StoreSave(s), db'.rows[r] # db.rows[r]
      PROVE  s.w = w /\ s.what = r /\ db'.rows[r] = s.id
  <2>1. s.what = r /\ db'.rows[r] = s.id
    BY <1>4 DEF StoreSave, Stored, TypeOK, Store
  <2>2. log[s.id] = s.w /\ s.id \in 1..Len(log)
    BY <2>1, PlanAssumption DEF Numbers, Writer, Rows, TypeOK, SaveRecords, Ids
  <2> QED
    BY <2>1, <2>2, <1>1 DEF Own
<1>5. ASSUME NEW what \in Rails \cup {"plan"}, AgentWrites(what), db'.rows[r] # db.rows[r]
      PROVE  FALSE
  <2>1. what = r /\ db'.rows[r] = New
    BY <1>5 DEF AgentWrites, TypeOK, Store
  <2>2. log' = Append(log, "agent")
    BY <1>5, <2>1, PlanAssumption DEF AgentWrites, Writer, Rows
  <2>3. log'[New] = "agent"
    BY <2>2 DEF New, TypeOK
  <2> QED
    BY <2>1, <2>3, PlanAssumption DEF Own
<1>6. \/ db' = db \/ (\E s \in saves : StoreSave(s))
      \/ \E what \in Rails \cup {"plan"} : AgentWrites(what)
  BY DEF Next, vars, Window, Fetch, Edit, SetRow, Save, Hear, Fire, TakePush, Resolve,
     TakeAnswer,
     Daemon, FailSave, PushReads, PushSends, AnswerRead, FailRead
<1> QED
  BY <1>3, <1>4, <1>5, <1>6

\* A save of the window's that failed is taken back.
RolledBack(w) ==
    \E s \in Pending(w) :
        /\ s.mine /\ s.at \in {"refused", "lost"}
        /\ copy'[w] = s.before
        /\ taint[w] \subseteq taint'[w] /\ (s.at = "lost" => s.what \in taint'[w])
        /\ \A y \in saves' : y.w = w => ~y.mine /\ y.id # s.id
        /\ \A z \in saves : z.w = w /\ z # s => \E y \in saves' : Came(y, z)
        /\ UNCHANGED <<db, log, pushing, events, sent>>

\* An answer is taken.
Applied(w) ==
    \E d \in reads :
        /\ d.w = w /\ d.at = "answered" /\ d.latest /\ Pending(w) = {}
        /\ copy'[w] = As(d.was)
        /\ saves' = Replaced(w)
        /\ UNCHANGED <<db, log, pushing, events, sent>>

\* What a step makes of a window's copy: nothing, a save, a push, a failed save
\* taken back, or an answer taken.
LEMMA CopyStep ==
    ASSUME PlanInv, [Next]_vars, NEW w \in Windows
    PROVE  \/ copy'[w] = copy[w] /\ taint[w] \subseteq taint'[w]
           \/ \E what \in Rows \cup {"plan"} : Saved(w, what)
           \/ Pushed(w) \/ RolledBack(w) \/ Applied(w)
<1>1. TypeOK /\ Numbers /\ Unread /\ LatestReads
  BY DEF PlanInv
<1>2. ASSUME UNCHANGED <<copy, taint>>
      PROVE  copy'[w] = copy[w] /\ taint[w] \subseteq taint'[w]
  BY <1>2
<1>3. ASSUME NEW v \in Windows, NEW what \in Rows \cup {"plan"}, Saved(v, what), v # w
      PROVE  copy'[w] = copy[w] /\ taint[w] \subseteq taint'[w]
  BY <1>3 DEF Saved
<1>4. ASSUME NEW v \in Windows, Pushed(v), v # w
      PROVE  copy'[w] = copy[w] /\ taint[w] \subseteq taint'[w]
  BY <1>4 DEF Pushed
<1>5. ASSUME NEW v \in Windows, NEW s \in Pending(v), Resolve(s)
      PROVE  (copy'[w] = copy[w] /\ taint[w] \subseteq taint'[w]) \/ RolledBack(w)
  <2>1. s \in saves /\ s.w = v
    BY DEF Pending
  <2>2. CASE UNCHANGED copy
    BY <1>5, <2>2, <2>1, <1>1 DEF Resolve, TypeOK
  <2>3. CASE ~UNCHANGED copy
    <3>1. /\ s.at \in {"refused", "lost"} /\ s.mine
          /\ saves' = {z \in Replaced(v) : z.id # s.id}
          /\ copy' = [copy EXCEPT ![v] = s.before]
          /\ taint' = [taint EXCEPT ![v] = IF s.at = "lost" THEN @ \cup {s.what} ELSE @]
          /\ UNCHANGED <<db, log, pushing, events, sent>>
      BY <1>5, <2>3, <2>1 DEF Resolve
    <3>2. CASE v # w
      BY <3>1, <3>2, <1>1 DEF TypeOK
    <3>3. CASE v = w
      <4>1. \A y \in saves' : y.w = w => ~y.mine /\ y.id # s.id
        <5>1. \A y \in Replaced(w) : (y \in saves /\ y.w # w) \/ \E z \in saves : z.w = w /\ y = Cut(z)
          BY <1>1, ReplacedSaves
        <5> QED
          BY <3>1, <3>3, <1>1, <5>1, CutSave DEF TypeOK
      <4>2. ASSUME NEW z \in saves, z.w = w, z # s PROVE \E y \in saves' : Came(y, z)
        <5>1. Cut(z) \in Replaced(w) /\ Cut(z).id = z.id
          BY <4>2, <1>1, ReplacedSaves, CutSave DEF TypeOK
        <5>2. z.id # s.id
          BY <4>2, <2>1, <1>1 DEF Numbers
        <5>3. Came(Cut(z), z)
          BY <1>1, CutSave DEF Came, Unstored, TypeOK
        <5> QED
          BY <3>1, <3>3, <5>1, <5>2, <5>3
      <4>3. copy'[w] = s.before /\ taint[w] \subseteq taint'[w] /\ (s.at = "lost" => s.what \in taint'[w])
        BY <3>1, <3>3, <1>1 DEF TypeOK
      <4> QED
        BY <3>1, <3>3, <4>1, <4>2, <4>3 DEF RolledBack
    <3> QED
      BY <3>2, <3>3
  <2> QED
    BY <2>2, <2>3
<1>6. ASSUME NEW v \in Windows, NEW d \in reads, d.w = v, TakeAnswer(d)
      PROVE  (copy'[w] = copy[w] /\ taint[w] \subseteq taint'[w]) \/ Applied(w)
  <2>1. CASE ~Applies(d) \/ v # w
    BY <1>6, <2>1, <1>1 DEF TakeAnswer, TypeOK
  <2>2. CASE Applies(d) /\ v = w
    <3>1. d.latest /\ Pending(w) = {}
      BY <1>6, <2>2, <1>1 DEF Applies, Unread, LatestReads
    <3>2. copy'[w] = As(d.was)
      BY <1>6, <2>2, <1>1 DEF TakeAnswer, TypeOK
    <3> QED
      BY <1>6, <2>2, <3>1, <3>2 DEF TakeAnswer, Applied
  <2> QED
    BY <2>1, <2>2
<1>7. ASSUME NEW v \in Windows, Window(v)
      PROVE  \/ copy'[w] = copy[w] /\ taint[w] \subseteq taint'[w]
             \/ \E what \in Rows \cup {"plan"} : Saved(w, what)
             \/ Pushed(w) \/ RolledBack(w) \/ Applied(w)
  <2>1. CASE Fetch(v) \/ Hear(v) \/ Fire(v)
    BY <2>1, <1>2 DEF Fetch, Hear, Fire
  <2>2. CASE Edit(v) \/ \E r \in Rows : SetRow(v, r)
    BY <2>2, <1>1, <1>3, SavedFacts
  <2>3. CASE TakePush(v)
    BY <2>3, <1>1, <1>4, PushedFacts
  <2>4. CASE \E s \in Pending(v) : Resolve(s)
    BY <2>4, <1>5
  <2>5. CASE \E d \in reads : d.w = v /\ TakeAnswer(d)
    BY <2>5, <1>6
  <2> QED
    BY <1>7, <2>1, <2>2, <2>3, <2>4, <2>5 DEF Window
<1>8. CASE Daemon \/ UNCHANGED vars
  BY <1>8, <1>2 DEF Daemon, StoreSave, FailSave, AgentWrites, PushReads, PushSends,
     AnswerRead, FailRead, vars
<1> QED
  BY <1>7, <1>8 DEF Next

\* A read that counts was asked for or answered just now, or counted before
\* and no push was taken since.
LEMMA ReadsStep ==
    ASSUME PlanInv, [Next]_vars
    PROVE  \A d \in reads' : d.latest =>
              \/ d.at = "asked"
              \/ d \in reads /\ ~Pushed(d.w)
              \/ d.was = db /\ UNCHANGED <<db, log, pushing, events>>
<1>1. TypeOK
  BY DEF PlanInv
<1>s. ASSUME NEW w \in Windows, NEW d, d \in Superseded(w, reads), d.latest
      PROVE  d \in reads /\ d.w # w
  BY <1>s, <1>1, SupersededReads DEF TypeOK
<1>a. \A w \in Windows, kind \in {"fetch", "refresh"} : Asked(w, kind).at = "asked" /\ Asked(w, kind).w = w
  BY DEF Asked
<1>p. ASSUME NEW w \in Windows, NEW v \in Windows, Pushed(v), Pushed(w), v # w
      PROVE  FALSE
  <2>1. events'[v] = Tail(events[v]) /\ events'[v] = events[v] /\ events[v] # <<>>
    BY <1>p DEF Pushed
  <2>2. Len(Tail(events[v])) # Len(events[v])
    BY <2>1, <1>1 DEF TypeOK
  <2> QED
    BY <2>1, <2>2
<1>q. ASSUME NEW w \in Windows, UNCHANGED events
      PROVE  ~Pushed(w)
  <2>1. events[w] # <<>> => Len(Tail(events[w])) # Len(events[w])
    BY <1>1 DEF TypeOK
  <2> QED
    BY <1>q, <2>1 DEF Pushed
<1>2. ASSUME NEW w \in Windows, reads' = Superseded(w, reads), UNCHANGED events,
             NEW d \in reads', d.latest
      PROVE  d \in reads /\ ~Pushed(d.w)
  BY <1>2, <1>s, <1>q, <1>1 DEF TypeOK, ReadRecords
<1>3. ASSUME NEW w \in Windows, NEW kind \in {"fetch", "refresh"}, UNCHANGED events,
             reads' = Superseded(w, reads) \cup {Asked(w, kind)}, NEW d \in reads', d.latest
      PROVE  d.at = "asked" \/ (d \in reads /\ ~Pushed(d.w))
  BY <1>3, <1>s, <1>a, <1>q, <1>1 DEF TypeOK, ReadRecords
<1>4. ASSUME reads' \subseteq reads, UNCHANGED events, NEW d \in reads', d.latest
      PROVE  d \in reads /\ ~Pushed(d.w)
  BY <1>4, <1>q, <1>1 DEF TypeOK, ReadRecords
<1>5. ASSUME NEW w \in Windows, Pushed(w), NEW d \in reads', d.latest
      PROVE  d.at = "asked" \/ (d \in reads /\ ~Pushed(d.w))
  <2>1. Superseded(w, reads) \in SUBSET ReadRecords
    BY <1>1, SupersededReads DEF TypeOK
  <2>2. \/ d \in Superseded(w, reads) \/ d = Asked(w, "refresh")
        \/ d \in Superseded(w, Superseded(w, reads))
    BY <1>5 DEF Pushed, Refresh
  <2>3. d \in Superseded(w, Superseded(w, reads)) => d \in Superseded(w, reads)
    BY <1>5, <2>1, SupersededReads
  <2>4. CASE d \in Superseded(w, reads)
    <3>1. d \in reads /\ d.w # w /\ d.w \in Windows
      BY <1>5, <2>4, <1>s, <1>1 DEF TypeOK, ReadRecords
    <3> QED
      BY <3>1, <1>5, <1>p
  <2> QED
    BY <2>2, <2>3, <2>4, <1>a
<1>6. ASSUME NEW c \in reads, AnswerRead(c), NEW d \in reads', d.latest
      PROVE  (d \in reads /\ ~Pushed(d.w)) \/ (d.was = db /\ UNCHANGED <<db, log, pushing, events>>)
  <2>0. d \in reads => d.w \in Windows
    BY <1>1 DEF TypeOK, ReadRecords
  <2>1. [c EXCEPT !.at = "answered", !.was = db].was = db
    BY <1>1 DEF TypeOK, ReadRecords
  <2>2. d \in reads \/ d = [c EXCEPT !.at = "answered", !.was = db]
    BY <1>6 DEF AnswerRead
  <2>3. UNCHANGED <<db, log, pushing, events>>
    BY <1>6 DEF AnswerRead
  <2> QED
    BY <2>0, <2>1, <2>2, <2>3, <1>q
<1>7. ASSUME NEW t \in Writers, PushSends(t), NEW d \in reads'
      PROVE  d \in reads /\ ~Pushed(d.w)
  <2>1. UNCHANGED reads /\ d.w \in Windows
    BY <1>7, <1>1 DEF PushSends, TypeOK, ReadRecords
  <2>2. events'[d.w] = Append(events[d.w], pushing[t].was)
    BY <1>7, <2>1 DEF PushSends
  <2>3. events[d.w] # <<>> => Len(events'[d.w]) # Len(Tail(events[d.w]))
    BY <2>1, <2>2, <1>1 DEF TypeOK
  <2> QED
    BY <2>1, <2>3 DEF Pushed
<1>8. ASSUME NEW w \in Windows, Window(w)
      PROVE  \/ UNCHANGED events /\ (reads' \subseteq reads \/ reads' = Superseded(w, reads)
                   \/ \E kind \in {"fetch", "refresh"} : reads' = Superseded(w, reads) \cup {Asked(w, kind)})
             \/ Pushed(w)
  <2>1. CASE Fetch(w) \/ Hear(w) \/ Fire(w)
    BY <2>1 DEF Fetch, Hear, Fire, Refresh
  <2>2. CASE Edit(w) \/ \E r \in Rows : SetRow(w, r)
    BY <2>2, <1>1, SavedFacts DEF Saved
  <2>3. CASE TakePush(w)
    BY <2>3, <1>1, PushedFacts
  <2>4. CASE (\E s \in Pending(w) : Resolve(s)) \/ \E d \in reads : d.w = w /\ TakeAnswer(d)
    BY <2>4 DEF Resolve, TakeAnswer
  <2> QED
    BY <1>8, <2>1, <2>2, <2>3, <2>4 DEF Window
<1>9. ASSUME Daemon \/ UNCHANGED vars
      PROVE  \/ reads' \subseteq reads /\ UNCHANGED events
             \/ (\E c \in reads : AnswerRead(c)) \/ \E t \in Writers : PushSends(t)
  BY <1>9 DEF Daemon, StoreSave, FailSave, AgentWrites, PushReads, FailRead, vars
<1>10. ASSUME NEW w \in Windows, Window(w), NEW d \in reads', d.latest
       PROVE  d.at = "asked" \/ (d \in reads /\ ~Pushed(d.w))
  BY <1>10, <1>8, <1>2, <1>3, <1>4, <1>5
<1>11. ASSUME Daemon \/ UNCHANGED vars, NEW d \in reads', d.latest
       PROVE  (d \in reads /\ ~Pushed(d.w)) \/ (d.was = db /\ UNCHANGED <<db, log, pushing, events>>)
  BY <1>11, <1>9, <1>4, <1>6, <1>7
<1> QED
  BY <1>10, <1>11 DEF Next

\* When no push is on its way to a window none was before, or the window has
\* just taken the last.
LEMMA SettleStep ==
    ASSUME TypeOK, [Next]_vars, NEW w \in Windows, Settled(w)'
    PROVE  /\ db'.plan = db.plan /\ sent' = sent
           /\ Settled(w) \/ (Pushed(w) /\ Len(events[w]) = 1)
<1>1. ASSUME NEW v \in Windows, Pushed(v)
      PROVE  /\ UNCHANGED <<db, sent, pushing>>
             /\ Settled(w) \/ (Pushed(w) /\ Len(events[w]) = 1)
  <2>1. UNCHANGED <<db, sent, pushing>>
    BY <1>1 DEF Pushed
  <2>2. CASE v # w
    BY <1>1, <2>1, <2>2 DEF Pushed, Settled, Free
  <2>3. CASE v = w
    <3>1. events[w] # <<>> /\ Tail(events[w]) = <<>>
      BY <1>1, <2>3 DEF Pushed, Settled
    <3>2. events[w] \in Seq(Store)
      BY DEF TypeOK
    <3>3. Len(Tail(events[w])) = Len(events[w]) - 1 /\ Len(events[w]) \in Nat
      BY <3>1, <3>2, HeadTailProperties
    <3>4. Len(<<>>) = 0
      OBVIOUS
    <3>5. Len(Tail(events[w])) = 0
      BY <3>1, <3>4, Zenon
    <3>6. Len(events[w]) = 1
      BY <3>3, <3>5
    <3> QED
      BY <1>1, <2>1, <2>3, <3>6
  <2> QED
    BY <1>1, <2>1, <2>2, <2>3
<1>2. ASSUME UNCHANGED <<db, sent, pushing, events>>
      PROVE  db'.plan = db.plan /\ sent' = sent /\ Settled(w)
  BY <1>2 DEF Settled, Free
<1>3. ASSUME NEW v \in Windows, Window(v)
      PROVE  UNCHANGED <<db, sent, pushing, events>> \/ Pushed(v)
  BY <1>3, SavedFacts, PushedFacts DEF Window, Fetch, Hear, Fire, Resolve, TakeAnswer, Saved
<1>4. ASSUME NEW s \in saves, StoreSave(s)
      PROVE  db'.plan = db.plan /\ sent' = sent /\ Settled(w)
  <2>1. s.what # "plan"
    <3>1. SUFFICES ASSUME s.what = "plan" PROVE FALSE
      OBVIOUS
    <3>2. pushing' = [pushing EXCEPT !["lane"] = [Nothing EXCEPT !.do = "read", !.save = s.id]]
      BY <1>4, <3>1 DEF StoreSave
    <3>3. pushing'["lane"].do = "read"
      BY <3>2 DEF TypeOK, Writers, Nothing
    <3> QED
      BY <3>3 DEF Settled, Free, Writers
  <2>2. db'.plan = db.plan
    BY <1>4, <2>1 DEF StoreSave, Stored, TypeOK, Store
  <2> QED
    BY <1>4, <2>1, <2>2 DEF StoreSave, Settled, Free
<1>5. ASSUME NEW what \in Rails \cup {"plan"}, AgentWrites(what)
      PROVE  FALSE
  <2>1. pushing'["agent"].do = "read"
    BY <1>5 DEF AgentWrites, TypeOK, Writers, Nothing
  <2> QED
    BY <2>1 DEF Settled, Free, Writers
<1>6. ASSUME NEW t \in Writers, PushReads(t) \/ PushSends(t)
      PROVE  FALSE
  <2>1. CASE PushReads(t)
    <3>1. pushing'[t].do = "send"
      BY <2>1 DEF PushReads, TypeOK
    <3> QED
      BY <3>1 DEF Settled, Free
  <2>2. CASE PushSends(t)
    <3>1. events'[w] = Append(events[w], pushing[t].was)
      BY <2>2 DEF PushSends
    <3> QED
      BY <3>1 DEF Settled, TypeOK
  <2> QED
    BY <1>6, <2>1, <2>2
<1>7. ASSUME Daemon \/ UNCHANGED vars
      PROVE  db'.plan = db.plan /\ sent' = sent /\ Settled(w)
  <2>1. CASE (\E s \in saves : FailSave(s)) \/ (\E d \in reads : AnswerRead(d) \/ FailRead(d)) \/ UNCHANGED vars
    BY <2>1, <1>2 DEF FailSave, AnswerRead, FailRead, vars
  <2> QED
    BY <1>7, <2>1, <1>4, <1>5, <1>6 DEF Daemon
<1>8. ASSUME NEW v \in Windows, Window(v)
      PROVE  /\ db'.plan = db.plan /\ sent' = sent
             /\ Settled(w) \/ (Pushed(w) /\ Len(events[w]) = 1)
  BY <1>8, <1>1, <1>2, <1>3
<1> QED
  BY <1>7, <1>8 DEF Next

-----------------------------------------------------------------------------
(* Each part of the invariant is kept. *)

\* Each save has a number of its own, whoever begins one.
LEMMA NumbersKept ==
    ASSUME PlanInv, TypeOK', [Next]_vars
    PROVE  Numbers'
<1>1. TypeOK /\ Numbers
  BY DEF PlanInv
<1>2. \/ log' = log /\ ~\E y \in saves' : Begun(y)
      \/ \E x : log' = Append(log, x)
  <2>1. \A y \in saves' : Begun(y) => log' = Append(log, Writer(y.w, y.what))
    BY DEF Begun, Saved
  <2>2. log' = log \/ \E x : log' = Append(log, x)
    <3>1. ASSUME NEW v \in Windows, Edit(v) \/ \E q \in Rows : SetRow(v, q)
          PROVE  \E x : log' = Append(log, x)
      BY <3>1, <1>1, SavedFacts DEF Saved
    <3> QED
      BY <3>1 DEF Next, vars, Window, Fetch, Hear, Fire, TakePush, Resolve, TakeAnswer,
         Daemon, StoreSave, FailSave, AgentWrites, PushReads, PushSends, AnswerRead,
         FailRead
  <2> QED
    BY <2>1, <2>2
<1>3. Len(log') >= Len(log) /\ \A i \in 1..Len(log) : log'[i] = log[i]
  BY <1>1, <1>2 DEF TypeOK
<1>4. ASSUME NEW y \in saves' PROVE y.id <= Len(log') /\ log'[y.id] = Writer(y.w, y.what)
  <2>1. CASE \E z \in saves : Came(y, z)
    <3>1. PICK z \in saves : Came(y, z)
      BY <2>1
    <3>2. z.id \in 1..Len(log) /\ log[z.id] = Writer(z.w, z.what)
      BY <1>1 DEF Numbers, TypeOK, SaveRecords, Ids
    <3> QED
      BY <3>1, <3>2, <1>1, <1>3 DEF Came, TypeOK
  <2>2. CASE Begun(y)
    BY <2>2, <1>1 DEF Begun, Saved, New, TypeOK
  <2> QED
    BY <1>1, <2>1, <2>2, SavesStep
<1>5. \A y, z \in saves' : y.id = z.id => y = z
  BY <1>1, SavesStep
<1>6. ASSUME NEW y \in saves', NEW z \in saves', y.w = z.w,
             y.what = z.what \/ (y.mine /\ z.mine)
      PROVE  y = z
  <2>1. CASE (\E s \in saves : Came(y, s)) /\ \E s \in saves : Came(z, s)
    <3>1. PICK s \in saves : Came(y, s)
      BY <2>1
    <3>2. PICK q \in saves : Came(z, q)
      BY <2>1
    <3>3. s = q
      BY <1>6, <3>1, <3>2, <1>1 DEF Came, Numbers
    <3> QED
      BY <3>1, <3>2, <3>3, <1>5 DEF Came
  <2>2. ASSUME NEW a \in saves', NEW b \in saves', Begun(a), NEW s \in saves,
               Came(b, s), a.w = b.w
        PROVE  a.what # b.what /\ ~b.mine
    <3>1. Saved(a.w, a.what) /\ a.id = New
      BY <2>2 DEF Begun
    <3>2. s.what # a.what
      BY <2>2, <3>1 DEF Saved, Pending, Came
    <3>3. b \in Replaced(a.w)
      <4>1. b.id # New
        BY <2>2, <1>1 DEF Came, Numbers, New, TypeOK, SaveRecords, Ids
      <4> QED
        BY <3>1, <4>1 DEF Saved
    <3>4. a.w \in Windows
      BY DEF TypeOK, SaveRecords
    <3>5. ~b.mine
      BY <2>2, <3>3, <3>4, <1>1, ReplacedSaves, CutSave DEF TypeOK
    <3> QED
      BY <2>2, <3>2, <3>5 DEF Came
  <2>3. CASE Begun(y) /\ Begun(z)
    BY <2>3, <1>5 DEF Begun
  <2> QED
    BY <1>1, <1>6, <2>1, <2>2, <2>3, SavesStep
<1>7. \A r \in Rows : db'.rows[r] <= Len(log')
  <2>1. CASE db' = db
    BY <2>1, <1>1, <1>3 DEF Numbers, TypeOK, Store, Values
  <2>2. ASSUME NEW s \in saves, StoreSave(s)
        PROVE  \A r \in Rows : db'.rows[r] <= Len(log')
    <3>1. \A r \in Rows : db'.rows[r] = db.rows[r] \/ db'.rows[r] = s.id
      BY <2>2, <1>1 DEF StoreSave, Stored, TypeOK, Store
    <3>2. s.id <= Len(log) /\ s.id \in Nat
      BY <1>1 DEF Numbers, TypeOK, SaveRecords, Ids
    <3>3. \A r \in Rows : db.rows[r] <= Len(log) /\ db.rows[r] \in Nat
      BY <1>1 DEF Numbers, TypeOK, Store, Values
    <3>4. Len(log) \in Nat /\ Len(log') \in Nat /\ Len(log') >= Len(log)
      BY <1>1, <1>3 DEF TypeOK
    <3> QED
      BY <3>1, <3>2, <3>3, <3>4
  <2>3. ASSUME NEW what \in Rails \cup {"plan"}, AgentWrites(what)
        PROVE  \A r \in Rows : db'.rows[r] <= Len(log')
    <3>1. \A r \in Rows : db'.rows[r] = db.rows[r] \/ db'.rows[r] = New
      BY <2>3, <1>1 DEF AgentWrites, TypeOK, Store
    <3>2. Len(log') = New
      BY <2>3, <1>1 DEF AgentWrites, New, TypeOK
    <3>3. \A r \in Rows : db.rows[r] <= Len(log) /\ db.rows[r] \in Nat
      BY <1>1 DEF Numbers, TypeOK, Store, Values
    <3>4. Len(log) \in Nat /\ Len(log') \in Nat /\ Len(log') >= Len(log)
      BY <1>1, <1>3 DEF TypeOK
    <3> QED
      BY <3>1, <3>2, <3>3, <3>4
  <2>4. \/ db' = db \/ (\E s \in saves : StoreSave(s))
        \/ \E what \in Rails \cup {"plan"} : AgentWrites(what)
    BY DEF Next, vars, Window, Fetch, Edit, SetRow, Save, Hear, Fire, TakePush, Resolve,
       TakeAnswer,
       Daemon, FailSave, PushReads, PushSends, AnswerRead, FailRead
  <2> QED
    BY <2>1, <2>2, <2>3, <2>4
<1> QED
  BY <1>4, <1>5, <1>6, <1>7 DEF Numbers

\* At most one read of a window counts, and none asked for before a save does.
LEMMA LatestKept ==
    ASSUME PlanInv, TypeOK', [Next]_vars
    PROVE  LatestReads'
<1>1. TypeOK /\ Numbers /\ LatestReads /\ Unread
  BY DEF PlanInv
<1>s. ASSUME NEW w \in Windows, NEW d, d \in Superseded(w, reads), d.latest
      PROVE  d \in reads /\ d.w # w
  BY <1>s, <1>1, SupersededReads DEF TypeOK
<1>2. ASSUME NEW w \in Windows, NEW kind \in {"fetch", "refresh"}, Pending(w) = {},
             reads' = Superseded(w, reads) \cup {Asked(w, kind)}, UNCHANGED saves
      PROVE  LatestReads'
  <2>1. \A d \in reads' : d.latest => (d \in reads /\ d.w # w) \/ d = Asked(w, kind)
    BY <1>2, <1>s
  <2>2. Asked(w, kind).w = w
    BY DEF Asked
  <2>3. \A c, d \in reads' : c.w = d.w /\ c.latest /\ d.latest => c = d
    BY <2>1, <2>2, <1>1 DEF LatestReads
  <2>4. \A d \in reads' : d.latest => Pending(d.w) = {}
    BY <1>2, <2>1, <2>2, <1>1 DEF LatestReads
  <2> QED
    BY <1>2, <2>3, <2>4 DEF LatestReads, Pending
<1>3. ASSUME NEW w \in Windows, reads' = Superseded(w, reads),
             \A y \in saves' : y.w # w => \E z \in saves : z.w = y.w
      PROVE  LatestReads'
  BY <1>3, <1>1, <1>s DEF LatestReads, Pending
<1>4. ASSUME reads' \subseteq reads, \A y \in saves' : \E z \in saves : z.w = y.w
      PROVE  LatestReads'
  BY <1>4, <1>1 DEF LatestReads, Pending
<1>5. ASSUME NEW w \in Windows, saves' = Replaced(w)
      PROVE  \A y \in saves' : \E z \in saves : z.w = y.w
  BY <1>5, <1>1, SavesKept DEF Came
<1>6. ASSUME NEW w \in Windows, Fetch(w)
      PROVE  LatestReads'
  BY <1>6, <1>2, <1>1 DEF Fetch, Unread
<1>7. ASSUME NEW w \in Windows, Hear(w) \/ Fire(w)
      PROVE  LatestReads'
  <2>1. CASE Hear(w)
    BY <2>1, <1>1 DEF Hear, LatestReads, Pending
  <2>2. CASE Fire(w)
    BY <2>2, <1>2 DEF Fire, Refresh
  <2> QED
    BY <1>7, <2>1, <2>2
<1>8. ASSUME NEW w \in Windows, NEW what \in Rows \cup {"plan"}, Saved(w, what)
      PROVE  LatestReads'
  <2>1. \A y \in saves' : y.w # w => \E z \in saves : z.w = y.w
    BY <1>8, <1>1, ReplacedSaves, CutSave DEF Saved, TypeOK
  <2> QED
    BY <1>8, <2>1, <1>3 DEF Saved
<1>9. ASSUME NEW w \in Windows, Pushed(w)
      PROVE  LatestReads'
  <2>1. \A y \in saves' : \E z \in saves : z.w = y.w
    BY <1>9, <1>5 DEF Pushed
  <2>2. CASE reads' = Superseded(w, reads)
    BY <2>1, <2>2, <1>3
  <2>3. CASE reads' # Superseded(w, reads)
    <3>1. Pending(w) = {} /\ reads' = Superseded(w, Superseded(w, reads)) \cup {Asked(w, "refresh")}
      BY <1>9, <2>3 DEF Pushed, Refresh
    <3>2. Superseded(w, reads) \in SUBSET ReadRecords
      BY <1>1, SupersededReads DEF TypeOK
    <3>3. \A d \in Superseded(w, Superseded(w, reads)) : d.latest => d \in reads /\ d.w # w
      BY <3>2, <1>s, SupersededReads
    <3>4. \A v \in Windows : Pending(v) = {} => \A y \in saves' : y.w # v
      BY <2>1 DEF Pending
    <3>5. \A d \in reads' : d.latest => (d \in reads /\ d.w # w) \/ d = Asked(w, "refresh")
      BY <3>1, <3>3
    <3>6. Asked(w, "refresh").w = w
      BY DEF Asked
    <3>7. \A c, d \in reads' : c.w = d.w /\ c.latest /\ d.latest => c = d
      BY <3>5, <3>6, <1>1 DEF LatestReads
    <3>8. \A d \in reads' : d.latest => d.w \in Windows /\ Pending(d.w) = {}
      BY <3>1, <3>5, <3>6, <1>1 DEF LatestReads, TypeOK, ReadRecords
    <3> QED
      BY <3>4, <3>7, <3>8 DEF LatestReads, Pending
  <2> QED
    BY <2>2, <2>3
<1>10. ASSUME NEW w \in Windows,
              (\E s \in Pending(w) : Resolve(s)) \/ \E d \in reads : d.w = w /\ TakeAnswer(d)
       PROVE  LatestReads'
  <2>1. reads' \subseteq reads
    BY <1>10 DEF Resolve, TakeAnswer
  <2>2. \A y \in saves' : \E z \in saves : z.w = y.w
    <3>1. ASSUME NEW s \in Pending(w), Resolve(s)
          PROVE saves' \subseteq saves \/ saves' \subseteq Replaced(w)
      BY <3>1 DEF Resolve, Pending
    <3>2. ASSUME NEW d \in reads, d.w = w, TakeAnswer(d)
          PROVE saves' \subseteq saves \/ saves' \subseteq Replaced(w)
      BY <3>2 DEF TakeAnswer
    <3> QED
      BY <1>10, <3>1, <3>2, <1>1, SavesKept DEF Came
  <2> QED
    BY <2>1, <2>2, <1>4
<1>11. ASSUME NEW c \in reads, AnswerRead(c)
       PROVE  LatestReads'
  <2>1. PICK new : new = [c EXCEPT !.at = "answered", !.was = db]
    OBVIOUS
  <2>2. new.w = c.w /\ new.latest = c.latest
    BY <2>1, <1>1 DEF TypeOK, ReadRecords
  <2>3. reads' = (reads \ {c}) \cup {new} /\ UNCHANGED saves
    BY <1>11, <2>1 DEF AnswerRead
  <2> QED
    BY <2>2, <2>3, <1>1 DEF LatestReads, Pending
<1>12. ASSUME Daemon \/ UNCHANGED vars
       PROVE  LatestReads'
  <2>1. CASE \E c \in reads : AnswerRead(c)
    BY <2>1, <1>11
  <2>2. CASE \E s \in saves : StoreSave(s) \/ FailSave(s)
    <3>1. \A y \in saves' : \E z \in saves : z.w = y.w
      BY <2>2, <1>1, SavesChanged DEF Came
    <3>2. reads' \subseteq reads
      BY <2>2 DEF StoreSave, FailSave
    <3> QED
      BY <3>1, <3>2, <1>4
  <2>3. CASE \E t \in Writers : PushSends(t)
    BY <2>3, <1>1, <1>4, SavesAnswered DEF PushSends, Came
  <2>4. CASE (\E what \in Rails \cup {"plan"} : AgentWrites(what)) \/ (\E t \in Writers : PushReads(t))
             \/ (\E d \in reads : FailRead(d)) \/ UNCHANGED vars
    BY <2>4, <1>4 DEF AgentWrites, PushReads, FailRead, vars
  <2> QED
    BY <1>12, <2>1, <2>2, <2>3, <2>4 DEF Daemon
<1> QED
  BY <1>1, <1>6, <1>7, <1>8, <1>9, <1>10, <1>12, SavedFacts, PushedFacts DEF Next, Window

\* A window that has loaded nothing has neither written nor begun to.
LEMMA UnreadKept ==
    ASSUME PlanInv, TypeOK', [Next]_vars
    PROVE  Unread'
<1>1. TypeOK /\ Numbers /\ Unread
  BY DEF PlanInv
<1> SUFFICES ASSUME NEW w \in Windows, ~copy'[w].loaded
             PROVE  /\ \A i \in 1..Len(log') : log'[i] # w
                    /\ \A y \in saves' : y.w # w
                    /\ w \notin timer'
                    /\ \A d \in reads' : d.w = w => d.latest
  BY DEF Unread, Loaded, Pending
<1>2. ~Loaded(w) /\ ~Pushed(w) /\ \A what \in Rows \cup {"plan"} : ~Saved(w, what)
  <2>1. ~Pushed(w) /\ \A what \in Rows \cup {"plan"} : ~Saved(w, what)
    BY DEF Pushed, Saved
  <2>2. ~RolledBack(w)
    BY DEF RolledBack, PlanInv, Undoes, Pending
  <2>3. ~Applied(w)
    <3>1. \A d \in reads : As(d.was).loaded
      BY DEF As
    <3> QED
      BY <3>1 DEF Applied
  <2> QED
    BY <2>1, <2>2, <2>3, CopyStep DEF Loaded
<1>3. /\ \A i \in 1..Len(log) : log[i] # w
      /\ \A s \in saves : s.w # w
      /\ w \notin timer
      /\ \A d \in reads : d.w = w => d.latest
  BY <1>1, <1>2 DEF Unread, Pending
<1>4. \A y \in saves' : y.w # w
  <2>1. \A y \in saves' : Begun(y) => y.w # w
    BY <1>2 DEF Begun, TypeOK, SaveRecords
  <2> QED
    BY <2>1, <1>1, <1>3, SavesStep DEF Came
<1>s. ASSUME NEW v \in Windows, v # w, NEW d, d \in Superseded(v, reads), d.w = w
      PROVE  d.latest
  <2>1. reads \in SUBSET ReadRecords
    BY <1>1 DEF TypeOK
  <2>2. d \in reads \/ d.w = v
    BY <2>1, <1>s, SupersededReads
  <2> QED
    BY <2>2, <1>s, <1>3
<1>5. ASSUME NEW v \in Windows, Window(v)
      PROVE  /\ \A i \in 1..Len(log') : log'[i] # w
             /\ w \notin timer'
             /\ \A d \in reads' : d.w = w => d.latest
  <2>1. CASE Fetch(v)
    <3>1. v = w => Superseded(v, reads) \subseteq reads
      BY <2>1 DEF Fetch, Superseded
    <3> QED
      BY <2>1, <3>1, <1>s, <1>3 DEF Fetch, Asked
  <2>2. ASSUME NEW what \in Rows \cup {"plan"}, Saved(v, what)
        PROVE  /\ \A i \in 1..Len(log') : log'[i] # w
               /\ w \notin timer'
               /\ \A d \in reads' : d.w = w => d.latest
    <3>1. v # w
      BY <2>2, <1>2
    <3>2. log' = Append(log, Writer(v, what)) /\ Writer(v, what) # w
      BY <2>2, <3>1, PlanAssumption DEF Saved, Writer
    <3>3. \A i \in 1..Len(log') : log'[i] # w
      BY <3>2, <1>1, <1>3 DEF TypeOK
    <3> QED
      BY <2>2, <3>1, <3>3, <1>s, <1>3 DEF Saved
  <2>3. CASE Hear(v)
    BY <2>3, <1>2, <1>3 DEF Hear
  <2>4. CASE Fire(v)
    <3>1. v # w
      BY <2>4, <1>3 DEF Fire
    <3> QED
      BY <2>4, <3>1, <1>s, <1>3 DEF Fire, Refresh, Asked
  <2>5. CASE Pushed(v)
    <3>1. v # w
      BY <2>5, <1>2
    <3>2. Superseded(v, reads) \in SUBSET ReadRecords
      BY <1>1, SupersededReads DEF TypeOK
    <3>3. \A d \in Superseded(v, Superseded(v, reads)) : d.w = w => d.latest
      BY <3>1, <3>2, <1>s, SupersededReads
    <3>4. \A d \in reads' : d.w = w => d.latest
      BY <2>5, <3>1, <3>3, <1>s DEF Pushed, Refresh, Asked
    <3> QED
      BY <2>5, <3>4, <1>3 DEF Pushed
  <2>6. CASE (\E s \in Pending(v) : Resolve(s)) \/ \E d \in reads : d.w = v /\ TakeAnswer(d)
    BY <2>6, <1>3 DEF Resolve, TakeAnswer
  <2> QED
    BY <1>1, <1>5, <2>1, <2>2, <2>3, <2>4, <2>5, <2>6, SavedFacts, PushedFacts DEF Window
<1>6. ASSUME Daemon \/ UNCHANGED vars
      PROVE  /\ \A i \in 1..Len(log') : log'[i] # w
             /\ w \notin timer'
             /\ \A d \in reads' : d.w = w => d.latest
  <2>1. ASSUME NEW what \in Rails \cup {"plan"}, AgentWrites(what)
        PROVE  \A i \in 1..Len(log') : log'[i] # w
    <3>1. log' = Append(log, Writer("agent", what)) /\ Writer("agent", what) # w
      BY <2>1, PlanAssumption DEF AgentWrites, Writer
    <3> QED
      BY <3>1, <1>1, <1>3 DEF TypeOK
  <2>2. ASSUME NEW c \in reads, AnswerRead(c)
        PROVE  \A d \in reads' : d.w = w => d.latest
    <3>1. PICK new : new = [c EXCEPT !.at = "answered", !.was = db]
      OBVIOUS
    <3>2. new.w = c.w /\ new.latest = c.latest
      BY <3>1, <1>1 DEF TypeOK, ReadRecords
    <3> QED
      BY <2>2, <3>1, <3>2, <1>3 DEF AnswerRead
  <2>3. (\E what \in Rails \cup {"plan"} : AgentWrites(what)) \/ UNCHANGED log
    BY <1>6 DEF Daemon, StoreSave, FailSave, PushReads, PushSends, AnswerRead, FailRead,
       vars
  <2>4. (\E c \in reads : AnswerRead(c)) \/ reads' \subseteq reads
    BY <1>6 DEF Daemon, StoreSave, FailSave, AgentWrites, PushReads, PushSends, FailRead,
       vars
  <2>5. UNCHANGED timer
    BY <1>6 DEF Daemon, StoreSave, FailSave, AgentWrites, PushReads, PushSends,
       AnswerRead, FailRead, vars
  <2> QED
    BY <2>1, <2>2, <2>3, <2>4, <2>5, <1>3
<1> QED
  BY <1>4, <1>5, <1>6 DEF Next

\* What a save would put back stays the copy but for its own thing: a second
\* save or an answer in between takes that right away (`isCurrent`).
LEMMA UndoesKept ==
    ASSUME PlanInv, TypeOK', [Next]_vars
    PROVE  Undoes'
<1>1. TypeOK /\ Numbers /\ Undoes
  BY DEF PlanInv
<1> SUFFICES ASSUME NEW y \in saves', y.mine
             PROVE  /\ y.before.loaded
                    /\ \A r \in Rails : r # y.what => y.before.rows[r] = copy'[y.w].rows[r]
                    /\ y.what # "plan" => y.before.plan = copy'[y.w].plan
  BY DEF Undoes
<1>2. y.w \in Windows /\ y.what \in Rows \cup {"plan"}
  BY DEF TypeOK, SaveRecords
<1>3. CASE Begun(y)
  BY <1>2, <1>3 DEF Begun, Saved, Loaded, Rows
<1>4. ASSUME NEW z \in saves, Came(y, z)
      PROVE  /\ y.before.loaded
             /\ \A r \in Rails : r # y.what => y.before.rows[r] = copy'[y.w].rows[r]
             /\ y.what # "plan" => y.before.plan = copy'[y.w].plan
  <2>1. z.mine /\ z.before = y.before /\ z.w = y.w /\ z.what = y.what
    BY <1>4 DEF Came
  <2>2. \A s \in Replaced(y.w) : s.w = y.w => ~s.mine
    BY <1>1, <1>2, ReplacedSaves, CutSave DEF TypeOK
  <2>3. ~Pushed(y.w) /\ ~RolledBack(y.w) /\ ~Applied(y.w)
    BY <2>2 DEF Pushed, RolledBack, Applied
  <2>4. ASSUME NEW what \in Rows \cup {"plan"}, Saved(y.w, what) PROVE FALSE
    <3>1. z.id # New
      BY <1>1 DEF Numbers, New, TypeOK, SaveRecords, Ids
    <3>2. y.id # New
      BY <1>4, <3>1 DEF Came
    <3>3. y \in Replaced(y.w)
      BY <2>4, <3>2 DEF Saved
    <3> QED
      BY <2>2, <3>3
  <2>5. copy'[y.w] = copy[y.w]
    BY <1>2, <2>3, <2>4, CopyStep
  <2> QED
    BY <1>1, <2>1, <2>5 DEF Undoes
<1> QED
  BY <1>1, <1>3, <1>4, SavesStep

\* A window's rows stay what it wrote last, in its copy or on the way there.
LEMMA RowsKept ==
    ASSUME PlanInv, TypeOK', Numbers', [Next]_vars
    PROVE  RowInv'
<1>1. TypeOK /\ Numbers /\ Unread /\ LatestReads /\ Undoes
  BY DEF PlanInv
<1>2. FreshReads /\ SavesStored /\ SavesShown /\ OldRows /\ OwnRowsKept
  BY DEF PlanInv, RowInv
<1>w. ASSUME NEW y \in saves' PROVE y.w \in Windows /\ y.what \in Rows \cup {"plan"}
  BY DEF TypeOK, SaveRecords
<1>x. ASSUME NEW z \in saves PROVE z.w \in Windows /\ z.what \in Rows \cup {"plan"}
  BY <1>1 DEF TypeOK, SaveRecords
<1>3. ASSUME NEW d \in reads', NEW r \in Rows, d.latest, d.at = "answered", Own(d.w, r)'
      PROVE  d.was.rows[r] = db'.rows[r]
  <2>1. d.w \in Windows
    BY DEF TypeOK, ReadRecords
  <2>2. (d \in reads /\ ~Pushed(d.w)) \/ (d.was = db /\ db' = db)
    BY <1>3, ReadsStep
  <2>3. ASSUME NEW s \in saves, StoreSave(s), s.w = d.w, d \in reads PROVE FALSE
    BY <2>3, <1>1, <1>3 DEF LatestReads, Pending
  <2>4. Own(d.w, r) /\ db'.rows[r] = db.rows[r] /\ d \in reads => d.was.rows[r] = db'.rows[r]
    BY <1>2, <1>3 DEF FreshReads
  <2> QED
    BY <1>1, <1>3, <2>1, <2>2, <2>3, <2>4, OwnStep
<1>4. ASSUME NEW y \in saves', y.what \in Rows, ~Unstored(y), Own(y.w, y.what)'
      PROVE  db'.rows[y.what] = y.id
  <2>1. ~Begun(y)
    BY <1>4 DEF Begun
  <2>2. PICK z \in saves : Came(y, z)
    BY <2>1, <1>1, SavesStep
  <2>3. z.id = y.id /\ z.w = y.w /\ z.what = y.what /\ (Unstored(z) => StoreSave(z))
    BY <1>4, <2>2 DEF Came
  <2>4. StoreSave(z) => db'.rows[y.what] = y.id
    BY <2>3, <1>4, <1>1, PlanAssumption DEF StoreSave, Stored, TypeOK, Store, Rows
  <2>5. ASSUME NEW s \in saves,
               StoreSave(s), s.w = y.w, s.what = y.what, db'.rows[y.what] = s.id
        PROVE  db'.rows[y.what] = y.id
    BY <2>3, <2>5, <1>1 DEF Numbers
  <2>6. Own(y.w, y.what) /\ db'.rows[y.what] = db.rows[y.what] /\ ~Unstored(z) => db'.rows[y.what] = y.id
    BY <2>3, <1>2, <1>4 DEF SavesStored
  <2> QED
    BY <1>1, <1>4, <1>w, <2>3, <2>4, <2>5, <2>6, OwnStep
<1>5. ASSUME NEW y \in saves', y.what \in Rails
      PROVE  copy'[y.w].rows[y.what] = y.id
  <2>1. y.what \in Rows /\ y.what # "plan"
    BY <1>5, PlanAssumption DEF Rows
  <2>2. CASE Begun(y)
    BY <2>1, <2>2 DEF Begun, Saved
  <2>3. ASSUME NEW z \in saves, Came(y, z)
        PROVE  copy'[y.w].rows[y.what] = y.id
    <3>1. z.id = y.id /\ z.w = y.w /\ z.what = y.what
      BY <2>3 DEF Came
    <3>2. copy[y.w].rows[y.what] = y.id
      BY <3>1, <1>2, <1>5 DEF SavesShown
    <3>3. z \in Pending(y.w)
      BY <3>1 DEF Pending
    <3>4. ASSUME NEW what \in Rows \cup {"plan"}, Saved(y.w, what)
          PROVE  copy'[y.w].rows[y.what] = copy[y.w].rows[y.what]
      BY <3>4, <3>1, <3>3, <2>1 DEF Saved
    <3>5. ASSUME Pushed(y.w)
          PROVE  copy'[y.w].rows[y.what] = copy[y.w].rows[y.what]
      BY <3>5, <3>3, <1>1, <1>5, <1>w DEF Pushed, Unread
    <3>6. ASSUME RolledBack(y.w)
          PROVE  copy'[y.w].rows[y.what] = copy[y.w].rows[y.what]
      <4>1. PICK s \in Pending(y.w) : s.mine /\ copy'[y.w] = s.before /\ y.id # s.id
        BY <3>6 DEF RolledBack
      <4>2. s \in saves /\ s.w = y.w /\ s # z
        BY <4>1, <3>1 DEF Pending
      <4>3. s.what # y.what
        BY <4>2, <3>1, <1>1 DEF Numbers
      <4> QED
        BY <4>1, <4>2, <4>3, <1>1, <1>5 DEF Undoes
    <3>7. ~Applied(y.w)
      BY <3>3 DEF Applied
    <3> QED
      BY <1>w, <3>2, <3>4, <3>5, <3>6, <3>7, CopyStep
  <2> QED
    BY <1>1, <2>2, <2>3, SavesStep
<1>6. ASSUME NEW y \in saves', y.mine, y.what \in Rails, Unstored(y),
             Own(y.w, y.what)', y.what \notin taint'[y.w]
      PROVE  y.before.rows[y.what] = db'.rows[y.what]
  <2>1. y.what \in Rows /\ y.what # "plan"
    BY <1>6, PlanAssumption DEF Rows
  <2>2. ASSUME NEW s \in saves, StoreSave(s), s.w = y.w, s.what = y.what PROVE FALSE
    <3>1. PICK u \in saves' : Came(u, s)
      BY <2>2, <1>1, SavesChanged
    <3>2. u = y
      BY <2>2, <3>1 DEF Came, Numbers
    <3>3. \A v \in saves' : v.id = s.id => ~Unstored(v)
      <4>1. PICK at \in {"stored", "ok"} : saves' = Change(s, at)
        BY <2>2 DEF StoreSave
      <4>2. PICK new : new = [s EXCEPT !.at = at]
        OBVIOUS
      <4>3. new.at = at
        BY <4>2, <1>1 DEF TypeOK, SaveRecords
      <4>4. saves' = (saves \ {s}) \cup {new}
        BY <4>1, <4>2 DEF Change
      <4> QED
        BY <4>3, <4>4, <1>1 DEF Numbers, Unstored
    <3> QED
      BY <1>6, <3>1, <3>2, <3>3 DEF Came
  <2>3. Own(y.w, y.what) /\ db'.rows[y.what] = db.rows[y.what]
    BY <1>1, <1>6, <1>w, <2>1, <2>2, OwnStep
  <2>4. CASE Begun(y)
    <3>1. Saved(y.w, y.what) /\ y.before = copy[y.w]
      BY <2>4 DEF Begun
    <3>2. Loaded(y.w) /\ taint' = taint /\ \A s \in Pending(y.w) : s.what # y.what
      BY <3>1 DEF Saved
    <3> QED
      BY <1>2, <1>6, <1>w, <2>3, <3>1, <3>2 DEF OwnRowsKept
  <2>5. ASSUME NEW z \in saves, Came(y, z)
        PROVE  y.before.rows[y.what] = db'.rows[y.what]
    <3>1. z.w = y.w /\ z.what = y.what /\ z.mine /\ z.before = y.before /\ Unstored(z)
      BY <1>6, <2>5 DEF Came
    <3>2. \A s \in Replaced(y.w) : s.w = y.w => ~s.mine
      BY <1>1, <1>w, ReplacedSaves, CutSave DEF TypeOK
    <3>3. ~Pushed(y.w) /\ ~RolledBack(y.w) /\ ~Applied(y.w)
      BY <1>6, <3>2 DEF Pushed, RolledBack, Applied
    <3>4. taint[y.w] \subseteq taint'[y.w]
      BY <1>w, <3>3, CopyStep DEF Saved
    <3> QED
      BY <1>2, <1>6, <2>3, <3>1, <3>4 DEF OldRows
  <2> QED
    BY <1>1, <2>4, <2>5, SavesStep
<1>7. ASSUME NEW w \in Windows, NEW r \in Rails, copy'[w].loaded,
             Own(w, r)', r \notin taint'[w],
             \A y \in saves' : y.w = w => y.what # r
      PROVE  copy'[w].rows[r] = db'.rows[r]
  <2>1. r \in Rows /\ r # "plan"
    BY PlanAssumption DEF Rows
  <2>2. ASSUME NEW s \in saves, StoreSave(s), s.w = w, s.what = r PROVE FALSE
    BY <2>2, <1>7, <1>1, SavesChanged DEF Came
  <2>3. Own(w, r) /\ db'.rows[r] = db.rows[r]
    BY <1>1, <1>7, <2>1, <2>2, OwnStep
  <2>4. ASSUME Loaded(w), r \notin taint[w], \A z \in saves : z.w = w => z.what # r
        PROVE  copy[w].rows[r] = db.rows[r]
    BY <2>3, <2>4, <1>2 DEF OwnRowsKept, Pending
  <2>5. Loaded(w)
    <3>1. db.rows[r] \in 1..Len(log) /\ log[db.rows[r]] = w
      BY <2>1, <2>3, <1>1 DEF Own, Numbers, TypeOK, Store, Values
    <3> QED
      BY <3>1, <1>1 DEF Unread
  <2>6. ASSUME NEW z \in saves, z.w = w, z.what = r
        PROVE  copy'[w].rows[r] = db'.rows[r]
    <3>1. Resolve(z)
      BY <2>6, <1>1, <1>7, SavesStep DEF Came
    <3>2. CASE z.at = "ok"
      <4>1. copy' = copy
        BY <3>1, <3>2 DEF Resolve
      <4>2. db.rows[r] = z.id
        BY <2>1, <2>3, <2>6, <3>2, <1>2 DEF SavesStored, Unstored
      <4> QED
        BY <4>1, <4>2, <2>3, <2>6, <1>2 DEF SavesShown
    <3>3. CASE z.at = "refused" /\ z.mine
      <4>1. copy'[w] = z.before /\ taint'[w] = taint[w]
        BY <3>1, <3>3, <2>6, <1>1 DEF Resolve, TypeOK
      <4>2. z.before.rows[r] = db.rows[r]
        BY <4>1, <3>3, <1>7, <2>3, <2>6, <1>2 DEF OldRows, Unstored
      <4> QED
        BY <4>1, <4>2, <2>3
    <3>4. CASE z.at \in {"refused", "lost"} /\ ~(z.at = "refused" /\ z.mine)
      <4>1. r \in taint'[w]
        BY <3>1, <3>4, <2>6, <1>1 DEF Resolve, TypeOK
      <4> QED
        BY <4>1, <1>7
    <3> QED
      BY <3>1, <3>2, <3>3, <3>4 DEF Resolve
  <2>7. ASSUME \A z \in saves : z.w = w => z.what # r
        PROVE  copy'[w].rows[r] = db'.rows[r]
    <3>1. r \notin taint[w] => copy[w].rows[r] = db'.rows[r]
      BY <2>3, <2>4, <2>5, <2>7
    <3>2. CASE copy'[w] = copy[w] /\ taint[w] \subseteq taint'[w]
      BY <3>1, <3>2, <1>7
    <3>3. ASSUME NEW what \in Rows \cup {"plan"}, Saved(w, what)
          PROVE  copy'[w].rows[r] = db'.rows[r]
      <4>1. what # r /\ taint' = taint
        BY <3>3, <1>7 DEF Saved
      <4> QED
        BY <4>1, <3>1, <3>3, <2>1, <1>7 DEF Saved
    <3>4. CASE Pushed(w)
      BY <3>1, <3>4, <2>5, <1>7 DEF Pushed
    <3>5. CASE RolledBack(w)
      <4>1. PICK s \in Pending(w) : s.mine /\ copy'[w] = s.before /\ taint[w] \subseteq taint'[w]
        BY <3>5 DEF RolledBack
      <4>2. s \in saves /\ s.w = w /\ s.what # r
        BY <4>1, <2>7 DEF Pending
      <4> QED
        BY <4>1, <4>2, <3>1, <1>1, <1>7 DEF Undoes
    <3>6. CASE Applied(w)
      <4>1. PICK d \in reads : d.w = w /\ d.at = "answered" /\ d.latest /\ copy'[w] = As(d.was)
        BY <3>6 DEF Applied
      <4>2. d.was.rows[r] = db.rows[r]
        BY <4>1, <2>1, <2>3, <1>2 DEF FreshReads
      <4> QED
        BY <4>1, <4>2, <2>3 DEF As
    <3> QED
      BY <3>2, <3>3, <3>4, <3>5, <3>6, CopyStep
  <2> QED
    BY <2>6, <2>7
<1>8. FreshReads' /\ SavesStored' /\ SavesShown' /\ OldRows'
  BY <1>3, <1>4, <1>5, <1>6 DEF FreshReads, SavesStored, SavesShown, OldRows
<1>9. OwnRowsKept'
  BY <1>7 DEF OwnRowsKept, Pending, Loaded
<1> QED
  BY <1>8, <1>9 DEF RowInv

\* The last push on its way to a window carries the plan that was sent last, and
\* answers and copies are of the stored plan once no push is on its way.
LEMMA QuietKept ==
    ASSUME PlanInv, TypeOK', Numbers', [Next]_vars
    PROVE  QuietInv'
<1>1. TypeOK /\ Numbers /\ Unread /\ LatestReads /\ Undoes
  BY DEF PlanInv
<1>2. LastPush /\ SettledReads /\ SettledCopies /\ OldPlans
  BY DEF PlanInv, QuietInv
<1>w. ASSUME NEW y \in saves' PROVE y.w \in Windows /\ y.what \in Rows \cup {"plan"}
  BY DEF TypeOK, SaveRecords
<1>3. ASSUME NEW w \in Windows, events'[w] # <<>>
      PROVE  events'[w][Len(events'[w])].plan = sent'
  <2>0. events[w] \in Seq(Store)
    BY <1>1 DEF TypeOK
  <2>1. CASE UNCHANGED <<events, sent>>
    BY <2>1, <1>2, <1>3 DEF LastPush
  <2>2. ASSUME NEW v \in Windows, Pushed(v)
        PROVE  events'[w][Len(events'[w])].plan = sent'
    <3>1. sent' = sent
      BY <2>2 DEF Pushed
    <3>2. CASE v # w
      BY <2>2, <3>1, <3>2, <1>2, <1>3 DEF Pushed, LastPush
    <3>3. CASE v = w
      <4>1. events'[w] = Tail(events[w]) /\ events[w] # <<>>
        BY <2>2, <3>3 DEF Pushed
      <4>2. Len(Tail(events[w])) = Len(events[w]) - 1 /\ Len(events[w]) > 1
        BY <4>1, <2>0, <1>3
      <4>3. Tail(events[w])[Len(Tail(events[w]))] = events[w][Len(events[w])]
        BY <4>2, <2>0
      <4> QED
        BY <4>1, <4>3, <3>1, <1>2 DEF LastPush
    <3> QED
      BY <3>2, <3>3
  <2>3. ASSUME NEW t \in Writers, PushSends(t)
        PROVE  events'[w][Len(events'[w])].plan = sent'
    <3>1. events'[w] = Append(events[w], pushing[t].was) /\ sent' = pushing[t].was.plan
      BY <2>3 DEF PushSends
    <3> QED
      BY <3>1, <2>0, <1>1 DEF TypeOK
  <2>4. UNCHANGED <<events, sent>> \/ (\E v \in Windows : Pushed(v)) \/ \E t \in Writers : PushSends(t)
    <3>1. ASSUME NEW v \in Windows, Window(v)
          PROVE  UNCHANGED <<events, sent>> \/ Pushed(v)
      BY <3>1, <1>1, SavedFacts, PushedFacts
         DEF Window, Fetch, Hear, Fire, Resolve, TakeAnswer, Saved
    <3>2. ASSUME Daemon \/ UNCHANGED vars
          PROVE  UNCHANGED <<events, sent>> \/ \E t \in Writers : PushSends(t)
      BY <3>2 DEF Daemon, StoreSave, FailSave, AgentWrites, PushReads, AnswerRead,
         FailRead, vars
    <3> QED
      BY <3>1, <3>2 DEF Next
  <2> QED
    BY <2>1, <2>2, <2>3, <2>4
<1>4. ASSUME NEW d \in reads', d.latest, d.at = "answered", Settled(d.w)'
      PROVE  d.was.plan = db'.plan
  <2>1. d.w \in Windows
    BY DEF TypeOK, ReadRecords
  <2>2. CASE d.was = db
    BY <2>2, <2>1, <1>1, <1>4, SettleStep
  <2>3. CASE d \in reads /\ ~Pushed(d.w)
    BY <2>1, <2>3, <1>1, <1>2, <1>4, SettleStep DEF SettledReads
  <2> QED
    BY <1>4, <2>2, <2>3, ReadsStep
<1>5. ASSUME NEW w \in Windows, Agreed(w)'
      PROVE  /\ db'.plan = db.plan /\ Settled(w)'
             /\ Agreed(w) \/ (Pushed(w) /\ Head(events[w]).plan = db.plan)
  <2>1. Settled(w)' /\ sent' = db'.plan
    BY <1>5 DEF Agreed
  <2>2. /\ db'.plan = db.plan /\ sent' = sent
        /\ Settled(w) \/ (Pushed(w) /\ Len(events[w]) = 1)
    BY <2>1, <1>1, SettleStep
  <2>3. ASSUME Len(events[w]) = 1
        PROVE  Head(events[w]).plan = sent
    <3>1. events[w] # <<>>
      BY <2>3
    <3> QED
      BY <2>3, <3>1, <1>2 DEF LastPush
  <2> QED
    BY <2>1, <2>2, <2>3 DEF Agreed
<1>6. ASSUME NEW w \in Windows, Agreed(w)', copy'[w].loaded, "plan" \notin taint'[w],
             \A y \in saves' : y.w = w /\ y.what = "plan" => ~Unstored(y)
      PROVE  copy'[w].plan = db'.plan
  <2>1. db'.plan = db.plan /\ (Agreed(w) \/ (Pushed(w) /\ Head(events[w]).plan = db.plan))
    BY <1>5, <1>6
  <2>2. CASE Pushed(w)
    <3>1. Agreed(w) => FALSE
      BY <2>2 DEF Agreed, Settled, Pushed
    <3> QED
      BY <2>1, <2>2, <3>1 DEF Pushed
  <2>3. ASSUME Agreed(w), Loaded(w), "plan" \notin taint[w],
               \A z \in saves : z.w = w /\ z.what = "plan" => ~Unstored(z)
        PROVE  copy[w].plan = db.plan
    BY <2>3, <1>2 DEF SettledCopies, Pending
  <2>4. ASSUME NEW z \in saves, z.w = w, z.what = "plan", Unstored(z), ~Pushed(w)
        PROVE  copy'[w].plan = db'.plan
    <3>1. ~StoreSave(z)
      <4>1. SUFFICES ASSUME StoreSave(z) PROVE FALSE
        OBVIOUS
      <4>3. pushing' = [pushing EXCEPT !["lane"] = [Nothing EXCEPT !.do = "read", !.save = z.id]]
        BY <4>1, <2>4 DEF StoreSave
      <4>2. pushing'["lane"].do = "read"
        BY <4>3, <1>1 DEF TypeOK, Writers, Nothing
      <4> QED
        BY <4>2, <1>6, <1>5 DEF Settled, Free, Writers
    <3>2. Resolve(z)
      <4>1. \A y \in saves' : Came(y, z) => FALSE
        BY <2>4, <3>1, <1>6 DEF Came
      <4> QED
        BY <4>1, <1>1, SavesStep
    <3>3. z.at = "refused" /\ z.mine
      <4>1. z.at = "refused" /\ ~z.mine => "plan" \in taint'[w]
        BY <3>2, <2>4, <1>1 DEF Resolve, TypeOK
      <4> QED
        BY <4>1, <3>2, <2>4, <1>6 DEF Resolve, Unstored
    <3>4. copy'[w] = z.before /\ taint'[w] = taint[w]
      BY <3>2, <3>3, <2>4, <1>1 DEF Resolve, TypeOK
    <3>5. z.before.plan = db.plan
      BY <2>1, <2>4, <3>3, <3>4, <1>2, <1>6 DEF OldPlans
    <3> QED
      BY <2>1, <3>4, <3>5
  <2>5. ASSUME Agreed(w), \A z \in saves : z.w = w /\ z.what = "plan" => ~Unstored(z), ~Pushed(w)
        PROVE  copy'[w].plan = db'.plan
    <3>1. CASE copy'[w] = copy[w] /\ taint[w] \subseteq taint'[w]
      BY <2>1, <2>3, <2>5, <3>1, <1>6 DEF Loaded
    <3>2. ASSUME NEW what \in Rows \cup {"plan"}, Saved(w, what)
          PROVE  copy'[w].plan = db'.plan
      <4>1. what # "plan"
        BY <3>2, <1>6 DEF Saved, Unstored
      <4> QED
        BY <2>1, <2>3, <2>5, <3>2, <4>1, <1>6 DEF Saved
    <3>3. CASE RolledBack(w)
      <4>1. PICK s \in Pending(w) :
              /\ s.mine /\ s.at \in {"refused", "lost"} /\ copy'[w] = s.before
              /\ taint[w] \subseteq taint'[w] /\ (s.at = "lost" => s.what \in taint'[w])
        BY <3>3 DEF RolledBack
      <4>2. s \in saves /\ s.w = w
        BY DEF Pending
      <4>3. s.what # "plan"
        BY <4>1, <4>2, <2>5, <1>6 DEF Unstored
      <4>4. s.before.plan = copy[w].plan
        BY <4>1, <4>2, <4>3, <1>1 DEF Undoes
      <4>5. Loaded(w)
        BY <4>2, <1>1 DEF Unread, Pending
      <4> QED
        BY <2>1, <2>3, <2>5, <4>1, <4>4, <4>5, <1>6
    <3>4. CASE Applied(w)
      <4>1. PICK d \in reads : d.w = w /\ d.at = "answered" /\ d.latest /\ copy'[w] = As(d.was)
        BY <3>4 DEF Applied
      <4>2. d.was.plan = db.plan
        BY <4>1, <2>5, <1>2 DEF SettledReads, Agreed
      <4> QED
        BY <2>1, <4>1, <4>2 DEF As
    <3> QED
      BY <2>5, <3>1, <3>2, <3>3, <3>4, CopyStep
  <2> QED
    BY <2>1, <2>2, <2>4, <2>5
<1>7. ASSUME NEW y \in saves', y.mine, y.what = "plan", Unstored(y),
             Agreed(y.w)', "plan" \notin taint'[y.w]
      PROVE  y.before.plan = db'.plan
  <2>1. db'.plan = db.plan /\ (Agreed(y.w) \/ Pushed(y.w))
    BY <1>5, <1>7, <1>w
  <2>2. \A s \in Replaced(y.w) : s.w = y.w => ~s.mine
    BY <1>1, <1>w, ReplacedSaves, CutSave DEF TypeOK
  <2>3. ~Pushed(y.w) /\ ~RolledBack(y.w) /\ ~Applied(y.w)
    BY <1>7, <2>2 DEF Pushed, RolledBack, Applied
  <2>4. taint[y.w] \subseteq taint'[y.w]
    BY <1>w, <2>3, CopyStep DEF Saved
  <2>5. CASE Begun(y)
    <3>1. Saved(y.w, "plan") /\ y.before = copy[y.w]
      BY <2>5, <1>7 DEF Begun
    <3>2. Loaded(y.w) /\ \A s \in Pending(y.w) : s.what # "plan"
      BY <3>1 DEF Saved
    <3> QED
      BY <2>1, <2>3, <2>4, <3>1, <3>2, <1>2, <1>7, <1>w DEF SettledCopies
  <2>6. ASSUME NEW z \in saves, Came(y, z)
        PROVE  y.before.plan = db'.plan
    <3>1. z.w = y.w /\ z.what = "plan" /\ z.mine /\ z.before = y.before /\ Unstored(z)
      BY <1>7, <2>6 DEF Came
    <3> QED
      BY <2>1, <2>3, <2>4, <3>1, <1>2, <1>7 DEF OldPlans
  <2> QED
    BY <1>1, <2>5, <2>6, SavesStep
<1>8. LastPush' /\ SettledReads'
  BY <1>3, <1>4 DEF LastPush, SettledReads
<1>9. SettledCopies'
  BY <1>6 DEF SettledCopies, Pending, Loaded, Unstored
<1>10. OldPlans'
  BY <1>7 DEF OldPlans, Unstored
<1> QED
  BY <1>8, <1>9, <1>10 DEF QuietInv

-----------------------------------------------------------------------------
\* The invariant holds throughout, whoever reads, writes, fails or is pushed to.
LEMMA PlanInvHolds == Spec => []PlanInv
<1>1. Init => PlanInv
  <2>1. SUFFICES ASSUME Init PROVE PlanInv
    OBVIOUS
  <2>2. TypeOK
    <3>1. /\ db \in Store /\ log \in Seq(Windows \cup {"agent", "edit"}) /\ Len(log) <= MaxWrites
          /\ copy \in [Windows -> Copies]
      BY <2>1, PlanAssumption DEF Init, Store, Values, Copies, Unloaded
    <3>2. Nothing \in [do : {"none", "read", "send"}, was : Store, save : Values]
      BY PlanAssumption DEF Nothing, Store, Values
    <3>3. events \in [Windows -> Seq(Store)]
      BY <2>1 DEF Init
    <3>4. odd \in 0..MaxOdd
      BY <2>1, PlanAssumption DEF Init
    <3> QED
      BY <2>1, <3>1, <3>2, <3>3, <3>4 DEF Init, TypeOK
  <2>3. Numbers /\ Unread /\ LatestReads /\ Undoes
    BY <2>1 DEF Init, Numbers, Unread, LatestReads, Undoes, Pending
  <2>4. \A w \in Windows : ~Loaded(w)
    BY <2>1 DEF Init, Loaded, Unloaded
  <2> QED
    BY <2>1, <2>2, <2>3, <2>4
       DEF PlanInv, Init, RowInv, FreshReads, SavesStored, SavesShown, OldRows,
       OwnRowsKept, QuietInv, LastPush, SettledReads, SettledCopies, OldPlans
<1>2. PlanInv /\ [Next]_vars => PlanInv'
  <2>1. SUFFICES ASSUME PlanInv, [Next]_vars PROVE PlanInv'
    OBVIOUS
  <2>2. TypeOK'
    BY <2>1, TypesKept DEF PlanInv
  <2>3. Numbers'
    BY <2>1, <2>2, NumbersKept
  <2> QED
    BY <2>1, <2>2, <2>3, UnreadKept, LatestKept, UndoesKept, RowsKept, QuietKept DEF PlanInv
<1> QED
  BY <1>1, <1>2, PTL DEF Spec

\* The model's variables, and the records in flight between windows and daemon,
\* keep their types for any windows, rows and number of writes.
THEOREM Types == Spec => []TypeOK
<1>1. PlanInv => TypeOK
  BY DEF PlanInv
<1> QED
  BY <1>1, PlanInvHolds, PTL

\* A window that has loaded, was the last to write a row and has no save of it in
\* flight shows what the store has, whatever answers and pushes overtook its
\* saves, but for rows a failed save is known to have spoilt
\* (orchestrationState.ts: the count of saves in flight, the read's number).
THEOREM OwnRows == Spec => []OwnRowsKept
<1>1. PlanInv => OwnRowsKept
  BY DEF PlanInv, RowInv
<1> QED
  BY <1>1, PlanInvHolds, PTL

\* With nothing under way, every window that has loaded shows the plan that is
\* stored, if that is the plan pushed last and no failed save is known to have
\* spoilt the copy
\* (push_orchestration after each plan stored, PlanSaved answered after the push).
THEOREM QuietPlans == Spec => []QuietPlansAgree
<1>1. PlanInv => QuietPlansAgree
  BY DEF PlanInv, QuietInv, SettledCopies, QuietPlansAgree, Quiet, Agreed, Settled, Pending
<1> QED
  BY <1>1, PlanInvHolds, PTL
=============================================================================
