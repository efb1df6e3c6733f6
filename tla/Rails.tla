------------------------------- MODULE Rails --------------------------------
(***************************************************************************)
(* The orchestration scheduler of one workspace: the rails, their steps'   *)
(* run rows, the pure decision nextActions and the executor that carries   *)
(* it out (app/src/lib/orchestration/orchestration.ts and                  *)
(* orchestrationState.ts).                                                 *)
(*                                                                         *)
(*   a rail:    idle -> running -> idle        (complete)                  *)
(*                      running <-> paused     (a press, or a stall)       *)
(*   a step:    pending -> running -> done                                 *)
(*                      -> stalled -> running  (Play, or Retry)            *)
(*              running | stalled -> skipped   (a press)                   *)
(*                                                                         *)
(* The window is one JavaScript thread: what runs between two awaits is    *)
(* one uninterrupted piece, and everything else may happen at an await.    *)
(* `cpu` names the continuation that is still running, and nothing else    *)
(* moves until it awaits.  A pass decides its whole list of actions first  *)
(* and carries it out one await at a time, over rows that the human's      *)
(* presses may have changed since.                                         *)
(*                                                                         *)
(* A run row and its copy in SQLite are one: every write changes both, or, *)
(* when the daemon refuses it, is rolled back and changes neither.         *)
(***************************************************************************)
EXTENDS Naturals, SequencesExt

CONSTANTS
    Rails,         \* the rails, in the order nextActions takes them
    Stages,        \* the stages of each rail: sequences of steps
    Sequential,    \* the stages <<rail, position>> of mode "sequence"
    Kind,          \* what each step is
    Trigger,       \* the rail a rail waits for, "all", or "off"
    Target,        \* the rail a start-rail step names
    Blockable,     \* the steps whose card, tool or worktree may be missing
    Lockable,      \* the card steps whose card may be developed meanwhile
    MaxTries,      \* untilMax: the retries a loop has
    MaxPresses,    \* bound on the human's presses
    MaxFaults      \* bound on reloads, daemon restarts and refused writes

RailSet == {Rails[i] : i \in DOMAIN Rails}
StepsOf == [r \in RailSet |->
            UNION {{Stages[r][j][i] : i \in DOMAIN Stages[r][j]} : j \in DOMAIN Stages[r]}]
Steps == UNION {StepsOf[r] : r \in RailSet}

Agents == {"card", "agent"}
Kinds == Agents \cup {"command", "until", "review", "pr", "gavin"}

ASSUME RailsAssumption ==
    /\ Rails \in Seq(RailSet) /\ Stages \in [RailSet -> Seq(Seq(Steps))]
    /\ \A r \in RailSet : \A j \in DOMAIN Stages[r] : Stages[r][j] # <<>>
    /\ Kind \in [Steps -> Kinds]
    /\ Trigger \in [RailSet -> RailSet \cup {"all", "off"}]
    /\ Target \in [{s \in Steps : Kind[s] = "gavin"} -> RailSet]
    /\ Blockable \subseteq Steps
    /\ Lockable \subseteq {s \in Steps : Kind[s] = "card"}
\* Rails and steps have ids of their own, "none" not among them: none is
\* listed twice.
ASSUME OncesAssumption ==
    /\ "none" \notin Steps \cup RailSet
    /\ \A i, k \in DOMAIN Rails : Rails[i] = Rails[k] => i = k
    /\ \A r, q \in RailSet : \A j \in DOMAIN Stages[r], l \in DOMAIN Stages[q] :
          \A i \in DOMAIN Stages[r][j], k \in DOMAIN Stages[q][l] :
             Stages[r][j][i] = Stages[q][l][k] => r = q /\ j = l /\ i = k
ASSUME BoundsAssumption ==
    {MaxTries, MaxPresses, MaxFaults} \subseteq Nat

VARIABLES
    rail,      \* railRuns: each rail's state and current stage (0: none)
    row,       \* stepRuns: state, whether it names a session, the count
    ses,       \* the step's latest session
    card,      \* the steps whose card is in the done column
    blocked,   \* the steps launchBlocker refuses
    locked,    \* the card steps whose card an agent is rewriting
    report,    \* what the poll says of the pull request of a pr step
    held,      \* the workspace is paused, or the launch wall is up
    ticking,   \* a pass is under way
    pass,      \* what that pass has yet to do
    tickAgain, \* a tick was asked for meanwhile
    again,     \* the pass asked for another
    hand,      \* what the human's last press has yet to do
    cpu,       \* whose continuation is running: "free" at an await
    spent,     \* loop-backs of a step since its count was last cleared
    presses, restarts, refused,
    overridden \* what a pass went on with though a press had undone it: a "rail",
               \* an advance of one stopped meanwhile; a "step", a launch of one
               \* its rail was started past

runVars == <<rail, row, spent, refused>>
worldVars == <<ses, card, blocked, locked, report, held>>
passVars == <<ticking, pass, tickAgain, again>>
boundVars == <<presses, restarts, overridden>>
vars == <<rail, row, ses, card, blocked, locked, report, held, ticking, pass, tickAgain,
          again, hand, cpu, spent, presses, restarts, refused, overridden>>

\* A session at its first prompt, working, at rest after a turn, asking;
\* broken (`failed`); a bare shell after a daemon restart (interrupted);
\* exited with the code seen, or ended while nobody watched.
Healthy == {"new", "busy", "rest", "ask"}
Live == Healthy \cup {"broken", "bare"}
Dead == {"ok", "bad", "gone"}

Op(k, s, r, x, n) == [kind |-> k, step |-> s, rail |-> r, st |-> x, n |-> n]
StepOp(k, s) == Op(k, s, "none", "none", 0)
RailOp(k, r, n) == Op(k, "none", r, "none", n)
TickOp == Op("tick", "none", "none", "none", 0)

----------------------------------------------------------------------------
(* Reading the plan *)

\* railOwning and stageIdOfStep: the rail a step is on, and its stage there.
Owning == [s \in Steps |-> CHOOSE r \in RailSet : s \in StepsOf[r]]
StageOf == [s \in Steps |->
            CHOOSE j \in DOMAIN Stages[Owning[s]] :
                \E i \in DOMAIN Stages[Owning[s]][j] : Stages[Owning[s]][j][i] = s]

\* flatSteps: the steps of a rail in the order they run.
FlatSteps == [r \in RailSet |-> FlattenSeq(Stages[r])]

\* stepBefore: the step before this one in that order, "none" for the first.
Before ==
    [s \in Steps |->
        LET flat == FlatSteps[Owning[s]]
            i == CHOOSE k \in DOMAIN flat : flat[k] = s
        IN  IF i = 1 THEN "none" ELSE flat[i - 1]]

\* isStepFinished
Finished(x) == x \in {"done", "skipped"}

\* firstUnfinishedStageId, 0 for none.
FirstUnfinished(r) ==
    LET open == {j \in DOMAIN Stages[r] :
                    \E i \in DOMAIN Stages[r][j] : ~Finished(row[Stages[r][j][i]].st)}
    IN  IF open = {} THEN 0 ELSE CHOOSE j \in open : \A k \in open : j <= k

\* railIsFinished
RailIsFinished(r) == rail[r].st = "idle" /\ FirstUnfinished(r) = 0

\* railTriggerVerdict: whether the rail's trigger fires.
TriggerFires(r) ==
    \/ /\ Trigger[r] = "all"
       /\ RailSet # {r}
       /\ \A o \in RailSet \ {r} : RailIsFinished(o)
    \/ /\ Trigger[r] \in RailSet \ {r}
       /\ RailIsFinished(Trigger[r])

\* armsItself
ArmsItself == \E r \in RailSet : Trigger[r] # "off"

----------------------------------------------------------------------------
(* nextActions: what one pass decides *)

\* The session a row names, "none" where it names none.
SessionOf(s) == IF row[s].ses THEN ses[s] ELSE "none"

\* agentTurnEnded: only an agent tool's, and only after it has worked.
AgentTurnEnded(s) == Kind[s] = "agent" /\ SessionOf(s) = "rest"

\* deadSessionAction and toolStepOutcome.
DeadSessionAction(s) ==
    IF IF Kind[s] = "card" THEN s \in card ELSE SessionOf(s) = "ok"
    THEN "markDone" ELSE "stall"

\* untilVerdict, and prWaitVerdict for a pull request that failed.
LoopVerdict(s, passed) ==
    CASE passed -> "markDone"
      [] ~passed /\ Before[s] = "none" -> "stall"
      [] ~passed /\ Before[s] # "none" /\ row[s].tries >= MaxTries -> "loopExhausted"
      [] OTHER -> "loopBack"

\* Mutant: a broken or bare session is waited on.
RunningRuleTrusting(s) ==
    LET x == SessionOf(s) IN
    CASE Kind[s] = "pr" /\ report[s] # "waiting" -> LoopVerdict(s, report[s] = "pass")
      [] AgentTurnEnded(s) -> "markDone"
      [] Kind[s] = "until" /\ x \in {"ok", "bad"} -> LoopVerdict(s, x = "ok")
      [] Kind[s] \notin {"review", "pr"} /\ x \in Dead -> DeadSessionAction(s)
      [] OTHER -> "none"

\* Rule 3: a running step on a running rail, in the order 3g, 3f, 3d with
\* 3c, 3b, 3e and the dead session.
RunningRule(s) ==
    LET x == SessionOf(s) IN
    CASE Kind[s] = "review" -> "none"
      [] Kind[s] = "card" /\ x = "none" -> "launch"
      [] Kind[s] = "pr" ->
            IF report[s] = "waiting" THEN "none" ELSE LoopVerdict(s, report[s] = "pass")
      [] Kind[s] \notin {"review", "pr"} /\ x \in {"broken", "bare"} -> DeadSessionAction(s)
      [] AgentTurnEnded(s) -> "markDone"
      [] Kind[s] = "until" /\ x \in {"ok", "bad"} -> LoopVerdict(s, x = "ok")
      [] Kind[s] \notin {"review", "pr", "until"} /\ x \in Dead -> DeadSessionAction(s)
      [] Kind[s] = "until" /\ x = "gone" -> "stall"
      [] OTHER -> "none"

\* Rules 1, 2 and 3.
Rule(s) ==
    CASE ~Finished(row[s].st) /\ s \in card -> "markDone"
      [] row[s].st \in {"pending", "stalled"} /\ s \notin card ->
            IF s \in blocked THEN "stall" ELSE "launch"
      [] row[s].st = "running" /\ s \notin card -> RunningRule(s)
      [] OTHER -> "none"

\* The state a step has in the pass's simulation once its rule has spoken.
Simulated(s) ==
    [none |-> row[s].st, markDone |-> "done", launch |-> "running", stall |-> "stalled",
     loopExhausted |-> "stalled", loopBack |-> "pending"][Rule(s)]

ActionFor(k, s) ==
    CASE k = "none" -> <<>>
      [] k = "loopBack" -> <<Op(k, s, "none", "none", row[s].tries + 1)>>
      [] OTHER -> <<StepOp(k, s)>>

\* A sequence stage is walked up to the first member that is not finished.
Reached(r, j, i) ==
    <<r, j>> \in Sequential => \A k \in 1..i - 1 : Finished(Simulated(Stages[r][j][k]))

WalkStage(r, j) ==
    FlattenSeq([i \in DOMAIN Stages[r][j] |->
                   ActionFor(IF Reached(r, j, i) THEN Rule(Stages[r][j][i]) ELSE "none",
                             Stages[r][j][i])])

\* Rule 4: whether the rail leaves the stage on this pass.
StagePasses(r, j) ==
    \A i \in DOMAIN Stages[r][j] : Finished(Simulated(Stages[r][j][i]))

Leave(r, j) ==
    IF ~StagePasses(r, j) THEN <<>>
    ELSE <<IF j = Len(Stages[r]) THEN RailOp("complete", r, 0) ELSE RailOp("advance", r, j + 1)>>

\* The walk of a running rail, from its current stage for as long as it
\* leaves them.
WalkRail(r) ==
    IF rail[r].at \notin DOMAIN Stages[r] THEN <<RailOp("complete", r, 0)>>
    ELSE FlattenSeq([j \in DOMAIN Stages[r] |->
            IF j >= rail[r].at /\ \A k \in rail[r].at..j - 1 : StagePasses(r, k)
            THEN WalkStage(r, j) \o Leave(r, j) ELSE <<>>])

\* Mutant: a session that died under a rail that does not run is left.
ReconcileRuleTrusting(s) ==
    CASE row[s].st = "stalled" /\ s \in card -> "markDone"
      [] row[s].st = "running" /\ Kind[s] = "pr" -> "stall"
      [] row[s].st = "running" /\ AgentTurnEnded(s) -> "markDone"
      [] OTHER -> "none"

\* What a pass writes about a step of a rail that is not running: only what
\* is true, nothing is launched.
ReconcileRule(s) ==
    LET x == SessionOf(s) IN
    CASE row[s].st = "stalled" /\ s \in card -> "markDone"
      [] row[s].st = "running" /\ Kind[s] = "pr" -> "stall"
      [] row[s].st = "running" /\ AgentTurnEnded(s) -> "markDone"
      [] row[s].st = "running" /\ Kind[s] \notin {"review", "pr"} /\ x \notin Healthy
            -> DeadSessionAction(s)
      [] OTHER -> "none"

\* The reconciling pass of a rail that is not running, and rule 6: an idle
\* rail whose rows are true and whose trigger fires is armed.
ReconcileRail(r) ==
    LET truths == FlattenSeq([i \in DOMAIN FlatSteps[r] |->
                     ActionFor(ReconcileRule(FlatSteps[r][i]), FlatSteps[r][i])])
    IN  IF /\ truths = <<>> /\ rail[r].st = "idle"
           /\ FirstUnfinished(r) # 0 /\ TriggerFires(r)
        THEN <<RailOp("arm", r, FirstUnfinished(r))>>
        ELSE truths

NextActions ==
    FlattenSeq([i \in DOMAIN Rails |->
        IF rail[Rails[i]].st = "running" THEN WalkRail(Rails[i]) ELSE ReconcileRail(Rails[i])])

----------------------------------------------------------------------------
(* Writing run state *)

\* setStepRunAction and setRailRunAction over mutateRunState: applied and
\* persisted, or refused and rolled back -- and the caller goes on either way.
Refuse == restarts + refused < MaxFaults /\ refused' = refused + 1 /\ UNCHANGED <<rail, row, spent>>

\* The count a write carries is none (the stored one stays) or one.
SetStep(s, x, named, count) ==
    \/ /\ row' = [row EXCEPT ![s] =
                    [st |-> x, ses |-> named,
                     tries |-> IF count = {} THEN @.tries ELSE CHOOSE n \in count : TRUE]]
       /\ spent' = [spent EXCEPT ![s] = IF count = {0} /\ x # "running" THEN 0 ELSE @]
       /\ UNCHANGED <<rail, refused>>
    \/ Refuse

SetRail(r, x, j) ==
    \/ /\ rail' = [rail EXCEPT ![r] = [st |-> x, at |-> j]]
       /\ UNCHANGED <<row, spent, refused>>
    \/ Refuse

\* Mutant: a second pass decides while the first is still launching.
TickUnguarded ==
    IF ticking
    THEN pass' = pass \o NextActions /\ cpu' = "free" /\ UNCHANGED <<ticking, tickAgain, again>>
    ELSE ticking' = TRUE /\ cpu' = "tick" /\ UNCHANGED <<pass, tickAgain, again>>

\* tick: one while a pass is under way is remembered, any other begins a
\* pass, which nothing interrupts before its first await.
Tick ==
    IF ticking
    THEN tickAgain' = TRUE /\ cpu' = "free" /\ UNCHANGED <<ticking, pass, again>>
    ELSE ticking' = TRUE /\ cpu' = "tick" /\ UNCHANGED <<pass, tickAgain, again>>

\* runTick: the whole list is decided at once.
RunTick ==
    /\ cpu = "tick"
    /\ pass' = NextActions /\ cpu' = "pass"
    /\ UNCHANGED <<runVars, worldVars, boundVars, hand, ticking, tickAgain, again>>

\* Mutant: what was emitted during the pass is forgotten.
EndPassForgetting ==
    /\ ticking /\ pass = <<>> /\ cpu \in {"free", "pass"}
    /\ ticking' = again
    /\ cpu' = IF ticking' THEN "tick" ELSE "free"
    /\ tickAgain' = FALSE /\ again' = FALSE
    /\ UNCHANGED <<runVars, worldVars, boundVars, hand, pass>>

\* Mutant: what the pass asked for is not cleared.
EndPassAgain ==
    /\ ticking /\ pass = <<>> /\ cpu \in {"free", "pass"}
    /\ ticking' = (tickAgain \/ again)
    /\ cpu' = IF ticking' THEN "tick" ELSE "free"
    /\ tickAgain' = FALSE /\ UNCHANGED again
    /\ UNCHANGED <<runVars, worldVars, boundVars, hand, pass>>

\* The end of a pass: another one at once if anything asked for it.
EndPass ==
    /\ ticking /\ pass = <<>> /\ cpu \in {"free", "pass"}
    /\ ticking' = (tickAgain \/ again)
    /\ cpu' = IF ticking' THEN "tick" ELSE "free"
    /\ tickAgain' = FALSE /\ again' = FALSE
    /\ UNCHANGED <<runVars, worldVars, boundVars, hand, pass>>

----------------------------------------------------------------------------
(* executeActions: the pass, one await at a time *)

Doing(k) == ticking /\ cpu \in {"free", "pass"} /\ pass # <<>> /\ Head(pass).kind = k
Then(ops) == pass' = ops \o Tail(pass)
Launching(s) ==
    \E i \in DOMAIN pass : pass[i].kind \in {"launch", "create", "bind"} /\ pass[i].step = s
Awaits == cpu' = "free"
RunsOn == cpu' = "pass"
PassUnchanged == UNCHANGED <<worldVars, boundVars, ticking, tickAgain, hand>>

\* A rail started past a step that the pass is still launching.
StartsAt(r, n) ==
    overridden' = overridden \cup
        (IF \E s \in StepsOf[r] : Launching(s) /\ StageOf[s] < n THEN {"step"} ELSE {})

\* Mutant: the rail is left running.
StallOnly(s, count) == SetStep(s, "stalled", FALSE, count) /\ Then(<<>>) /\ Awaits

\* stallStep: the row loses its session, and a rail that was running as the
\* action started is paused where it stood.
Stall(s, count) ==
    /\ SetStep(s, "stalled", FALSE, count)
    /\ Then(IF rail[Owning[s]].st = "running"
            THEN <<Op("setRail", "none", Owning[s], "paused", rail[Owning[s]].at)>>
            ELSE <<>>)
    /\ Awaits

DoMarkDone ==
    /\ Doing("markDone")
    /\ LET s == Head(pass).step IN
        /\ SetStep(s, "done", row[s].ses, {})
        /\ Then(IF row[s].st = "stalled"
                THEN <<RailOp("unpause", Owning[s], StageOf[s])>> ELSE <<>>)
    /\ again' = (again \/ ArmsItself)
    /\ Awaits /\ PassUnchanged

DoStall ==
    /\ Doing("stall")
    /\ Stall(Head(pass).step, {})
    /\ UNCHANGED again /\ PassUnchanged

\* The check's log is read before the stall is written, and the rail was
\* read before the log; a pr step carries its note and reads nothing.
DoLoopExhausted ==
    /\ Doing("loopExhausted")
    /\ LET s == Head(pass).step IN
        IF Kind[s] = "pr" THEN Stall(s, {0})
        ELSE /\ Then(<<StepOp("exhaust", s)>> \o
                     (IF rail[Owning[s]].st = "running"
                      THEN <<Op("setRail", "none", Owning[s], "paused", rail[Owning[s]].at)>>
                      ELSE <<>>))
             /\ Awaits /\ UNCHANGED runVars
    /\ UNCHANGED again /\ PassUnchanged

\* executeLoopBack: the card out of the done column, the check pending with
\* the count spent, the step before it pending, the cursor back.
DoLoopBack ==
    /\ Doing("loopBack")
    /\ LET s == Head(pass).step
           p == Before[s]
           writes == <<Op("count", s, "none", "none", Head(pass).n),
                       StepOp("rearm", p),
                       Op("setRail", "none", Owning[s], "running", StageOf[p])>>
       IN  /\ Then(writes)
           /\ IF Kind[p] = "card" /\ p \in card
              THEN /\ Awaits
                   /\ \/ card' = card \ {p} /\ UNCHANGED refused
                      \/ restarts + refused < MaxFaults /\ refused' = refused + 1 /\ UNCHANGED card
              ELSE RunsOn /\ UNCHANGED <<card, refused>>
    /\ again' = TRUE
    /\ UNCHANGED <<rail, row, spent, ses, blocked, locked, report, held, boundVars, ticking,
                   tickAgain, hand>>

\* The writes an action has left for after an await.
DoSetStep ==
    /\ \/ /\ Doing("count")
          /\ \/ /\ row' = [row EXCEPT ![Head(pass).step] =
                            [st |-> "pending", ses |-> FALSE, tries |-> Head(pass).n]]
                /\ UNCHANGED <<rail, refused>>
             \/ restarts + refused < MaxFaults /\ refused' = refused + 1 /\ UNCHANGED <<rail, row>>
          /\ spent' = [spent EXCEPT ![Head(pass).step] = @ + 1]
       \/ Doing("rearm") /\ SetStep(Head(pass).step, "pending", FALSE, {})
       \/ Doing("exhaust") /\ SetStep(Head(pass).step, "stalled", FALSE, {0})
    /\ Then(<<>>) /\ Awaits /\ UNCHANGED again /\ PassUnchanged

DoSetRail ==
    /\ Doing("setRail")
    /\ SetRail(Head(pass).rail, Head(pass).st, Head(pass).n)
    /\ Then(<<>>) /\ Awaits /\ UNCHANGED again /\ PassUnchanged

\* A rail that was paused around the stall is put back to running.
DoUnpause ==
    /\ Doing("unpause")
    /\ LET r == Head(pass).rail IN
        IF rail[r].st = "paused"
        THEN /\ SetRail(r, "running", IF rail[r].at # 0 THEN rail[r].at ELSE Head(pass).n)
             /\ again' = TRUE /\ Awaits
        ELSE UNCHANGED <<runVars, again>> /\ RunsOn
    /\ Then(<<>>) /\ PassUnchanged

\* The rail's state is not read again: an advance undoes a press of Pause or
\* Reset that came since it was decided.
DoAdvance ==
    /\ Doing("advance")
    /\ SetRail(Head(pass).rail, "running", Head(pass).n)
    /\ overridden' = overridden \cup
                      (IF rail[Head(pass).rail].st = "running" THEN {} ELSE {"rail"})
    /\ Then(<<>>) /\ Awaits
    /\ UNCHANGED <<again, worldVars, presses, restarts, ticking, tickAgain, hand>>

DoComplete ==
    /\ Doing("complete")
    /\ SetRail(Head(pass).rail, "idle", 0)
    /\ again' = (again \/ ArmsItself)
    /\ Then(<<>>) /\ Awaits /\ PassUnchanged

DoArm ==
    /\ Doing("arm")
    /\ SetRail(Head(pass).rail, "running", Head(pass).n)
    /\ again' = TRUE
    /\ Then(<<>>) /\ Awaits /\ PassUnchanged

\* startRail, as a start-rail step calls it: its tick only leaves word.
DoStartRail ==
    /\ Doing("startRail")
    /\ LET r == Head(pass).rail IN
        IF FirstUnfinished(r) # 0
        THEN /\ SetRail(r, "running", FirstUnfinished(r)) /\ StartsAt(r, FirstUnfinished(r))
             /\ tickAgain' = TRUE /\ Awaits
        ELSE UNCHANGED <<runVars, tickAgain, overridden>> /\ RunsOn
    /\ Then(<<>>)
    /\ UNCHANGED <<again, worldVars, presses, restarts, ticking, hand>>

\* executeGavinAction over startRailVerdict: refused for a paused rail or the
\* step's own; otherwise the step is done before the target is armed.
LaunchGavin(s) ==
    LET r == Target[s] IN
    IF r = Owning[s] \/ rail[r].st = "paused"
    THEN Stall(s, {}) /\ UNCHANGED again
    ELSE /\ SetStep(s, "done", FALSE, {})
         /\ Then(IF rail[r].st = "idle" THEN <<RailOp("startRail", r, 0)>> ELSE <<>>)
         /\ again' = TRUE /\ Awaits

\* executeToolLaunch: a review and a pull request take no session; every
\* other tool awaits the host before it has one.
LaunchTool(s) ==
    /\ Awaits
    /\ \/ /\ Kind[s] \in {"review", "pr"}
          /\ SetStep(s, "running", FALSE, IF Kind[s] = "pr" THEN {} ELSE {0})
          /\ Then(<<>>)
       \/ /\ Kind[s] \notin {"review", "pr"}
          /\ Then(<<StepOp("create", s)>>) /\ UNCHANGED runVars

\* launchCardOnRail: a card being rewritten stalls its step and leaves the
\* rail running, since nobody has to lift that lock.
LaunchCard(s) ==
    /\ Awaits
    /\ IF s \in locked
       THEN SetStep(s, "stalled", FALSE, {}) /\ Then(<<>>)
       ELSE Then(<<StepOp("create", s)>>) /\ UNCHANGED runVars

\* A launch is not taken while the workspace is held.
DoLaunch ==
    /\ Doing("launch")
    /\ LET s == Head(pass).step IN
        \/ held /\ Then(<<>>) /\ RunsOn /\ UNCHANGED <<runVars, again>>
        \/ ~held /\ Kind[s] = "gavin" /\ LaunchGavin(s)
        \/ ~held /\ Kind[s] = "card" /\ LaunchCard(s) /\ UNCHANGED again
        \/ ~held /\ Kind[s] \notin {"gavin", "card"} /\ LaunchTool(s) /\ UNCHANGED again
    /\ PassUnchanged

\* createSessionOnRailPage has answered: a session, which the row does not
\* name yet, or none, and the launch stalls its step.
DoCreate ==
    /\ Doing("create")
    /\ LET s == Head(pass).step IN
        \/ /\ ses' = [ses EXCEPT ![s] = "new"]
           /\ Then(<<StepOp("bind", s)>>) /\ Awaits /\ UNCHANGED runVars
        \/ Stall(s, {}) /\ UNCHANGED ses
    /\ UNCHANGED <<again, card, blocked, locked, report, held, boundVars, ticking,
                   tickAgain, hand>>

\* Mutant: a launch clears the loop's count too.
DoBindClearing ==
    /\ Doing("bind")
    /\ SetStep(Head(pass).step, "running", TRUE, {0})
    /\ Then(<<>>) /\ Awaits /\ UNCHANGED again /\ PassUnchanged

\* The row names its session at last.  Every launch clears the count but
\* that of a loop, whose budget it is.
DoBind ==
    /\ Doing("bind")
    /\ LET s == Head(pass).step IN
        SetStep(s, "running", TRUE, IF Kind[s] = "until" THEN {} ELSE {0})
    /\ Then(<<>>) /\ Awaits /\ UNCHANGED again /\ PassUnchanged

PassStep ==
    \/ DoMarkDone \/ DoStall \/ DoLoopExhausted \/ DoLoopBack \/ DoSetStep
    \/ DoSetRail \/ DoUnpause \/ DoAdvance \/ DoComplete \/ DoArm
    \/ DoStartRail \/ DoLaunch \/ DoCreate \/ DoBind \/ RunTick \/ EndPass

----------------------------------------------------------------------------
(* The human's presses.  Each handler writes at once and goes on after the *)
(* await; a button is offered only in the states named.                    *)

Press ==
    /\ cpu = "free" /\ hand = <<>> /\ presses < MaxPresses
    /\ presses' = presses + 1
    /\ UNCHANGED <<worldVars, passVars, restarts>>

\* onStart: startRail, or resumeRail where the rail is paused.
PressStart(r) ==
    /\ rail[r].st # "running"
    /\ rail[r].st = "idle" => FirstUnfinished(r) # 0
    /\ LET n == IF rail[r].st = "paused" /\ rail[r].at \in DOMAIN Stages[r]
                THEN rail[r].at ELSE FirstUnfinished(r)
       IN  SetRail(r, "running", n) /\ StartsAt(r, n)
    /\ hand' = <<TickOp>> /\ UNCHANGED cpu
    /\ Press

PressPause(r) ==
    /\ rail[r].st = "running"
    /\ SetRail(r, "paused", rail[r].at)
    /\ UNCHANGED <<hand, cpu, overridden>>
    /\ Press

\* resetRail: every step pending, one await after another, then the rail
\* idle.  It does not tick.
PressReset(r) ==
    /\ hand' = [i \in DOMAIN FlatSteps[r] |-> StepOp("reset", FlatSteps[r][i])]
                \o <<RailOp("idle", r, 0)>>
    /\ cpu' = "hand" /\ UNCHANGED <<runVars, overridden>>
    /\ Press

PressRetry(s) ==
    /\ row[s].st = "stalled"
    /\ SetStep(s, "pending", FALSE, {0})
    /\ hand' = <<TickOp>> /\ UNCHANGED <<cpu, overridden>>
    /\ Press

PressMarkDone(s) ==
    /\ row[s].st \in {"running", "stalled"}
    /\ SetStep(s, "done", row[s].ses, {})
    /\ hand' = <<TickOp>> /\ UNCHANGED <<cpu, overridden>>
    /\ Press

PressSkip(s) ==
    /\ row[s].st \in {"running", "stalled"}
    /\ SetStep(s, "skipped", row[s].ses, {})
    /\ hand' = <<RailOp("unpause", Owning[s], StageOf[s]), TickOp>> /\ UNCHANGED <<cpu, overridden>>
    /\ Press

Handling(k) == cpu \in {"free", "hand"} /\ hand # <<>> /\ Head(hand).kind = k

\* The rest of a handler, one await at a time.
HandStep ==
    /\ UNCHANGED <<worldVars, boundVars>>
    /\ \/ /\ Handling("tick")
          /\ UNCHANGED runVars /\ Tick
       \/ /\ Handling("reset")
          /\ SetStep(Head(hand).step, "pending", FALSE, {0})
          /\ Awaits /\ UNCHANGED passVars
       \/ /\ Handling("idle")
          /\ SetRail(Head(hand).rail, "idle", 0)
          /\ Awaits /\ UNCHANGED passVars
       \/ /\ Handling("unpause")
          /\ LET r == Head(hand).rail IN
                IF rail[r].st = "paused"
                THEN /\ SetRail(r, "running", IF rail[r].at # 0 THEN rail[r].at
                                              ELSE Head(hand).n)
                     /\ Awaits
                ELSE UNCHANGED runVars /\ cpu' = "hand"
          /\ UNCHANGED passVars
    /\ hand' = Tail(hand)

----------------------------------------------------------------------------
(* The world: sessions, cards, pull requests, holds and restarts.  Each    *)
(* change is the emission of a store the scheduler subscribes to.          *)

World ==
    /\ cpu = "free"
    /\ UNCHANGED <<runVars, hand, presses, overridden>>
    /\ Tick

\* A session some rule reads, or soon will: a running row's, or one that is
\* being bound.
Read(s) ==
    \/ row[s].st = "running" /\ row[s].ses
    \/ \E i \in DOMAIN pass : pass[i] = StepOp("bind", s)

SessionTurns(s) ==
    /\ Read(s)
    /\ \E x \in Healthy \cup Dead \cup {"broken"} :
        /\ \/ /\ Kind[s] \in Agents
              /\ \/ ses[s] \in {"new", "rest", "ask", "broken"} /\ x = "busy"
                 \/ ses[s] = "busy" /\ x \in {"rest", "ask", "broken"}
           \/ ses[s] \in Live /\ x \in {"ok", "bad"}
        /\ ses' = [ses EXCEPT ![s] = x]
    /\ UNCHANGED <<card, blocked, locked, report, held, restarts>>
    /\ World

CardDone(s) ==
    /\ Kind[s] = "card" /\ s \notin card
    /\ card' = card \cup {s}
    /\ UNCHANGED <<ses, blocked, locked, report, held, restarts>>
    /\ World

BlockerMoves(s) ==
    /\ blocked' = IF s \in blocked THEN blocked \ {s} ELSE blocked \cup {s}
    /\ UNCHANGED <<ses, card, locked, report, held, restarts>>
    /\ World

\* A develop run on the card begins, or the sweep frees it.
LockMoves(s) ==
    /\ locked' = IF s \in locked THEN locked \ {s} ELSE locked \cup {s}
    /\ UNCHANGED <<ses, card, blocked, report, held, restarts>>
    /\ World

\* refreshPr: every poll sets the report anew, changed or not.
PullRequest(s) ==
    /\ Kind[s] = "pr"
    /\ \E x \in {"waiting", "pass", "fail"} :
        report' = [report EXCEPT ![s] = x]
    /\ UNCHANGED <<ses, card, blocked, locked, held, restarts>>
    /\ World

HoldMoves ==
    /\ held' = ~held
    /\ UNCHANGED <<ses, card, blocked, locked, report, restarts>>
    /\ World

\* The daemon restarts: what ran in its sessions is gone, and they are back
\* as bare shells of the same id.
DaemonRestarts ==
    /\ restarts + refused < MaxFaults /\ restarts' = restarts + 1
    /\ ses' = [s \in Steps |-> IF ses[s] \in Live THEN "bare" ELSE ses[s]]
    /\ UNCHANGED <<card, blocked, locked, report, held>>
    /\ World

\* The window is reloaded: the pass and the handler are gone, the exits it
\* saw and the pull requests it polled are forgotten, and a session that was
\* already there counts as one that has worked.  The plan's arrival ticks.
Reloads ==
    /\ cpu = "free"
    /\ restarts + refused < MaxFaults /\ restarts' = restarts + 1
    /\ ses' = [s \in Steps |->
                CASE ses[s] = "new" /\ Kind[s] \in Agents -> "rest"
                  [] ses[s] \in Dead -> "gone"
                  [] OTHER -> ses[s]]
    /\ report' = [s \in Steps |-> "waiting"]
    /\ hand' = <<>> /\ pass' = <<>> /\ tickAgain' = FALSE /\ again' = FALSE
    /\ ticking' = TRUE /\ cpu' = "tick"
    /\ UNCHANGED <<runVars, card, blocked, locked, held, presses, overridden>>

----------------------------------------------------------------------------
Init ==
    /\ rail = [r \in RailSet |-> [st |-> "idle", at |-> 0]]
    /\ row = [s \in Steps |-> [st |-> "pending", ses |-> FALSE, tries |-> 0]]
    /\ ses = [s \in Steps |-> "none"]
    /\ card = {} /\ blocked = {} /\ locked = {} /\ report = [s \in Steps |-> "waiting"]
    /\ held = FALSE
    /\ ticking = FALSE /\ pass = <<>> /\ tickAgain = FALSE /\ again = FALSE
    /\ hand = <<>> /\ cpu = "free"
    /\ spent = [s \in Steps |-> 0]
    /\ presses = 0 /\ restarts = 0 /\ refused = 0 /\ overridden = {}

Presses ==
    \/ \E r \in RailSet : PressStart(r) \/ PressPause(r) \/ PressReset(r)
    \/ \E s \in Steps : PressRetry(s) \/ PressMarkDone(s) \/ PressSkip(s)

WorldMoves ==
    \/ \E s \in Steps : SessionTurns(s) \/ CardDone(s) \/ PullRequest(s)
    \/ \E s \in Blockable : BlockerMoves(s)
    \/ \E s \in Lockable : LockMoves(s)
    \/ HoldMoves \/ DaemonRestarts \/ Reloads

Next == PassStep \/ HandStep \/ Presses \/ WorldMoves

\* An await settles: the host answers or fails, and the continuation runs.
Fairness == WF_vars(PassStep) /\ WF_vars(HandStep)

Spec == Init /\ [][Next]_vars /\ Fairness

----------------------------------------------------------------------------
\* Rows, sessions and what the pass has left have their types, no step is
\* ever counted past its budget, and outside a pass nothing of one is left.
TypeOK ==
    /\ rail \in [RailSet -> [st : {"idle", "running", "paused"}, at : Nat]]
    /\ row \in [Steps -> [st : {"pending", "running", "done", "stalled", "skipped"},
                          ses : BOOLEAN, tries : 0..MaxTries]]
    /\ ses \in [Steps -> Live \cup Dead \cup {"none"}]
    /\ card \subseteq Steps /\ blocked \subseteq Blockable /\ locked \subseteq Lockable
    /\ report \in [Steps -> {"waiting", "pass", "fail"}]
    /\ {held, ticking, tickAgain, again} \subseteq BOOLEAN
    /\ cpu \in {"free", "tick", "pass", "hand"}
    /\ ~ticking => pass = <<>> /\ ~tickAgain /\ ~again

\* Nothing is under way in the window.
Quiet == ~ticking /\ hand = <<>>

Current(r) ==
    IF rail[r].at \in DOMAIN Stages[r]
    THEN {Stages[r][rail[r].at][i] : i \in DOMAIN Stages[r][rail[r].at]} ELSE {}

\* The step's turn has come: the stages before its own are finished and, in
\* a sequence, the members before it.
InTurn(s) ==
    LET flat == FlatSteps[Owning[s]]
    IN  \A i, k \in DOMAIN flat :
            /\ i < k /\ flat[k] = s
            /\ StageOf[flat[i]] < StageOf[s] \/ <<Owning[s], StageOf[s]>> \in Sequential
            => Finished(row[flat[i]].st)

\* Once the window is quiet, a step whose turn it is and which is shown as
\* running has a session that can still finish it, or waits for a person or
\* a pull request -- on a rail of any state, whatever died, restarted or was
\* pressed while a pass was under way (the reconciling pass and rules 3c and
\* 3d of nextActions).  A refused write is what leaves a row untrue, and so
\* does a launch carried out on a step that a Reset and a Start had left
\* behind.  A row ahead of its turn -- a loop or a Reset took the cursor back
\* past it -- may stay untrue: the walk of a running rail does not come to
\* it.
RowsAreTrue ==
    Quiet /\ refused = 0 /\ "step" \notin overridden =>
        \A s \in Steps : InTurn(s) /\ row[s].st = "running" =>
            Kind[s] \in {"review", "pr"} \/ SessionOf(s) \in Healthy

\* A rail that runs is never stuck: when the window is quiet and launches
\* are not held, its stage has a step something will still move.  Every
\* event that could have moved it -- an exit, a card, a press, even one that
\* came in the middle of a pass -- has been read (`tickAgain` and the
\* passes executeActions asks for).  Not so where an advance overrode a
\* Reset: the rail runs, and nothing ticks.
RunningRailsWait ==
    Quiet /\ refused = 0 /\ ~held /\ "rail" \notin overridden =>
        \A r \in RailSet : rail[r].st = "running" =>
            \E s \in Current(r) :
                \/ /\ row[s].st = "running"
                   /\ Kind[s] \notin {"review", "pr"} =>
                        SessionOf(s) \in Healthy /\ ~AgentTurnEnded(s)
                \/ row[s].st = "stalled" /\ s \in locked

\* Rule 5: a stall pauses its rail.  A quiet running rail has no stalled
\* step on its stage whose turn it is, but one that waits for a card's
\* develop run to end, whatever presses came between the stall's two writes.
StallsPause ==
    Quiet /\ refused = 0 /\ ~held =>
        \A r \in RailSet : rail[r].st = "running" =>
            \A s \in Current(r) : InTurn(s) /\ row[s].st = "stalled" => s \in locked

\* The retries a loop makes before a press or its own exhaustion clears its
\* count: the budget, and one for each write of the count the daemon refused.
\* A launch of the check must leave the count alone.
LoopBudget == \A s \in Steps : spent[s] <= MaxTries + refused

\* A pass never makes a second agent for a step that is already running,
\* although it decided the launch before the awaits at which presses and
\* other ticks came in.
NoSecondAgent ==
    [][\A s \in Steps : DoCreate /\ ses'[s] # ses[s] => row[s].st # "running"]_vars

\* A pass and the passes it asks for come to an end ("It terminates", says
\* tick), whatever the world goes on emitting, with every await settled and
\* refused writes that come to an end too.
TicksDrain == ticking ~> ~ticking
=============================================================================
