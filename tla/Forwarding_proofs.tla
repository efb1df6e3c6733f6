------------------------- MODULE Forwarding_proofs -------------------------
(***************************************************************************)
(* Forwarding proved for any number of calls, connections and loops: a     *)
(* call is dispatched at most once, no waiter is left behind, and an ask   *)
(* that waits on a connection that is gone has been told.                  *)
(***************************************************************************)
EXTENDS Forwarding, TLAPS

\* An ask that has not written its call.
Unwritten == {"new", "looked", "listed", "unsent"}

\* A call is on the one connection it was written to.
JobsPlaced ==
    \A k \in Conns, c \in Calls :
        job[k][c] # "none" => to[c] = k /\ ask[c] \notin Unwritten

\* A call that is still on its way to the desk has not been dispatched, and
\* one that is past it has been, once.
RunsCounted ==
    /\ \A c \in Calls : runs[c] \in {0, 1}
    /\ \A c \in Calls : ask[c] \in Unwritten => runs[c] = 0
    /\ \A c \in Calls : mail[c] = "done" => runs[c] = 1
    /\ \A k \in Conns, c \in Calls :
          /\ job[k][c] \in {"wire", "todo"} => runs[c] = 0
          /\ job[k][c] \in {"running", "result", "reply"} => runs[c] = 1

\* A waiter is listed, taken out to be told, or told: one at a time.
WaitersPlaced ==
    /\ \A c \in pending : ask[c] \in Holding \ {"looked"} /\ mail[c] = "none"
    /\ \A k \in Conns : \A c \in tell[k] :
          /\ c \notin pending /\ to[c] = k
          /\ dpc[k] = "telling" /\ ask[c] \notin {"new", "looked"}
    /\ \A c \in Calls : ask[c] \in {"new", "looked"} => mail[c] = "none"

CallInv == TypeOK /\ JobsPlaced /\ RunsCounted /\ WaitersPlaced

\* Between its registration and its end a connection may be asked over.
SlotsSound ==
    /\ slot # None => dpc[slot] \in {"registered", "serving", "ending"}
    /\ \A c \in Calls : ask[c] \in Holding => dpc[to[c]] \notin {"none", "greeting"}

\* On a connection that can only end by its socket, a written call is never
\* one the connection's end did not see.
EndsSeen ==
    /\ \A k \in Conns : dpc[k] \in {"ending", "failing", "telling", "gone"} => k \in cut
    /\ \A c \in pending : ask[c] = "waiting" => dpc[to[c]] \notin {"telling", "gone"}
    /\ \A c \in Calls : ask[c] \in {"listed", "waiting"} /\ mail[c] = "none" =>
          c \in pending \/ c \in tell[to[c]]

LossInv == CallInv /\ SlotsSound /\ EndsSeen

-----------------------------------------------------------------------------
\* Every step keeps the types.
LEMMA TypesKept ==
    ASSUME TypeOK, Next
    PROVE  TypeOK'
<1> USE NoneAssumption DEF TypeOK, OnConn, Asks, Thread, Loop, Job, Lose,
        Holding, Unwritten, askVars, waiterVars, slotVars, loopVars
<1>1. ASSUME NEW c \in Calls, LookUp(c) PROVE TypeOK'
  BY <1>1 DEF LookUp
<1>2. ASSUME NEW c \in Calls, List(c) PROVE TypeOK'
  BY <1>2 DEF List
<1>3. ASSUME NEW c \in Calls, Write(c) PROVE TypeOK'
  <2>1. to[c] \in Conns /\ UNCHANGED <<to, waiterVars, slotVars, cut, runs, loopVars>>
    BY <1>3 DEF Write
  <2>2. ask' \in [Calls -> Holding \cup {"new", "done", "failed"}]
        /\ \A d \in Calls : ask'[d] \in Holding => to[d] \in Conns
    BY <1>3, <2>1 DEF Write
  <2>3. job' \in [Conns -> [Calls ->
                    {"none", "wire", "todo", "running", "result", "reply"}]]
    BY <1>3 DEF Write
  <2> QED
    BY <2>1, <2>2, <2>3
<1>4. ASSUME NEW c \in Calls, Hear(c) PROVE TypeOK'
  BY <1>4 DEF Hear
<1>5. ASSUME NEW c \in Calls, Elapse(c) PROVE TypeOK'
  BY <1>5 DEF Elapse
<1>6. ASSUME NEW c \in Calls, GiveUp(c) PROVE TypeOK'
  BY <1>6 DEF GiveUp
<1>7. ASSUME NEW k \in Conns, Register(k) PROVE TypeOK'
  BY <1>7 DEF Register
<1>8. ASSUME NEW k \in Conns, ShutOld(k) PROVE TypeOK'
  BY <1>8 DEF ShutOld
<1>9. ASSUME NEW k \in Conns, StopReading(k) PROVE TypeOK'
  BY <1>9 DEF StopReading
<1>10. ASSUME NEW k \in Conns, DropSlot(k) PROVE TypeOK'
  BY <1>10 DEF DropSlot
<1>11. ASSUME NEW k \in Conns, FailPending(k) PROVE TypeOK'
  BY <1>11 DEF FailPending
<1>12. ASSUME NEW k \in Conns, Tell(k) PROVE TypeOK'
  BY <1>12 DEF Tell
<1>13. ASSUME NEW k \in Conns, Close(k) PROVE TypeOK'
  BY <1>13 DEF Close
<1>14. ASSUME NEW k \in Conns, NEW c \in Calls, Complete(k, c) PROVE TypeOK'
  BY <1>14 DEF Complete
<1>15. ASSUME NEW k \in Conns, NEW c \in Calls, Dispatch(k, c) PROVE TypeOK'
  BY <1>15 DEF Dispatch
<1>16. ASSUME NEW k \in Conns, NEW c \in Calls, Dispatched(k, c) PROVE TypeOK'
  <2>1. CASE \E l \in Loops : at[l] = k
    BY <1>16, <2>1 DEF Dispatched
  <2>2. CASE ~(\E l \in Loops : at[l] = k)
    BY <1>16, <2>2 DEF Dispatched
  <2> QED
    BY <2>1, <2>2
<1>17. ASSUME NEW l \in Loops, Start(l) PROVE TypeOK'
  BY <1>17 DEF Start
<1>18. ASSUME NEW l \in Loops, Greeted(l) PROVE TypeOK'
  BY <1>18 DEF Greeted
<1>19. ASSUME NEW l \in Loops, HelloFails(l) PROVE TypeOK'
  BY <1>19 DEF HelloFails, Leave
<1>20. ASSUME NEW l \in Loops, Check(l) PROVE TypeOK'
  <2>1. CASE wanted = l
    BY <1>20, <2>1 DEF Check, Leave
  <2>2. CASE Leave(l)
    <3>1. at[l] \in Conns
      BY <1>20 DEF Check
    <3> QED
      BY <2>2, <3>1 DEF Leave
  <2> QED
    BY <1>20, <2>1, <2>2 DEF Check
<1>21. ASSUME NEW l \in Loops, Publish(l) PROVE TypeOK'
  BY <1>21 DEF Publish
<1>22. ASSUME NEW l \in Loops, EndServe(l) PROVE TypeOK'
  BY <1>22 DEF EndServe, Leave
<1>23. ASSUME NEW l \in Loops, StopDialling(l) PROVE TypeOK'
  BY <1>23 DEF StopDialling
<1>24. ASSUME NEW l \in Loops, NEW k \in Conns, Dial(l, k) PROVE TypeOK'
  BY <1>24 DEF Dial, Fresh
<1>25. ASSUME NEW l \in Loops, NEW c \in Calls, Read(l, c) PROVE TypeOK'
  <2>1. CASE c \in Commands
    BY <1>25, <2>1 DEF Read
  <2>2. CASE ~(c \in Commands)
    BY <1>25, <2>2 DEF Read
  <2> QED
    BY <2>1, <2>2
<1>26. ASSUME NEW l \in Loops, NEW c \in Calls, WriteResult(l, c) PROVE TypeOK'
  BY <1>26 DEF WriteResult
<1> QED
  BY <1>1, <1>2, <1>3, <1>4, <1>5, <1>6, <1>7, <1>8, <1>9, <1>10, <1>11,
     <1>12, <1>13, <1>14, <1>15, <1>16, <1>17, <1>18, <1>19, <1>20, <1>21,
     <1>22, <1>23, <1>24, <1>25, <1>26
     DEF Next, Asker, Daemon, App

\* A step moves a call only along the connection it was written to.
LEMMA JobsKept ==
    ASSUME CallInv, Next
    PROVE  JobsPlaced'
<1> USE NoneAssumption DEF CallInv, TypeOK, JobsPlaced, OnConn, Asks, Thread,
        Loop, Job, Lose, Holding, Unwritten, askVars, waiterVars, slotVars,
        loopVars
<1>1. ASSUME NEW c \in Calls, LookUp(c) PROVE JobsPlaced'
  BY <1>1 DEF LookUp
<1>2. ASSUME NEW c \in Calls, List(c) PROVE JobsPlaced'
  BY <1>2 DEF List
<1>3. ASSUME NEW c \in Calls, Write(c) PROVE JobsPlaced'
  BY <1>3 DEF Write
<1>4. ASSUME NEW c \in Calls, Hear(c) PROVE JobsPlaced'
  BY <1>4 DEF Hear
<1>5. ASSUME NEW c \in Calls, Elapse(c) PROVE JobsPlaced'
  BY <1>5 DEF Elapse
<1>6. ASSUME NEW c \in Calls, GiveUp(c) PROVE JobsPlaced'
  BY <1>6 DEF GiveUp
<1>7. ASSUME NEW k \in Conns, Register(k) PROVE JobsPlaced'
  BY <1>7 DEF Register
<1>8. ASSUME NEW k \in Conns, ShutOld(k) PROVE JobsPlaced'
  BY <1>8 DEF ShutOld
<1>9. ASSUME NEW k \in Conns, StopReading(k) PROVE JobsPlaced'
  BY <1>9 DEF StopReading
<1>10. ASSUME NEW k \in Conns, DropSlot(k) PROVE JobsPlaced'
  BY <1>10 DEF DropSlot
<1>11. ASSUME NEW k \in Conns, FailPending(k) PROVE JobsPlaced'
  BY <1>11 DEF FailPending
<1>12. ASSUME NEW k \in Conns, Tell(k) PROVE JobsPlaced'
  BY <1>12 DEF Tell
<1>13. ASSUME NEW k \in Conns, Close(k) PROVE JobsPlaced'
  BY <1>13 DEF Close
<1>14. ASSUME NEW k \in Conns, NEW c \in Calls, Complete(k, c) PROVE JobsPlaced'
  BY <1>14 DEF Complete
<1>15. ASSUME NEW k \in Conns, NEW c \in Calls, Dispatch(k, c) PROVE JobsPlaced'
  BY <1>15 DEF Dispatch
<1>16. ASSUME NEW k \in Conns, NEW c \in Calls, Dispatched(k, c) PROVE JobsPlaced'
  BY <1>16 DEF Dispatched
<1>17. ASSUME NEW l \in Loops, Start(l) PROVE JobsPlaced'
  BY <1>17 DEF Start
<1>18. ASSUME NEW l \in Loops, Greeted(l) PROVE JobsPlaced'
  BY <1>18 DEF Greeted
<1>19. ASSUME NEW l \in Loops, HelloFails(l) PROVE JobsPlaced'
  BY <1>19 DEF HelloFails, Leave
<1>20. ASSUME NEW l \in Loops, Check(l) PROVE JobsPlaced'
  BY <1>20 DEF Check, Leave
<1>21. ASSUME NEW l \in Loops, Publish(l) PROVE JobsPlaced'
  BY <1>21 DEF Publish
<1>22. ASSUME NEW l \in Loops, EndServe(l) PROVE JobsPlaced'
  BY <1>22 DEF EndServe, Leave
<1>23. ASSUME NEW l \in Loops, StopDialling(l) PROVE JobsPlaced'
  BY <1>23 DEF StopDialling
<1>24. ASSUME NEW l \in Loops, NEW k \in Conns, Dial(l, k) PROVE JobsPlaced'
  BY <1>24 DEF Dial, Fresh
<1>25. ASSUME NEW l \in Loops, NEW c \in Calls, Read(l, c) PROVE JobsPlaced'
  <2>1. CASE c \in Commands
    BY <1>25, <2>1 DEF Read
  <2>2. CASE ~(c \in Commands)
    BY <1>25, <2>2 DEF Read
  <2> QED
    BY <2>1, <2>2
<1>26. ASSUME NEW l \in Loops, NEW c \in Calls, WriteResult(l, c) PROVE JobsPlaced'
  BY <1>26 DEF WriteResult
<1> QED
  BY <1>1, <1>2, <1>3, <1>4, <1>5, <1>6, <1>7, <1>8, <1>9, <1>10, <1>11,
     <1>12, <1>13, <1>14, <1>15, <1>16, <1>17, <1>18, <1>19, <1>20, <1>21,
     <1>22, <1>23, <1>24, <1>25, <1>26
     DEF Next, Asker, Daemon, App

\* A call is counted once: when it goes from the reader to the desk, which it
\* does once.
LEMMA RunsKept ==
    ASSUME CallInv, Next
    PROVE  RunsCounted'
<1> USE NoneAssumption DEF CallInv, TypeOK, JobsPlaced, RunsCounted,
        WaitersPlaced, OnConn, Asks, Thread, Loop, Job, Lose, Holding,
        Unwritten, askVars, waiterVars, slotVars, loopVars
<1>1. ASSUME NEW c \in Calls, LookUp(c) PROVE RunsCounted'
  BY <1>1 DEF LookUp
<1>2. ASSUME NEW c \in Calls, List(c) PROVE RunsCounted'
  BY <1>2 DEF List
<1>3. ASSUME NEW c \in Calls, Write(c) PROVE RunsCounted'
  <2>1. CASE to[c] \in cut
    BY <1>3, <2>1 DEF Write
  <2>2. CASE ~(to[c] \in cut)
    BY <1>3, <2>2 DEF Write
  <2> QED
    BY <2>1, <2>2
<1>4. ASSUME NEW c \in Calls, Hear(c) PROVE RunsCounted'
  BY <1>4 DEF Hear
<1>5. ASSUME NEW c \in Calls, Elapse(c) PROVE RunsCounted'
  BY <1>5 DEF Elapse
<1>6. ASSUME NEW c \in Calls, GiveUp(c) PROVE RunsCounted'
  BY <1>6 DEF GiveUp
<1>7. ASSUME NEW k \in Conns, Register(k) PROVE RunsCounted'
  BY <1>7 DEF Register
<1>8. ASSUME NEW k \in Conns, ShutOld(k) PROVE RunsCounted'
  BY <1>8 DEF ShutOld
<1>9. ASSUME NEW k \in Conns, StopReading(k) PROVE RunsCounted'
  BY <1>9 DEF StopReading
<1>10. ASSUME NEW k \in Conns, DropSlot(k) PROVE RunsCounted'
  BY <1>10 DEF DropSlot
<1>11. ASSUME NEW k \in Conns, FailPending(k) PROVE RunsCounted'
  BY <1>11 DEF FailPending
<1>12. ASSUME NEW k \in Conns, Tell(k) PROVE RunsCounted'
  BY <1>12 DEF Tell
<1>13. ASSUME NEW k \in Conns, Close(k) PROVE RunsCounted'
  BY <1>13 DEF Close
<1>14. ASSUME NEW k \in Conns, NEW c \in Calls, Complete(k, c) PROVE RunsCounted'
  BY <1>14 DEF Complete
<1>15. ASSUME NEW k \in Conns, NEW c \in Calls, Dispatch(k, c) PROVE RunsCounted'
  BY <1>15 DEF Dispatch
<1>16. ASSUME NEW k \in Conns, NEW c \in Calls, Dispatched(k, c) PROVE RunsCounted'
  <2>1. CASE \E l \in Loops : at[l] = k
    BY <1>16, <2>1 DEF Dispatched
  <2>2. CASE ~(\E l \in Loops : at[l] = k)
    BY <1>16, <2>2 DEF Dispatched
  <2> QED
    BY <2>1, <2>2
<1>17. ASSUME NEW l \in Loops, Start(l) PROVE RunsCounted'
  BY <1>17 DEF Start
<1>18. ASSUME NEW l \in Loops, Greeted(l) PROVE RunsCounted'
  BY <1>18 DEF Greeted
<1>19. ASSUME NEW l \in Loops, HelloFails(l) PROVE RunsCounted'
  BY <1>19 DEF HelloFails, Leave
<1>20. ASSUME NEW l \in Loops, Check(l) PROVE RunsCounted'
  BY <1>20 DEF Check, Leave
<1>21. ASSUME NEW l \in Loops, Publish(l) PROVE RunsCounted'
  BY <1>21 DEF Publish
<1>22. ASSUME NEW l \in Loops, EndServe(l) PROVE RunsCounted'
  BY <1>22 DEF EndServe, Leave
<1>23. ASSUME NEW l \in Loops, StopDialling(l) PROVE RunsCounted'
  BY <1>23 DEF StopDialling
<1>24. ASSUME NEW l \in Loops, NEW k \in Conns, Dial(l, k) PROVE RunsCounted'
  BY <1>24 DEF Dial, Fresh
<1>25. ASSUME NEW l \in Loops, NEW c \in Calls, Read(l, c) PROVE RunsCounted'
  <2>1. at[l] \in Conns /\ job[at[l]][c] = "wire" /\ UNCHANGED <<ask, mail, to>>
    BY <1>25 DEF Read
  <2>2. to[c] = at[l] /\ runs[c] = 0 /\ ask[c] \notin Unwritten
    BY <2>1
  <2>3. CASE c \in Commands
    BY <1>25, <2>3 DEF Read
  <2>4. CASE c \notin Commands
    <3>1. runs' = [runs EXCEPT ![c] = 1]
      BY <1>25, <2>2, <2>4 DEF Read
    <3>2. \A j \in Conns, d \in Calls :
             job'[j][d] = IF j = at[l] /\ d = c THEN "reply" ELSE job[j][d]
      BY <1>25, <2>4 DEF Read
    <3> QED
      BY <2>1, <2>2, <3>1, <3>2
  <2> QED
    BY <2>3, <2>4
<1>26. ASSUME NEW l \in Loops, NEW c \in Calls, WriteResult(l, c) PROVE RunsCounted'
  BY <1>26 DEF WriteResult
<1> QED
  BY <1>1, <1>2, <1>3, <1>4, <1>5, <1>6, <1>7, <1>8, <1>9, <1>10, <1>11,
     <1>12, <1>13, <1>14, <1>15, <1>16, <1>17, <1>18, <1>19, <1>20, <1>21,
     <1>22, <1>23, <1>24, <1>25, <1>26
     DEF Next, Asker, Daemon, App

\* Answers, ends of connections and asks that give up take a waiter off the
\* list under one lock.
LEMMA WaitersKept ==
    ASSUME CallInv, Next
    PROVE  WaitersPlaced'
<1> USE NoneAssumption DEF CallInv, TypeOK, JobsPlaced, WaitersPlaced, OnConn,
        Asks, Thread, Loop, Job, Lose, Holding, Unwritten, askVars,
        waiterVars, slotVars, loopVars
<1>1. ASSUME NEW c \in Calls, LookUp(c) PROVE WaitersPlaced'
  BY <1>1 DEF LookUp
<1>2. ASSUME NEW c \in Calls, List(c) PROVE WaitersPlaced'
  BY <1>2 DEF List
<1>3. ASSUME NEW c \in Calls, Write(c) PROVE WaitersPlaced'
  <2>1. \/ ask' = [ask EXCEPT ![c] = "unsent"]
        \/ ask' = [ask EXCEPT ![c] = "waiting"]
    BY <1>3 DEF Write
  <2>2. ask[c] = "listed" /\ UNCHANGED <<to, pending, mail, tell, dpc>>
    BY <1>3 DEF Write
  <2> QED
    BY <2>1, <2>2
<1>4. ASSUME NEW c \in Calls, Hear(c) PROVE WaitersPlaced'
  BY <1>4 DEF Hear
<1>5. ASSUME NEW c \in Calls, Elapse(c) PROVE WaitersPlaced'
  BY <1>5 DEF Elapse
<1>6. ASSUME NEW c \in Calls, GiveUp(c) PROVE WaitersPlaced'
  BY <1>6 DEF GiveUp
<1>7. ASSUME NEW k \in Conns, Register(k) PROVE WaitersPlaced'
  BY <1>7 DEF Register
<1>8. ASSUME NEW k \in Conns, ShutOld(k) PROVE WaitersPlaced'
  BY <1>8 DEF ShutOld
<1>9. ASSUME NEW k \in Conns, StopReading(k) PROVE WaitersPlaced'
  BY <1>9 DEF StopReading
<1>10. ASSUME NEW k \in Conns, DropSlot(k) PROVE WaitersPlaced'
  BY <1>10 DEF DropSlot
<1>11. ASSUME NEW k \in Conns, FailPending(k) PROVE WaitersPlaced'
  <2>1. tell' = [tell EXCEPT ![k] = {c \in pending : to[c] = k}]
    BY <1>11 DEF FailPending
  <2>2. pending' = pending \ {c \in pending : to[c] = k}
    BY <1>11, <2>1 DEF FailPending
  <2>3. /\ UNCHANGED <<ask, to, mail>> /\ dpc[k] = "failing"
        /\ dpc' = [dpc EXCEPT ![k] = "telling"]
    BY <1>11 DEF FailPending
  <2>4. \A c \in pending' : ask'[c] \in Holding \ {"looked"} /\ mail'[c] = "none"
    BY <2>2, <2>3
  <2>5. \A c \in tell'[k] : c \in pending /\ to[c] = k /\ c \notin pending'
    BY <2>1, <2>2
  <2>6. ASSUME NEW j \in Conns \ {k}, NEW c \in tell'[j]
        PROVE  /\ c \notin pending' /\ to'[c] = j
               /\ dpc'[j] = "telling" /\ ask'[c] \notin {"new", "looked"}
    BY <2>1, <2>2, <2>3, <2>6
  <2>7. ASSUME NEW c \in tell'[k]
        PROVE  /\ c \notin pending' /\ to'[c] = k
               /\ dpc'[k] = "telling" /\ ask'[c] \notin {"new", "looked"}
    <3>1. c \in pending /\ to[c] = k /\ c \notin pending'
      BY <2>5, <2>7
    <3>2. ask[c] \in Holding \ {"looked"}
      BY <3>1
    <3>3. ask[c] \notin {"new", "looked"}
      BY <3>2
    <3>4. dpc'[k] = "telling"
      BY <2>3
    <3> QED
      BY <2>3, <3>1, <3>3, <3>4
  <2>8. \A c \in Calls : ask'[c] \in {"new", "looked"} => mail'[c] = "none"
    BY <2>3
  <2> QED
    BY <2>4, <2>6, <2>7, <2>8
<1>12. ASSUME NEW k \in Conns, Tell(k) PROVE WaitersPlaced'
  BY <1>12 DEF Tell
<1>13. ASSUME NEW k \in Conns, Close(k) PROVE WaitersPlaced'
  BY <1>13 DEF Close
<1>14. ASSUME NEW k \in Conns, NEW c \in Calls, Complete(k, c) PROVE WaitersPlaced'
  BY <1>14 DEF Complete
<1>15. ASSUME NEW k \in Conns, NEW c \in Calls, Dispatch(k, c) PROVE WaitersPlaced'
  BY <1>15 DEF Dispatch
<1>16. ASSUME NEW k \in Conns, NEW c \in Calls, Dispatched(k, c) PROVE WaitersPlaced'
  BY <1>16 DEF Dispatched
<1>17. ASSUME NEW l \in Loops, Start(l) PROVE WaitersPlaced'
  BY <1>17 DEF Start
<1>18. ASSUME NEW l \in Loops, Greeted(l) PROVE WaitersPlaced'
  BY <1>18 DEF Greeted
<1>19. ASSUME NEW l \in Loops, HelloFails(l) PROVE WaitersPlaced'
  BY <1>19 DEF HelloFails, Leave
<1>20. ASSUME NEW l \in Loops, Check(l) PROVE WaitersPlaced'
  BY <1>20 DEF Check, Leave
<1>21. ASSUME NEW l \in Loops, Publish(l) PROVE WaitersPlaced'
  BY <1>21 DEF Publish
<1>22. ASSUME NEW l \in Loops, EndServe(l) PROVE WaitersPlaced'
  BY <1>22 DEF EndServe, Leave
<1>23. ASSUME NEW l \in Loops, StopDialling(l) PROVE WaitersPlaced'
  BY <1>23 DEF StopDialling
<1>24. ASSUME NEW l \in Loops, NEW k \in Conns, Dial(l, k) PROVE WaitersPlaced'
  BY <1>24 DEF Dial, Fresh
<1>25. ASSUME NEW l \in Loops, NEW c \in Calls, Read(l, c) PROVE WaitersPlaced'
  BY <1>25 DEF Read
<1>26. ASSUME NEW l \in Loops, NEW c \in Calls, WriteResult(l, c) PROVE WaitersPlaced'
  BY <1>26 DEF WriteResult
<1> QED
  BY <1>1, <1>2, <1>3, <1>4, <1>5, <1>6, <1>7, <1>8, <1>9, <1>10, <1>11,
     <1>12, <1>13, <1>14, <1>15, <1>16, <1>17, <1>18, <1>19, <1>20, <1>21,
     <1>22, <1>23, <1>24, <1>25, <1>26
     DEF Next, Asker, Daemon, App

\* A connection in the slot, or looked up, has been registered.
LEMMA SlotsKept ==
    ASSUME CallInv, SlotsSound, Next
    PROVE  SlotsSound'
<1> USE NoneAssumption DEF CallInv, TypeOK, SlotsSound, OnConn, Asks, Thread,
        Loop, Job, Lose, Holding, Unwritten, askVars, waiterVars, slotVars,
        loopVars
<1>1. ASSUME NEW c \in Calls, LookUp(c) PROVE SlotsSound'
  BY <1>1 DEF LookUp
<1>2. ASSUME NEW c \in Calls, List(c) PROVE SlotsSound'
  BY <1>2 DEF List
<1>3. ASSUME NEW c \in Calls, Write(c) PROVE SlotsSound'
  BY <1>3 DEF Write
<1>4. ASSUME NEW c \in Calls, Hear(c) PROVE SlotsSound'
  BY <1>4 DEF Hear
<1>5. ASSUME NEW c \in Calls, Elapse(c) PROVE SlotsSound'
  BY <1>5 DEF Elapse
<1>6. ASSUME NEW c \in Calls, GiveUp(c) PROVE SlotsSound'
  BY <1>6 DEF GiveUp
<1>7. ASSUME NEW k \in Conns, Register(k) PROVE SlotsSound'
  BY <1>7 DEF Register
<1>8. ASSUME NEW k \in Conns, ShutOld(k) PROVE SlotsSound'
  BY <1>8 DEF ShutOld
<1>9. ASSUME NEW k \in Conns, StopReading(k) PROVE SlotsSound'
  BY <1>9 DEF StopReading
<1>10. ASSUME NEW k \in Conns, DropSlot(k) PROVE SlotsSound'
  BY <1>10 DEF DropSlot
<1>11. ASSUME NEW k \in Conns, FailPending(k) PROVE SlotsSound'
  BY <1>11 DEF FailPending
<1>12. ASSUME NEW k \in Conns, Tell(k) PROVE SlotsSound'
  BY <1>12 DEF Tell
<1>13. ASSUME NEW k \in Conns, Close(k) PROVE SlotsSound'
  BY <1>13 DEF Close
<1>14. ASSUME NEW k \in Conns, NEW c \in Calls, Complete(k, c) PROVE SlotsSound'
  BY <1>14 DEF Complete
<1>15. ASSUME NEW k \in Conns, NEW c \in Calls, Dispatch(k, c) PROVE SlotsSound'
  BY <1>15 DEF Dispatch
<1>16. ASSUME NEW k \in Conns, NEW c \in Calls, Dispatched(k, c) PROVE SlotsSound'
  BY <1>16 DEF Dispatched
<1>17. ASSUME NEW l \in Loops, Start(l) PROVE SlotsSound'
  BY <1>17 DEF Start
<1>18. ASSUME NEW l \in Loops, Greeted(l) PROVE SlotsSound'
  BY <1>18 DEF Greeted
<1>19. ASSUME NEW l \in Loops, HelloFails(l) PROVE SlotsSound'
  BY <1>19 DEF HelloFails, Leave
<1>20. ASSUME NEW l \in Loops, Check(l) PROVE SlotsSound'
  BY <1>20 DEF Check, Leave
<1>21. ASSUME NEW l \in Loops, Publish(l) PROVE SlotsSound'
  BY <1>21 DEF Publish
<1>22. ASSUME NEW l \in Loops, EndServe(l) PROVE SlotsSound'
  BY <1>22 DEF EndServe, Leave
<1>23. ASSUME NEW l \in Loops, StopDialling(l) PROVE SlotsSound'
  BY <1>23 DEF StopDialling
<1>24. ASSUME NEW l \in Loops, NEW k \in Conns, Dial(l, k) PROVE SlotsSound'
  BY <1>24 DEF Dial, Fresh
<1>25. ASSUME NEW l \in Loops, NEW c \in Calls, Read(l, c) PROVE SlotsSound'
  BY <1>25 DEF Read
<1>26. ASSUME NEW l \in Loops, NEW c \in Calls, WriteResult(l, c) PROVE SlotsSound'
  BY <1>26 DEF WriteResult
<1> QED
  BY <1>1, <1>2, <1>3, <1>4, <1>5, <1>6, <1>7, <1>8, <1>9, <1>10, <1>11,
     <1>12, <1>13, <1>14, <1>15, <1>16, <1>17, <1>18, <1>19, <1>20, <1>21,
     <1>22, <1>23, <1>24, <1>25, <1>26
     DEF Next, Asker, Daemon, App

\* A connection that ends was cut before: a call listed after its waiters were
\* taken is never written.
LEMMA EndsKept ==
    ASSUME MayFail = FALSE, LossInv, Next
    PROVE  EndsSeen'
<1> USE NoneAssumption DEF LossInv, CallInv, TypeOK, JobsPlaced,
        WaitersPlaced, SlotsSound, EndsSeen, OnConn, Asks, Thread, Loop, Job,
        Lose, Holding, Unwritten, askVars, waiterVars, slotVars, loopVars
<1>1. ASSUME NEW c \in Calls, LookUp(c) PROVE EndsSeen'
  BY <1>1 DEF LookUp
<1>2. ASSUME NEW c \in Calls, List(c) PROVE EndsSeen'
  BY <1>2 DEF List
<1>3. ASSUME NEW c \in Calls, Write(c) PROVE EndsSeen'
  <2>1. CASE to[c] \in cut
    BY <1>3, <2>1 DEF Write
  <2>2. CASE to[c] \notin cut
    <3>1. ask' = [ask EXCEPT ![c] = "waiting"] /\ ask[c] = "listed"
          /\ UNCHANGED <<to, pending, mail, tell, dpc, cut>>
      BY <1>3, <2>2 DEF Write
    <3>2. to[c] \in Conns /\ dpc[to[c]] \notin {"telling", "gone"}
      BY <2>2, <3>1
    <3> QED
      BY <3>1, <3>2
  <2> QED
    BY <2>1, <2>2
<1>4. ASSUME NEW c \in Calls, Hear(c) PROVE EndsSeen'
  BY <1>4 DEF Hear
<1>5. ASSUME NEW c \in Calls, Elapse(c) PROVE EndsSeen'
  BY <1>5 DEF Elapse
<1>6. ASSUME NEW c \in Calls, GiveUp(c) PROVE EndsSeen'
  BY <1>6 DEF GiveUp
<1>7. ASSUME NEW k \in Conns, Register(k) PROVE EndsSeen'
  BY <1>7 DEF Register
<1>8. ASSUME NEW k \in Conns, ShutOld(k) PROVE EndsSeen'
  BY <1>8 DEF ShutOld
<1>9. ASSUME NEW k \in Conns, StopReading(k) PROVE EndsSeen'
  BY <1>9 DEF StopReading
<1>10. ASSUME NEW k \in Conns, DropSlot(k) PROVE EndsSeen'
  BY <1>10 DEF DropSlot
<1>11. ASSUME NEW k \in Conns, FailPending(k) PROVE EndsSeen'
  <2>1. tell' = [tell EXCEPT ![k] = {c \in pending : to[c] = k}]
    BY <1>11 DEF FailPending
  <2>2. pending' = pending \ {c \in pending : to[c] = k}
    BY <1>11, <2>1 DEF FailPending
  <2>3. /\ UNCHANGED <<ask, to, mail>> /\ dpc[k] = "failing"
        /\ dpc' = [dpc EXCEPT ![k] = "telling"]
    BY <1>11 DEF FailPending
  <2>4. (\A j \in Conns :
           dpc[j] \in {"ending", "failing", "telling", "gone"} => j \in cut)'
    BY <1>11, <2>3 DEF FailPending
  <2>5. (\A c \in pending : ask[c] = "waiting" => dpc[to[c]] \notin {"telling", "gone"})'
    BY <2>2, <2>3
  <2>6. (\A c \in Calls : ask[c] \in {"listed", "waiting"} /\ mail[c] = "none" =>
           c \in pending \/ c \in tell[to[c]])'
    BY <2>1, <2>2, <2>3
  <2> QED
    BY <2>4, <2>5, <2>6
<1>12. ASSUME NEW k \in Conns, Tell(k) PROVE EndsSeen'
  BY <1>12 DEF Tell
<1>13. ASSUME NEW k \in Conns, Close(k) PROVE EndsSeen'
  BY <1>13 DEF Close
<1>14. ASSUME NEW k \in Conns, NEW c \in Calls, Complete(k, c) PROVE EndsSeen'
  BY <1>14 DEF Complete
<1>15. ASSUME NEW k \in Conns, NEW c \in Calls, Dispatch(k, c) PROVE EndsSeen'
  BY <1>15 DEF Dispatch
<1>16. ASSUME NEW k \in Conns, NEW c \in Calls, Dispatched(k, c) PROVE EndsSeen'
  BY <1>16 DEF Dispatched
<1>17. ASSUME NEW l \in Loops, Start(l) PROVE EndsSeen'
  BY <1>17 DEF Start
<1>18. ASSUME NEW l \in Loops, Greeted(l) PROVE EndsSeen'
  BY <1>18 DEF Greeted
<1>19. ASSUME NEW l \in Loops, HelloFails(l) PROVE EndsSeen'
  BY <1>19 DEF HelloFails, Leave
<1>20. ASSUME NEW l \in Loops, Check(l) PROVE EndsSeen'
  BY <1>20 DEF Check, Leave
<1>21. ASSUME NEW l \in Loops, Publish(l) PROVE EndsSeen'
  BY <1>21 DEF Publish
<1>22. ASSUME NEW l \in Loops, EndServe(l) PROVE EndsSeen'
  BY <1>22 DEF EndServe, Leave
<1>23. ASSUME NEW l \in Loops, StopDialling(l) PROVE EndsSeen'
  BY <1>23 DEF StopDialling
<1>24. ASSUME NEW l \in Loops, NEW k \in Conns, Dial(l, k) PROVE EndsSeen'
  BY <1>24 DEF Dial, Fresh
<1>25. ASSUME NEW l \in Loops, NEW c \in Calls, Read(l, c) PROVE EndsSeen'
  BY <1>25 DEF Read
<1>26. ASSUME NEW l \in Loops, NEW c \in Calls, WriteResult(l, c) PROVE EndsSeen'
  BY <1>26 DEF WriteResult
<1> QED
  BY <1>1, <1>2, <1>3, <1>4, <1>5, <1>6, <1>7, <1>8, <1>9, <1>10, <1>11,
     <1>12, <1>13, <1>14, <1>15, <1>16, <1>17, <1>18, <1>19, <1>20, <1>21,
     <1>22, <1>23, <1>24, <1>25, <1>26
     DEF Next, Asker, Daemon, App

-----------------------------------------------------------------------------
\* The inductive invariants hold at the start, and every step keeps them.
LEMMA InitCalls ==
    ASSUME Init
    PROVE  CallInv
<1> USE NoneAssumption DEF Init, Holding, OnConn, Unwritten
<1>1. TypeOK
  BY DEF TypeOK
<1>2. JobsPlaced /\ RunsCounted /\ WaitersPlaced
  BY DEF JobsPlaced, RunsCounted, WaitersPlaced
<1> QED
  BY <1>1, <1>2 DEF CallInv

LEMMA InitLoss ==
    ASSUME Init
    PROVE  LossInv
<1>1. SlotsSound /\ EndsSeen
  BY DEF Init, SlotsSound, EndsSeen, Holding
<1> QED
  BY <1>1, InitCalls DEF LossInv

LEMMA CallsStep ==
    ASSUME CallInv, [Next]_vars
    PROVE  CallInv'
<1>1. CASE Next
  BY <1>1, TypesKept, JobsKept, RunsKept, WaitersKept DEF CallInv
<1>2. CASE UNCHANGED vars
  BY <1>2 DEF vars, CallInv, TypeOK, JobsPlaced, RunsCounted, WaitersPlaced
<1> QED
  BY <1>1, <1>2

LEMMA LossStep ==
    ASSUME MayFail = FALSE, LossInv, [Next]_vars
    PROVE  LossInv'
<1>1. CallInv'
  BY CallsStep DEF LossInv
<1>2. CASE Next
  BY <1>1, <1>2, SlotsKept, EndsKept DEF LossInv
<1>3. CASE UNCHANGED vars
  BY <1>1, <1>3 DEF vars, LossInv, SlotsSound, EndsSeen
<1> QED
  BY <1>2, <1>3

-----------------------------------------------------------------------------
(* Each step of Forwarding is a step of ForwardCalls, or none.             *)

\* A step after which every call has been run as often and told the same.
LEMMA Stutters ==
    ASSUME runs' = runs,
           \A c \in Calls : \/ ask'[c] = ask[c]
                            \/ /\ ask[c] \notin {"done", "failed"}
                               /\ ask'[c] \notin {"done", "failed"}
    PROVE  UNCHANGED Promise!vars
BY DEF Promise!vars, Said

\* A step that tells the Device of one call that it failed.
LEMMA Fails ==
    ASSUME TypeOK, NEW c \in Calls, ask[c] \notin {"done", "failed"},
           ask' = [ask EXCEPT ![c] = "failed"], runs' = runs
    PROVE  Promise!Fail(c)
BY DEF Promise!Fail, Said, TypeOK

\* A step that tells it that the call was done.
LEMMA Finishes ==
    ASSUME TypeOK, NEW c \in Calls, ask[c] \notin {"done", "failed"}, runs[c] = 1,
           ask' = [ask EXCEPT ![c] = "done"], runs' = runs
    PROVE  Promise!Done(c)
BY DEF Promise!Done, Said, TypeOK

\* A step that runs one call, for the first time.
LEMMA Runs ==
    ASSUME TypeOK, NEW c \in Calls, runs[c] = 0,
           runs' = [runs EXCEPT ![c] = @ + 1], ask' = ask
    PROVE  Promise!Run(c)
BY DEF Promise!Run, Said, TypeOK

LEMMA StepKeepsPromise ==
    ASSUME CallInv, Next
    PROVE  Promise!Next \/ UNCHANGED Promise!vars
<1> DEFINE Goal == Promise!Next \/ UNCHANGED Promise!vars
<1> USE DEF CallInv, Asks, askVars
<1>1. ASSUME NEW c \in Calls, LookUp(c) PROVE Goal
  <2>1. CASE slot = None
    <3>1. Promise!Fail(c)
      BY <1>1, <2>1, Fails DEF LookUp
    <3> QED
      BY <3>1 DEF Promise!Next
  <2>2. CASE slot # None
    BY <1>1, <2>2, Stutters DEF LookUp, TypeOK
  <2> QED
    BY <2>1, <2>2
<1>2. ASSUME NEW c \in Calls, List(c) \/ Write(c) \/ Elapse(c) PROVE Goal
  <2>1. /\ ask[c] \in {"looked", "listed", "waiting"} /\ runs' = runs
        /\ \E p \in {"listed", "unsent", "waiting", "late"} : ask' = [ask EXCEPT ![c] = p]
    BY <1>2 DEF List, Write, Elapse
  <2> QED
    BY <2>1, Stutters DEF TypeOK
<1>3. ASSUME NEW c \in Calls, Hear(c) PROVE Goal
  <2>1. CASE mail[c] = "done"
    <3>1. runs[c] = 1
      BY <2>1 DEF RunsCounted
    <3>2. Promise!Done(c)
      BY <1>3, <2>1, <3>1, Finishes DEF Hear
    <3> QED
      BY <3>2 DEF Promise!Next
  <2>2. CASE mail[c] # "done"
    <3>1. Promise!Fail(c)
      BY <1>3, <2>2, Fails DEF Hear
    <3> QED
      BY <3>1 DEF Promise!Next
  <2> QED
    BY <2>1, <2>2
<1>4. ASSUME NEW c \in Calls, GiveUp(c) PROVE Goal
  <2>1. Promise!Fail(c)
    BY <1>4, Fails DEF GiveUp
  <2> QED
    BY <2>1 DEF Promise!Next
<1>5. ASSUME NEW k \in Conns, Daemon(k) \/ StopReading(k) PROVE Goal
  <2>1. ask' = ask /\ runs' = runs
    BY <1>5 DEF Daemon, StopReading, Register, ShutOld, DropSlot, FailPending, Tell,
       Close, Complete
  <2> QED
    BY <2>1, Stutters
<1>6. ASSUME NEW l \in Loops, NEW c \in Calls, Read(l, c) PROVE Goal
  <2>1. CASE c \in Commands
    BY <1>6, <2>1, Stutters DEF Read
  <2>2. CASE c \notin Commands
    <3>1. runs[c] = 0
      BY <1>6 DEF Read, RunsCounted, TypeOK, OnConn
    <3>2. Promise!Run(c)
      BY <1>6, <2>2, <3>1, Runs DEF Read
    <3> QED
      BY <3>2 DEF Promise!Next
  <2> QED
    BY <2>1, <2>2
<1>7. ASSUME NEW l \in Loops,
             \/ Start(l) \/ Greeted(l) \/ Check(l) \/ Publish(l) \/ StopDialling(l)
             \/ HelloFails(l) \/ EndServe(l) \/ \E k \in Conns : Dial(l, k)
             \/ \E c \in Calls : WriteResult(l, c)
      PROVE  Goal
  <2>1. ask' = ask /\ runs' = runs
    BY <1>7 DEF Start, Greeted, Check, Publish, StopDialling, HelloFails, EndServe,
       Leave, Dial, WriteResult
  <2> QED
    BY <2>1, Stutters
<1>8. ASSUME NEW k \in Conns, NEW c \in Calls, Dispatch(k, c) PROVE Goal
  <2>1. runs[c] = 0
    BY <1>8 DEF Dispatch, RunsCounted
  <2>2. Promise!Run(c)
    BY <1>8, <2>1, Runs DEF Dispatch
  <2> QED
    BY <2>2 DEF Promise!Next
<1>9. ASSUME NEW k \in Conns, NEW c \in Calls, Dispatched(k, c) PROVE Goal
  BY <1>9, Stutters DEF Dispatched
<1> QED
  BY <1>1, <1>2, <1>3, <1>4, <1>5, <1>6, <1>7, <1>8, <1>9 DEF Next, Asker, App

-----------------------------------------------------------------------------
\* However asks, answers, budgets and ends of connections interleave,
\* pending_forwards lists only asks that have yet to return.
THEOREM WaitersAwaited == Spec => []PendingIsAwaited
<1>1. CallInv => PendingIsAwaited
  BY DEF CallInv, WaitersPlaced, PendingIsAwaited
<1> QED
  BY <1>1, InitCalls, CallsStep, PTL DEF Spec

\* ask_desktop and the app's side of it implement ForwardCalls: a call is
\* dispatched at most once, and answered as done only if it was.
THEOREM CallsKept == Spec => KeepsPromise
<1>1. Init => Promise!Init
  BY DEF Init, Promise!Init, Said
<1>2. CallInv /\ [Next]_vars => [Promise!Next]_Promise!vars
  <2> SUFFICES ASSUME CallInv, [Next]_vars PROVE [Promise!Next]_Promise!vars
    OBVIOUS
  <2>1. CASE Next
    BY <2>1, StepKeepsPromise
  <2>2. CASE UNCHANGED vars
    BY <2>2 DEF vars, Promise!vars, Said
  <2> QED
    BY <2>1, <2>2
<1> QED
  BY <1>1, <1>2, InitCalls, CallsStep, PTL DEF Spec, KeepsPromise, Promise!Spec

\* While connections end only by their sockets (no read or handshake fails
\* on a whole one), an ask that waits on a connection that is gone was told
\* so by fail_pending_forwards.
THEOREM LostAreFailed ==
    ASSUME MayFail = FALSE
    PROVE  Spec => []LostAsksAreFailed
<1>1. LossInv => LostAsksAreFailed
  <2> SUFFICES ASSUME LossInv, NEW c \in Calls, ask[c] = "waiting",
                      dpc[to[c]] = "gone", mail[c] = "none"
               PROVE  FALSE
    BY DEF LostAsksAreFailed
  <2>1. to[c] \in Conns
    BY DEF LossInv, CallInv, TypeOK, Holding
  <2>2. c \in pending \/ c \in tell[to[c]]
    BY DEF LossInv, EndsSeen
  <2>3. c \notin pending
    BY DEF LossInv, EndsSeen
  <2>4. c \notin tell[to[c]]
    BY <2>1 DEF LossInv, CallInv, WaitersPlaced
  <2> QED
    BY <2>2, <2>3, <2>4
<1>2. LossInv /\ [Next]_vars => LossInv'
  BY LossStep
<1> QED
  BY <1>1, <1>2, InitLoss, PTL DEF Spec
=============================================================================
