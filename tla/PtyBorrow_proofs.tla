-------------------------- MODULE PtyBorrow_proofs --------------------------
(***************************************************************************)
(* The daemon's borrows of terminal sizes, for any number of terminals,    *)
(* Devices and connections.  A Device that decides a resize is connected   *)
(* while it does, so no borrow is taken behind its last connection's back; *)
(* and an operation that is alone on its terminal carries, from its        *)
(* decision to its last effect, the size and the borrower the table        *)
(* records, so that it leaves the terminal as the table says.              *)
(***************************************************************************)
EXTENDS PtyBorrow, FiniteSetTheorems, TLAPS

\* A thread that decides has a request for a hosted kind of size and, for a
\* Device, its connection; one with effects left to do decides nothing.
ThreadsKnown ==
    \A t \in Threads :
        /\ at[t] # "idle" => todo[t] = <<>>
        /\ at[t] = "decide" =>
              /\ req[t].s \in Sessions /\ req[t].size \in Sizes
              /\ t = Desk => req[t].size \in DeskSizes
              /\ t \in Conns => t \in table /\ req[t].size = SizeOf[DeviceOf[t]]
        /\ at[t] \in {"judge", "gone"} => t \in Conns

\* A size to apply is one, a push names a borrower or nobody, and a thread
\* has one effect on a terminal at most.
ItemKnown(x) ==
    /\ x.step \in {"pty", "screen"} => x.size \in Sizes
    /\ x.step = "announce" \/ ~x.must => x.say # "quiet"

ItemsKnown ==
    \A t \in Threads : \A i \in 1..Len(todo[t]) :
        /\ ItemKnown(todo[t][i])
        /\ \A j \in 1..Len(todo[t]) : todo[t][j].s = todo[t][i].s => j = i

\* An operation marked alone is; and nothing is known of a terminal two met on.
Lone ==
    \A s \in Sessions :
        /\ alone[s] => \A t, u \in Threads : On(t, s) /\ On(u, s) => t = u
        /\ ~alone[s] => right[s] = {}

\* While the daemon knows the terminal, the table has the desk's last size.
Remembered == \A s \in Sessions : life[s] # "over" => deskSize[s] = asked[s]

SizeRight(s, size) ==
    /\ bySession[s] # None => size = SizeOf[bySession[s]]
    /\ bySession[s] = None /\ asked[s] # None => size = asked[s]

SaidRight(s) == "said" \in right[s] => shown[s] = bySession[s]
Sized(s) == "size" \in right[s] => pty[s] = screen[s] /\ SizeRight(s, pty[s])

\* No thread has an effect left to do on terminal s.
Untouched(s) == \A t \in Threads : \A i \in 1..Len(todo[t]) : todo[t][i].s # s

Settled == \A s \in Sessions : life[s] = "alive" /\ Untouched(s) => SaidRight(s) /\ Sized(s)

\* What is left of a lone operation leaves terminal and desk as the table says.
Carries(x) ==
    LET s == x.s IN
    /\ IF x.say = "quiet" THEN SaidRight(s) ELSE x.say = bySession[s]
    /\ x.step \in {"pty", "screen"} => SizeRight(s, x.size)
    /\ x.step = "screen" => pty[s] = x.size
    /\ x.step = "announce" =>
          IF x.size = None THEN Sized(s)
          ELSE pty[s] = x.size /\ screen[s] = x.size /\ SizeRight(s, x.size)

Pending(x) == \E t \in Threads : \E i \in 1..Len(todo[t]) : todo[t][i] = x

Underway ==
    \A x \in Item : Pending(x) /\ life[x.s] = "alive" /\ alone[x.s] => Carries(x)

PtyInv == /\ TypeOK /\ ThreadsKnown /\ ItemsKnown /\ GoneKeepsNoBorrow
          /\ Lone /\ Remembered /\ Settled /\ Underway

-----------------------------------------------------------------------------
(* What Then leaves of a thread's list: the first effect moves on.         *)
LEMMA ThenItems ==
    ASSUME NEW q \in Seq(Item), q # <<>>, NEW step \in {"pty", "screen", "announce"}
    PROVE  LET r == <<[Head(q) EXCEPT !.step = step]>> \o Tail(q) IN
           /\ r \in Seq(Item) /\ Len(r) = Len(q) /\ Len(q) \in Nat \ {0}
           /\ q[1] \in Item /\ r[1] = [q[1] EXCEPT !.step = step]
           /\ \A i \in 1..Len(q) : i # 1 => r[i] = q[i]
<1>1. Len(q) \in Nat \ {0} /\ Head(q) = q[1] /\ q[1] \in Item
  OBVIOUS
<1>2. Tail(q) \in Seq(Item) /\ Len(Tail(q)) = Len(q) - 1 /\ \A i \in 1..(Len(q) - 1) : Tail(q)[i] = q[i + 1]
  BY <1>1
<1> DEFINE x == [Head(q) EXCEPT !.step = step]
<1>3. x \in Item
  BY <1>1 DEF Item
<1> DEFINE r == <<x>> \o Tail(q)
<1> HIDE DEF x
<1>4. <<x>> \in Seq(Item) /\ Len(<<x>>) = 1 /\ <<x>>[1] = x
  BY <1>3
<1>5. /\ r \in Seq(Item) /\ Len(r) = Len(q) /\ r[1] = x
      /\ \A i \in 1..Len(q) : i # 1 => r[i] = Tail(q)[i - 1]
  BY <1>1, <1>2, <1>4
<1>6. \A i \in 1..Len(q) : i # 1 => r[i] = q[i]
  BY <1>1, <1>2, <1>5
<1> QED
  BY <1>1, <1>5, <1>6 DEF x

(* What Finish leaves of it: the effects after the first.                  *)
LEMMA FinishItems ==
    ASSUME NEW q \in Seq(Item), q # <<>>
    PROVE  /\ Tail(q) \in Seq(Item) /\ Len(q) \in Nat \ {0} /\ Len(Tail(q)) = Len(q) - 1
           /\ q[1] \in Item /\ Head(q) = q[1]
           /\ \A i \in 1..(Len(q) - 1) : i + 1 \in 1..Len(q) /\ Tail(q)[i] = q[i + 1]
  OBVIOUS

(* device_gone lists every terminal the Device had, each of them once.     *)
LEMMA SortedInItems ==
    ASSUME NEW S \in SUBSET Sessions
    PROVE  LET q == SortedIn(S) IN
           /\ Cardinality(S) \in Nat
           /\ q \in [1..Cardinality(S) -> S]
           /\ \A s \in S : \E i \in 1..Cardinality(S) : q[i] = s
           /\ \A i, j \in 1..Cardinality(S) : q[i] = q[j] => i = j
<1> DEFINE n == Cardinality(S)
           C(q) == q \in [1..n -> S] /\ {q[i] : i \in 1..n} = S
<1>1. IsFiniteSet(S)
  BY PtyAssumption, FS_Subset
<1>2. n \in Nat /\ \E f : f \in Bijection(1..n, S)
  BY <1>1, FS_CardinalityType DEF ExistsBijection
<1>3. \E q : C(q)
  <2>1. PICK f : f \in Bijection(1..n, S)
    BY <1>2
  <2>2. f \in [1..n -> S] /\ \A s \in S : \E i \in 1..n : f[i] = s
    BY <2>1 DEF Bijection, Surjection
  <2> HIDE DEF n
  <2> QED
    BY <2>2
<1>4. C(SortedIn(S))
  BY <1>3 DEF SortedIn
<1>5. SortedIn(S) \in Surjection(1..n, S)
  BY <1>4 DEF Surjection
<1>6. IsFiniteSet(1..n) /\ Cardinality(1..n) = n
  BY <1>2, FS_Interval
<1>7. SortedIn(S) \in Injection(1..n, S)
  BY <1>5, <1>6, FS_SurjSameCardinalityImpliesInj
<1> QED
  BY <1>2, <1>4, <1>5, <1>7 DEF Injection, IsInjective, Surjection

(* Every effect in a list is one.                                          *)
LEMMA ItemTyped ==
    ASSUME TypeOK, NEW t \in Threads, NEW i \in 1..Len(todo[t])
    PROVE  todo[t][i] \in Item /\ todo[t][i].s \in Sessions
<1>1. todo[t] \in Seq(Item)
  BY DEF TypeOK
<1>2. todo[t][i] \in Item
  BY <1>1
<1> QED
  BY <1>2 DEF Item

-----------------------------------------------------------------------------
\* The first effect of thread t's list is at another step, and nothing else
\* is: resize_session between its two locks, and on to the push.
MovedOn(t, step) ==
    /\ todo' \in [Threads -> Seq(Item)] /\ todo[t][1] \in Item
    /\ 1 \in 1..Len(todo[t]) /\ todo'[t][1] = [todo[t][1] EXCEPT !.step = step]
    /\ \A u \in Threads : u # t => todo'[u] = todo[u]
    /\ \A u \in Threads : Len(todo'[u]) = Len(todo[u])
    /\ \A u \in Threads : \A i \in 1..Len(todo[u]) : u # t \/ i # 1 => todo'[u][i] = todo[u][i]
    /\ \A u \in Threads : \A i \in 1..Len(todo[u]) : todo'[u][i].s = todo[u][i].s

(* A thread moves on to the next step of its effect.                       *)
LEMMA MovedOnFacts ==
    ASSUME TypeOK, NEW t \in Threads, todo[t] # <<>>,
           NEW step \in {"pty", "screen", "announce"}, Then(t, step)
    PROVE  MovedOn(t, step)
<1> DEFINE r == <<[Head(todo[t]) EXCEPT !.step = step]>> \o Tail(todo[t])
<1>1. todo[t] \in Seq(Item) /\ todo' = [todo EXCEPT ![t] = r]
  BY DEF TypeOK, Then
<1>2. /\ r \in Seq(Item) /\ Len(r) = Len(todo[t]) /\ Len(todo[t]) \in Nat \ {0}
      /\ todo[t][1] \in Item /\ r[1] = [todo[t][1] EXCEPT !.step = step]
      /\ \A i \in 1..Len(todo[t]) : i # 1 => r[i] = todo[t][i]
  BY <1>1, ThenItems
<1> HIDE DEF r
<1>3. todo' \in [Threads -> Seq(Item)] /\ todo'[t] = r /\ \A u \in Threads : u # t => todo'[u] = todo[u]
  BY <1>1, <1>2 DEF TypeOK
<1>4. r[1].s = todo[t][1].s
  BY <1>2 DEF Item
<1>5. \A u \in Threads : \A i \in 1..Len(todo[u]) : todo'[u][i].s = todo[u][i].s
  BY <1>2, <1>3, <1>4
<1> QED
  BY <1>2, <1>3, <1>5 DEF MovedOn

\* Thread t is through with the first effect of its list.
Through(t) ==
    /\ todo' \in [Threads -> Seq(Item)] /\ todo[t][1] \in Item /\ 1 \in 1..Len(todo[t])
    /\ \A u \in Threads : u # t => todo'[u] = todo[u]
    /\ \A i \in 1..Len(todo'[t]) : i + 1 \in 1..Len(todo[t]) /\ todo'[t][i] = todo[t][i + 1]
    /\ \A i \in 1..Len(todo[t]) : i # 1 => i - 1 \in 1..Len(todo'[t]) /\ todo'[t][i - 1] = todo[t][i]
    /\ \A i \in 1..Len(todo'[t]) : todo'[t][i].s # todo[t][1].s

(* A thread is through with an effect, and has no other on its terminal.   *)
LEMMA ThroughFacts ==
    ASSUME TypeOK, ItemsKnown, NEW t \in Threads, todo[t] # <<>>, todo' = [todo EXCEPT ![t] = Tail(@)]
    PROVE  Through(t)
<1> DEFINE q == todo[t]
<1>1. q \in Seq(Item) /\ todo' \in [Threads -> Seq(Item)] /\ todo'[t] = Tail(q)
      /\ \A u \in Threads : u # t => todo'[u] = todo[u]
  BY DEF TypeOK
<1>2. /\ Len(q) \in Nat \ {0} /\ Len(Tail(q)) = Len(q) - 1 /\ q[1] \in Item
      /\ \A i \in 1..(Len(q) - 1) : i + 1 \in 1..Len(q) /\ Tail(q)[i] = q[i + 1]
  BY <1>1, FinishItems
<1>3. \A i \in 1..Len(q) : i # 1 => q[i].s # q[1].s
  BY <1>2 DEF ItemsKnown
<1> HIDE DEF q
<1>4. \A i \in 1..Len(Tail(q)) : i + 1 \in 1..Len(q) /\ i + 1 # 1 /\ Tail(q)[i] = q[i + 1] /\ Tail(q)[i].s # q[1].s
  BY <1>2, <1>3
<1>5. \A i \in 1..Len(q) : i # 1 => i - 1 \in 1..Len(Tail(q)) /\ Tail(q)[i - 1] = q[i]
  <2> SUFFICES ASSUME NEW i \in 1..Len(q), i # 1 PROVE i - 1 \in 1..Len(Tail(q)) /\ Tail(q)[i - 1] = q[i]
    OBVIOUS
  <2>1. i - 1 \in 1..(Len(q) - 1) /\ (i - 1) + 1 = i
    BY <1>2
  <2> QED
    BY <1>2, <2>1
<1>6. 1 \in 1..Len(q)
  BY <1>2
<1> QED
  BY <1>1, <1>2, <1>4, <1>5, <1>6 DEF Through, q

\* Thread t, which had nothing to do, has effect x to do.
TakesOn(t, x) ==
    /\ todo[t] = <<>> /\ x \in Item
    /\ todo' \in [Threads -> Seq(Item)]
    /\ \A u \in Threads : u # t => todo'[u] = todo[u]
    /\ Len(todo'[t]) = 1 /\ todo'[t][1] = x

(* A decision leaves its thread one effect.                                *)
LEMMA TakesOnFacts ==
    ASSUME TypeOK, NEW t \in Threads, NEW x \in Item, todo[t] = <<>>, todo' = [todo EXCEPT ![t] = <<x>>]
    PROVE  TakesOn(t, x)
<1>1. <<x>> \in Seq(Item) /\ Len(<<x>>) = 1 /\ <<x>>[1] = x
  OBVIOUS
<1> QED
  BY <1>1 DEF TakesOn, TypeOK

-----------------------------------------------------------------------------
\* What the invariant says of effects and terminals.
CarryInv == ItemsKnown /\ Lone /\ Remembered /\ Settled /\ Underway

(* A step that touches no terminal, no list and no decision keeps it.      *)
LEMMA QuietKeeps ==
    ASSUME CarryInv, \A t \in Threads : at'[t] = "decide" <=> at[t] = "decide",
           UNCHANGED <<life, bySession, deskSize, pty, screen, shown, req, todo, asked, alone, right>>
    PROVE  CarryInv'
<1> USE DEF CarryInv
<1>1. \A t \in Threads, s \in Sessions : On(t, s)' = On(t, s)
  BY DEF On
<1>2. ItemsKnown'
  BY DEF ItemsKnown, ItemKnown
<1>3. Lone'
  BY <1>1 DEF Lone
<1>4. Remembered'
  BY DEF Remembered
<1>5. Settled'
  BY DEF Settled, Untouched, SaidRight, Sized, SizeRight
<1>6. Underway'
  BY DEF Underway, Pending, Carries, SaidRight, Sized, SizeRight
<1> QED
  BY <1>2, <1>3, <1>4, <1>5, <1>6

(* A connection enters the table.                                          *)
LEMMA ConnectKeeps ==
    ASSUME PtyInv, NEW c \in Conns, Connect(c) PROVE PtyInv'
<1> USE DEF PtyInv, Connect, Idle, borrows, sizes, ghosts
<1>1. TypeOK'
  BY PtyAssumption DEF TypeOK
<1>2. ThreadsKnown'
  BY DEF ThreadsKnown
<1>3. GoneKeepsNoBorrow'
  BY DEF GoneKeepsNoBorrow, Live
<1>4. CarryInv'
  BY QuietKeeps DEF CarryInv
<1> QED
  BY <1>1, <1>2, <1>3, <1>4 DEF CarryInv

(* A connection leaves it, its Device not judged yet.                      *)
LEMMA DisconnectKeeps ==
    ASSUME PtyInv, NEW c \in Conns, Disconnect(c) PROVE PtyInv'
<1> USE DEF PtyInv, Disconnect, Idle, borrows, sizes, ghosts
<1>1. TypeOK'
  BY DEF TypeOK, Threads
<1>2. ThreadsKnown'
  BY DEF ThreadsKnown, TypeOK, Threads
<1>3. GoneKeepsNoBorrow'
  BY DEF GoneKeepsNoBorrow, Live, TypeOK, Threads
<1>4. \A t \in Threads : at'[t] = "decide" <=> at[t] = "decide"
  BY DEF TypeOK
<1>5. CarryInv'
  BY <1>4, QuietKeeps DEF CarryInv
<1> QED
  BY <1>1, <1>2, <1>3, <1>5 DEF CarryInv

(* The Device of a connection that closed is judged.                       *)
LEMMA JudgeKeeps ==
    ASSUME PtyInv, NEW c \in Conns, Judge(c) PROVE PtyInv'
<1> USE DEF PtyInv, Judge, borrows, sizes, ghosts
<1>1. TypeOK'
  BY DEF TypeOK, Threads
<1>2. ThreadsKnown'
  BY DEF ThreadsKnown, TypeOK, Threads
<1>3. GoneKeepsNoBorrow'
  BY PtyAssumption DEF GoneKeepsNoBorrow, Live, TypeOK, Threads
<1>4. \A t \in Threads : at'[t] = "decide" <=> at[t] = "decide"
  BY DEF TypeOK
<1>5. CarryInv'
  BY <1>4, QuietKeeps DEF CarryInv
<1> QED
  BY <1>1, <1>2, <1>3, <1>5 DEF CarryInv

(* A session ends: what is said of living ones is said of fewer.           *)
LEMMA SessionKeeps ==
    ASSUME PtyInv, NEW s \in Sessions, SessionEnds(s) \/ SessionEnded(s) PROVE PtyInv'
<1> USE DEF PtyInv, SessionEnds, SessionEnded, borrows, sizes, ghosts
<1>1. TypeOK'
  BY DEF TypeOK
<1>2. ThreadsKnown'
  BY DEF ThreadsKnown
<1>3. GoneKeepsNoBorrow'
  <2>1. \A z \in Sessions : bySession'[z] # None => bySession'[z] = bySession[z]
    BY DEF TypeOK
  <2>2. UNCHANGED <<table, at>>
    OBVIOUS
  <2> QED
    BY <2>1, <2>2 DEF GoneKeepsNoBorrow, Live
<1>4. ItemsKnown'
  BY DEF ItemsKnown, ItemKnown
<1>5. Lone'
  BY DEF Lone, On
<1>6. Remembered'
  BY DEF Remembered, TypeOK
<1>7. /\ life'[s] # "alive"
      /\ \A z \in Sessions : z # s =>
            life'[z] = life[z] /\ bySession'[z] = bySession[z] /\ deskSize'[z] = deskSize[z]
      /\ UNCHANGED <<pty, screen, shown, todo, asked, alone, right>>
  BY DEF TypeOK
<1>8. Settled'
  BY <1>7 DEF Settled, Untouched, SaidRight, Sized, SizeRight
<1>9. Underway'
  <2> SUFFICES ASSUME NEW x \in Item, Pending(x)', life'[x.s] = "alive", alone'[x.s]
               PROVE  Carries(x)'
    BY DEF Underway
  <2>1. x.s \in Sessions /\ x.s # s
    BY <1>7 DEF Item
  <2>2. Carries(x)
    BY <1>7, <2>1 DEF Underway, Pending
  <2> QED
    BY <1>7, <2>1, <2>2 DEF Carries, SaidRight, Sized, SizeRight
<1> QED
  BY <1>1, <1>2, <1>3, <1>4, <1>5, <1>6, <1>8, <1>9

-----------------------------------------------------------------------------
(* A thread with an effect on a terminal is on it.                         *)
LEMMA PendingOn ==
    ASSUME NEW x \in Item, Pending(x) PROVE \E t \in Threads : todo[t] # <<>> /\ On(t, x.s)
  BY DEF Pending, On

(* Nobody has an effect on a terminal nobody is on.                        *)
LEMMA FreeUntouched ==
    ASSUME NEW s \in Sessions, ~Busy(s) PROVE Untouched(s)
  BY DEF Busy, On, Untouched

\* Terminal s is as it was, as far as the table and the desk can tell.
SameAt(s) ==
    /\ life'[s] = life[s] /\ bySession'[s] = bySession[s] /\ asked'[s] = asked[s]
    /\ pty'[s] = pty[s] /\ screen'[s] = screen[s] /\ shown'[s] = shown[s]
    /\ right'[s] = right[s]

(* What an effect carries to a terminal nothing was done to, it carries    *)
(* still.                                                                  *)
LEMMA SameCarries ==
    ASSUME NEW x \in Item, SameAt(x.s), Carries(x) PROVE Carries(x)'
  BY DEF SameAt, Carries, SaidRight, Sized, SizeRight

(* The same of what is known of a terminal.                                *)
LEMMA SameSettled ==
    ASSUME NEW s \in Sessions, SameAt(s), SaidRight(s), Sized(s) PROVE SaidRight(s)' /\ Sized(s)'
  BY DEF SameAt, SaidRight, Sized, SizeRight

(* What Starts records of a terminal an operation starts on.               *)
LEMMA StartsFacts ==
    ASSUME TypeOK, NEW S \in SUBSET Sessions, Starts(S)
    PROVE  /\ alone' \in [Sessions -> BOOLEAN] /\ right' \in [Sessions -> SUBSET {"size", "said"}]
           /\ asked' = asked
           /\ \A s \in S : /\ alone'[s] <=> ~Busy(s)
                           /\ Busy(s) => right'[s] = {}
                           /\ ~Busy(s) => right'[s] = right[s]
           /\ \A s \in Sessions \ S : alone'[s] = alone[s] /\ right'[s] = right[s]
<1>1. alone' \in [Sessions -> BOOLEAN] /\ right' \in [Sessions -> SUBSET {"size", "said"}] /\ asked' = asked
  BY DEF Starts, TypeOK, Busy
<1> QED
  BY <1>1 DEF Starts

(* An operation that starts is alone just when it is marked so.            *)
LEMMA StartsLone ==
    ASSUME TypeOK, Lone, NEW S \in SUBSET Sessions, Starts(S), NEW t \in Threads,
           \A s \in Sessions : ~On(t, s),
           \A s \in Sessions : On(t, s)' => s \in S,
           \A u \in Threads, s \in Sessions : u # t /\ On(u, s)' => On(u, s)
    PROVE  Lone'
<1> SUFFICES ASSUME NEW s \in Sessions
             PROVE  /\ alone'[s] => \A u, v \in Threads : On(u, s)' /\ On(v, s)' => u = v
                    /\ ~alone'[s] => right'[s] = {}
  BY DEF Lone
<1>1. CASE s \in S
  <2>1. alone'[s] => \A u \in Threads : ~On(u, s)
    BY <1>1, StartsFacts DEF Busy
  <2> QED
    BY <1>1, <2>1, StartsFacts
<1>2. CASE s \notin S
  BY <1>2, StartsFacts DEF Lone
<1> QED
  BY <1>1, <1>2

(* resize_session checked, and not decided yet.                            *)
LEMMA ResizeKeeps ==
    ASSUME PtyInv, NEW t \in Threads, NEW s \in Sessions, NEW size \in Sizes, Resize(t, s, size)
    PROVE  PtyInv'
<1> USE DEF PtyInv
<1>1. /\ at[t] = "idle" /\ todo[t] = <<>> /\ (t = Desk \/ t \in table) /\ Starts({s})
      /\ at' = [at EXCEPT ![t] = "decide"] /\ req' = [req EXCEPT ![t] = [s |-> s, size |-> size]]
      /\ t = Desk => size \in DeskSizes
      /\ t # Desk => size = SizeOf[DeviceOf[t]]
      /\ UNCHANGED <<life, table, bySession, deskSize, pty, screen, shown, todo, connects>>
  BY DEF Resize, MayAsk, Idle, borrows, sizes
<1>2. /\ alone' \in [Sessions -> BOOLEAN] /\ right' \in [Sessions -> SUBSET {"size", "said"}]
      /\ asked' = asked
      /\ alone'[s] <=> ~Busy(s)
      /\ \A z \in Sessions : right'[z] = {} \/ right'[z] = right[z]
      /\ \A z \in Sessions : z # s => alone'[z] = alone[z] /\ right'[z] = right[z]
      /\ ~Busy(s) => right'[s] = right[s]
  BY <1>1, StartsFacts
<1>3. TypeOK'
  <2>1. at' \in [Threads -> {"idle", "decide", "judge", "gone"}]
    BY <1>1 DEF TypeOK
  <2>2. req' \in [Threads -> [s : Sessions, size : Sizes] \cup {Nothing}]
    BY <1>1 DEF TypeOK
  <2> QED
    BY <1>1, <1>2, <2>1, <2>2 DEF TypeOK
<1>4. /\ at'[t] = "decide" /\ req'[t].s = s /\ req'[t].size = size
      /\ \A u \in Threads : u # t => at'[u] = at[u] /\ req'[u] = req[u]
  BY <1>1 DEF TypeOK
<1>5. ThreadsKnown'
  <2>1. t \in Conns => t # Desk /\ t \in table
    BY <1>1, PtyAssumption
  <2>2. \A u \in Threads : u # t => (at'[u] = at[u] /\ req'[u] = req[u] /\ todo'[u] = todo[u])
    BY <1>1, <1>4
  <2> QED
    BY <1>1, <1>4, <2>1, <2>2 DEF ThreadsKnown
<1>6. ItemsKnown'
  BY <1>1 DEF ItemsKnown, ItemKnown
<1>7. GoneKeepsNoBorrow'
  BY <1>1, <1>4 DEF GoneKeepsNoBorrow, Live, Threads
<1>8. Lone'
  <2>1. Len(todo[t]) = 0 /\ Len(todo'[t]) = 0 /\ at[t] # "decide"
    BY <1>1
  <2>2. \A z \in Sessions : ~On(t, z) /\ (On(t, z)' => z \in {s})
    BY <1>4, <2>1 DEF On
  <2>3. \A u \in Threads, z \in Sessions : u # t /\ On(u, z)' => On(u, z)
    BY <1>1, <1>4 DEF On
  <2> QED
    BY <1>1, <2>2, <2>3, StartsLone
<1>9. Remembered'
  BY <1>1, <1>2 DEF Remembered
<1>10. Settled'
  <2> SUFFICES ASSUME NEW z \in Sessions, life'[z] = "alive", Untouched(z)'
               PROVE  SaidRight(z)' /\ Sized(z)'
    BY DEF Settled
  <2>1. SaidRight(z) /\ Sized(z)
    BY <1>1 DEF Settled, Untouched
  <2> QED
    BY <1>1, <1>2, <2>1 DEF SaidRight, Sized, SizeRight
<1>11. Underway'
  <2> SUFFICES ASSUME NEW x \in Item, Pending(x)', life'[x.s] = "alive", alone'[x.s]
               PROVE  Carries(x)'
    BY DEF Underway
  <2>1. Pending(x) /\ x.s \in Sessions
    BY <1>1 DEF Pending, Item
  <2>2. x.s # s
    BY <1>2, <2>1, PendingOn DEF Busy
  <2>3. Carries(x)
    BY <1>1, <1>2, <2>1, <2>2 DEF Underway
  <2> QED
    BY <1>1, <1>2, <2>1, <2>2, <2>3, SameCarries DEF SameAt
<1> QED
  BY <1>3, <1>5, <1>6, <1>7, <1>8, <1>9, <1>10, <1>11

-----------------------------------------------------------------------------
(* A decision taken under the lock, and its one effect: what it decided is *)
(* what the effect carries.                                                *)
LEMMA DecidedKeeps ==
    ASSUME PtyInv, NEW t \in Threads, NEW x \in Item, at[t] = "decide", req[t].s = x.s,
           ItemKnown(x), TakesOn(t, x),
           at' = [at EXCEPT ![t] = "idle"], req' = [req EXCEPT ![t] = Nothing],
           UNCHANGED <<life, table, pty, screen, shown, alone, right>>,
           \A z \in Sessions : z # x.s => bySession'[z] = bySession[z] /\ asked'[z] = asked[z],
           life[x.s] = "alive" /\ SaidRight(x.s) /\ Sized(x.s) => Carries(x)'
    PROVE  ThreadsKnown' /\ ItemsKnown' /\ Lone' /\ Settled' /\ Underway'
<1> USE DEF PtyInv
<1>1. /\ at'[t] = "idle" /\ Len(todo[t]) = 0 /\ Len(todo'[t]) = 1 /\ todo'[t][1] = x /\ x.s \in Sessions
      /\ \A u \in Threads : u # t => at'[u] = at[u] /\ req'[u] = req[u] /\ todo'[u] = todo[u]
  BY DEF TakesOn, TypeOK, Item
<1>2. ThreadsKnown'
  BY <1>1 DEF ThreadsKnown
<1>3. ItemsKnown'
  BY <1>1 DEF ItemsKnown, ItemKnown
<1>4. \A u \in Threads, z \in Sessions : On(u, z)' <=> On(u, z)
  <2>1. \A z \in Sessions : On(t, z)' <=> z = x.s
    BY <1>1 DEF On
  <2>2. \A z \in Sessions : On(t, z) <=> z = x.s
    BY <1>1 DEF On
  <2>3. \A u \in Threads, z \in Sessions : u # t => (On(u, z)' <=> On(u, z))
    BY <1>1 DEF On
  <2> QED
    BY <2>1, <2>2, <2>3
<1>5. Lone'
  BY <1>4 DEF Lone
<1>6. \A z \in Sessions : z # x.s => SameAt(z)
  BY DEF SameAt
<1>7. Settled'
  <2> SUFFICES ASSUME NEW z \in Sessions, life'[z] = "alive", Untouched(z)'
               PROVE  SaidRight(z)' /\ Sized(z)'
    BY DEF Settled
  <2>1. z # x.s /\ Untouched(z)
    BY <1>1 DEF Untouched
  <2> QED
    BY <1>6, <2>1, SameSettled DEF Settled
<1>8. Underway'
  <2> SUFFICES ASSUME NEW y \in Item, Pending(y)', life'[y.s] = "alive", alone'[y.s]
               PROVE  Carries(y)'
    BY DEF Underway
  <2>1. y = x \/ \E u \in Threads : u # t /\ On(u, y.s) /\ Pending(y)
    BY <1>1 DEF Pending, On
  <2>2. On(t, x.s) /\ y.s \in Sessions
    BY <1>1 DEF On, Item
  <2>3. CASE y = x
    <3>1. Untouched(x.s)
      BY <1>1, <2>2, <2>3 DEF Lone, Untouched, On
    <3> QED
      BY <1>1, <2>3, <3>1 DEF Settled
  <2>4. CASE y # x
    <3>1. y.s # x.s
      BY <2>1, <2>2, <2>4 DEF Lone
    <3>2. Carries(y)
      BY <2>1, <2>4 DEF Underway
    <3> QED
      BY <1>6, <2>2, <3>1, <3>2, SameCarries
  <2> QED
    BY <2>3, <2>4
<1> QED
  BY <1>2, <1>3, <1>5, <1>7, <1>8

(* desk_resize: remembered, and applied unless a Device has the size.      *)
LEMMA DecideDeskKeeps ==
    ASSUME PtyInv, DecideDesk PROVE PtyInv'
<1> USE DEF PtyInv
<1> DEFINE s == req[Desk].s
           size == req[Desk].size
<1>1. /\ Desk \in Threads /\ at[Desk] = "decide" /\ todo[Desk] = <<>>
      /\ s \in Sessions /\ size \in DeskSizes /\ size \in Sizes
  BY DEF DecideDesk, ThreadsKnown, Threads, Sizes
<1>2. PICK x : x = IF bySession[s] = None
                   THEN [s |-> s, size |-> size, say |-> "quiet", must |-> TRUE, step |-> "pty"]
                   ELSE [s |-> s, size |-> None, say |-> bySession[s], must |-> FALSE, step |-> "announce"]
  OBVIOUS
<1>3. bySession[s] \in Devices \cup {None} /\ (bySession[s] # None => bySession[s] # "quiet")
  BY <1>1, PtyAssumption DEF TypeOK
<1>4. x \in Item /\ x.s = s /\ ItemKnown(x)
  BY <1>1, <1>2, <1>3 DEF Item, ItemKnown
<1>5. /\ todo' = [todo EXCEPT ![Desk] = <<x>>] /\ at' = [at EXCEPT ![Desk] = "idle"]
      /\ req' = [req EXCEPT ![Desk] = Nothing]
      /\ deskSize' = [deskSize EXCEPT ![s] = size] /\ asked' = [asked EXCEPT ![s] = size]
      /\ UNCHANGED <<life, table, bySession, pty, screen, shown, connects, alone, right>>
  BY <1>2 DEF DecideDesk, sizes
<1>6. TakesOn(Desk, x)
  BY <1>1, <1>4, <1>5, TakesOnFacts
<1>7. TypeOK'
  BY <1>1, <1>5, <1>6 DEF TypeOK, TakesOn
<1>8. GoneKeepsNoBorrow'
  BY <1>1, <1>5 DEF GoneKeepsNoBorrow, Live, TypeOK, Threads
<1>9. Remembered'
  BY <1>1, <1>5 DEF Remembered, TypeOK
<1>10. asked'[s] = size /\ \A z \in Sessions : z # s => asked'[z] = asked[z]
  BY <1>1, <1>5 DEF TypeOK
<1>11. ASSUME SaidRight(s), Sized(s) PROVE Carries(x)'
  <2>1. CASE bySession[s] = None
    BY <1>2, <1>4, <1>5, <1>10, <1>11, <2>1 DEF Carries, SaidRight, SizeRight
  <2>2. CASE bySession[s] # None
    BY <1>2, <1>3, <1>4, <1>5, <1>11, <2>2 DEF Carries, Sized, SizeRight
  <2> QED
    BY <2>1, <2>2
<1> HIDE DEF s, size
<1>12. ThreadsKnown' /\ ItemsKnown' /\ Lone' /\ Settled' /\ Underway'
  <2>1. req[Desk].s = x.s
    BY <1>4 DEF s
  <2> QED
    BY <1>1, <1>4, <1>5, <1>6, <1>10, <1>11, <2>1, DecidedKeeps
<1> QED
  BY <1>7, <1>8, <1>9, <1>12

(* device_resize: the Device has the size from now on, and is connected.   *)
LEMMA DecideDeviceKeeps ==
    ASSUME PtyInv, NEW c \in Conns, DecideDevice(c) PROVE PtyInv'
<1> USE DEF PtyInv
<1> DEFINE s == req[c].s
           d == DeviceOf[c]
<1>1. /\ c \in Threads /\ at[c] = "decide" /\ todo[c] = <<>> /\ c \in table
      /\ s \in Sessions /\ req[c].size = SizeOf[d] /\ req[c].size \in Sizes
      /\ d \in Devices /\ d # "quiet" /\ d # None
  BY PtyAssumption DEF DecideDevice, ThreadsKnown, Threads
<1>2. PICK x : x = [s |-> s, size |-> req[c].size, must |-> TRUE, step |-> "pty",
                    say |-> IF bySession[s] = d THEN "quiet" ELSE d]
  OBVIOUS
<1>3. x \in Item /\ x.s = s /\ ItemKnown(x)
  BY <1>1, <1>2 DEF Item, ItemKnown
<1>4. /\ todo' = [todo EXCEPT ![c] = <<x>>] /\ at' = [at EXCEPT ![c] = "idle"]
      /\ req' = [req EXCEPT ![c] = Nothing] /\ bySession' = [bySession EXCEPT ![s] = d]
      /\ UNCHANGED <<life, table, deskSize, pty, screen, shown, connects, asked, alone, right>>
  BY <1>2 DEF DecideDevice, sizes, ghosts
<1>5. TakesOn(c, x)
  BY <1>1, <1>3, <1>4, TakesOnFacts
<1>6. bySession'[s] = d /\ \A z \in Sessions : z # s => bySession'[z] = bySession[z]
  BY <1>1, <1>4 DEF TypeOK
<1>7. TypeOK'
  BY <1>1, <1>4, <1>5 DEF TypeOK, TakesOn
<1>8. GoneKeepsNoBorrow'
  <2>1. Live(d)'
    BY <1>1, <1>4 DEF Live
  <2>2. \A k \in Conns : at[k] \in {"judge", "gone"} => at'[k] = at[k]
    BY <1>1, <1>4 DEF TypeOK, Threads
  <2> QED
    BY <1>4, <1>6, <2>1, <2>2 DEF GoneKeepsNoBorrow, Live
<1>9. Remembered'
  BY <1>4 DEF Remembered
<1>10. ASSUME SaidRight(s), Sized(s) PROVE Carries(x)'
  <2>1. x.say = "quiet" <=> bySession[s] = d
    BY <1>1, <1>2
  <2> QED
    BY <1>1, <1>2, <1>3, <1>4, <1>6, <1>10, <2>1 DEF Carries, SaidRight, SizeRight
<1> HIDE DEF s, d
<1>11. ThreadsKnown' /\ ItemsKnown' /\ Lone' /\ Settled' /\ Underway'
  <2>1. req[c].s = x.s
    BY <1>3 DEF s
  <2> QED
    BY <1>1, <1>3, <1>4, <1>5, <1>6, <1>10, <2>1, DecidedKeeps
<1> QED
  BY <1>7, <1>8, <1>9, <1>11

-----------------------------------------------------------------------------
(* The effect of a borrow's end is well formed, and is about its terminal. *)
LEMMA BackTyped ==
    ASSUME TypeOK, NEW s \in Sessions
    PROVE  Back(s) \in Item /\ Back(s).s = s /\ ItemKnown(Back(s))
<1>1. deskSize[s] \in DeskSizes \cup {None} /\ "quiet" # None
  BY PtyAssumption DEF TypeOK
<1>2. deskSize[s] # None => deskSize[s] \in Sizes
  BY <1>1 DEF Sizes
<1> QED
  BY <1>1, <1>2 DEF Back, Item, ItemKnown

(* Begun on a terminal nobody is on, it carries the desk's last size.      *)
LEMMA BackCarries ==
    ASSUME PtyInv, NEW s \in Sessions, ~Busy(s), life[s] = "alive",
           NEW x \in Item, x = Back(s),
           bySession'[s] = None, right'[s] = right[s],
           UNCHANGED <<pty, screen, shown, asked>>
    PROVE  Carries(x)'
<1>1. SaidRight(s) /\ Sized(s) /\ deskSize[s] = asked[s] /\ "quiet" # None
  BY FreeUntouched, PtyAssumption DEF PtyInv, Settled, Remembered
<1>2. /\ x.s = s /\ x.say = None /\ x.size = deskSize[s]
      /\ x.step = IF deskSize[s] = None THEN "announce" ELSE "pty"
  BY DEF Back
<1>3. x.step = "announce" => x.size = None /\ Sized(s)'
  BY <1>1, <1>2 DEF Sized, SizeRight
<1>4. SizeRight(s, x.size)'
  BY <1>1, <1>2 DEF SizeRight
<1> QED
  BY <1>1, <1>2, <1>3, <1>4 DEF Carries

(* The borrows of the terminals S end, on a thread that had nothing to do: *)
(* return_pty_size, and device_gone.                                       *)
LEMMA BacksKeep ==
    ASSUME PtyInv, NEW t \in Threads, NEW S \in SUBSET Sessions, Starts(S),
           at[t] # "decide", todo[t] = <<>>, at' \in [Threads -> {"idle", "decide", "judge", "gone"}],
           at'[t] = "idle", \A u \in Threads : u # t => at'[u] = at[u] /\ todo'[u] = todo[u],
           Len(todo'[t]) \in Nat,
           \A i \in 1..Len(todo'[t]) : \E s \in S : todo'[t][i] = Back(s),
           \A i, j \in 1..Len(todo'[t]) : todo'[t][i].s = todo'[t][j].s => i = j,
           \A s \in S : \E i \in 1..Len(todo'[t]) : todo'[t][i] = Back(s),
           \A s \in S : bySession'[s] = None,
           \A s \in Sessions \ S : bySession'[s] = bySession[s],
           UNCHANGED <<life, table, deskSize, pty, screen, shown, req>>
    PROVE  ThreadsKnown' /\ ItemsKnown' /\ Lone' /\ Remembered' /\ Settled' /\ Underway'
<1> USE DEF PtyInv
<1>1. \A s \in Sessions : Back(s) \in Item /\ Back(s).s = s /\ ItemKnown(Back(s))
  BY BackTyped
<1>2. /\ asked' = asked
      /\ \A s \in S : /\ alone'[s] <=> ~Busy(s)
                      /\ Busy(s) => right'[s] = {}
                      /\ ~Busy(s) => right'[s] = right[s]
      /\ \A s \in Sessions \ S : alone'[s] = alone[s] /\ right'[s] = right[s]
  BY StartsFacts
<1>3. ThreadsKnown'
  BY DEF ThreadsKnown
<1>4. ItemsKnown'
  <2>1. \A i \in 1..Len(todo'[t]) : ItemKnown(todo'[t][i])
    BY <1>1
  <2> SUFFICES ASSUME NEW u \in Threads, NEW i \in 1..Len(todo'[u])
               PROVE  /\ ItemKnown(todo'[u][i])
                      /\ \A j \in 1..Len(todo'[u]) : todo'[u][j].s = todo'[u][i].s => j = i
    BY DEF ItemsKnown, ItemKnown
  <2>2. CASE u = t
    BY <2>1, <2>2
  <2>3. CASE u # t
    BY <2>3 DEF ItemsKnown
  <2> QED
    BY <2>2, <2>3
<1>5. Lone'
  <2>1. Len(todo[t]) = 0
    OBVIOUS
  <2>2. \A z \in Sessions : ~On(t, z)
    BY <2>1 DEF On
  <2>3. \A z \in Sessions : On(t, z)' => z \in S
    BY <1>1 DEF On
  <2>4. \A u \in Threads, z \in Sessions : u # t /\ On(u, z)' => On(u, z)
    BY DEF On
  <2> QED
    BY <2>2, <2>3, <2>4, StartsLone
<1>6. Remembered'
  BY <1>2 DEF Remembered
<1>7. \A z \in Sessions \ S : SameAt(z)
  BY <1>2 DEF SameAt
<1>8. Settled'
  <2> SUFFICES ASSUME NEW z \in Sessions, life'[z] = "alive", Untouched(z)'
               PROVE  SaidRight(z)' /\ Sized(z)'
    BY DEF Settled
  <2>1. z \notin S
    BY <1>1 DEF Untouched
  <2>2. Untouched(z)
    BY DEF Untouched
  <2> QED
    BY <1>7, <2>1, <2>2, SameSettled DEF Settled
<1>9. Underway'
  <2> SUFFICES ASSUME NEW y \in Item, Pending(y)', life'[y.s] = "alive", alone'[y.s]
               PROVE  Carries(y)'
    BY DEF Underway
  <2>1. y.s \in Sessions
    BY DEF Item
  <2>2. PICK u \in Threads : \E i \in 1..Len(todo'[u]) : todo'[u][i] = y
    BY DEF Pending
  <2>3. CASE u = t
    <3>1. PICK s \in S : y = Back(s) /\ y.s = s
      BY <1>1, <2>2, <2>3
    <3>2. ~Busy(s) /\ right'[s] = right[s] /\ life[s] = "alive"
      BY <1>2, <3>1
    <3> QED
      BY <1>2, <3>1, <3>2, BackCarries
  <2>4. CASE u # t
    <3>1. Pending(y) /\ On(u, y.s)
      BY <2>2, <2>4 DEF Pending, On
    <3>2. y.s \notin S
      BY <1>2, <3>1 DEF Busy
    <3>3. Carries(y)
      BY <1>2, <2>1, <3>1, <3>2 DEF Underway
    <3> QED
      BY <1>7, <2>1, <3>2, <3>3, SameCarries
  <2> QED
    BY <2>3, <2>4
<1> QED
  BY <1>3, <1>4, <1>5, <1>6, <1>8, <1>9

(* return_pty_size: one borrow ends.                                       *)
LEMMA GiveBackKeeps ==
    ASSUME PtyInv, NEW t \in Threads, NEW s \in Sessions, GiveBack(t, s) PROVE PtyInv'
<1> USE DEF PtyInv
<1>1. /\ at[t] = "idle" /\ todo[t] = <<>> /\ Starts({s})
      /\ bySession' = [bySession EXCEPT ![s] = None] /\ todo' = [todo EXCEPT ![t] = <<Back(s)>>]
      /\ UNCHANGED <<life, table, deskSize, pty, screen, shown, at, req, connects>>
  BY DEF GiveBack, MayAsk, Idle, sizes
<1>2. PICK x \in Item : x = Back(s)
  BY BackTyped
<1>3. TakesOn(t, x)
  BY <1>1, <1>2, TakesOnFacts
<1>4. bySession'[s] = None /\ \A z \in Sessions : z # s => bySession'[z] = bySession[z]
  BY <1>1 DEF TypeOK
<1>5. /\ Len(todo'[t]) = 1 /\ todo'[t][1] = Back(s)
      /\ \A u \in Threads : u # t => todo'[u] = todo[u]
  BY <1>2, <1>3 DEF TakesOn
<1>6. TypeOK'
  <2>1. alone' \in [Sessions -> BOOLEAN] /\ right' \in [Sessions -> SUBSET {"size", "said"}] /\ asked' = asked
    BY <1>1, StartsFacts
  <2> QED
    BY <1>1, <1>3, <2>1 DEF TypeOK, TakesOn
<1>7. GoneKeepsNoBorrow'
  BY <1>1, <1>4 DEF GoneKeepsNoBorrow, Live
<1>8. ThreadsKnown' /\ ItemsKnown' /\ Lone' /\ Remembered' /\ Settled' /\ Underway'
  <2>1. \A i \in 1..Len(todo'[t]) : i = 1
    BY <1>5
  <2>2. /\ \A i \in 1..Len(todo'[t]) : \E z \in {s} : todo'[t][i] = Back(z)
        /\ \A i, j \in 1..Len(todo'[t]) : todo'[t][i].s = todo'[t][j].s => i = j
        /\ \A z \in {s} : \E i \in 1..Len(todo'[t]) : todo'[t][i] = Back(z)
    BY <1>5, <2>1
  <2>3. Len(todo'[t]) \in Nat /\ at' \in [Threads -> {"idle", "decide", "judge", "gone"}]
    BY <1>1, <1>5 DEF TypeOK
  <2> QED
    BY <1>1, <1>4, <1>5, <2>2, <2>3, BacksKeep
<1> QED
  BY <1>6, <1>7, <1>8

(* device_gone: every borrow of a Device that has no connection ends.      *)
LEMMA GoneKeeps ==
    ASSUME PtyInv, NEW c \in Conns, Gone(c) PROVE PtyInv'
<1> USE DEF PtyInv
<1> DEFINE d == DeviceOf[c]
           mine == {s \in Sessions : bySession[s] = d}
           q == SortedIn(mine)
           n == Cardinality(mine)
<1>1. /\ c \in Threads /\ at[c] = "gone" /\ todo[c] = <<>> /\ Starts(mine)
      /\ bySession' = [s \in Sessions |-> IF s \in mine THEN None ELSE bySession[s]]
      /\ todo' = [todo EXCEPT ![c] = [i \in 1..n |-> Back(q[i])]]
      /\ at' = [at EXCEPT ![c] = "idle"]
      /\ UNCHANGED <<life, table, deskSize, pty, screen, shown, req, connects>>
  BY DEF Gone, ThreadsKnown, Threads, sizes
<1>2. /\ n \in Nat /\ q \in [1..n -> mine] /\ mine \subseteq Sessions
      /\ \A s \in mine : \E i \in 1..n : q[i] = s
      /\ \A i, j \in 1..n : q[i] = q[j] => i = j
  BY SortedInItems
<1>3. \A i \in 1..n : Back(q[i]) \in Item /\ Back(q[i]).s = q[i]
  BY <1>2, BackTyped
<1>4. d \in Devices /\ d # None /\ (\A s \in Sessions : s \in mine <=> bySession[s] = d)
  BY PtyAssumption
<1> HIDE DEF q, n, mine
<1>5. /\ [i \in 1..n |-> Back(q[i])] \in Seq(Item) /\ Len([i \in 1..n |-> Back(q[i])]) = n
  BY <1>2, <1>3
<1>6. /\ todo' \in [Threads -> Seq(Item)] /\ Len(todo'[c]) = n
      /\ \A i \in 1..n : todo'[c][i] = Back(q[i])
      /\ \A u \in Threads : u # c => todo'[u] = todo[u]
  BY <1>1, <1>5 DEF TypeOK
<1>7. /\ at' \in [Threads -> {"idle", "decide", "judge", "gone"}] /\ at'[c] = "idle"
      /\ \A u \in Threads : u # c => at'[u] = at[u]
  BY <1>1 DEF TypeOK
<1>8. /\ bySession' \in [Sessions -> Devices \cup {None}]
      /\ \A s \in mine : bySession'[s] = None
      /\ \A s \in Sessions \ mine : bySession'[s] = bySession[s]
  BY <1>1, <1>2 DEF TypeOK
<1>9. TypeOK'
  <2>1. alone' \in [Sessions -> BOOLEAN] /\ right' \in [Sessions -> SUBSET {"size", "said"}] /\ asked' = asked
    BY <1>1, <1>2, StartsFacts
  <2> QED
    BY <1>1, <1>6, <1>7, <1>8, <2>1 DEF TypeOK
<1>10. GoneKeepsNoBorrow'
  <2> SUFFICES ASSUME NEW s \in Sessions, bySession'[s] # None
               PROVE  \/ Live(bySession[s])'
                      \/ \E k \in Conns : DeviceOf[k] = bySession'[s] /\ at'[k] \in {"judge", "gone"}
    BY DEF GoneKeepsNoBorrow
  <2>1. bySession'[s] = bySession[s] /\ bySession[s] # d
    BY <1>4, <1>8
  <2>2. \A k \in Conns : DeviceOf[k] = bySession[s] => at'[k] = at[k]
    BY <1>7, <2>1 DEF Threads
  <2> QED
    BY <1>1, <2>1, <2>2 DEF GoneKeepsNoBorrow, Live
<1>11. ThreadsKnown' /\ ItemsKnown' /\ Lone' /\ Remembered' /\ Settled' /\ Underway'
  <2>1. /\ \A i \in 1..Len(todo'[c]) : \E s \in mine : todo'[c][i] = Back(s)
        /\ \A s \in mine : \E i \in 1..Len(todo'[c]) : todo'[c][i] = Back(s)
    BY <1>2, <1>6
  <2>2. \A i, j \in 1..Len(todo'[c]) : todo'[c][i].s = todo'[c][j].s => i = j
    BY <1>2, <1>3, <1>6
  <2>3. Len(todo'[c]) \in Nat /\ at[c] # "decide"
    BY <1>1, <1>2, <1>6
  <2> QED
    BY <1>1, <1>2, <1>6, <1>7, <1>8, <2>1, <2>2, <2>3, BacksKeep
<1> QED
  BY <1>9, <1>10, <1>11

-----------------------------------------------------------------------------
(* An effect moves on to its next step.                                    *)
LEMMA MovedKeeps ==
    ASSUME PtyInv, NEW t \in Threads, NEW step \in {"pty", "screen", "announce"}, MovedOn(t, step),
           NEW x \in Item, x = todo[t][1], NEW y \in Item, y = [x EXCEPT !.step = step], ItemKnown(y),
           UNCHANGED <<life, table, bySession, deskSize, shown, at, req, asked, alone, right>>,
           \A z \in Sessions : z # x.s => pty'[z] = pty[z] /\ screen'[z] = screen[z],
           life[x.s] = "alive" /\ Carries(x) => Carries(y)'
    PROVE  ThreadsKnown' /\ CarryInv' /\ GoneKeepsNoBorrow'
<1> USE DEF PtyInv
<1>1. /\ x.s \in Sessions /\ y.s = x.s /\ 1 \in 1..Len(todo[t]) /\ todo'[t][1] = y
      /\ \A u \in Threads : u # t => todo'[u] = todo[u]
      /\ \A u \in Threads : Len(todo'[u]) = Len(todo[u])
      /\ \A u \in Threads : \A i \in 1..Len(todo[u]) : u # t \/ i # 1 => todo'[u][i] = todo[u][i]
      /\ \A u \in Threads : \A i \in 1..Len(todo[u]) : todo'[u][i].s = todo[u][i].s
  BY DEF MovedOn, Item
<1>2. ThreadsKnown'
  <2>1. at[t] = "idle"
    BY <1>1 DEF ThreadsKnown
  <2> QED
    BY <1>1, <2>1 DEF ThreadsKnown
<1>3. ItemsKnown'
  <2> SUFFICES ASSUME NEW u \in Threads, NEW i \in 1..Len(todo'[u])
               PROVE  /\ ItemKnown(todo'[u][i])
                      /\ \A j \in 1..Len(todo'[u]) : todo'[u][j].s = todo'[u][i].s => j = i
    BY DEF ItemsKnown, ItemKnown
  <2>1. ItemKnown(todo'[u][i])
    BY <1>1 DEF ItemsKnown
  <2> QED
    BY <1>1, <2>1 DEF ItemsKnown
<1>4. Lone'
  <2>1. \A u \in Threads, z \in Sessions : On(u, z)' <=> On(u, z)
    BY <1>1 DEF On
  <2> QED
    BY <2>1 DEF Lone
<1>5. Remembered'
  BY DEF Remembered
<1>6. \A z \in Sessions : z # x.s => SameAt(z)
  BY DEF SameAt
<1>7. Settled'
  <2> SUFFICES ASSUME NEW z \in Sessions, life'[z] = "alive", Untouched(z)'
               PROVE  SaidRight(z)' /\ Sized(z)'
    BY DEF Settled
  <2>1. z # x.s /\ Untouched(z)
    BY <1>1 DEF Untouched
  <2> QED
    BY <1>6, <2>1, SameSettled DEF Settled
<1>8. Underway'
  <2> SUFFICES ASSUME NEW w \in Item, Pending(w)', life'[w.s] = "alive", alone'[w.s]
               PROVE  Carries(w)'
    BY DEF Underway
  <2>1. w.s \in Sessions /\ Pending(x) /\ On(t, x.s)
    BY <1>1 DEF Item, Pending, On
  <2>2. PICK u \in Threads : \E i \in 1..Len(todo'[u]) : todo'[u][i] = w
    BY DEF Pending
  <2>3. PICK i \in 1..Len(todo[u]) : todo'[u][i] = w
    BY <1>1, <2>2
  <2>4. CASE u = t /\ i = 1
    <3>1. w = y
      BY <1>1, <2>3, <2>4
    <3>2. Carries(x)
      BY <1>1, <2>1, <3>1 DEF Underway
    <3> QED
      BY <1>1, <3>1, <3>2
  <2>5. CASE u # t \/ i # 1
    <3>1. todo[u][i] = w
      BY <1>1, <2>3, <2>5
    <3>2. Pending(w) /\ On(u, w.s)
      BY <3>1 DEF Pending, On
    <3>3. w.s # x.s
      BY <1>1, <2>1, <2>5, <3>1, <3>2 DEF Lone, ItemsKnown
    <3>4. Carries(w)
      BY <3>2 DEF Underway
    <3> QED
      BY <1>6, <2>1, <3>3, <3>4, SameCarries
  <2> QED
    BY <2>4, <2>5
<1>9. GoneKeepsNoBorrow'
  BY DEF GoneKeepsNoBorrow, Live
<1> QED
  BY <1>2, <1>3, <1>4, <1>5, <1>7, <1>8, <1>9 DEF CarryInv

(* An effect is done: a lone operation leaves its terminal as recorded.    *)
LEMMA ThroughKeeps ==
    ASSUME PtyInv, NEW t \in Threads, Through(t), NEW x \in Item, x = todo[t][1],
           NEW what \in SUBSET {"size", "said"}, Ends(x.s, what),
           UNCHANGED <<life, table, bySession, deskSize, at, req>>,
           \A z \in Sessions : z # x.s => pty'[z] = pty[z] /\ screen'[z] = screen[z] /\ shown'[z] = shown[z],
           life[x.s] = "alive" /\ alone[x.s] /\ Carries(x) => SaidRight(x.s)' /\ Sized(x.s)'
    PROVE  /\ ThreadsKnown' /\ CarryInv' /\ GoneKeepsNoBorrow'
           /\ right' \in [Sessions -> SUBSET {"size", "said"}] /\ UNCHANGED <<asked, alone>>
<1> USE DEF PtyInv
<1>1. /\ x.s \in Sessions /\ 1 \in 1..Len(todo[t])
      /\ \A u \in Threads : u # t => todo'[u] = todo[u]
      /\ \A i \in 1..Len(todo'[t]) : i + 1 \in 1..Len(todo[t]) /\ todo'[t][i] = todo[t][i + 1]
      /\ \A i \in 1..Len(todo[t]) : i # 1 => i - 1 \in 1..Len(todo'[t]) /\ todo'[t][i - 1] = todo[t][i]
      /\ \A i \in 1..Len(todo'[t]) : todo'[t][i].s # x.s
  BY DEF Through, Item
<1>2. /\ right' \in [Sessions -> SUBSET {"size", "said"}] /\ UNCHANGED <<asked, alone>>
      /\ \A z \in Sessions : z # x.s \/ ~alone[z] => right'[z] = right[z]
  <2>1. right[x.s] \in SUBSET {"size", "said"} /\ right[x.s] \cup what \in SUBSET {"size", "said"}
    BY <1>1 DEF TypeOK
  <2>2. /\ UNCHANGED <<asked, alone>>
        /\ right' = [right EXCEPT ![x.s] = IF alone[x.s] THEN right[x.s] \cup what ELSE right[x.s]]
    BY DEF Ends
  <2> QED
    BY <1>1, <2>1, <2>2 DEF TypeOK
<1>3. ThreadsKnown'
  <2>1. at[t] = "idle"
    BY <1>1 DEF ThreadsKnown
  <2> QED
    BY <1>1, <2>1 DEF ThreadsKnown
<1>4. ItemsKnown'
  <2> SUFFICES ASSUME NEW u \in Threads, NEW i \in 1..Len(todo'[u])
               PROVE  /\ ItemKnown(todo'[u][i])
                      /\ \A j \in 1..Len(todo'[u]) : todo'[u][j].s = todo'[u][i].s => j = i
    BY DEF ItemsKnown, ItemKnown
  <2>1. CASE u # t
    BY <1>1, <2>1 DEF ItemsKnown
  <2>2. CASE u = t
    <3>1. ItemKnown(todo'[u][i])
      BY <1>1, <2>2 DEF ItemsKnown
    <3>2. ASSUME NEW j \in 1..Len(todo'[u]), todo'[u][j].s = todo'[u][i].s PROVE j = i
      <4>1. i + 1 \in 1..Len(todo[t]) /\ j + 1 \in 1..Len(todo[t]) /\ todo[t][j + 1].s = todo[t][i + 1].s
        BY <1>1, <2>2, <3>2
      <4>2. j + 1 = i + 1
        BY <4>1 DEF ItemsKnown
      <4> QED
        BY <4>2
    <3> QED
      BY <3>1, <3>2
  <2> QED
    BY <2>1, <2>2
<1>5. \A u \in Threads, z \in Sessions : On(u, z)' => On(u, z)
  BY <1>1 DEF On
<1>6. Lone'
  BY <1>2, <1>5 DEF Lone
<1>7. Remembered'
  BY <1>2 DEF Remembered
<1>8. \A z \in Sessions : z # x.s => SameAt(z)
  BY <1>2 DEF SameAt
<1>9. On(t, x.s) /\ Pending(x)
  BY <1>1 DEF On, Pending
<1>10. Settled'
  <2> SUFFICES ASSUME NEW z \in Sessions, life'[z] = "alive", Untouched(z)'
               PROVE  SaidRight(z)' /\ Sized(z)'
    BY DEF Settled
  <2>1. CASE z = x.s /\ alone[z]
    BY <1>9, <2>1 DEF Underway
  <2>2. CASE z = x.s /\ ~alone[z]
    BY <1>2, <2>2 DEF Lone, SaidRight, Sized
  <2>3. CASE z # x.s
    <3>1. ASSUME NEW u \in Threads, NEW i \in 1..Len(todo[u]) PROVE todo[u][i].s # z
      <4>1. CASE u # t
        BY <1>1, <4>1 DEF Untouched
      <4>2. CASE u = t /\ i = 1
        BY <2>3, <4>2
      <4>3. CASE u = t /\ i # 1
        <5>1. i - 1 \in 1..Len(todo'[t]) /\ todo'[t][i - 1] = todo[u][i]
          BY <1>1, <4>3
        <5> QED
          BY <5>1 DEF Untouched
      <4> QED
        BY <4>1, <4>2, <4>3
    <3>2. Untouched(z)
      BY <3>1 DEF Untouched
    <3> QED
      BY <1>8, <2>3, <3>2, SameSettled DEF Settled
  <2> QED
    BY <2>1, <2>2, <2>3
<1>11. Underway'
  <2> SUFFICES ASSUME NEW w \in Item, Pending(w)', life'[w.s] = "alive", alone'[w.s]
               PROVE  Carries(w)'
    BY DEF Underway
  <2>1. w.s \in Sessions
    BY DEF Item
  <2>2. PICK u \in Threads : \E i \in 1..Len(todo'[u]) : todo'[u][i] = w
    BY DEF Pending
  <2>3. Pending(w) /\ On(u, w.s)
    <3>1. \E i \in 1..Len(todo[u]) : todo[u][i] = w
      BY <1>1, <2>2
    <3> QED
      BY <3>1 DEF Pending, On
  <2>4. w.s # x.s
    BY <1>1, <1>2, <1>9, <2>2, <2>3 DEF Lone
  <2>5. Carries(w)
    BY <1>2, <2>3 DEF Underway
  <2> QED
    BY <1>8, <2>1, <2>4, <2>5, SameCarries
<1>12. GoneKeepsNoBorrow'
  BY DEF GoneKeepsNoBorrow, Live
<1> QED
  BY <1>2, <1>3, <1>4, <1>6, <1>7, <1>10, <1>11, <1>12 DEF CarryInv

(* The first effect of a list, by itself and at its next step.             *)
LEMMA FirstItem ==
    ASSUME PtyInv, NEW t \in Threads, todo[t] # <<>>
    PROVE  /\ Next1(t) = todo[t][1] /\ todo[t][1] \in Item /\ todo[t][1].s \in Sessions
           /\ ItemKnown(todo[t][1])
<1>1. todo[t] \in Seq(Item)
  BY DEF PtyInv, TypeOK
<1>2. todo[t][1] \in Item /\ Head(todo[t]) = todo[t][1] /\ 1 \in 1..Len(todo[t])
  BY <1>1
<1>3. todo[t][1].s \in Sessions
  BY <1>2 DEF Item
<1> QED
  BY <1>2, <1>3 DEF Next1, PtyInv, ItemsKnown

(* The other fields of an effect that moves on stay.                       *)
LEMMA NextStep ==
    ASSUME NEW x \in Item, NEW step \in {"pty", "screen", "announce"}
    PROVE  \E y \in Item : /\ y = [x EXCEPT !.step = step] /\ y.step = step
                           /\ y.s = x.s /\ y.size = x.size /\ y.say = x.say /\ y.must = x.must
<1> DEFINE z == [x EXCEPT !.step = step]
<1>1. z \in Item
  BY DEF Item
<1>2. z.step = step /\ z.s = x.s /\ z.size = x.size /\ z.say = x.say /\ z.must = x.must
  BY DEF Item
<1> WITNESS z \in Item
<1> QED
  BY <1>2

(* resize_session sizes the PTY, or finds the session gone.                *)
LEMMA SizePtyKeeps ==
    ASSUME PtyInv, NEW t \in Threads, SizePty(t) PROVE PtyInv'
<1> USE DEF PtyInv
<1>1. todo[t] # <<>> /\ UNCHANGED <<life, table, bySession, deskSize, screen, shown, at, req, connects>>
  BY DEF SizePty, borrows
<1>2. PICK x \in Item : x = todo[t][1] /\ x = Next1(t) /\ x.s \in Sessions /\ ItemKnown(x)
  BY <1>1, FirstItem
<1>3. x.step = "pty" /\ x.size \in Sizes
  BY <1>2 DEF SizePty, ItemKnown
<1>4. CASE life[x.s] = "alive"
  <2>1. pty' = [pty EXCEPT ![x.s] = x.size] /\ Then(t, "screen") /\ UNCHANGED <<asked, alone, right>>
    BY <1>2, <1>4 DEF SizePty, ghosts
  <2>2. MovedOn(t, "screen")
    BY <1>1, <2>1, MovedOnFacts
  <2>3. PICK y \in Item : /\ y = [x EXCEPT !.step = "screen"] /\ y.step = "screen"
                          /\ y.s = x.s /\ y.size = x.size /\ y.say = x.say /\ y.must = x.must
    BY NextStep
  <2>4. pty'[x.s] = x.size /\ \A z \in Sessions : z # x.s => pty'[z] = pty[z]
    BY <1>2, <2>1 DEF TypeOK
  <2>5. TypeOK'
    BY <1>1, <1>2, <1>3, <2>1, <2>2 DEF TypeOK, MovedOn
  <2>6. ItemKnown(y)
    BY <1>2, <1>3, <2>3 DEF ItemKnown
  <2>7. Carries(x) => Carries(y)'
    BY <1>1, <1>3, <2>1, <2>3, <2>4 DEF Carries, SaidRight, SizeRight
  <2>8. ThreadsKnown' /\ CarryInv' /\ GoneKeepsNoBorrow'
    BY <1>1, <1>2, <2>1, <2>2, <2>3, <2>4, <2>6, <2>7, MovedKeeps
  <2> QED
    BY <2>5, <2>8 DEF CarryInv
<1>5. CASE life[x.s] # "alive" /\ x.must
  <2>1. todo' = [todo EXCEPT ![t] = Tail(@)] /\ Ends(x.s, {}) /\ UNCHANGED pty
    BY <1>2, <1>5 DEF SizePty, Finish
  <2>2. Through(t)
    BY <1>1, <2>1, ThroughFacts
  <2>3. /\ ThreadsKnown' /\ CarryInv' /\ GoneKeepsNoBorrow'
        /\ right' \in [Sessions -> SUBSET {"size", "said"}] /\ UNCHANGED <<asked, alone>>
    BY <1>1, <1>2, <1>5, <2>1, <2>2, ThroughKeeps
  <2>4. TypeOK'
    BY <1>1, <2>1, <2>2, <2>3 DEF TypeOK, Through
  <2> QED
    BY <2>3, <2>4 DEF CarryInv
<1>6. CASE life[x.s] # "alive" /\ ~x.must
  <2>1. Then(t, "announce") /\ UNCHANGED <<pty, asked, alone, right>>
    BY <1>2, <1>6 DEF SizePty, ghosts
  <2>2. MovedOn(t, "announce")
    BY <1>1, <2>1, MovedOnFacts
  <2>3. PICK y \in Item : /\ y = [x EXCEPT !.step = "announce"] /\ y.step = "announce"
                          /\ y.s = x.s /\ y.size = x.size /\ y.say = x.say /\ y.must = x.must
    BY NextStep
  <2>4. TypeOK'
    BY <1>1, <2>1, <2>2 DEF TypeOK, MovedOn
  <2>5. ItemKnown(y)
    BY <1>2, <1>6, <2>3 DEF ItemKnown
  <2>6. ThreadsKnown' /\ CarryInv' /\ GoneKeepsNoBorrow'
    BY <1>1, <1>2, <1>6, <2>1, <2>2, <2>3, <2>5, MovedKeeps
  <2> QED
    BY <2>4, <2>6 DEF CarryInv
<1> QED
  BY <1>4, <1>5, <1>6

(* ... and then the screen model.                                          *)
LEMMA SizeScreenKeeps ==
    ASSUME PtyInv, NEW t \in Threads, SizeScreen(t) PROVE PtyInv'
<1> USE DEF PtyInv
<1>1. todo[t] # <<>> /\ UNCHANGED <<life, table, bySession, deskSize, pty, shown, at, req, connects>>
  BY DEF SizeScreen, borrows
<1>2. PICK x \in Item : x = todo[t][1] /\ x = Next1(t) /\ x.s \in Sessions /\ ItemKnown(x)
  BY <1>1, FirstItem
<1>3. x.step = "screen" /\ x.size \in Sizes /\ screen' = [screen EXCEPT ![x.s] = x.size]
  BY <1>2 DEF SizeScreen, ItemKnown
<1>4. screen'[x.s] = x.size /\ \A z \in Sessions : z # x.s => screen'[z] = screen[z]
  BY <1>2, <1>3 DEF TypeOK
<1>5. CASE x.say = "quiet"
  <2>1. todo' = [todo EXCEPT ![t] = Tail(@)] /\ Ends(x.s, {"size"})
    BY <1>2, <1>5 DEF SizeScreen, Finish
  <2>2. Through(t)
    BY <1>1, <2>1, ThroughFacts
  <2>3. ASSUME alone[x.s], Carries(x) PROVE SaidRight(x.s)' /\ Sized(x.s)'
    <3>1. asked' = asked /\ ("said" \in right'[x.s] => "said" \in right[x.s])
      BY <1>2, <2>1 DEF Ends, TypeOK
    <3> QED
      BY <1>1, <1>3, <1>4, <1>5, <2>3, <3>1 DEF Carries, SaidRight, Sized, SizeRight
  <2>4. /\ ThreadsKnown' /\ CarryInv' /\ GoneKeepsNoBorrow'
        /\ right' \in [Sessions -> SUBSET {"size", "said"}] /\ UNCHANGED <<asked, alone>>
    BY <1>1, <1>2, <1>4, <2>1, <2>2, <2>3, ThroughKeeps
  <2>5. TypeOK'
    BY <1>1, <1>2, <1>3, <2>2, <2>4 DEF TypeOK, Through
  <2> QED
    BY <2>4, <2>5 DEF CarryInv
<1>6. CASE x.say # "quiet"
  <2>1. Then(t, "announce") /\ UNCHANGED <<asked, alone, right>>
    BY <1>2, <1>6 DEF SizeScreen, ghosts
  <2>2. MovedOn(t, "announce")
    BY <1>1, <2>1, MovedOnFacts
  <2>3. PICK y \in Item : /\ y = [x EXCEPT !.step = "announce"] /\ y.step = "announce"
                          /\ y.s = x.s /\ y.size = x.size /\ y.say = x.say /\ y.must = x.must
    BY NextStep
  <2>4. TypeOK'
    BY <1>1, <1>2, <1>3, <2>1, <2>2 DEF TypeOK, MovedOn
  <2>5. ItemKnown(y)
    BY <1>6, <2>3 DEF ItemKnown
  <2>6. Carries(x) => Carries(y)'
    BY <1>1, <1>3, <1>4, <1>6, <2>1, <2>3 DEF Carries, Sized, SizeRight
  <2>7. ThreadsKnown' /\ CarryInv' /\ GoneKeepsNoBorrow'
    BY <1>1, <1>2, <1>4, <2>1, <2>2, <2>3, <2>5, <2>6, MovedKeeps
  <2> QED
    BY <2>4, <2>7 DEF CarryInv
<1> QED
  BY <1>5, <1>6

(* The desk is told who has the terminal.                                  *)
LEMMA AnnounceKeeps ==
    ASSUME PtyInv, NEW t \in Threads, Announce(t) PROVE PtyInv'
<1> USE DEF PtyInv
<1>1. todo[t] # <<>> /\ UNCHANGED <<life, table, bySession, deskSize, pty, screen, at, req, connects>>
  BY DEF Announce, borrows, sizes
<1>2. PICK x \in Item : x = todo[t][1] /\ x = Next1(t) /\ x.s \in Sessions /\ ItemKnown(x)
  BY <1>1, FirstItem
<1> DEFINE what == IF x.size = None THEN {"said"} ELSE {"size", "said"}
<1>3. /\ x.step = "announce" /\ x.say # "quiet" /\ shown' = [shown EXCEPT ![x.s] = x.say]
      /\ todo' = [todo EXCEPT ![t] = Tail(@)] /\ Ends(x.s, what)
  BY <1>2 DEF Announce, Finish, ItemKnown
<1>4. shown'[x.s] = x.say /\ \A z \in Sessions : z # x.s => shown'[z] = shown[z]
  BY <1>2, <1>3 DEF TypeOK
<1>5. Through(t)
  BY <1>1, <1>3, ThroughFacts
<1>6. ASSUME alone[x.s], Carries(x) PROVE SaidRight(x.s)' /\ Sized(x.s)'
  <2>1. x.say = bySession[x.s]
    BY <1>3, <1>6 DEF Carries
  <2>2. asked' = asked
    BY <1>3 DEF Ends
  <2>3. CASE x.size = None
    <3>1. "size" \in right'[x.s] => "size" \in right[x.s]
      BY <1>2, <1>3, <2>3 DEF Ends, TypeOK
    <3> QED
      BY <1>1, <1>3, <1>4, <1>6, <2>1, <2>2, <2>3, <3>1 DEF Carries, SaidRight, Sized, SizeRight
  <2>4. CASE x.size # None
    BY <1>1, <1>3, <1>4, <1>6, <2>1, <2>2, <2>4 DEF Carries, SaidRight, Sized, SizeRight
  <2> QED
    BY <2>3, <2>4
<1>7. what \in SUBSET {"size", "said"}
  OBVIOUS
<1> HIDE DEF what
<1>8. /\ ThreadsKnown' /\ CarryInv' /\ GoneKeepsNoBorrow'
      /\ right' \in [Sessions -> SUBSET {"size", "said"}] /\ UNCHANGED <<asked, alone>>
  BY <1>1, <1>2, <1>3, <1>4, <1>5, <1>6, <1>7, ThroughKeeps
<1>9. TypeOK'
  <2>1. x.say \in Devices \cup {None}
    BY <1>3 DEF Item
  <2> QED
    BY <1>1, <1>2, <1>3, <1>5, <1>8, <2>1 DEF TypeOK, Through
<1> QED
  BY <1>8, <1>9 DEF CarryInv

-----------------------------------------------------------------------------
(* A daemon that starts has lent no terminal.                              *)
LEMMA PtyInvInit == Init => PtyInv
<1> SUFFICES ASSUME Init PROVE PtyInv
  OBVIOUS
<1>1. \A t \in Threads : todo[t] = <<>> /\ Len(todo[t]) = 0 /\ at[t] = "idle"
  BY DEF Init
<1>2. todo \in [Threads -> Seq(Item)]
  <2>1. <<>> \in Seq(Item)
    OBVIOUS
  <2> QED
    BY <2>1 DEF Init
<1>3. TypeOK
  BY <1>2, PtyAssumption DEF Init, TypeOK
<1>4. ThreadsKnown /\ ItemsKnown
  BY <1>1 DEF ThreadsKnown, ItemsKnown
<1>5. GoneKeepsNoBorrow /\ Remembered
  BY DEF Init, GoneKeepsNoBorrow, Remembered
<1>6. Lone
  BY <1>1 DEF Init, Lone, On
<1>7. Settled
  BY DEF Init, Settled, SaidRight, Sized, SizeRight
<1>8. Underway
  BY <1>1 DEF Underway, Pending
<1> QED
  BY <1>3, <1>4, <1>5, <1>6, <1>7, <1>8 DEF PtyInv

(* Every handler and every step of one keeps the invariant.                *)
LEMMA PtyInvKept == PtyInv /\ [Next]_vars => PtyInv'
<1>1. ASSUME PtyInv, Next PROVE PtyInv'
  BY <1>1, ConnectKeeps, DisconnectKeeps, JudgeKeeps, GoneKeeps, ResizeKeeps, DecideDeskKeeps,
     DecideDeviceKeeps, GiveBackKeeps, SessionKeeps, SizePtyKeeps, SizeScreenKeeps, AnnounceKeeps
     DEF Next, DropWork, Work
<1>2. ASSUME PtyInv, UNCHANGED vars PROVE PtyInv'
  <2>1. CarryInv'
    BY <1>2, QuietKeeps DEF vars, PtyInv, CarryInv
  <2>2. TypeOK' /\ ThreadsKnown' /\ GoneKeepsNoBorrow'
    BY <1>2 DEF vars, PtyInv, TypeOK, ThreadsKnown, GoneKeepsNoBorrow, Live
  <2> QED
    BY <2>1, <2>2 DEF PtyInv, CarryInv
<1> QED
  BY <1>1, <1>2

(* The invariant holds in every state of every run of the daemon.          *)
THEOREM PtySafe == Spec => []PtyInv
  BY PtyInvInit, PtyInvKept, PTL DEF Spec

(* No Device that is gone keeps a terminal at its size, however its        *)
(* connections open and close around its resizes: device_gone and          *)
(* DeviceConnectionSlot::drop.                                             *)
THEOREM GoneDevicesKeepNothing == Spec => []GoneKeepsNoBorrow
<1>1. PtyInv => GoneKeepsNoBorrow
  BY DEF PtyInv
<1> QED
  BY PtySafe, <1>1, PTL

(* A terminal on which no two operations met since one ran alone has the   *)
(* size, and shows the borrower, that pty_borrow.rs records for it.        *)
THEOREM LoneOperationsMend == Spec => []RightUnlessCrossed
<1>1. PtyInv => RightUnlessCrossed
  BY FreeUntouched DEF PtyInv, Settled, RightUnlessCrossed, SaidRight, Sized, SizeRight
<1> QED
  BY PtySafe, <1>1, PTL
=============================================================================
