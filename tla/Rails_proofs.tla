---------------------------- MODULE Rails_proofs ----------------------------
(***************************************************************************)
(* The scheduler's safety for any rails, steps, kinds, triggers and bounds *)
(* of a loop.  The order of the argument:                                  *)
(*                                                                         *)
(*   - FlattenSeq, by which nextActions puts its decisions one after the   *)
(*     other, keeps every member and the place it comes from (by induction *)
(*     over the parts: SetInduction), so the steps of a rail are those of  *)
(*     its stages and what is decided apart stays apart;                   *)
(*   - what a pass decides is Due: it says of a step that it does not run, *)
(*     or has tries left, and that is so; and of what is left of the pass  *)
(*     one thing at most launches a step or sends its rail back (Apart);   *)
(*   - no press, restart, reload or refused write between two awaits makes *)
(*     what is left of a pass stale in these respects (Undisturbed): only  *)
(*     the pass itself starts a step, and of that one nothing is left;     *)
(*   - a running row names a session or needs none (RunningNamed), which   *)
(*     is why rule 3 relaunches nothing, and what a loop has spent its row *)
(*     counts, but for the refused writes (SpentCounted).                  *)
(*                                                                         *)
(* RailsInv is their conjunction with the types; no part of it is          *)
(* inductive without the others.                                           *)
(*                                                                         *)
(* That a stall pauses its rail is a claim about a quiet window, and needs *)
(* the converse: whatever could still move a rail is accounted for.        *)
(*                                                                         *)
(*   - The list that nextActions joins loses nothing, and has for each     *)
(*     rail what it says of its steps before what it says of the rail      *)
(*     (Ordered); of a step it says nothing if an earlier one of its stage *)
(*     is not finished (WalkSays), and a step whose turn it is has no such *)
(*     before it (InTurnClears);                                           *)
(*   - so each stalled step of a rail that runs, or that the pass will set *)
(*     running, is excused by something yet to come (StallsInv), and once  *)
(*     nothing is to come none is left (QuietStalls).                      *)
(*                                                                         *)
(* That a running rail is never stuck is one more claim of the kind.       *)
(*                                                                         *)
(*   - The walk of a rail ends at a stage it does not leave (WalkEnds),    *)
(*     whose first open step is waited on or written about (WalkTends), or *)
(*     it stops the rail; so each running rail is tended (Tended), by a    *)
(*     step that works on the stage where the pass takes the rail, or by   *)
(*     something that stops the rail or brings another pass, and each      *)
(*     action leaves it so (WaitsInv, QuietWaits).                         *)
(*                                                                         *)
(* That a quiet row is true looks at the rows instead of the rails.        *)
(*                                                                         *)
(*   - A step that nothing can finish is written about by both rules       *)
(*     (UntrueSpoken), and the next pass comes to it, unless an earlier    *)
(*     step is open (WalkTells), because no rail is ever at a stage past a *)
(*     step that runs or that the pass is launching (CursorInv);           *)
(*   - nor will it be: a pass takes a rail past a step that runs only once *)
(*     it has marked it done (MoveInv, WalkMoves), and that mark comes     *)
(*     first (Ordered).                                                    *)
(***************************************************************************)
EXTENDS Rails, TLAPS, WellFoundedInduction

----------------------------------------------------------------------------
(* Flattening *)

\* A set of naturals that has 0, and n + 1 with every n, has them all: the
\* least natural it lacks would have a predecessor it has.
LEMMA SetInduction ==
    ASSUME NEW S \in SUBSET Nat, 0 \in S, \A n \in S : n + 1 \in S
    PROVE  S = Nat
<1> SUFFICES ASSUME Nat \ S # {} PROVE FALSE
  OBVIOUS
<1>1. PICK m \in Nat \ S : \A k \in Nat \ S : <<k, m>> \notin OpToRel(<, Nat)
  BY WFMin, NatLessThanWellFounded, Zenon
<1>2. \A k \in Nat \ S : ~ (k < m)
  BY <1>1, Zenon DEF OpToRel
<1>3. m # 0 /\ m - 1 \in Nat
  OBVIOUS
<1>4. m - 1 \in S
  BY <1>2, <1>3
<1> QED
  BY <1>3, <1>4

\* FlattenSeq goes through the sequences one after the other.
LEMMA FlattenRuns ==
    ASSUME NEW R, NEW qs \in Seq(Seq(R)), Len(qs) # 0
    PROVE  \E f \in [1..Len(qs) -> Seq(R)] :
              /\ f[1] = qs[1]
              /\ \A i \in 2..Len(qs) : f[i] = f[i - 1] \o qs[i]
              /\ FlattenSeq(qs) = f[Len(qs)]
<1> DEFINE N == Len(qs)
           Step(f, i) == IF i = 1 THEN qs[i] ELSE f[i - 1] \o qs[i]
           Upto(n) == \E f \in [1..n -> Seq(R)] : \A i \in 1..n : f[i] = Step(f, i)
           S == {n \in Nat : n <= N => Upto(n)}
<1>0. N \in Nat \ {0} /\ \A i \in 1..N : qs[i] \in Seq(R)
  OBVIOUS
<1> HIDE DEF N
<1>1. Upto(0)
  <2>1. PICK f : f = [i \in 1..0 |-> <<>>]
    OBVIOUS
  <2>2. f \in [1..0 -> Seq(R)] /\ \A i \in 1..0 : f[i] = Step(f, i)
    BY <2>1
  <2> QED
    BY <2>2
<1>2. ASSUME NEW n \in Nat, n + 1 <= N, Upto(n)
      PROVE  Upto(n + 1)
  <2>1. PICK f \in [1..n -> Seq(R)] : \A i \in 1..n : f[i] = Step(f, i)
    BY <1>2
  <2>2. Step(f, n + 1) \in Seq(R)
    <3>1. CASE n = 0
      BY <1>0, <1>2, <3>1
    <3>2. CASE n # 0
      <4>1. f[n] \in Seq(R) /\ qs[n + 1] \in Seq(R) /\ n + 1 # 1 /\ (n + 1) - 1 = n
        BY <1>0, <1>2, <3>2
      <4>2. f[n] \o qs[n + 1] \in Seq(R)
        BY <4>1
      <4> QED
        BY <4>1, <4>2
    <3> QED
      BY <3>1, <3>2
  <2>3. PICK g : g = [i \in 1..n + 1 |-> IF i = n + 1 THEN Step(f, n + 1) ELSE f[i]]
    OBVIOUS
  <2>4. g[n + 1] = Step(f, n + 1) /\ \A i \in 1..n : g[i] = f[i]
    <3> HIDE DEF Step
    <3> QED
      BY <2>3
  <2>5. g \in [1..n + 1 -> Seq(R)]
    <3> HIDE DEF Step
    <3>1. \A i \in 1..n + 1 : (IF i = n + 1 THEN Step(f, n + 1) ELSE f[i]) \in Seq(R)
      BY <2>2
    <3> QED
      BY <2>3, <3>1
  <2>6. ASSUME NEW i \in 1..n + 1
        PROVE  g[i] = Step(g, i)
    <3>1. i # 1 => i - 1 \in 1..n /\ g[i - 1] = f[i - 1]
      BY <2>4
    <3>2. Step(g, i) = Step(f, i)
      BY <3>1
    <3>3. g[i] = Step(f, i)
      <4> HIDE DEF Step
      <4> QED
        BY <2>1, <2>4
    <3> QED
      BY <3>2, <3>3
  <2> HIDE DEF Step
  <2> QED
    BY <2>5, <2>6
<1>3. S = Nat
  <2>1. 0 \in S /\ \A n \in S : n + 1 \in S
    <3> HIDE DEF Upto
    <3> QED
      BY <1>0, <1>1, <1>2
  <2> HIDE DEF S
  <2>2. S \in SUBSET Nat
    BY DEF S
  <2> QED
    BY <2>1, <2>2, SetInduction
<1>4. Upto(N)
  <2> HIDE DEF Upto
  <2> QED
    BY <1>0, <1>3
<1>5. PICK f \in [1..N -> Seq(R)] : \A i \in 1..N : f[i] = Step(f, i)
  BY <1>4
<1>6. f = [i \in 1..N |-> Step(f, i)]
  <2> HIDE DEF Step
  <2> QED
    BY <1>5
<1> DEFINE flat == CHOOSE h : h = [i \in 1..N |-> Step(h, i)]
<1>7. flat = [i \in 1..N |-> Step(flat, i)]
  <2> HIDE DEF Step
  <2> QED
    BY <1>6, Zenon
<1>8. FlattenSeq(qs) = flat[N]
  BY <1>0 DEF FlattenSeq, N
<1>9. flat \in [1..N -> Seq(R)]
  <2> HIDE DEF flat
  <2>1. \A i \in 1..N : flat[i] = Step(flat, i)
    <3> HIDE DEF Step
    <3> QED
      BY <1>7
  <2> DEFINE K == {n \in Nat : n \in 1..N => flat[n] \in Seq(R)}
  <2>2. ASSUME NEW n \in K, n + 1 \in 1..N
        PROVE  flat[n + 1] \in Seq(R)
    <3>1. CASE n = 0
      <4>1. 1 \in 1..N /\ flat[1] = qs[1]
        BY <1>0, <2>1
      <4> QED
        BY <1>0, <3>1, <4>1
    <3>2. CASE n # 0
      <4>1. /\ flat[n] \in Seq(R) /\ qs[n + 1] \in Seq(R) /\ n + 1 # 1
            /\ (n + 1) - 1 = n
        BY <1>0, <2>2, <3>2
      <4>2. flat[n + 1] = flat[n] \o qs[n + 1]
        BY <2>1, <2>2, <4>1
      <4> QED
        BY <4>1, <4>2
    <3> QED
      BY <3>1, <3>2
  <2>0. 0 \in K /\ \A n \in K : n + 1 \in K
    BY <2>2
  <2> HIDE DEF K
  <2>3. K \in SUBSET Nat
    BY DEF K
  <2>4. K = Nat
    BY <2>0, <2>3, SetInduction
  <2>5. ASSUME NEW i \in 1..N PROVE flat[i] \in Seq(R)
    <3>1. i \in K
      BY <1>0, <2>4
    <3> QED
      BY <3>1 DEF K
  <2>6. DOMAIN flat = 1..N /\ flat = [i \in 1..N |-> flat[i]]
    <3> HIDE DEF Step
    <3> QED
      BY <1>7
  <2> QED
    BY <2>5, <2>6
<1>10. \A i \in 1..N : flat[i] = Step(flat, i)
  <2> HIDE DEF Step, flat
  <2> QED
    BY <1>7
<1>11. flat[1] = qs[1] /\ \A i \in 2..N : flat[i] = flat[i - 1] \o qs[i]
  <2> HIDE DEF flat
  <2>1. 1 \in 1..N /\ \A i \in 2..N : i \in 1..N /\ i # 1
    BY <1>0
  <2> QED
    BY <1>10, <2>1
<1> HIDE DEF flat
<1> QED
  BY <1>8, <1>9, <1>11 DEF N

\* Each member of `q` has a place of its own in the first `n` of `qs`, and the
\* places come in the same order.
Placed(q, qs, n) ==
    \E at \in [1..Len(q) -> (1..n) \X Nat] :
        /\ \A i, j \in 1..Len(q) : at[i] = at[j] => i = j
        /\ \A i, j \in 1..Len(q) :
              i < j => \/ at[i][1] < at[j][1]
                       \/ at[i][1] = at[j][1] /\ at[i][2] < at[j][2]
        /\ \A i \in 1..Len(q) :
              /\ at[i][2] \in 1..Len(qs[at[i][1]])
              /\ q[i] = qs[at[i][1]][at[i][2]]

\* What is flattened are sequences of the set the parts are of, and each
\* member comes from a place of its own.
LEMMA FlattenPlaces ==
    ASSUME NEW R, NEW qs \in Seq(Seq(R))
    PROVE  FlattenSeq(qs) \in Seq(R) /\ Placed(FlattenSeq(qs), qs, Len(qs))
<1>1. CASE Len(qs) = 0
  <2>1. FlattenSeq(qs) = <<>>
    BY <1>1 DEF FlattenSeq
  <2>2. PICK at : at = [i \in 1..0 |-> <<0, 0>>]
    OBVIOUS
  <2>3. Len(<<>>) = 0
    OBVIOUS
  <2>4. at \in [1..0 -> (1..Len(qs)) \X Nat]
    BY <2>2
  <2>5. (\A i, j \in 1..0 : FALSE) /\ \A i \in 1..0 : FALSE
    OBVIOUS
  <2>6. Placed(<<>>, qs, Len(qs))
    BY <2>3, <2>4, <2>5 DEF Placed
  <2> QED
    BY <2>1, <2>6
<1>2. CASE Len(qs) # 0
  <2> DEFINE N == Len(qs)
  <2>1. PICK f \in [1..N -> Seq(R)] :
              /\ f[1] = qs[1]
              /\ \A i \in 2..N : f[i] = f[i - 1] \o qs[i]
              /\ FlattenSeq(qs) = f[N]
    BY <1>2, FlattenRuns
  <2>2. N \in Nat \ {0} /\ \A i \in 1..N : qs[i] \in Seq(R)
    BY <1>2
  <2> HIDE DEF N
  <2>3. Placed(f[1], qs, 1)
    <3>1. f[1] = qs[1] /\ qs[1] \in Seq(R) /\ Len(qs[1]) \in Nat
      BY <2>1, <2>2
    <3>2. PICK at : at = [i \in 1..Len(qs[1]) |-> <<1, i>>]
      OBVIOUS
    <3>3. at \in [1..Len(qs[1]) -> (1..1) \X Nat]
      BY <3>1, <3>2
    <3>4. \A i \in 1..Len(qs[1]) : at[i][1] = 1 /\ at[i][2] = i
      BY <3>2
    <3>5. /\ \A i, j \in 1..Len(qs[1]) : at[i] = at[j] => i = j
          /\ \A i, j \in 1..Len(qs[1]) :
                i < j => \/ at[i][1] < at[j][1]
                         \/ at[i][1] = at[j][1] /\ at[i][2] < at[j][2]
      BY <3>4
    <3>6. \A i \in 1..Len(qs[1]) : /\ at[i][2] \in 1..Len(qs[at[i][1]])
                                   /\ qs[1][i] = qs[at[i][1]][at[i][2]]
      BY <3>4
    <3>7. Placed(qs[1], qs, 1)
      BY <3>3, <3>5, <3>6 DEF Placed
    <3> QED
      BY <3>1, <3>7
  <2>4. ASSUME NEW n \in 1..N, n + 1 \in 1..N, Placed(f[n], qs, n)
        PROVE  Placed(f[n + 1], qs, n + 1)
    <3>1. PICK p \in Seq(R), q \in Seq(R) :
            p = f[n] /\ q = qs[n + 1] /\ f[n + 1] = p \o q
      <4>1. f[n] \in Seq(R) /\ qs[n + 1] \in Seq(R)
        BY <2>1, <2>2, <2>4
      <4>2. n + 1 \in 2..N /\ (n + 1) - 1 = n
        BY <2>2, <2>4
      <4>3. f[n + 1] = f[n] \o qs[n + 1]
        BY <2>1, <4>2
      <4> QED
        BY <4>1, <4>3
    <3>2. PICK at \in [1..Len(p) -> (1..n) \X Nat] :
            /\ \A i, j \in 1..Len(p) : at[i] = at[j] => i = j
            /\ \A i, j \in 1..Len(p) :
                  i < j => \/ at[i][1] < at[j][1]
                           \/ at[i][1] = at[j][1] /\ at[i][2] < at[j][2]
            /\ \A i \in 1..Len(p) :
                  /\ at[i][2] \in 1..Len(qs[at[i][1]])
                  /\ p[i] = qs[at[i][1]][at[i][2]]
      BY <2>4, <3>1 DEF Placed
    <3> DEFINE L == Len(p)
               M == Len(p \o q)
    <3>3. /\ L \in Nat /\ M = L + Len(q) /\ Len(q) \in Nat
          /\ \A i \in 1..L : (p \o q)[i] = p[i]
          /\ \A i \in L + 1..M : i - L \in 1..Len(q) /\ (p \o q)[i] = q[i - L]
      BY <3>1
    <3> HIDE DEF L, M
    <3>4. PICK to : to = [i \in 1..M |-> IF i <= L THEN at[i] ELSE <<n + 1, i - L>>]
      OBVIOUS
    <3>5. \A i \in 1..M : IF i <= L THEN i \in 1..L /\ to[i] = at[i]
                         ELSE i \in L + 1..M /\ to[i] = <<n + 1, i - L>>
      BY <3>3, <3>4
    <3>6. \A i \in 1..L : /\ at[i] \in (1..n) \X Nat /\ at[i][1] # n + 1
                          /\ at[i][1] \in 1..n /\ at[i][2] \in Nat
      <4>1. \A i \in 1..L : at[i] \in (1..n) \X Nat
        BY <3>2 DEF L
      <4>2. \A z \in (1..n) \X Nat : z[1] \in 1..n /\ z[2] \in Nat /\ z[1] # n + 1
        BY <2>2
      <4> QED
        BY <4>1, <4>2
    <3>7. to \in [1..M -> (1..n + 1) \X Nat]
      <4>1. \A i \in 1..L : at[i] \in (1..n + 1) \X Nat
        BY <3>6
      <4>2. \A i \in L + 1..M : <<n + 1, i - L>> \in (1..n + 1) \X Nat
        BY <3>3
      <4> QED
        BY <3>4, <3>5, <4>1, <4>2
    <3>8. ASSUME NEW i \in 1..M, NEW j \in 1..M, to[i] = to[j]
          PROVE  i = j
      <4>1. (i <= L) <=> (j <= L)
        <5>1. (i <= L => to[i][1] # n + 1) /\ (~(i <= L) => to[i][1] = n + 1)
          BY <3>5, <3>6
        <5>2. (j <= L => to[j][1] # n + 1) /\ (~(j <= L) => to[j][1] = n + 1)
          BY <3>5, <3>6
        <5> QED
          BY <3>8, <5>1, <5>2
      <4>2. CASE i <= L
        BY <3>2, <3>5, <3>8, <4>1, <4>2 DEF L
      <4>3. CASE ~(i <= L)
        BY <3>3, <3>5, <3>8, <4>1, <4>3
      <4> QED
        BY <4>2, <4>3
    <3>9. ASSUME NEW i \in 1..M
          PROVE  /\ to[i][2] \in 1..Len(qs[to[i][1]])
                 /\ (p \o q)[i] = qs[to[i][1]][to[i][2]]
      <4>1. CASE i <= L
        BY <3>2, <3>3, <3>5, <4>1 DEF L
      <4>2. CASE ~(i <= L)
        <5>1. to[i][1] = n + 1 /\ to[i][2] = i - L /\ i \in L + 1..M
          BY <3>5, <4>2
        <5> QED
          BY <3>1, <3>3, <5>1
      <4> QED
        BY <4>1, <4>2
    <3>11. ASSUME NEW i \in 1..M, NEW j \in 1..M, i < j
           PROVE  \/ to[i][1] < to[j][1]
                  \/ to[i][1] = to[j][1] /\ to[i][2] < to[j][2]
      <4>1. CASE j <= L
        <5>1. i \in 1..L /\ j \in 1..L /\ to[i] = at[i] /\ to[j] = at[j]
          BY <3>3, <3>5, <3>11, <4>1
        <5>2. \A x, y \in 1..L :
                x < y => \/ at[x][1] < at[y][1]
                         \/ at[x][1] = at[y][1] /\ at[x][2] < at[y][2]
          BY <3>2 DEF L
        <5> QED
          BY <3>11, <5>1, <5>2
      <4>2. CASE i <= L /\ ~(j <= L)
        <5>1. to[i][1] \in 1..n /\ to[j][1] = n + 1
          BY <3>5, <3>6, <4>2
        <5> QED
          BY <5>1
      <4>3. CASE ~(i <= L) /\ ~(j <= L)
        <5>1. to[i] = <<n + 1, i - L>> /\ to[j] = <<n + 1, j - L>>
          BY <3>5, <4>3
        <5>2. to[i][1] = to[j][1] /\ to[i][2] = i - L /\ to[j][2] = j - L
          BY <5>1
        <5>3. i - L < j - L
          BY <3>3, <3>11
        <5> QED
          BY <5>2, <5>3
      <4> QED
        BY <3>3, <3>11, <4>1, <4>2, <4>3
    <3>10. Placed(p \o q, qs, n + 1)
      BY <3>7, <3>8, <3>9, <3>11 DEF Placed, M
    <3> QED
      BY <3>1, <3>10
  <2> DEFINE K == {n \in Nat : n \in 1..N => Placed(f[n], qs, n)}
  <2>5. K = Nat
    <3>1. ASSUME NEW n \in K, n + 1 \in 1..N
          PROVE  Placed(f[n + 1], qs, n + 1)
      <4>1. CASE n = 0
        <5>1. n + 1 = 1
          BY <4>1
        <5> QED
          BY <2>3, <5>1
      <4>2. CASE n # 0
        <5>1. n \in 1..N
          BY <2>2, <3>1, <4>2
        <5> QED
          BY <2>4, <3>1, <5>1
      <4> QED
        BY <4>1, <4>2
    <3>2. 0 \in K /\ \A n \in K : n + 1 \in K
      BY <3>1
    <3> HIDE DEF K
    <3>3. K \in SUBSET Nat
      BY DEF K
    <3> QED
      BY <3>2, <3>3, SetInduction
  <2>6. Placed(f[N], qs, N)
    <3>1. N \in K
      <4> HIDE DEF K
      <4> QED
        BY <2>2, <2>5
    <3> QED
      BY <2>2, <3>1
  <2>7. FlattenSeq(qs) \in Seq(R)
    BY <2>1, <2>2
  <2>8. Placed(FlattenSeq(qs), qs, N)
    BY <2>1, <2>6
  <2> QED
    BY <2>7, <2>8 DEF N
<1> QED
  BY <1>1, <1>2

\* ... and every member of every part is there.
LEMMA FlattenCovers ==
    ASSUME NEW R, NEW qs \in Seq(Seq(R)), NEW k \in 1..Len(qs), NEW m \in 1..Len(qs[k])
    PROVE  \E i \in 1..Len(FlattenSeq(qs)) : FlattenSeq(qs)[i] = qs[k][m]
<1> DEFINE N == Len(qs)
<1>0. Len(qs) # 0
  OBVIOUS
<1>1. PICK f \in [1..N -> Seq(R)] :
            /\ f[1] = qs[1]
            /\ \A i \in 2..N : f[i] = f[i - 1] \o qs[i]
            /\ FlattenSeq(qs) = f[N]
  BY <1>0, FlattenRuns
<1>2. N \in Nat \ {0} /\ k \in 1..N /\ \A i \in 1..N : qs[i] \in Seq(R)
  OBVIOUS
<1> HIDE DEF N
<1> DEFINE Has(n) == \E i \in 1..Len(f[n]) : f[n][i] = qs[k][m]
<1>3. Has(k)
  <2>1. CASE k = 1
    BY <1>1, <2>1
  <2>2. CASE k # 1
    <3>1. PICK p \in Seq(R), q \in Seq(R) : p = f[k - 1] /\ q = qs[k] /\ f[k] = p \o q
      <4>1. k \in 2..N /\ k - 1 \in 1..N
        BY <1>2, <2>2
      <4> QED
        BY <1>1, <1>2, <4>1
    <3>2. m \in 1..Len(q) /\ Len(p) \in Nat /\ Len(q) \in Nat
      BY <3>1
    <3>3. Len(p) + m \in 1..Len(p \o q) /\ (p \o q)[Len(p) + m] = q[m]
      BY <3>2
    <3> QED
      BY <3>1, <3>3
  <2> QED
    BY <2>1, <2>2
<1>4. ASSUME NEW n \in k..N, n + 1 <= N, Has(n)
      PROVE  Has(n + 1)
  <2>1. PICK p \in Seq(R), q \in Seq(R) : p = f[n] /\ f[n + 1] = p \o q
    <3>1. n \in 1..N /\ n + 1 \in 2..N /\ n + 1 \in 1..N /\ (n + 1) - 1 = n
      BY <1>2, <1>4
    <3>2. f[n] \in Seq(R) /\ qs[n + 1] \in Seq(R)
      BY <1>1, <1>2, <3>1
    <3>3. f[n + 1] = f[n] \o qs[n + 1]
      BY <1>1, <3>1
    <3> QED
      BY <3>2, <3>3
  <2>2. PICK i \in 1..Len(p) : p[i] = qs[k][m]
    BY <1>4, <2>1
  <2>3. i \in 1..Len(p \o q) /\ (p \o q)[i] = p[i]
    BY <2>1, <2>2
  <2> QED
    BY <2>1, <2>2, <2>3
<1> HIDE DEF Has
<1> DEFINE K == {n \in Nat : n \in k..N => Has(n)}
<1>5. K = Nat
  <2>1. ASSUME NEW n \in K, n + 1 \in k..N
        PROVE  Has(n + 1)
    <3>1. CASE n + 1 = k
      BY <1>3, <3>1
    <3>2. CASE n + 1 # k
      <4>1. n \in k..N /\ n + 1 <= N
        BY <1>2, <2>1, <3>2
      <4> QED
        BY <1>4, <2>1, <4>1
    <3> QED
      BY <3>1, <3>2
  <2>2. 0 \in K
    <3>1. 0 \notin k..N
      BY <1>2
    <3> QED
      BY <3>1
  <2>3. \A n \in K : n + 1 \in K
    BY <2>1
  <2> HIDE DEF K
  <2>4. K \in SUBSET Nat
    BY DEF K
  <2> QED
    BY <2>2, <2>3, <2>4, SetInduction
<1>6. Has(N)
  <2>1. N \in K
    <3> HIDE DEF K
    <3> QED
      BY <1>2, <1>5
  <2> QED
    BY <1>2, <2>1
<1> QED
  BY <1>1, <1>6 DEF Has, N
----------------------------------------------------------------------------
(* What a pass has left *)

\* The kinds of action that are about a step, those of them that launch it
\* or send its rail back, and those that are about a rail.
Stepped == {"markDone", "stall", "launch", "loopExhausted", "loopBack", "count", "rearm",
            "exhaust", "create", "bind"}
Claims == {"launch", "create", "bind", "loopBack", "count"}
Railed == {"complete", "advance", "arm", "setRail", "unpause", "startRail"}
Loops == {"until", "pr"}
Ops == [kind : Stepped \cup Railed, step : Steps \cup {"none"}, rail : RailSet \cup {"none"},
        st : {"none", "running", "paused"}, n : Nat]

\* What an action carries is what its handler reads of it.
StepAction(a) ==
    /\ a.step \in Steps
    /\ a.kind \in {"loopBack", "count"} => a.n \in 1..MaxTries /\ Kind[a.step] \in Loops
    /\ a.kind = "loopBack" => Before[a.step] \in Steps
    /\ a.kind \in {"create", "bind"} => Kind[a.step] \notin {"review", "pr"}
RailAction(a) == a.rail \in RailSet /\ (a.kind = "setRail" => a.st \in {"running", "paused"})
Sound(a) == (a.kind \in Stepped => StepAction(a)) /\ (a.kind \in Railed => RailAction(a))

\* What an action was decided on still stands: a step to be launched does
\* not run, one to be bound has its session, and a count to be written
\* leaves room for the loop-back it counts.
Stands(a) ==
    /\ a.kind \in {"launch", "create"} => row[a.step].st # "running"
    /\ a.kind = "bind" => ses[a.step] # "none"
    /\ a.kind \in {"loopBack", "count"} => spent[a.step] + 1 <= a.n + refused

\* The actions a pass may hold in this state.
Due == {a \in Ops : Sound(a) /\ Stands(a)}

\* Of what is left of a pass, one thing at most launches a step or sends its
\* rail back.
Apart(q) ==
    \A i, j \in 1..Len(q) :
        q[i].kind \in Claims /\ q[j].kind \in Claims /\ q[i].step = q[j].step => i = j

\* The steps a sequence of actions launches or sends back are of `X`.
Within(q, X) == \A i \in 1..Len(q) : q[i].kind \in Claims => q[i].step \in X

\* A sequence is one of whatever set its members are of.
LEMMA SeqMembers ==
    ASSUME NEW A, NEW B, NEW q \in Seq(A), \A i \in 1..Len(q) : q[i] \in B
    PROVE  q \in Seq(B)
<1>1. q = [i \in 1..Len(q) |-> q[i]] /\ Len(q) \in Nat
  OBVIOUS
<1>2. q \in [1..Len(q) -> B]
  BY <1>1
<1> QED
  BY <1>1, <1>2

\* Sequences that launch apart, about steps apart, do so one after the other:
\* nextActions takes each stage, and each rail, once.
LEMMA FlattenApart ==
    ASSUME NEW R, NEW qs \in Seq(Seq(R)), NEW X,
           \A k \in 1..Len(qs) : Apart(qs[k]) /\ Within(qs[k], X[k]),
           \A k, l \in 1..Len(qs) : X[k] \cap X[l] # {} => k = l
    PROVE  Apart(FlattenSeq(qs))
<1> DEFINE q == FlattenSeq(qs)
<1>0. Placed(q, qs, Len(qs))
  BY FlattenPlaces
<1> HIDE DEF q
<1>1. PICK at \in [1..Len(q) -> (1..Len(qs)) \X Nat] :
            /\ \A i, j \in 1..Len(q) : at[i] = at[j] => i = j
            /\ \A i \in 1..Len(q) :
                  /\ at[i][2] \in 1..Len(qs[at[i][1]])
                  /\ q[i] = qs[at[i][1]][at[i][2]]
  BY <1>0, Zenon DEF Placed
<1> SUFFICES ASSUME NEW i \in 1..Len(q), NEW j \in 1..Len(q),
                    q[i].kind \in Claims, q[j].kind \in Claims, q[i].step = q[j].step
             PROVE  i = j
  BY DEF Apart, q
<1> DEFINE k == at[i][1]
           m == at[i][2]
           l == at[j][1]
           n == at[j][2]
<1>8. \A z \in (1..Len(qs)) \X Nat : z = <<z[1], z[2]>> /\ z[1] \in 1..Len(qs)
  OBVIOUS
<1>2. k \in 1..Len(qs) /\ m \in 1..Len(qs[k]) /\ q[i] = qs[k][m] /\ at[i] = <<k, m>>
  BY <1>1, <1>8
<1>3. l \in 1..Len(qs) /\ n \in 1..Len(qs[l]) /\ q[j] = qs[l][n] /\ at[j] = <<l, n>>
  BY <1>1, <1>8
<1> HIDE DEF k, m, l, n
<1>4. q[i].step \in X[k] \cap X[l]
  BY <1>2, <1>3 DEF Within
<1>5. k = l
  BY <1>2, <1>3, <1>4
<1>6. m = n
  BY <1>2, <1>3, <1>5 DEF Apart
<1>7. at[i] = at[j]
  BY <1>2, <1>3, <1>5, <1>6
<1> QED
  BY <1>1, <1>7

\* ... and they are about the steps any of them is about.
LEMMA FlattenWithin ==
    ASSUME NEW R, NEW qs \in Seq(Seq(R)), NEW Y,
           \A k \in 1..Len(qs) : Within(qs[k], Y)
    PROVE  Within(FlattenSeq(qs), Y)
<1> DEFINE q == FlattenSeq(qs)
<1>0. Placed(q, qs, Len(qs))
  BY FlattenPlaces
<1> HIDE DEF q
<1>1. PICK at \in [1..Len(q) -> (1..Len(qs)) \X Nat] :
            \A i \in 1..Len(q) :
                  /\ at[i][2] \in 1..Len(qs[at[i][1]])
                  /\ q[i] = qs[at[i][1]][at[i][2]]
  BY <1>0, Zenon DEF Placed
<1>2. ASSUME NEW i \in 1..Len(q), q[i].kind \in Claims
      PROVE  q[i].step \in Y
  BY <1>1, <1>2 DEF Within
<1> QED
  BY <1>2 DEF Within, q

----------------------------------------------------------------------------
(* The plan *)

\* A rail's steps are its stages', one stage after another (flatSteps).
LEMMA FlatFacts ==
    ASSUME NEW r \in RailSet
    PROVE  /\ FlatSteps[r] \in Seq(StepsOf[r])
           /\ \A s \in StepsOf[r] : \E i \in 1..Len(FlatSteps[r]) : FlatSteps[r][i] = s
<1>1. FlatSteps[r] = FlattenSeq(Stages[r])
  BY DEF FlatSteps
<1>2. /\ Stages[r] \in Seq(Seq(Steps))
      /\ StepsOf[r] = UNION {{Stages[r][j][i] : i \in DOMAIN Stages[r][j]} :
                                j \in DOMAIN Stages[r]}
  BY RailsAssumption DEF StepsOf
<1>3. Stages[r] \in Seq(Seq(StepsOf[r]))
  <2>1. PICK qs \in Seq(Seq(Steps)) : qs = Stages[r]
    BY <1>2
  <2>2. ASSUME NEW j \in 1..Len(qs)
        PROVE  qs[j] \in Seq(StepsOf[r])
    <3>1. PICK q \in Seq(Steps) : q = qs[j]
      OBVIOUS
    <3>2. \A i \in 1..Len(q) : q[i] \in StepsOf[r]
      BY <1>2, <2>1, <3>1
    <3>3. q \in Seq(StepsOf[r])
      <4> HIDE DEF StepsOf, Steps
      <4> QED
        BY <3>2, SeqMembers
    <3> QED
      BY <3>1, <3>3
  <2>3. qs \in Seq(Seq(StepsOf[r]))
    <3> HIDE DEF StepsOf, Steps
    <3> QED
      BY <2>2, SeqMembers
  <2> QED
    BY <2>1, <2>3
<1>4. FlatSteps[r] \in Seq(StepsOf[r])
  BY <1>1, <1>3, FlattenPlaces
<1>5. ASSUME NEW s \in StepsOf[r]
      PROVE  \E i \in 1..Len(FlatSteps[r]) : FlatSteps[r][i] = s
  <2>0. PICK k \in DOMAIN Stages[r] : s \in {Stages[r][k][i] : i \in DOMAIN Stages[r][k]}
    BY <1>2
  <2>1. PICK m \in DOMAIN Stages[r][k] : s = Stages[r][k][m]
    BY <2>0
  <2>2. k \in 1..Len(Stages[r])
    BY <1>3, <2>1
  <2>3. Stages[r][k] \in Seq(StepsOf[r])
    BY <1>3, <2>2
  <2>4. m \in 1..Len(Stages[r][k])
    BY <2>1, <2>3
  <2> QED
    BY <1>1, <1>3, <2>1, <2>2, <2>4, FlattenCovers
<1> QED
  BY <1>4, <1>5

\* Every step is on a rail, at a stage, after a step of it or first
\* (railOwning, stageIdOfStep, stepBefore).
LEMMA Placing ==
    ASSUME NEW s \in Steps
    PROVE  /\ Owning[s] \in RailSet /\ s \in StepsOf[Owning[s]]
           /\ StageOf[s] \in Nat
           /\ Before[s] # "none" => Before[s] \in Steps /\ Before[s] \in StepsOf[Owning[s]]
<1>1. \E r \in RailSet : s \in StepsOf[r]
  BY DEF Steps
<1>2. Owning[s] = CHOOSE r \in RailSet : s \in StepsOf[r]
  BY DEF Owning
<1>3. Owning[s] \in RailSet /\ s \in StepsOf[Owning[s]]
  <2> HIDE DEF RailSet, StepsOf
  <2> QED
    BY <1>1, <1>2, Zenon
<1>4. PICK r \in RailSet : r = Owning[s] /\ s \in StepsOf[r]
  BY <1>3
<1>5. StageOf[s] \in Nat
  <2> DEFINE At(j) == \E i \in DOMAIN Stages[r][j] : Stages[r][j][i] = s
  <2>1. StageOf[s] = CHOOSE j \in DOMAIN Stages[r] : At(j)
    BY <1>4 DEF StageOf
  <2>2. Stages[r] \in Seq(Seq(Steps))
    BY RailsAssumption
  <2>3. \E j \in DOMAIN Stages[r] : At(j)
    BY <1>4 DEF StepsOf
  <2> HIDE DEF At
  <2>4. StageOf[s] \in DOMAIN Stages[r]
    BY <2>1, <2>3, Zenon
  <2> QED
    BY <2>2, <2>4
<1>6. ASSUME Before[s] # "none"
      PROVE  Before[s] \in Steps /\ Before[s] \in StepsOf[r]
  <2> DEFINE flat == FlatSteps[r]
             i == CHOOSE k \in DOMAIN flat : flat[k] = s
  <2>1. Before[s] = IF i = 1 THEN "none" ELSE flat[i - 1]
    BY <1>4 DEF Before
  <2>2. flat \in Seq(StepsOf[r]) /\ \E k \in 1..Len(flat) : flat[k] = s
    BY <1>4, FlatFacts
  <2> HIDE DEF flat
  <2>3. \E k \in DOMAIN flat : flat[k] = s
    BY <2>2
  <2>4. i \in DOMAIN flat
    BY <2>3, Zenon
  <2> HIDE DEF i
  <2>8. i # 1
    BY <1>6, <2>1
  <2>9. DOMAIN flat = 1..Len(flat) /\ Len(flat) \in Nat
    BY <2>2
  <2>5. i - 1 \in 1..Len(flat)
    BY <2>8, <2>9, <2>4
  <2>6. flat[i - 1] \in StepsOf[r]
    BY <2>2, <2>5
  <2>7. Before[s] \in StepsOf[r]
    BY <1>6, <2>1, <2>6
  <2> QED
    BY <2>7 DEF Steps
<1> QED
  BY <1>3, <1>4, <1>5, <1>6

----------------------------------------------------------------------------
(* The inductive invariant, and what nextActions decides under it *)

\* A step that runs has a session, or is one that needs none.
RunningNamed ==
    \A s \in Steps :
        row[s].st = "running" =>
            Kind[s] \in {"review", "pr"} \/ (row[s].ses /\ ses[s] # "none")

\* What a loop has spent its row counts, but for the writes refused; nothing
\* else spends.
SpentCounted ==
    \A s \in Steps :
        spent[s] <= (IF Kind[s] \in Loops THEN row[s].tries + refused ELSE 0)

RowsInv ==
    /\ rail \in [RailSet -> [st : {"idle", "running", "paused"}, at : Nat]]
    /\ row \in [Steps -> [st : {"pending", "running", "done", "stalled", "skipped"},
                          ses : BOOLEAN, tries : 0..MaxTries]]
    /\ spent \in [Steps -> Nat] /\ refused \in Nat
    /\ RunningNamed /\ SpentCounted

\* Sessions, cards and what the polls say.
WorldInv ==
    /\ ses \in [Steps -> Live \cup Dead \cup {"none"}]
    /\ card \subseteq Steps /\ blocked \subseteq Blockable /\ locked \subseteq Lockable
    /\ report \in [Steps -> {"waiting", "pass", "fail"}] /\ held \in BOOLEAN

\* A continuation of a pass runs only while the pass is under way, and
\* outside one nothing of it is left.
LoopInv ==
    /\ ticking \in BOOLEAN /\ tickAgain \in BOOLEAN /\ again \in BOOLEAN
    /\ cpu \in {"free", "tick", "pass", "hand"}
    /\ ~ticking => pass = <<>> /\ ~tickAgain /\ ~again
    /\ cpu \in {"tick", "pass"} => ticking

\* What a handler has left is about a step, a rail, or a tick.
Handed ==
    {a \in [kind : {"reset", "idle", "unpause", "tick"}, step : Steps \cup {"none"},
            rail : RailSet \cup {"none"}, st : {"none"}, n : Nat] :
        /\ a.kind = "reset" => a.step \in Steps
        /\ a.kind \in {"idle", "unpause"} => a.rail \in RailSet}
HandInv == hand \in Seq(Handed)

PassInv == pass \in Seq(Due) /\ Apart(pass)

RailsInv == RowsInv /\ WorldInv /\ LoopInv /\ HandInv /\ PassInv

Rules == {"none", "markDone", "stall", "launch", "loopExhausted", "loopBack"}

\* Rules 1 to 3 launch no step that runs already, and send back only a loop
\* with tries left and a step before it.
LEMMA RuleFacts ==
    ASSUME RowsInv, NEW s \in Steps
    PROVE  /\ Rule(s) \in Rules
           /\ Rule(s) = "launch" => row[s].st # "running"
           /\ Rule(s) = "loopBack" =>
                Kind[s] \in Loops /\ Before[s] # "none" /\ ~(row[s].tries >= MaxTries)
<1>1. \A passed \in BOOLEAN :
        /\ LoopVerdict(s, passed) \in {"markDone", "stall", "loopExhausted", "loopBack"}
        /\ LoopVerdict(s, passed) = "loopBack" =>
             Before[s] # "none" /\ ~(row[s].tries >= MaxTries)
  BY DEF LoopVerdict
<1>2. DeadSessionAction(s) \in {"markDone", "stall"}
  BY DEF DeadSessionAction
<1>3. ASSUME row[s].st = "running"
      PROVE  /\ RunningRule(s) \in Rules \ {"launch"}
             /\ RunningRule(s) = "loopBack" =>
                  Kind[s] \in Loops /\ Before[s] # "none" /\ ~(row[s].tries >= MaxTries)
  <2>1. ~(Kind[s] = "card" /\ SessionOf(s) = "none")
    BY <1>3 DEF RowsInv, RunningNamed, SessionOf
  <2> QED
    BY <1>1, <1>2, <2>1 DEF RunningRule, Rules, Loops
<1> QED
  BY <1>3 DEF Rule, Rules

\* The reconciling pass launches nothing.
LEMMA ReconcileFacts ==
    ASSUME NEW s \in Steps
    PROVE  ReconcileRule(s) \in {"none", "markDone", "stall"}
BY DEF ReconcileRule, DeadSessionAction

\* One action launches apart from itself.
LEMMA OneApart ==
    ASSUME NEW a, NEW X, a.kind \in Claims => a.step \in X
    PROVE  Apart(<<a>>) /\ Within(<<a>>, X) /\ Apart(<<>>) /\ Within(<<>>, X)
<1>1. Len(<<>>) = 0 /\ Len(<<a>>) = 1 /\ <<a>>[1] = a
  OBVIOUS
<1>2. (\A i \in 1..0 : FALSE) /\ \A i \in 1..1 : i = 1
  OBVIOUS
<1> QED
  BY <1>1, <1>2 DEF Apart, Within

\* What a rule says of a step a pass may hold.
LEMMA ActionIsDue ==
    ASSUME RowsInv, NEW s \in Steps, NEW k \in Rules,
           k = "launch" => row[s].st # "running",
           k = "loopBack" =>
               Kind[s] \in Loops /\ Before[s] # "none" /\ ~(row[s].tries >= MaxTries)
    PROVE  /\ ActionFor(k, s) \in Seq(Due) /\ Apart(ActionFor(k, s))
           /\ Within(ActionFor(k, s), {s})
           /\ k \in {"none", "markDone", "stall"} => Within(ActionFor(k, s), {})
<1>1. CASE k = "none"
  <2>1. ActionFor(k, s) = <<>>
    BY <1>1 DEF ActionFor
  <2>2. <<>> \in Seq(Due)
    OBVIOUS
  <2>3. StepOp("stall", s).kind \notin Claims
    BY DEF StepOp, Op, Claims
  <2>4. Apart(<<>>) /\ Within(<<>>, {s}) /\ Within(<<>>, {})
    BY <2>3, OneApart
  <2> QED
    BY <2>1, <2>2, <2>4
<1>2. CASE k # "none"
  <2> DEFINE a == IF k = "loopBack"
                   THEN Op(k, s, "none", "none", row[s].tries + 1) ELSE StepOp(k, s)
  <2>1. ActionFor(k, s) = <<a>>
    BY <1>2 DEF ActionFor
  <2>2. /\ a.kind = k /\ a.step = s /\ a.rail = "none" /\ a.st = "none"
        /\ a.n = IF k = "loopBack" THEN row[s].tries + 1 ELSE 0
        /\ a = [kind |-> a.kind, step |-> a.step, rail |-> a.rail, st |-> a.st, n |-> a.n]
    BY DEF StepOp, Op
  <2> HIDE DEF a
  <2>3. PICK n \in 0..MaxTries : n = row[s].tries
    BY DEF RowsInv
  <2>12. MaxTries \in Nat
    BY BoundsAssumption
  <2>13. a.n = (IF k = "loopBack" THEN n + 1 ELSE 0) /\ (k = "loopBack" => ~(n >= MaxTries))
    BY <2>2, <2>3
  <2>4. a.n \in Nat /\ (k = "loopBack" => a.n \in 1..MaxTries)
    BY <2>12, <2>13
  <2>5. k \in Stepped /\ k \notin {"create", "bind", "count"} /\ k \notin Railed
    BY <1>2 DEF Rules, Stepped, Railed
  <2>6. a \in Ops
    BY <2>2, <2>4, <2>5 DEF Ops
  <2>7. Sound(a)
    <3>1. k = "loopBack" => Before[s] \in Steps
      BY Placing
    <3> QED
      BY <2>2, <2>4, <2>5, <3>1 DEF Sound, StepAction
  <2>8. Stands(a)
    <3>1. k = "loopBack" => spent[s] + 1 <= a.n + refused
      <4>1. k = "loopBack" => spent[s] <= n + refused
        BY <2>3 DEF RowsInv, SpentCounted
      <4>2. spent[s] \in Nat /\ refused \in Nat /\ n \in Nat
        BY <2>12 DEF RowsInv
      <4> QED
        BY <2>13, <4>1, <4>2
    <3> QED
      BY <2>2, <2>5, <3>1 DEF Stands
  <2>9. a \in Due
    BY <2>6, <2>7, <2>8 DEF Due
  <2>10. k \in {"markDone", "stall"} => k \notin Claims
    BY DEF Claims
  <2>11. Apart(<<a>>) /\ Within(<<a>>, {s}) /\ (k \notin Claims => Within(<<a>>, {}))
    BY <2>2, OneApart
  <2> QED
    BY <1>2, <2>1, <2>9, <2>10, <2>11
<1> QED
  BY <1>1, <1>2

\* What a stage's walk decides a pass may hold, one thing for a step.
LEMMA WalkStageIsDue ==
    ASSUME RowsInv, NEW r \in RailSet, NEW j \in 1..Len(Stages[r])
    PROVE  /\ WalkStage(r, j) \in Seq(Due) /\ Apart(WalkStage(r, j))
           /\ Within(WalkStage(r, j), {Stages[r][j][i] : i \in DOMAIN Stages[r][j]})
<1>1. Stages[r] \in Seq(Seq(Steps))
  BY RailsAssumption
<1>2. PICK stage \in Seq(Steps) : stage = Stages[r][j]
  BY <1>1
<1> DEFINE k(i) == IF Reached(r, j, i) THEN Rule(stage[i]) ELSE "none"
           X == [i \in 1..Len(stage) |-> {stage[i]}]
           Y == {stage[i] : i \in 1..Len(stage)}
<1>3. PICK qs : qs = [i \in 1..Len(stage) |-> ActionFor(k(i), stage[i])]
  OBVIOUS
<1>4. WalkStage(r, j) = FlattenSeq(qs)
  <2>1. DOMAIN stage = 1..Len(stage)
    BY <1>2
  <2> QED
    BY <1>2, <1>3, <2>1 DEF WalkStage
<1>5. ASSUME NEW i \in 1..Len(stage)
      PROVE  /\ qs[i] \in Seq(Due) /\ Apart(qs[i]) /\ Within(qs[i], X[i])
             /\ Within(qs[i], Y)
  <2>1. stage[i] \in Steps
    BY <1>2
  <2>2. /\ k(i) \in Rules
        /\ k(i) = "launch" => row[stage[i]].st # "running"
        /\ k(i) = "loopBack" => /\ Kind[stage[i]] \in Loops /\ Before[stage[i]] # "none"
                                /\ ~(row[stage[i]].tries >= MaxTries)
    BY <2>1, RuleFacts DEF Rules
  <2> HIDE DEF k
  <2>3. /\ ActionFor(k(i), stage[i]) \in Seq(Due) /\ Apart(ActionFor(k(i), stage[i]))
        /\ Within(ActionFor(k(i), stage[i]), {stage[i]})
    BY <2>1, <2>2, ActionIsDue
  <2>4. qs[i] = ActionFor(k(i), stage[i])
    BY <1>3
  <2>5. X[i] = {stage[i]} /\ stage[i] \in Y
    OBVIOUS
  <2>6. Within(qs[i], Y)
    <3> HIDE DEF Y
    <3> QED
      BY <2>3, <2>4, <2>5 DEF Within
  <2> HIDE DEF X, Y
  <2> QED
    BY <2>3, <2>4, <2>5, <2>6
<1>6. Len(stage) \in Nat /\ Len(qs) = Len(stage) /\ qs \in Seq(Seq(Due))
  <2>1. Len(stage) \in Nat
    BY <1>2
  <2>2. qs \in [1..Len(stage) -> Seq(Due)]
    <3> HIDE DEF k
    <3> QED
      BY <1>3, <1>5
  <2> QED
    BY <2>1, <2>2
<1>7. ASSUME NEW i \in 1..Len(stage), NEW m \in 1..Len(stage), X[i] \cap X[m] # {}
      PROVE  i = m
  <2>1. stage[i] = stage[m]
    BY <1>7
  <2>2. j \in DOMAIN Stages[r] /\ i \in DOMAIN Stages[r][j] /\ m \in DOMAIN Stages[r][j]
    BY <1>1, <1>2
  <2> QED
    BY <1>2, <2>1, <2>2, OncesAssumption
<1> HIDE DEF X
<1>8. FlattenSeq(qs) \in Seq(Due)
  BY <1>6, FlattenPlaces
<1>9. Apart(FlattenSeq(qs))
  BY <1>5, <1>6, <1>7, FlattenApart
<1>10. Within(FlattenSeq(qs), Y)
  <2> HIDE DEF Y
  <2> QED
    BY <1>5, <1>6, FlattenWithin
<1>11. Y = {Stages[r][j][i] : i \in DOMAIN Stages[r][j]}
  BY <1>2
<1> QED
  BY <1>4, <1>8, <1>9, <1>10, <1>11

\* An action about a rail is one a pass may hold, and launches nothing.
LEMMA RailOpIsDue ==
    ASSUME NEW r \in RailSet, NEW k \in {"complete", "advance", "arm"}, NEW n \in Nat
    PROVE  /\ RailOp(k, r, n) \in Due
           /\ \A X : Within(<<RailOp(k, r, n)>>, X) /\ Apart(<<RailOp(k, r, n)>>)
<1>1. PICK a : a = RailOp(k, r, n)
  OBVIOUS
<1>2. a = [kind |-> k, step |-> "none", rail |-> r, st |-> "none", n |-> n]
  BY <1>1 DEF RailOp, Op
<1>3. a \in Ops
  BY <1>2 DEF Ops, Railed
<1>4. Sound(a) /\ Stands(a)
  BY <1>2 DEF Sound, Stands, RailAction, Stepped
<1>5. a.kind \notin Claims
  BY <1>2 DEF Claims
<1>6. \A X : Within(<<a>>, X) /\ Apart(<<a>>)
  BY <1>5, OneApart
<1> QED
  BY <1>1, <1>3, <1>4, <1>6 DEF Due

\* What a sequence launches apart it does with one more action that
\* launches nothing.
LEMMA AppendApart ==
    ASSUME NEW R, NEW p \in Seq(R), NEW a \in R, a.kind \notin Claims, Apart(p),
           NEW X, Within(p, X)
    PROVE  p \o <<a>> \in Seq(R) /\ Apart(p \o <<a>>) /\ Within(p \o <<a>>, X)
<1> DEFINE q == p \o <<a>>
<1>1. /\ q \in Seq(R) /\ Len(q) = Len(p) + 1 /\ Len(p) \in Nat
      /\ \A i \in 1..Len(p) : q[i] = p[i]
      /\ q[Len(p) + 1] = a
  OBVIOUS
<1> HIDE DEF q
<1>2. \A i \in 1..Len(q) : q[i].kind \in Claims => i \in 1..Len(p) /\ q[i] = p[i]
  BY <1>1
<1>3. Apart(q) /\ Within(q, X)
  BY <1>2 DEF Apart, Within
<1> QED
  BY <1>1, <1>3 DEF q

\* What the walk of a running rail decides (rules 1 to 4).
LEMMA WalkRailIsDue ==
    ASSUME RowsInv, NEW r \in RailSet
    PROVE  /\ WalkRail(r) \in Seq(Due) /\ Apart(WalkRail(r))
           /\ Within(WalkRail(r), StepsOf[r])
<1>1. CASE rail[r].at \notin DOMAIN Stages[r]
  <2>1. WalkRail(r) = <<RailOp("complete", r, 0)>>
    BY <1>1 DEF WalkRail
  <2>2. /\ RailOp("complete", r, 0) \in Due
        /\ Within(<<RailOp("complete", r, 0)>>, StepsOf[r])
        /\ Apart(<<RailOp("complete", r, 0)>>)
    BY RailOpIsDue
  <2> QED
    BY <2>1, <2>2
<1>2. CASE rail[r].at \in DOMAIN Stages[r]
  <2>1. Stages[r] \in Seq(Seq(Steps))
    BY RailsAssumption
  <2> DEFINE N == Len(Stages[r])
             passed(j) == j >= rail[r].at /\ \A k \in rail[r].at..j - 1 : StagePasses(r, k)
             left(j) == IF passed(j) THEN WalkStage(r, j) \o Leave(r, j) ELSE <<>>
             X == [j \in 1..N |-> {Stages[r][j][i] : i \in DOMAIN Stages[r][j]}]
  <2>2. PICK qs : qs = [j \in 1..N |-> left(j)]
    OBVIOUS
  <2>3. N \in Nat /\ DOMAIN Stages[r] = 1..N
    BY <2>1
  <2>4. WalkRail(r) = FlattenSeq(qs)
    BY <1>2, <2>2, <2>3 DEF WalkRail
  <2>5. ASSUME NEW j \in 1..N
        PROVE  /\ qs[j] \in Seq(Due) /\ Apart(qs[j]) /\ Within(qs[j], X[j])
               /\ Within(qs[j], StepsOf[r])
    <3>1. PICK w : w = WalkStage(r, j)
      OBVIOUS
    <3>2. w \in Seq(Due) /\ Apart(w) /\ Within(w, X[j])
      BY <3>1, WalkStageIsDue
    <3>3. X[j] \subseteq StepsOf[r]
      BY <2>3 DEF StepsOf
    <3> HIDE DEF X
    <3>4. w \o <<>> = w
      BY <3>2
    <3>5. PICK a : a \in Due /\ a.kind \notin Claims /\ Leave(r, j) \in {<<>>, <<a>>}
      <4>1. CASE j = N
        <5>1. PICK a : a = RailOp("complete", r, 0)
          OBVIOUS
        <5>2. a \in Due
          BY <5>1, RailOpIsDue
        <5>3. a.kind \notin Claims
          BY <5>1 DEF RailOp, Op, Claims
        <5>4. Leave(r, j) \in {<<>>, <<a>>}
          BY <4>1, <5>1 DEF Leave
        <5> QED
          BY <5>2, <5>3, <5>4
      <4>2. CASE j # N
        <5>1. PICK a : a = RailOp("advance", r, j + 1)
          OBVIOUS
        <5>0. j + 1 \in Nat
          BY <2>3
        <5>2. a \in Due
          BY <5>0, <5>1, RailOpIsDue
        <5>3. a.kind \notin Claims
          BY <5>1 DEF RailOp, Op, Claims
        <5>4. Leave(r, j) \in {<<>>, <<a>>}
          BY <4>2, <5>1 DEF Leave
        <5> QED
          BY <5>2, <5>3, <5>4
      <4> QED
        BY <4>1, <4>2
    <3>6. w \o <<a>> \in Seq(Due) /\ Apart(w \o <<a>>) /\ Within(w \o <<a>>, X[j])
      BY <3>2, <3>5, AppendApart
    <3>7. qs[j] \in {<<>>, w, w \o <<a>>}
      BY <2>2, <3>1, <3>4, <3>5
    <3>8. <<>> \in Seq(Due) /\ Apart(<<>>) /\ Within(<<>>, X[j])
      <4>1. <<>> \in Seq(Due)
        OBVIOUS
      <4>2. Apart(<<>>) /\ Within(<<>>, X[j])
        BY <3>5, OneApart, Zenon
      <4> QED
        BY <4>1, <4>2
    <3>9. qs[j] \in Seq(Due) /\ Apart(qs[j]) /\ Within(qs[j], X[j])
      BY <3>2, <3>6, <3>7, <3>8
    <3>10. Within(qs[j], StepsOf[r])
      BY <3>3, <3>9 DEF Within
    <3> QED
      BY <3>9, <3>10
  <2>6. Len(qs) = N /\ qs \in Seq(Seq(Due))
    <3>1. qs \in [1..N -> Seq(Due)]
      <4> HIDE DEF left
      <4> QED
        BY <2>2, <2>5
    <3> HIDE DEF N
    <3> QED
      BY <2>3, <3>1
  <2>7. ASSUME NEW j \in 1..N, NEW l \in 1..N, X[j] \cap X[l] # {}
        PROVE  j = l
    <3>1. PICK i \in DOMAIN Stages[r][j] : Stages[r][j][i] \in X[l]
      BY <2>7
    <3>2. PICK k \in DOMAIN Stages[r][l] : Stages[r][j][i] = Stages[r][l][k]
      BY <3>1
    <3> QED
      BY <2>3, <3>2, OncesAssumption
  <2> HIDE DEF N, X
  <2>8. FlattenSeq(qs) \in Seq(Due)
    BY <2>6, FlattenPlaces
  <2>9. Apart(FlattenSeq(qs))
    BY <2>5, <2>6, <2>7, FlattenApart
  <2>10. Within(FlattenSeq(qs), StepsOf[r])
    BY <2>5, <2>6, FlattenWithin
  <2> QED
    BY <2>4, <2>8, <2>9, <2>10
<1> QED
  BY <1>1, <1>2

\* A step is on one rail.
LEMMA StepsApart ==
    ASSUME NEW r \in RailSet, NEW q \in RailSet, NEW s, s \in StepsOf[r], s \in StepsOf[q]
    PROVE  r = q
<1>1. PICK j \in DOMAIN Stages[r] : s \in {Stages[r][j][i] : i \in DOMAIN Stages[r][j]}
  BY DEF StepsOf
<1>2. PICK l \in DOMAIN Stages[q] : s \in {Stages[q][l][i] : i \in DOMAIN Stages[q][l]}
  BY DEF StepsOf
<1>3. PICK i \in DOMAIN Stages[r][j] : s = Stages[r][j][i]
  BY <1>1
<1>4. PICK k \in DOMAIN Stages[q][l] : s = Stages[q][l][k]
  BY <1>2
<1>5. Stages[r][j][i] = Stages[q][l][k]
  BY <1>3, <1>4
<1>6. \A m \in DOMAIN Stages[r][j], n \in DOMAIN Stages[q][l] :
        Stages[r][j][m] = Stages[q][l][n] => r = q
  <2>1. \A x, y \in RailSet : \A a \in DOMAIN Stages[x], b \in DOMAIN Stages[y] :
          \A m \in DOMAIN Stages[x][a], n \in DOMAIN Stages[y][b] :
             Stages[x][a][m] = Stages[y][b][n] => x = y
    BY OncesAssumption
  <2>2. r \in RailSet /\ q \in RailSet /\ j \in DOMAIN Stages[r] /\ l \in DOMAIN Stages[q]
    OBVIOUS
  <2> QED
    BY <2>1, <2>2, Zenon
<1> QED
  BY <1>5, <1>6

\* The stage a rail is armed at is one of its own, or none.
LEMMA FirstUnfinishedType ==
    ASSUME NEW r \in RailSet
    PROVE  FirstUnfinished(r) \in Nat
<1> DEFINE Open(j) == \E i \in DOMAIN Stages[r][j] : ~Finished(row[Stages[r][j][i]].st)
           open == {j \in DOMAIN Stages[r] : Open(j)}
<1>1. FirstUnfinished(r) = IF open = {} THEN 0
                           ELSE CHOOSE j \in open : \A k \in open : j <= k
  BY DEF FirstUnfinished
<1>2. open \in SUBSET Nat
  <2>1. Stages[r] \in Seq(Seq(Steps))
    BY RailsAssumption
  <2> HIDE DEF Open
  <2> QED
    BY <2>1
<1> HIDE DEF open
<1>3. CASE open # {}
  <2>1. PICK m \in open : \A k \in open : <<k, m>> \notin OpToRel(<, Nat)
    BY <1>2, <1>3, WFMin, NatLessThanWellFounded, Zenon
  <2>2. \A k \in open : ~ (k < m)
    BY <1>2, <2>1, Zenon DEF OpToRel
  <2>3. \E j \in open : \A k \in open : j <= k
    BY <1>2, <2>2
  <2>4. (CHOOSE j \in open : \A k \in open : j <= k) \in open
    BY <2>3, Zenon
  <2> QED
    BY <1>1, <1>2, <1>3, <2>4
<1> QED
  BY <1>1, <1>3

\* What a pass writes about a rail that does not run, and rule 6.
LEMMA ReconcileRailIsDue ==
    ASSUME RowsInv, NEW r \in RailSet
    PROVE  /\ ReconcileRail(r) \in Seq(Due) /\ Apart(ReconcileRail(r))
           /\ Within(ReconcileRail(r), StepsOf[r])
<1>1. PICK flat \in Seq(StepsOf[r]) : flat = FlatSteps[r]
  BY FlatFacts
<1> DEFINE spoken(i) == ActionFor(ReconcileRule(flat[i]), flat[i])
           X == [i \in 1..Len(flat) |-> {}]
<1>2. PICK qs : qs = [i \in 1..Len(flat) |-> spoken(i)]
  OBVIOUS
<1>3. Len(flat) \in Nat /\ DOMAIN flat = 1..Len(flat)
  OBVIOUS
<1>4. ASSUME NEW i \in 1..Len(flat)
      PROVE  /\ qs[i] \in Seq(Due) /\ Apart(qs[i]) /\ Within(qs[i], X[i])
             /\ Within(qs[i], {})
  <2>1. flat[i] \in StepsOf[r]
    OBVIOUS
  <2>2. flat[i] \in Steps
    BY <2>1 DEF Steps
  <2>3. ReconcileRule(flat[i]) \in {"none", "markDone", "stall"}
    BY <2>2, ReconcileFacts
  <2>4. spoken(i) \in Seq(Due) /\ Apart(spoken(i)) /\ Within(spoken(i), {})
    BY <2>2, <2>3, ActionIsDue DEF Rules
  <2>5. qs[i] = spoken(i) /\ X[i] = {}
    BY <1>2
  <2> HIDE DEF spoken, X
  <2> QED
    BY <2>4, <2>5
<1>5. Len(qs) = Len(flat) /\ qs \in Seq(Seq(Due))
  <2>1. qs \in [1..Len(flat) -> Seq(Due)]
    <3> HIDE DEF spoken
    <3> QED
      BY <1>2, <1>4
  <2> QED
    BY <1>3, <2>1
<1>6. \A i, m \in 1..Len(flat) : X[i] \cap X[m] # {} => i = m
  OBVIOUS
<1> HIDE DEF X
<1>7. FlattenSeq(qs) \in Seq(Due)
  BY <1>5, FlattenPlaces
<1>8. Apart(FlattenSeq(qs))
  BY <1>4, <1>5, <1>6, FlattenApart
<1>9. Within(FlattenSeq(qs), {})
  BY <1>4, <1>5, FlattenWithin
<1>10. Within(FlattenSeq(qs), StepsOf[r])
  BY <1>9 DEF Within
<1> DEFINE arms == /\ FlattenSeq(qs) = <<>> /\ rail[r].st = "idle"
                   /\ FirstUnfinished(r) # 0 /\ TriggerFires(r)
<1>11. ReconcileRail(r) = IF arms THEN <<RailOp("arm", r, FirstUnfinished(r))>>
                          ELSE FlattenSeq(qs)
  BY <1>1, <1>2, <1>3 DEF ReconcileRail
<1>12. CASE arms
  <2>1. FirstUnfinished(r) \in Nat
    BY FirstUnfinishedType
  <2>2. /\ RailOp("arm", r, FirstUnfinished(r)) \in Due
        /\ Within(<<RailOp("arm", r, FirstUnfinished(r))>>, StepsOf[r])
        /\ Apart(<<RailOp("arm", r, FirstUnfinished(r))>>)
    BY <2>1, RailOpIsDue
  <2> QED
    BY <1>11, <1>12, <2>2
<1>13. CASE ~arms
  <2> HIDE DEF arms
  <2> QED
    BY <1>7, <1>8, <1>10, <1>11, <1>13
<1> QED
  BY <1>12, <1>13

\* What a pass decides it may hold, and nothing of it is launched twice.
LEMMA NextActionsIsDue ==
    ASSUME RowsInv
    PROVE  NextActions \in Seq(Due) /\ Apart(NextActions)
<1> DEFINE of(r) == IF rail[r].st = "running" THEN WalkRail(r) ELSE ReconcileRail(r)
           X == [i \in 1..Len(Rails) |-> StepsOf[Rails[i]]]
<1>1. Rails \in Seq(RailSet)
  BY RailsAssumption
<1>2. Len(Rails) \in Nat /\ DOMAIN Rails = 1..Len(Rails)
  BY <1>1
<1>3. PICK qs : qs = [i \in 1..Len(Rails) |-> of(Rails[i])]
  OBVIOUS
<1>4. NextActions = FlattenSeq(qs)
  BY <1>2, <1>3 DEF NextActions
<1>5. ASSUME NEW i \in 1..Len(Rails)
      PROVE  qs[i] \in Seq(Due) /\ Apart(qs[i]) /\ Within(qs[i], X[i])
  <2>1. PICK r \in RailSet : r = Rails[i]
    BY <1>1
  <2>2. of(r) \in Seq(Due) /\ Apart(of(r)) /\ Within(of(r), StepsOf[r])
    BY WalkRailIsDue, ReconcileRailIsDue
  <2>3. qs[i] = of(r) /\ X[i] = StepsOf[r]
    BY <1>3, <2>1
  <2> HIDE DEF of, X
  <2> QED
    BY <2>2, <2>3
<1>6. Len(qs) = Len(Rails) /\ qs \in Seq(Seq(Due))
  <2>1. qs \in [1..Len(Rails) -> Seq(Due)]
    <3> HIDE DEF of
    <3> QED
      BY <1>3, <1>5
  <2> QED
    BY <1>2, <2>1
<1>7. ASSUME NEW i \in 1..Len(Rails), NEW k \in 1..Len(Rails), X[i] \cap X[k] # {}
      PROVE  i = k
  <2>1. PICK r \in RailSet, q \in RailSet : r = Rails[i] /\ q = Rails[k]
    BY <1>1
  <2>2. PICK s : s \in StepsOf[r] /\ s \in StepsOf[q]
    BY <1>7, <2>1
  <2>3. r = q
    BY <2>2, StepsApart
  <2>4. i \in DOMAIN Rails /\ k \in DOMAIN Rails /\ Rails[i] = Rails[k]
    BY <1>2, <2>1, <2>3
  <2> QED
    BY <2>4, OncesAssumption, Zenon
<1> HIDE DEF X
<1>8. FlattenSeq(qs) \in Seq(Due)
  BY <1>6, FlattenPlaces
<1>9. Apart(FlattenSeq(qs))
  BY <1>5, <1>6, <1>7, FlattenApart
<1> QED
  BY <1>4, <1>8, <1>9

----------------------------------------------------------------------------
(* What a step may do to what was decided before it *)

\* A step of the plan is not started, keeps its session, and gains no
\* loop-back but for a refused write.
Undisturbed(s) ==
    /\ row[s].st # "running" => row'[s].st # "running"
    /\ ses[s] # "none" => ses'[s] # "none"
    /\ \A n \in Nat : spent[s] + 1 <= n + refused => spent'[s] + 1 <= n + refused'

\* What was decided of a step nothing disturbs still stands.
LEMMA StillDue ==
    ASSUME NEW a \in Due, a.kind \in Claims => Undisturbed(a.step)
    PROVE  a \in Due'
<1>1. a \in Ops /\ Sound(a) /\ Stands(a)
  BY DEF Due
<1>2. a.n \in Nat
  BY <1>1 DEF Ops
<1>3. Stands(a)'
  BY <1>1, <1>2 DEF Stands, Undisturbed, Claims
<1> QED
  BY <1>1, <1>3 DEF Due

\* A pass that is not touched stands if no step is disturbed.
LEMMA PassStays ==
    ASSUME PassInv, pass' = pass, \A s \in Steps : Undisturbed(s)
    PROVE  PassInv'
<1>1. PICK p \in Seq(Due) : p = pass
  BY DEF PassInv
<1>2. PICK D : D = Due'
  OBVIOUS
<1>3. ASSUME NEW i \in 1..Len(p)
      PROVE  p[i] \in D
  <2>1. p[i] \in Due
    OBVIOUS
  <2>2. p[i].kind \in Claims => p[i].step \in Steps
    BY <2>1 DEF Due, Sound, StepAction, Claims, Stepped
  <2> QED
    BY <1>2, <2>1, <2>2, StillDue
<1>4. p \in Seq(D)
  BY <1>3, SeqMembers
<1>5. Apart(pass')
  BY DEF PassInv
<1> QED
  BY <1>1, <1>2, <1>4, <1>5 DEF PassInv

\* A pass that has nothing left stands.
LEMMA PassEmpty ==
    ASSUME pass' = <<>>
    PROVE  PassInv'
<1>1. PICK D : D = Due'
  OBVIOUS
<1>2. <<>> \in Seq(D)
  OBVIOUS
<1>3. StepOp("stall", "none").kind \notin Claims
  BY DEF StepOp, Op, Claims
<1>4. Apart(<<>>)
  BY <1>3, OneApart
<1> QED
  BY <1>1, <1>2, <1>4 DEF PassInv

\* The first action of a pass is one it may hold.
LEMMA HeadIsDue ==
    ASSUME PassInv, NEW k, Doing(k)
    PROVE  /\ pass # <<>> /\ Head(pass) \in Due /\ Head(pass).kind = k
           /\ k \in Stepped => Head(pass).step \in Steps
           /\ k \in Railed => Head(pass).rail \in RailSet
           /\ Head(pass).n \in Nat
<1>1. pass # <<>> /\ Head(pass).kind = k
  BY DEF Doing
<1>2. PICK p \in Seq(Due) : p = pass /\ p # <<>>
  BY <1>1 DEF PassInv
<1>3. Head(p) \in Due
  BY <1>2
<1>4. Sound(Head(p)) /\ Head(p) \in Ops
  BY <1>3 DEF Due
<1>5. Head(p).n \in Nat
  BY <1>4 DEF Ops
<1>6. /\ k \in Stepped => Head(p).step \in Steps
      /\ k \in Railed => Head(p).rail \in RailSet
  BY <1>1, <1>2, <1>4 DEF Sound, StepAction, RailAction
<1> QED
  BY <1>1, <1>2, <1>3, <1>5, <1>6

\* Taking the first off a sequence, and putting one before another.
LEMMA TailOf ==
    ASSUME NEW R, NEW p \in Seq(R), p # <<>>
    PROVE  /\ Tail(p) \in Seq(R) /\ Len(Tail(p)) = Len(p) - 1
           /\ Len(p) \in Nat /\ Len(p) # 0 /\ Head(p) = p[1] /\ Head(p) \in R
           /\ \A i \in 1..Len(Tail(p)) : i + 1 \in 1..Len(p) /\ Tail(p)[i] = p[i + 1]
OBVIOUS

\* One sequence of a set before another is one of that set.
LEMMA ConcatIn ==
    ASSUME NEW R, NEW p \in Seq(R), NEW q \in Seq(R)
    PROVE  p \o q \in Seq(R)
OBVIOUS

\* An action leaves a pass that stands: what it puts in front stands, and
\* launches at most the step it was about; the rest was about other steps.
LEMMA PassGoesOn ==
    ASSUME PassInv, pass # <<>>, NEW ops \in Seq(Ops), pass' = ops \o Tail(pass),
           \A i \in 1..Len(ops) :
              /\ ops[i] \in Due'
              /\ ops[i].kind \in Claims =>
                    i = 1 /\ Head(pass).kind \in Claims /\ ops[i].step = Head(pass).step,
           \A s \in Steps :
              (Head(pass).kind \in Claims => s # Head(pass).step) => Undisturbed(s)
    PROVE  PassInv'
<1>1. PICK p \in Seq(Due) : p = pass /\ p # <<>>
  BY DEF PassInv
<1>2. PICK D : D = Due'
  OBVIOUS
<1>3. PICK t \in Seq(Due) : t = Tail(p) /\ Len(t) = Len(p) - 1
  BY <1>1, TailOf
<1>4. /\ Len(p) \in Nat /\ Len(p) # 0 /\ Head(p) = p[1]
      /\ \A i \in 1..Len(t) : i + 1 \in 1..Len(p) /\ t[i] = p[i + 1]
  BY <1>1, <1>3, TailOf
<1>5. \A i, j \in 1..Len(p) :
        p[i].kind \in Claims /\ p[j].kind \in Claims /\ p[i].step = p[j].step => i = j
  BY <1>1 DEF PassInv, Apart
<1>6. ASSUME NEW i \in 1..Len(t)
      PROVE  /\ t[i] \in D
             /\ t[i].kind \in Claims /\ Head(p).kind \in Claims => t[i].step # Head(p).step
  <2>1. t[i] \in Due
    BY <1>3
  <2>2. t[i].kind \in Claims => t[i].step \in Steps
    BY <2>1 DEF Due, Sound, StepAction, Claims, Stepped
  <2>3. t[i].kind \in Claims /\ Head(p).kind \in Claims => t[i].step # Head(p).step
    <3>1. 1 \in 1..Len(p) /\ i + 1 \in 1..Len(p) /\ i + 1 # 1 /\ t[i] = p[i + 1]
      BY <1>4
    <3> QED
      BY <1>4, <1>5, <3>1
  <2>4. t[i].kind \in Claims => Undisturbed(t[i].step)
    BY <1>1, <2>2, <2>3
  <2> QED
    BY <1>2, <2>1, <2>3, <2>4, StillDue
<1>7. t \in Seq(Ops)
  <2>1. \A i \in 1..Len(t) : t[i] \in Ops
    BY <1>3 DEF Due
  <2> QED
    BY <2>1, SeqMembers
<1>8. PICK q \in Seq(Ops) : q = ops \o t
  BY <1>7, ConcatIn
<1>9. /\ Len(q) = Len(ops) + Len(t) /\ Len(ops) \in Nat /\ Len(t) \in Nat
      /\ \A i \in 1..Len(ops) : q[i] = ops[i]
      /\ \A i \in Len(ops) + 1..Len(q) : i - Len(ops) \in 1..Len(t) /\ q[i] = t[i - Len(ops)]
  BY <1>7, <1>8
<1>10. \A i \in 1..Len(q) : i \in 1..Len(ops) \/ i \in Len(ops) + 1..Len(q)
  BY <1>9
<1>11. \A i \in 1..Len(q) : q[i] \in D
  BY <1>2, <1>6, <1>9, <1>10
<1>12. q \in Seq(D)
  BY <1>8, <1>11, SeqMembers
<1>13. ASSUME NEW i \in 1..Len(q), NEW j \in 1..Len(q),
              q[i].kind \in Claims, q[j].kind \in Claims, q[i].step = q[j].step
       PROVE  i = j
  <2>1. \A m \in 1..Len(ops) : q[m].kind \in Claims =>
          m = 1 /\ Head(p).kind \in Claims /\ q[m].step = Head(p).step
    BY <1>1, <1>9
  <2>2. \A m \in Len(ops) + 1..Len(q) :
          q[m].kind \in Claims /\ Head(p).kind \in Claims => q[m].step # Head(p).step
    BY <1>6, <1>9
  <2>3. CASE i \in 1..Len(ops)
    BY <1>10, <1>13, <2>1, <2>2, <2>3
  <2>4. CASE j \in 1..Len(ops)
    BY <1>10, <1>13, <2>1, <2>2, <2>4
  <2>5. CASE i \in Len(ops) + 1..Len(q) /\ j \in Len(ops) + 1..Len(q)
    <3>1. PICK m \in 1..Len(t), n \in 1..Len(t) :
            m = i - Len(ops) /\ n = j - Len(ops) /\ q[i] = t[m] /\ q[j] = t[n]
      BY <1>9, <2>5
    <3>2. /\ m + 1 \in 1..Len(p) /\ n + 1 \in 1..Len(p)
          /\ p[m + 1] = q[i] /\ p[n + 1] = q[j]
      BY <1>4, <3>1
    <3>3. m + 1 = n + 1
      BY <1>5, <1>13, <3>2
    <3> QED
      BY <1>9, <2>5, <3>1, <3>3
  <2> QED
    BY <1>10, <2>3, <2>4, <2>5
<1>14. Apart(q)
  BY <1>13 DEF Apart
<1>15. pass' = q
  BY <1>1, <1>3, <1>8
<1> QED
  BY <1>2, <1>12, <1>14, <1>15 DEF PassInv

----------------------------------------------------------------------------
(* What the writes of run state keep *)

\* A refused write changes no row, and gives the count of what was refused.
LEMMA RefuseKeeps ==
    ASSUME RowsInv, Refuse, UNCHANGED ses
    PROVE  RowsInv' /\ \A t \in Steps : Undisturbed(t)
<1>1. rail' = rail /\ row' = row /\ spent' = spent /\ ses' = ses /\ refused' = refused + 1
  BY DEF Refuse
<1>2. refused \in Nat /\ refused' \in Nat
  BY <1>1 DEF RowsInv
<1>3. RunningNamed'
  BY <1>1 DEF RowsInv, RunningNamed
<1>4. SpentCounted'
  <2>1. ASSUME NEW s \in Steps
        PROVE  spent'[s] <= IF Kind[s] \in Loops THEN row'[s].tries + refused' ELSE 0
    <3>1. PICK n \in 0..MaxTries, m \in Nat : n = row[s].tries /\ m = spent[s]
      BY DEF RowsInv
    <3>2. m <= IF Kind[s] \in Loops THEN n + refused ELSE 0
      BY <3>1 DEF RowsInv, SpentCounted
    <3>3. n \in Nat
      BY BoundsAssumption
    <3>4. m <= IF Kind[s] \in Loops THEN n + refused' ELSE 0
      BY <1>1, <1>2, <3>2, <3>3
    <3> QED
      BY <1>1, <3>1, <3>4
  <2> QED
    BY <2>1 DEF SpentCounted
<1>5. ASSUME NEW t \in Steps
      PROVE  Undisturbed(t)
  <2>1. spent[t] \in Nat
    BY DEF RowsInv
  <2> QED
    BY <1>1, <1>2, <2>1 DEF Undisturbed
<1> QED
  BY <1>1, <1>2, <1>3, <1>4, <1>5 DEF RowsInv

\* What nothing writes stays, while sessions may turn but not vanish.
LEMMA RunsStay ==
    ASSUME RowsInv, UNCHANGED runVars,
           \A t \in Steps : ses[t] # "none" => ses'[t] # "none"
    PROVE  RowsInv' /\ \A t \in Steps : Undisturbed(t)
<1>1. rail' = rail /\ row' = row /\ spent' = spent /\ refused' = refused
  BY DEF runVars
<1>2. RunningNamed'
  BY <1>1 DEF RowsInv, RunningNamed
<1>3. SpentCounted'
  BY <1>1 DEF RowsInv, SpentCounted
<1>4. \A t \in Steps : Undisturbed(t)
  BY <1>1 DEF Undisturbed
<1> QED
  BY <1>1, <1>2, <1>3, <1>4 DEF RowsInv

\* setStepRunAction: a row that is set running names a session or needs
\* none, and a count that is cleared is no loop's that is set running.
LEMMA SetStepKeeps ==
    ASSUME RowsInv, NEW s \in Steps,
           NEW x \in {"pending", "running", "done", "stalled", "skipped"},
           NEW named \in BOOLEAN, NEW count \in {{}, {0}},
           SetStep(s, x, named, count), UNCHANGED ses,
           x = "running" => Kind[s] \in {"review", "pr"} \/ (named /\ ses[s] # "none"),
           x = "running" /\ count # {} => Kind[s] \notin Loops
    PROVE  RowsInv' /\ \A t \in Steps : (t = s => x # "running") => Undisturbed(t)
<1>1. CASE Refuse
  BY <1>1, RefuseKeeps
<1>2. CASE ~Refuse
  <2>1. PICK n : n = IF count = {} THEN row[s].tries ELSE CHOOSE k \in count : TRUE
    OBVIOUS
  <2>2. /\ row' = [row EXCEPT ![s] = [st |-> x, ses |-> named, tries |-> n]]
        /\ spent' = [spent EXCEPT ![s] = IF count = {0} /\ x # "running" THEN 0 ELSE @]
        /\ rail' = rail /\ refused' = refused
    BY <1>2, <2>1 DEF SetStep
  <2>3. /\ count = {} => n = row[s].tries
        /\ count # {} => n = 0 /\ count = {0}
    <3>1. (CHOOSE k \in {0} : TRUE) = 0
      OBVIOUS
    <3> QED
      BY <2>1, <3>1
  <2>4. n \in 0..MaxTries
    BY <2>3, BoundsAssumption DEF RowsInv
  <2>5. /\ row'[s].st = x /\ row'[s].ses = named /\ row'[s].tries = n
        /\ \A t \in Steps : t # s => row'[t] = row[t] /\ spent'[t] = spent[t]
        /\ spent'[s] = IF count = {0} /\ x # "running" THEN 0 ELSE spent[s]
    BY <2>2 DEF RowsInv
  <2>6. row' \in [Steps -> [st : {"pending", "running", "done", "stalled", "skipped"},
                            ses : BOOLEAN, tries : 0..MaxTries]]
    <3>1. PICK w : w = [st |-> x, ses |-> named, tries |-> n]
      OBVIOUS
    <3>2. w \in [st : {"pending", "running", "done", "stalled", "skipped"},
                 ses : BOOLEAN, tries : 0..MaxTries]
      BY <2>4, <3>1
    <3> QED
      BY <2>2, <3>1, <3>2 DEF RowsInv
  <2>7. spent' \in [Steps -> Nat]
    BY <2>2 DEF RowsInv
  <2>8. RunningNamed'
    <3>1. ASSUME NEW t \in Steps, row'[t].st = "running"
          PROVE  Kind[t] \in {"review", "pr"} \/ (row'[t].ses /\ ses'[t] # "none")
      <4>1. CASE t = s
        BY <2>5, <3>1, <4>1
      <4>2. CASE t # s
        BY <2>5, <3>1, <4>2 DEF RowsInv, RunningNamed
      <4> QED
        BY <4>1, <4>2
    <3> QED
      BY <3>1 DEF RunningNamed
  <2>9. SpentCounted'
    <3>1. ASSUME NEW t \in Steps
          PROVE  spent'[t] <= IF Kind[t] \in Loops THEN row'[t].tries + refused' ELSE 0
      <4>0. spent[t] <= IF Kind[t] \in Loops THEN row[t].tries + refused ELSE 0
        BY DEF RowsInv, SpentCounted
      <4>1. CASE t # s
        BY <2>2, <2>5, <4>0, <4>1
      <4>2. CASE t = s /\ count = {}
        BY <2>2, <2>3, <2>5, <4>0, <4>2
      <4>3. CASE t = s /\ count # {} /\ x # "running"
        <5>1. spent'[t] = 0 /\ row'[t].tries = 0
          BY <2>3, <2>5, <4>3
        <5>2. refused' \in Nat
          BY <2>2 DEF RowsInv
        <5> QED
          BY <5>1, <5>2
      <4>4. CASE t = s /\ count # {} /\ x = "running"
        <5>1. Kind[t] \notin Loops /\ spent'[t] = spent[t]
          BY <2>5, <4>4
        <5> QED
          BY <4>0, <5>1
      <4> QED
        BY <4>1, <4>2, <4>3, <4>4
    <3> QED
      BY <3>1 DEF SpentCounted
  <2>10. ASSUME NEW t \in Steps, t = s => x # "running"
         PROVE  Undisturbed(t)
    <3>1. row[t].st # "running" => row'[t].st # "running"
      BY <2>5, <2>10
    <3>2. PICK m \in Nat, l \in Nat : m = spent[t] /\ l = spent'[t] /\ (l = m \/ l = 0)
      BY <2>5, <2>7 DEF RowsInv
    <3>3. refused \in Nat /\ refused' = refused
      BY <2>2 DEF RowsInv
    <3>4. \A k \in Nat : m + 1 <= k + refused => l + 1 <= k + refused
      BY <3>2, <3>3
    <3> QED
      BY <3>1, <3>2, <3>3, <3>4 DEF Undisturbed
  <2> QED
    BY <2>2, <2>6, <2>7, <2>8, <2>9, <2>10 DEF RowsInv
<1> QED
  BY <1>1, <1>2

\* setRailRunAction.
LEMMA SetRailKeeps ==
    ASSUME RowsInv, NEW r \in RailSet, NEW x \in {"idle", "running", "paused"},
           NEW j \in Nat, SetRail(r, x, j), UNCHANGED ses
    PROVE  RowsInv' /\ \A t \in Steps : Undisturbed(t)
<1>1. CASE Refuse
  BY <1>1, RefuseKeeps
<1>2. CASE ~Refuse
  <2>1. /\ rail' = [rail EXCEPT ![r] = [st |-> x, at |-> j]]
        /\ row' = row /\ spent' = spent /\ refused' = refused
    BY <1>2 DEF SetRail
  <2>2. rail' \in [RailSet -> [st : {"idle", "running", "paused"}, at : Nat]]
    <3>1. PICK w \in [st : {"idle", "running", "paused"}, at : Nat] :
            w = [st |-> x, at |-> j]
      OBVIOUS
    <3> QED
      BY <2>1, <3>1 DEF RowsInv
  <2>3. RunningNamed'
    BY <2>1 DEF RowsInv, RunningNamed
  <2>4. SpentCounted'
    BY <2>1 DEF RowsInv, SpentCounted
  <2>5. \A t \in Steps : Undisturbed(t)
    BY <2>1 DEF Undisturbed
  <2> QED
    BY <2>1, <2>2, <2>3, <2>4, <2>5 DEF RowsInv
<1> QED
  BY <1>1, <1>2

----------------------------------------------------------------------------
(* The actions of executeActions *)

\* A rail's action stands whatever became of the steps, and launches none.
LEMMA RailedIsDue ==
    ASSUME NEW k \in Railed, NEW r \in RailSet, NEW x \in {"none", "running", "paused"},
           NEW n \in Nat, k = "setRail" => x \in {"running", "paused"}
    PROVE  /\ Op(k, "none", r, x, n) \in Ops /\ Op(k, "none", r, x, n) \in Due'
           /\ Op(k, "none", r, x, n).kind \notin Claims
<1>1. PICK a : a = Op(k, "none", r, x, n)
  OBVIOUS
<1>2. /\ a = [kind |-> k, step |-> "none", rail |-> r, st |-> x, n |-> n]
      /\ a.kind = k /\ a.rail = r /\ a.st = x
  BY <1>1 DEF Op
<1>3. a \in Ops
  BY <1>2 DEF Ops, Railed
<1>4. k \notin Stepped /\ k \notin Claims
  BY DEF Railed, Stepped, Claims
<1>5. Sound(a) /\ Stands(a)'
  BY <1>2, <1>4 DEF Sound, Stands, RailAction, Claims
<1> QED
  BY <1>1, <1>2, <1>3, <1>4, <1>5 DEF Due

\* A step's write that is left for after an await stands too.
LEMMA SteppedIsDue ==
    ASSUME NEW k \in {"rearm", "exhaust"}, NEW s \in Steps
    PROVE  /\ StepOp(k, s) \in Ops /\ StepOp(k, s) \in Due' /\ StepOp(k, s).kind \notin Claims
<1>1. PICK a : a = StepOp(k, s)
  OBVIOUS
<1>2. /\ a = [kind |-> k, step |-> s, rail |-> "none", st |-> "none", n |-> 0]
      /\ a.kind = k /\ a.step = s
  BY <1>1 DEF StepOp, Op
<1>3. a \in Ops
  BY <1>2 DEF Ops, Stepped
<1>4. k \notin Railed /\ k \notin Claims
  BY DEF Railed, Claims
<1>5. Sound(a) /\ Stands(a)'
  BY <1>2, <1>4 DEF Sound, Stands, StepAction, Claims
<1> QED
  BY <1>1, <1>2, <1>3, <1>4, <1>5 DEF Due

\* Sequences of one and of two.
LEMMA ShortSeqs ==
    ASSUME NEW R, NEW a \in R
    PROVE  <<a>> \in Seq(R) /\ <<a>> \o <<>> = <<a>>
<1>1. <<a>> \o <<>> = <<a>>
  OBVIOUS
<1>2. <<a>> \in Seq(R)
  OBVIOUS
<1> QED
  BY <1>1, <1>2

\* ... and one action before another is a sequence of two.
LEMMA ShortPair ==
    ASSUME NEW R, NEW a \in R, NEW b \in R
    PROVE  \E q \in Seq(R) : q = <<a>> \o <<b>> /\ Len(q) = 2 /\ q[1] = a /\ q[2] = b
<1>1. <<a>> \in Seq(R) /\ <<b>> \in Seq(R)
  BY ShortSeqs
<1>2. PICK q : q = <<a>> \o <<b>>
  OBVIOUS
<1>3. q \in Seq(R) /\ Len(q) = 2 /\ q[1] = a /\ q[2] = b
  BY <1>1, <1>2
<1> QED
  BY <1>2, <1>3

\* An action that leaves nothing behind.
LEMMA PassPops ==
    ASSUME PassInv, pass # <<>>, Then(<<>>),
           \A s \in Steps :
              (Head(pass).kind \in Claims => s # Head(pass).step) => Undisturbed(s)
    PROVE  PassInv'
<1>0. <<>> \in Seq(Ops)
  OBVIOUS
<1>1. PICK ops \in Seq(Ops) : ops = <<>>
  BY <1>0
<1>2. Len(ops) = 0
  BY <1>1
<1>3. pass' = ops \o Tail(pass)
  BY <1>1 DEF Then
<1>4. \A i \in 1..Len(ops) : FALSE
  BY <1>2
<1> QED
  BY <1>3, <1>4, PassGoesOn

\* An action that leaves one write for after its await.
LEMMA PassPopsTo ==
    ASSUME PassInv, pass # <<>>, NEW a \in Ops, a \in Due', Then(<<a>>),
           a.kind \in Claims => Head(pass).kind \in Claims /\ a.step = Head(pass).step,
           \A s \in Steps :
              (Head(pass).kind \in Claims => s # Head(pass).step) => Undisturbed(s)
    PROVE  PassInv'
<1>1. PICK ops \in Seq(Ops) : ops = <<a>>
  BY ShortSeqs
<1>2. Len(ops) = 1 /\ ops[1] = a
  BY <1>1
<1>3. pass' = ops \o Tail(pass)
  BY <1>1 DEF Then
<1>4. \A i \in 1..Len(ops) : i = 1 /\ ops[i] = a
  BY <1>2
<1> QED
  BY <1>3, <1>4, PassGoesOn

\* What an action of the pass leaves alone.
LEMMA PassLeaves ==
    ASSUME RailsInv, PassUnchanged
    PROVE  WorldInv' /\ ses' = ses /\ hand' = hand /\ ticking' = ticking /\ tickAgain' = tickAgain
BY DEF RailsInv, WorldInv, PassUnchanged, worldVars

\* The parts of the invariant after an action of the pass.
LEMMA Together ==
    ASSUME RailsInv, ticking, ticking' = ticking, cpu' \in {"free", "pass"},
           tickAgain' \in BOOLEAN, again' \in BOOLEAN, hand' = hand,
           WorldInv', RowsInv', PassInv'
    PROVE  RailsInv'
<1>1. HandInv'
  BY DEF RailsInv, HandInv
<1>2. LoopInv'
  BY DEF RailsInv, LoopInv
<1> QED
  BY <1>1, <1>2 DEF RailsInv

\* stallStep writes the row and leaves the rail's pause for after it.
LEMMA StallKeeps ==
    ASSUME RailsInv, pass # <<>>, NEW s \in Steps, NEW count \in {{}, {0}},
           Stall(s, count), UNCHANGED ses
    PROVE  RowsInv' /\ PassInv' /\ cpu' = "free"
<1>1. SetStep(s, "stalled", FALSE, count) /\ cpu' = "free"
  BY DEF Stall, Awaits
<1>2. RowsInv' /\ \A t \in Steps : Undisturbed(t)
  BY <1>1, SetStepKeeps DEF RailsInv
<1>3. PICK r \in RailSet : r = Owning[s]
  BY Placing
<1>4. PICK n \in Nat : n = rail[r].at
  BY DEF RailsInv, RowsInv
<1>5. PICK a : a = Op("setRail", "none", r, "paused", n)
  OBVIOUS
<1>6. a \in Ops /\ a \in Due' /\ a.kind \notin Claims
  <2>1. "setRail" \in Railed
    BY DEF Railed
  <2> QED
    BY <1>5, <2>1, RailedIsDue
<1>7. Then(<<a>>) \/ Then(<<>>)
  BY <1>3, <1>4, <1>5 DEF Stall
<1>8. PassInv
  BY DEF RailsInv
<1>9. CASE Then(<<a>>)
  BY <1>1, <1>2, <1>6, <1>8, <1>9, PassPopsTo
<1>10. CASE Then(<<>>)
  BY <1>1, <1>2, <1>8, <1>10, PassPops
<1> QED
  BY <1>7, <1>9, <1>10

\* A step marked done leaves at most the end of its rail's pause.
LEMMA DoMarkDoneKeeps ==
    ASSUME RailsInv, DoMarkDone
    PROVE  RailsInv'
<1>1. Doing("markDone") /\ ticking /\ PassInv
  BY DEF DoMarkDone, Doing, RailsInv
<1>2. PICK s \in Steps : s = Head(pass).step
  BY <1>1, HeadIsDue DEF Stepped
<1>3. PICK named \in BOOLEAN : named = row[s].ses
  BY DEF RailsInv, RowsInv
<1>4. SetStep(s, "done", named, {})
  BY <1>2, <1>3 DEF DoMarkDone
<1>5. WorldInv' /\ ses' = ses /\ hand' = hand /\ ticking' = ticking /\ tickAgain' = tickAgain
  BY PassLeaves DEF DoMarkDone
<1>6. RowsInv' /\ \A t \in Steps : Undisturbed(t)
  BY <1>4, <1>5, SetStepKeeps DEF RailsInv
<1>7. PICK a : a = RailOp("unpause", Owning[s], StageOf[s])
  OBVIOUS
<1>8. a \in Ops /\ a \in Due' /\ a.kind \notin Claims
  <2>1. "unpause" \in Railed /\ Owning[s] \in RailSet /\ StageOf[s] \in Nat
    BY Placing DEF Railed
  <2> QED
    BY <1>7, <2>1, RailedIsDue DEF RailOp
<1>9. Then(<<a>>) \/ Then(<<>>)
  BY <1>2, <1>7 DEF DoMarkDone
<1>10. pass # <<>>
  BY <1>1, HeadIsDue
<1>11. PassInv'
  BY <1>1, <1>6, <1>8, <1>9, <1>10, PassPops, PassPopsTo
<1>12. cpu' = "free" /\ again' \in BOOLEAN /\ tickAgain' \in BOOLEAN
  BY <1>5 DEF DoMarkDone, Awaits, RailsInv, LoopInv
<1> QED
  BY <1>1, <1>5, <1>6, <1>11, <1>12, Together

\* A stall the pass decided (stallStage).
LEMMA DoStallKeeps ==
    ASSUME RailsInv, DoStall
    PROVE  RailsInv'
<1>1. Doing("stall") /\ ticking /\ PassInv
  BY DEF DoStall, Doing, RailsInv
<1>2. PICK s \in Steps : s = Head(pass).step /\ pass # <<>>
  BY <1>1, HeadIsDue DEF Stepped
<1>3. WorldInv' /\ ses' = ses /\ hand' = hand /\ ticking' = ticking /\ tickAgain' = tickAgain
  BY PassLeaves DEF DoStall
<1>4. RowsInv' /\ PassInv' /\ cpu' = "free"
  BY <1>2, <1>3, StallKeeps DEF DoStall
<1>5. again' \in BOOLEAN /\ tickAgain' \in BOOLEAN
  BY <1>3 DEF DoStall, RailsInv, LoopInv
<1> QED
  BY <1>1, <1>3, <1>4, <1>5, Together

\* An exhausted loop: the rail was read before the log, the row is written
\* after it.
LEMMA DoLoopExhaustedKeeps ==
    ASSUME RailsInv, DoLoopExhausted
    PROVE  RailsInv'
<1>1. Doing("loopExhausted") /\ ticking /\ PassInv
  BY DEF DoLoopExhausted, Doing, RailsInv
<1>2. PICK s \in Steps : s = Head(pass).step /\ pass # <<>>
  BY <1>1, HeadIsDue DEF Stepped
<1>3. WorldInv' /\ ses' = ses /\ hand' = hand /\ ticking' = ticking /\ tickAgain' = tickAgain
  BY PassLeaves DEF DoLoopExhausted
<1>4. RowsInv' /\ PassInv' /\ cpu' = "free"
  <2>1. CASE Kind[s] = "pr"
    <3>1. Stall(s, {0})
      BY <1>2, <2>1 DEF DoLoopExhausted
    <3> QED
      BY <1>2, <1>3, <3>1, StallKeeps
  <2>2. CASE Kind[s] # "pr"
    <3>1. UNCHANGED runVars /\ cpu' = "free"
      BY <1>2, <2>2 DEF DoLoopExhausted, Awaits
    <3>2. RowsInv' /\ \A t \in Steps : Undisturbed(t)
      BY <1>3, <3>1, RunsStay DEF RailsInv
    <3>3. PICK r \in RailSet : r = Owning[s]
      BY Placing
    <3>4. PICK n \in Nat : n = rail[r].at
      BY DEF RailsInv, RowsInv
    <3>5. PICK a \in Ops : /\ a = StepOp("exhaust", s) /\ a \in Due' /\ a.kind \notin Claims
      BY SteppedIsDue
    <3>6. PICK b \in Ops : /\ b = Op("setRail", "none", r, "paused", n)
                           /\ b \in Due' /\ b.kind \notin Claims
      <4>1. "setRail" \in Railed
        BY DEF Railed
      <4> QED
        BY <4>1, RailedIsDue
    <3>7. Then(<<a>> \o <<b>>) \/ Then(<<a>> \o <<>>)
      BY <1>2, <2>2, <3>3, <3>4, <3>5, <3>6 DEF DoLoopExhausted
    <3>8. PICK two \in Seq(Ops) : /\ two = <<a>> \o <<b>> /\ Len(two) = 2
                                  /\ two[1] = a /\ two[2] = b
      BY ShortPair
    <3>9. PICK ops \in Seq(Ops) : /\ ops \in {<<a>>, two} /\ pass' = ops \o Tail(pass)
      <4>1. <<a>> \in Seq(Ops) /\ <<a>> \o <<>> = <<a>>
        BY ShortSeqs
      <4> QED
        BY <3>7, <3>8, <4>1 DEF Then
    <3>10. \A i \in 1..Len(ops) : ops[i] \in {a, b}
      BY <3>8, <3>9
    <3>11. PassInv'
      BY <1>1, <1>2, <3>2, <3>5, <3>6, <3>9, <3>10, PassGoesOn
    <3> QED
      BY <3>1, <3>2, <3>11
  <2> QED
    BY <2>1, <2>2
<1>5. again' \in BOOLEAN /\ tickAgain' \in BOOLEAN
  BY <1>3 DEF DoLoopExhausted, RailsInv, LoopInv
<1> QED
  BY <1>1, <1>3, <1>4, <1>5, Together

\* executeLoopBack leaves the count, the step before and the cursor for after
\* its await, and of these only the count is about the loop's own budget.
LEMMA DoLoopBackKeeps ==
    ASSUME RailsInv, DoLoopBack
    PROVE  RailsInv'
<1>1. Doing("loopBack") /\ ticking /\ PassInv
  BY DEF DoLoopBack, Doing, RailsInv
<1>2. /\ pass # <<>> /\ Head(pass) \in Due /\ Head(pass).kind = "loopBack"
      /\ Head(pass).step \in Steps /\ Head(pass).n \in Nat
  BY <1>1, HeadIsDue DEF Stepped
<1>3. PICK a \in Due : a = Head(pass)
  BY <1>2
<1>4. PICK s \in Steps, n \in 1..MaxTries, p \in Steps :
        /\ s = a.step /\ n = a.n /\ p = Before[s] /\ Kind[s] \in Loops
        /\ spent[s] + 1 <= n + refused
  BY <1>2, <1>3 DEF Due, Sound, Stands, StepAction, Stepped
<1>5. /\ rail' = rail /\ row' = row /\ spent' = spent /\ ses' = ses /\ hand' = hand
      /\ ticking' = ticking /\ tickAgain' = tickAgain /\ again' = TRUE
      /\ blocked' = blocked /\ locked' = locked /\ report' = report /\ held' = held
  BY DEF DoLoopBack
<1>6. /\ cpu' \in {"free", "pass"} /\ card' \subseteq card
      /\ refused' = refused \/ (refused' = refused + 1 /\ restarts + refused < MaxFaults)
  BY DEF DoLoopBack, Awaits, RunsOn
<1>7. WorldInv'
  BY <1>5, <1>6 DEF RailsInv, WorldInv
<1>8. RowsInv' /\ \A t \in Steps : Undisturbed(t)
  <2>1. CASE refused' = refused
    <3>1. UNCHANGED runVars
      BY <1>5, <2>1 DEF runVars
    <3> QED
      BY <1>5, <3>1, RunsStay DEF RailsInv
  <2>2. CASE refused' # refused
    <3>1. Refuse
      BY <1>5, <1>6, <2>2 DEF Refuse
    <3> QED
      BY <1>5, <3>1, RefuseKeeps DEF RailsInv
  <2> QED
    BY <2>1, <2>2
<1>9. PICK c \in Ops : /\ c = Op("count", s, "none", "none", n) /\ c \in Due'
                       /\ c.kind = "count" /\ c.step = s
  <2>1. PICK c : c = Op("count", s, "none", "none", n)
    OBVIOUS
  <2>2. /\ c = [kind |-> "count", step |-> s, rail |-> "none", st |-> "none", n |-> n]
        /\ c.kind = "count" /\ c.step = s /\ c.n = n
    BY <2>1 DEF Op
  <2>3. n \in Nat
    BY BoundsAssumption
  <2>4. c \in Ops
    BY <2>2, <2>3 DEF Ops, Stepped
  <2>5. Sound(c)
    BY <1>4, <2>2 DEF Sound, StepAction, Railed
  <2>6. spent'[s] + 1 <= n + refused'
    BY <1>4, <1>8, <2>3 DEF Undisturbed
  <2>7. Stands(c)'
    BY <2>2, <2>6 DEF Stands
  <2> QED
    BY <2>1, <2>2, <2>4, <2>5, <2>7 DEF Due
<1>10. PICK d \in Ops : d = StepOp("rearm", p) /\ d \in Due' /\ d.kind \notin Claims
  BY SteppedIsDue
<1>11. PICK e \in Ops : /\ e = Op("setRail", "none", Owning[s], "running", StageOf[p])
                        /\ e \in Due' /\ e.kind \notin Claims
  <2>1. "setRail" \in Railed
    BY DEF Railed
  <2>2. Owning[s] \in RailSet /\ StageOf[p] \in Nat
    BY Placing
  <2> QED
    BY <2>1, <2>2, RailedIsDue
<1>12. PICK ops : ops = <<c, d, e>>
  OBVIOUS
<1>13. /\ ops \in Seq(Ops) /\ Len(ops) = 3 /\ ops[1] = c /\ ops[2] = d /\ ops[3] = e
  BY <1>12
<1>14. pass' = ops \o Tail(pass)
  BY <1>3, <1>4, <1>9, <1>10, <1>11, <1>12 DEF DoLoopBack, Then
<1>15. ASSUME NEW i \in 1..Len(ops)
       PROVE  /\ ops[i] \in Due'
              /\ ops[i].kind \in Claims =>
                   i = 1 /\ Head(pass).kind \in Claims /\ ops[i].step = Head(pass).step
  <2>1. CASE i = 1
    BY <1>2, <1>3, <1>4, <1>9, <1>13, <2>1 DEF Claims
  <2>2. CASE i = 2
    BY <1>10, <1>13, <2>2
  <2>3. CASE i = 3
    BY <1>11, <1>13, <2>3
  <2> QED
    BY <1>13, <2>1, <2>2, <2>3
<1>16. PassInv'
  BY <1>1, <1>2, <1>8, <1>13, <1>14, <1>15, PassGoesOn
<1>17. again' \in BOOLEAN /\ tickAgain' \in BOOLEAN
  BY <1>5 DEF RailsInv, LoopInv
<1> QED
  BY <1>1, <1>5, <1>6, <1>7, <1>8, <1>16, <1>17, Together

\* The count of a loop-back, written or refused, takes the room there was.
LEMMA CountKeeps ==
    ASSUME RowsInv, NEW s \in Steps, NEW n \in 1..MaxTries, Kind[s] \in Loops,
           spent[s] + 1 <= n + refused, UNCHANGED ses,
           \/ /\ row' = [row EXCEPT ![s] = [st |-> "pending", ses |-> FALSE, tries |-> n]]
              /\ UNCHANGED <<rail, refused>>
           \/ refused' = refused + 1 /\ UNCHANGED <<rail, row>>,
           spent' = [spent EXCEPT ![s] = @ + 1]
    PROVE  RowsInv' /\ \A t \in Steps : t # s => Undisturbed(t)
<1>1. n \in Nat /\ n \in 0..MaxTries /\ refused \in Nat /\ refused' \in Nat
  BY BoundsAssumption DEF RowsInv
<1>2. PICK k \in Nat : k = spent[s]
  BY DEF RowsInv
<1>3. /\ spent' \in [Steps -> Nat] /\ spent'[s] = k + 1
      /\ \A t \in Steps : t # s => spent'[t] = spent[t]
  BY <1>2 DEF RowsInv
<1>4. CASE /\ row' = [row EXCEPT ![s] = [st |-> "pending", ses |-> FALSE, tries |-> n]]
           /\ UNCHANGED <<rail, refused>>
  <2>1. PICK w : w = [st |-> "pending", ses |-> FALSE, tries |-> n]
    OBVIOUS
  <2>2. w \in [st : {"pending", "running", "done", "stalled", "skipped"},
               ses : BOOLEAN, tries : 0..MaxTries]
    BY <1>1, <2>1
  <2>3. /\ row' \in [Steps -> [st : {"pending", "running", "done", "stalled", "skipped"},
                              ses : BOOLEAN, tries : 0..MaxTries]]
        /\ row'[s].st = "pending" /\ row'[s].tries = n
        /\ \A t \in Steps : t # s => row'[t] = row[t]
    BY <1>4, <2>1, <2>2 DEF RowsInv
  <2>4. RunningNamed'
    BY <2>3 DEF RowsInv, RunningNamed
  <2>5. SpentCounted'
    <3>1. ASSUME NEW t \in Steps
          PROVE  spent'[t] <= IF Kind[t] \in Loops THEN row'[t].tries + refused' ELSE 0
      <4>1. CASE t = s
        BY <1>2, <1>3, <1>4, <2>3, <4>1
      <4>2. CASE t # s
        BY <1>3, <1>4, <2>3, <4>2 DEF RowsInv, SpentCounted
      <4> QED
        BY <4>1, <4>2
    <3> QED
      BY <3>1 DEF SpentCounted
  <2>6. \A t \in Steps : t # s => Undisturbed(t)
    BY <1>3, <1>4, <2>3 DEF Undisturbed
  <2>7. rail' = rail
    BY <1>4
  <2> QED
    BY <1>1, <1>3, <2>3, <2>4, <2>5, <2>6, <2>7 DEF RowsInv
<1>5. CASE refused' = refused + 1 /\ UNCHANGED <<rail, row>>
  <2>1. rail' = rail /\ row' = row
    BY <1>5
  <2>2. RunningNamed'
    BY <2>1 DEF RowsInv, RunningNamed
  <2>3. SpentCounted'
    <3>1. ASSUME NEW t \in Steps
          PROVE  spent'[t] <= IF Kind[t] \in Loops THEN row'[t].tries + refused' ELSE 0
      <4>1. PICK m \in Nat, c \in 0..MaxTries :
              m = spent[t] /\ c = row[t].tries /\ spent'[t] = (IF t = s THEN m + 1 ELSE m)
        BY <1>2, <1>3 DEF RowsInv
      <4>2. m <= IF Kind[t] \in Loops THEN c + refused ELSE 0
        BY <4>1 DEF RowsInv, SpentCounted
      <4>3. c \in Nat /\ (t = s => Kind[t] \in Loops)
        BY BoundsAssumption
      <4>4. spent'[t] <= IF Kind[t] \in Loops THEN c + refused' ELSE 0
        <5>1. CASE Kind[t] \in Loops
          BY <1>1, <1>5, <4>1, <4>2, <4>3, <5>1
        <5>2. CASE Kind[t] \notin Loops
          BY <4>1, <4>2, <4>3, <5>2
        <5> QED
          BY <5>1, <5>2
      <4> QED
        BY <2>1, <4>1, <4>4
    <3> QED
      BY <3>1 DEF SpentCounted
  <2>4. ASSUME NEW t \in Steps, t # s
        PROVE  Undisturbed(t)
    <3>1. spent[t] \in Nat /\ spent'[t] = spent[t]
      BY <1>3, <2>4 DEF RowsInv
    <3> QED
      BY <1>1, <1>5, <2>1, <3>1 DEF Undisturbed
  <2> QED
    BY <1>1, <1>3, <2>1, <2>2, <2>3, <2>4 DEF RowsInv
<1> QED
  BY <1>4, <1>5

\* A step's write that was left for after an await.
LEMMA DoSetStepKeeps ==
    ASSUME RailsInv, DoSetStep
    PROVE  RailsInv'
<1>1. ticking /\ PassInv /\ Then(<<>>) /\ cpu' = "free" /\ again' = again
  BY DEF DoSetStep, Doing, RailsInv, Awaits
<1>2. WorldInv' /\ ses' = ses /\ hand' = hand /\ ticking' = ticking /\ tickAgain' = tickAgain
  BY PassLeaves DEF DoSetStep
<1>3. PICK k \in {"count", "rearm", "exhaust"} :
        /\ Doing(k)
        /\ k = "count" =>
             /\ \/ /\ row' = [row EXCEPT ![Head(pass).step] =
                               [st |-> "pending", ses |-> FALSE, tries |-> Head(pass).n]]
                   /\ UNCHANGED <<rail, refused>>
                \/ refused' = refused + 1 /\ UNCHANGED <<rail, row>>
             /\ spent' = [spent EXCEPT ![Head(pass).step] = @ + 1]
        /\ k = "rearm" => SetStep(Head(pass).step, "pending", FALSE, {})
        /\ k = "exhaust" => SetStep(Head(pass).step, "stalled", FALSE, {0})
  <2>1. \/ /\ Doing("count")
           /\ \/ /\ row' = [row EXCEPT ![Head(pass).step] =
                             [st |-> "pending", ses |-> FALSE, tries |-> Head(pass).n]]
                 /\ UNCHANGED <<rail, refused>>
              \/ refused' = refused + 1 /\ UNCHANGED <<rail, row>>
           /\ spent' = [spent EXCEPT ![Head(pass).step] = @ + 1]
        \/ Doing("rearm") /\ SetStep(Head(pass).step, "pending", FALSE, {})
        \/ Doing("exhaust") /\ SetStep(Head(pass).step, "stalled", FALSE, {0})
    BY DEF DoSetStep
  <2> QED
    BY <2>1
<1>4. /\ pass # <<>> /\ Head(pass) \in Due /\ Head(pass).kind = k
      /\ Head(pass).step \in Steps
  BY <1>1, <1>3, HeadIsDue DEF Stepped
<1>5. PICK a \in Due : a = Head(pass) /\ a.kind = k /\ a.step \in Steps
  BY <1>4
<1>6. PICK s \in Steps : s = a.step
  BY <1>5
<1>7. RowsInv' /\ \A t \in Steps : (k = "count" => t # s) => Undisturbed(t)
  <2>1. CASE k = "count"
    <3>1. PICK n \in 1..MaxTries : /\ n = a.n /\ Kind[s] \in Loops
                                   /\ spent[s] + 1 <= n + refused
      BY <1>5, <1>6, <2>1 DEF Due, Sound, Stands, StepAction, Stepped
    <3>2. /\ \/ /\ row' = [row EXCEPT ![s] = [st |-> "pending", ses |-> FALSE, tries |-> n]]
                /\ UNCHANGED <<rail, refused>>
             \/ refused' = refused + 1 /\ UNCHANGED <<rail, row>>
          /\ spent' = [spent EXCEPT ![s] = @ + 1]
      BY <1>3, <1>5, <1>6, <2>1, <3>1
    <3> QED
      BY <1>2, <2>1, <3>1, <3>2, CountKeeps DEF RailsInv
  <2>2. CASE k = "rearm"
    <3>1. SetStep(s, "pending", FALSE, {})
      BY <1>3, <1>5, <1>6, <2>2
    <3> QED
      BY <1>2, <2>2, <3>1, SetStepKeeps DEF RailsInv
  <2>3. CASE k = "exhaust"
    <3>1. SetStep(s, "stalled", FALSE, {0})
      BY <1>3, <1>5, <1>6, <2>3
    <3> QED
      BY <1>2, <2>3, <3>1, SetStepKeeps DEF RailsInv
  <2> QED
    BY <2>1, <2>2, <2>3
<1>8. \A t \in Steps :
        (Head(pass).kind \in Claims => t # Head(pass).step) => Undisturbed(t)
  BY <1>5, <1>6, <1>7 DEF Claims
<1>9. PassInv'
  BY <1>1, <1>4, <1>8, PassPops
<1>10. again' \in BOOLEAN /\ tickAgain' \in BOOLEAN
  BY <1>1, <1>2 DEF RailsInv, LoopInv
<1> QED
  BY <1>1, <1>2, <1>7, <1>9, <1>10, Together

\* A rail's write that was left for after an await.
LEMMA DoSetRailKeeps ==
    ASSUME RailsInv, DoSetRail
    PROVE  RailsInv'
<1>1. Doing("setRail") /\ ticking /\ PassInv /\ cpu' = "free" /\ again' = again
  BY DEF DoSetRail, Doing, RailsInv, Awaits
<1>2. WorldInv' /\ ses' = ses /\ hand' = hand /\ ticking' = ticking /\ tickAgain' = tickAgain
  BY PassLeaves DEF DoSetRail
<1>3. pass # <<>> /\ Head(pass) \in Due /\ Head(pass).kind = "setRail"
  BY <1>1, HeadIsDue
<1>4. PICK a \in Due : a = Head(pass)
  BY <1>3
<1>5. PICK r \in RailSet, x \in {"idle", "running", "paused"}, n \in Nat :
        r = a.rail /\ x = a.st /\ n = a.n
  BY <1>3, <1>4 DEF Due, Sound, RailAction, Railed, Ops
<1>6. SetRail(r, x, n) /\ Then(<<>>)
  BY <1>4, <1>5 DEF DoSetRail
<1>7. RowsInv' /\ \A t \in Steps : Undisturbed(t)
  BY <1>2, <1>6, SetRailKeeps DEF RailsInv
<1>8. PassInv'
  BY <1>1, <1>3, <1>6, <1>7, PassPops
<1>9. again' \in BOOLEAN /\ tickAgain' \in BOOLEAN
  BY <1>1, <1>2 DEF RailsInv, LoopInv
<1> QED
  BY <1>1, <1>2, <1>7, <1>8, <1>9, Together

\* A rail that was paused around the stall is put back to running.
LEMMA DoUnpauseKeeps ==
    ASSUME RailsInv, DoUnpause
    PROVE  RailsInv'
<1>1. Doing("unpause") /\ ticking /\ PassInv /\ Then(<<>>)
  BY DEF DoUnpause, Doing, RailsInv
<1>2. WorldInv' /\ ses' = ses /\ hand' = hand /\ ticking' = ticking /\ tickAgain' = tickAgain
  BY PassLeaves DEF DoUnpause
<1>3. pass # <<>>
  BY <1>1, HeadIsDue
<1>4. PICK r \in RailSet, n \in Nat : r = Head(pass).rail /\ n = Head(pass).n
  BY <1>1, HeadIsDue DEF Railed
<1>5. /\ RowsInv' /\ \A t \in Steps : Undisturbed(t)
      /\ cpu' \in {"free", "pass"} /\ again' \in {again, TRUE}
  <2>1. CASE rail[r].st = "paused"
    <3>1. PICK j \in Nat : j = IF rail[r].at # 0 THEN rail[r].at ELSE n
      BY DEF RailsInv, RowsInv
    <3>2. SetRail(r, "running", j) /\ cpu' = "free" /\ again' = TRUE
      BY <1>4, <2>1, <3>1 DEF DoUnpause, Awaits
    <3> QED
      BY <1>2, <3>2, SetRailKeeps DEF RailsInv
  <2>2. CASE rail[r].st # "paused"
    <3>1. UNCHANGED runVars /\ cpu' = "pass" /\ again' = again
      BY <1>4, <2>2 DEF DoUnpause, RunsOn
    <3> QED
      BY <1>2, <3>1, RunsStay DEF RailsInv
  <2> QED
    BY <2>1, <2>2
<1>6. PassInv'
  BY <1>1, <1>3, <1>5, PassPops
<1>7. again' \in BOOLEAN /\ tickAgain' \in BOOLEAN
  BY <1>2, <1>5 DEF RailsInv, LoopInv
<1> QED
  BY <1>1, <1>2, <1>5, <1>6, <1>7, Together

\* Advancing, completing and arming a rail are one write of it.
LEMMA RailActionKeeps ==
    ASSUME RailsInv, NEW k \in {"advance", "complete", "arm"}, Doing(k),
           NEW x \in {"idle", "running"}, NEW n \in Nat,
           SetRail(Head(pass).rail, x, n), Then(<<>>), cpu' = "free", again' \in BOOLEAN,
           UNCHANGED <<worldVars, ticking, tickAgain, hand>>
    PROVE  RailsInv'
<1>1. ticking /\ PassInv
  BY DEF Doing, RailsInv
<1>2. WorldInv' /\ ses' = ses /\ hand' = hand /\ ticking' = ticking /\ tickAgain' = tickAgain
  BY DEF RailsInv, WorldInv, worldVars
<1>3. pass # <<>>
  BY <1>1, HeadIsDue
<1>4. PICK r \in RailSet : r = Head(pass).rail
  BY <1>1, HeadIsDue DEF Railed
<1>5. SetRail(r, x, n)
  BY <1>4
<1>6. RowsInv' /\ \A t \in Steps : Undisturbed(t)
  BY <1>2, <1>5, SetRailKeeps DEF RailsInv
<1>7. PassInv'
  BY <1>1, <1>3, <1>6, PassPops
<1>8. tickAgain' \in BOOLEAN
  BY <1>2 DEF RailsInv, LoopInv
<1> QED
  BY <1>1, <1>2, <1>6, <1>7, <1>8, Together

\* The pass advances, completes or arms a rail.
LEMMA DoRailKeeps ==
    ASSUME RailsInv, DoAdvance \/ DoComplete \/ DoArm
    PROVE  RailsInv'
<1>1. again \in BOOLEAN /\ PassInv
  BY DEF RailsInv, LoopInv
<1>2. CASE DoAdvance
  <2>1. /\ Doing("advance") /\ Then(<<>>) /\ cpu' = "free" /\ again' = again
        /\ UNCHANGED <<worldVars, ticking, tickAgain, hand>>
    BY <1>2 DEF DoAdvance, Awaits
  <2>2. PICK n \in Nat : n = Head(pass).n
    BY <1>1, <2>1, HeadIsDue
  <2>3. SetRail(Head(pass).rail, "running", n)
    BY <1>2, <2>2 DEF DoAdvance
  <2> QED
    BY <1>1, <2>1, <2>3, RailActionKeeps
<1>3. CASE DoComplete
  <2>1. /\ Doing("complete") /\ Then(<<>>) /\ cpu' = "free"
        /\ SetRail(Head(pass).rail, "idle", 0)
        /\ UNCHANGED <<worldVars, ticking, tickAgain, hand>>
    BY <1>3 DEF DoComplete, Awaits, PassUnchanged
  <2>2. again' \in BOOLEAN
    BY <1>3 DEF DoComplete
  <2> QED
    BY <2>1, <2>2, RailActionKeeps
<1>4. CASE DoArm
  <2>1. /\ Doing("arm") /\ Then(<<>>) /\ cpu' = "free" /\ again' = TRUE
        /\ UNCHANGED <<worldVars, ticking, tickAgain, hand>>
    BY <1>4 DEF DoArm, Awaits, PassUnchanged
  <2>2. PICK n \in Nat : n = Head(pass).n
    BY <1>1, <2>1, HeadIsDue
  <2>3. SetRail(Head(pass).rail, "running", n)
    BY <1>4, <2>2 DEF DoArm
  <2>4. again' \in BOOLEAN
    BY <2>1
  <2> QED
    BY <2>1, <2>3, <2>4, RailActionKeeps
<1> QED
  BY <1>2, <1>3, <1>4

\* The target of a start-rail step is started.
LEMMA DoStartRailKeeps ==
    ASSUME RailsInv, DoStartRail
    PROVE  RailsInv'
<1>1. Doing("startRail") /\ ticking /\ PassInv /\ Then(<<>>)
  BY DEF DoStartRail, Doing, RailsInv
<1>2. /\ WorldInv' /\ ses' = ses /\ hand' = hand /\ ticking' = ticking /\ again' = again
  BY DEF DoStartRail, RailsInv, WorldInv, worldVars
<1>3. pass # <<>>
  BY <1>1, HeadIsDue
<1>4. PICK r \in RailSet : r = Head(pass).rail
  BY <1>1, HeadIsDue DEF Railed
<1>5. /\ RowsInv' /\ \A t \in Steps : Undisturbed(t)
      /\ cpu' \in {"free", "pass"} /\ tickAgain' \in {tickAgain, TRUE}
  <2>1. CASE FirstUnfinished(r) # 0
    <3>1. PICK j \in Nat : j = FirstUnfinished(r)
      BY FirstUnfinishedType
    <3>2. SetRail(r, "running", j) /\ cpu' = "free" /\ tickAgain' = TRUE
      BY <1>4, <2>1, <3>1 DEF DoStartRail, Awaits
    <3> QED
      BY <1>2, <3>2, SetRailKeeps DEF RailsInv
  <2>2. CASE FirstUnfinished(r) = 0
    <3>1. UNCHANGED runVars /\ cpu' = "pass" /\ tickAgain' = tickAgain
      BY <1>4, <2>2 DEF DoStartRail, RunsOn
    <3> QED
      BY <1>2, <3>1, RunsStay DEF RailsInv
  <2> QED
    BY <2>1, <2>2
<1>6. PassInv'
  BY <1>1, <1>3, <1>5, PassPops
<1>7. again' \in BOOLEAN /\ tickAgain' \in BOOLEAN
  BY <1>2, <1>5 DEF RailsInv, LoopInv
<1> QED
  BY <1>1, <1>2, <1>5, <1>6, <1>7, Together

\* A launch for a session: what awaits the host is about the same step.
LEMMA CreateIsDue ==
    ASSUME PassInv, Doing("launch"), NEW s \in Steps, s = Head(pass).step,
           Kind[s] \notin {"review", "pr"}, row' = row
    PROVE  /\ StepOp("create", s) \in Ops /\ StepOp("create", s) \in Due'
           /\ StepOp("create", s).kind \in Claims =>
                Head(pass).kind \in Claims /\ StepOp("create", s).step = Head(pass).step
<1>1. Head(pass) \in Due /\ Head(pass).kind = "launch"
  BY HeadIsDue
<1>2. PICK a \in Due : a = Head(pass) /\ a.kind = "launch" /\ a.step = s
  BY <1>1
<1>3. row[s].st # "running"
  BY <1>2 DEF Due, Stands
<1>4. PICK c : c = StepOp("create", s)
  OBVIOUS
<1>5. /\ c = [kind |-> "create", step |-> s, rail |-> "none", st |-> "none", n |-> 0]
      /\ c.kind = "create" /\ c.step = s
  BY <1>4 DEF StepOp, Op
<1>6. c \in Ops
  BY <1>5 DEF Ops, Stepped
<1>7. Sound(c)
  BY <1>5 DEF Sound, StepAction, Railed
<1>8. Stands(c)'
  BY <1>3, <1>5 DEF Stands
<1>9. Head(pass).kind \in Claims /\ c.step = Head(pass).step
  BY <1>1, <1>5 DEF Claims
<1> QED
  BY <1>4, <1>6, <1>7, <1>8, <1>9 DEF Due

\* A start-rail step: done before its target is armed, or stalled.
LEMMA LaunchGavinKeeps ==
    ASSUME RailsInv, Doing("launch"), NEW s \in Steps, s = Head(pass).step,
           Kind[s] = "gavin", LaunchGavin(s), UNCHANGED ses
    PROVE  RowsInv' /\ PassInv' /\ cpu' = "free" /\ again' \in BOOLEAN
<1>1. PassInv /\ again \in BOOLEAN
  BY DEF RailsInv, LoopInv
<1>2. pass # <<>>
  BY <1>1, HeadIsDue
<1>3. PICK r \in RailSet : r = Target[s]
  BY RailsAssumption
<1>4. CASE Stall(s, {}) /\ again' = again
  BY <1>1, <1>2, <1>4, StallKeeps
<1>5. CASE ~(Stall(s, {}) /\ again' = again)
  <2>1. /\ SetStep(s, "done", FALSE, {}) /\ again' = TRUE /\ cpu' = "free"
        /\ Then(IF rail[r].st = "idle" THEN <<RailOp("startRail", r, 0)>> ELSE <<>>)
    BY <1>3, <1>5 DEF LaunchGavin, Awaits
  <2>2. RowsInv' /\ \A t \in Steps : Undisturbed(t)
    BY <2>1, SetStepKeeps DEF RailsInv
  <2>3. PICK a \in Ops : a = RailOp("startRail", r, 0) /\ a \in Due' /\ a.kind \notin Claims
    <3>1. "startRail" \in Railed
      BY DEF Railed
    <3> QED
      BY <3>1, RailedIsDue DEF RailOp
  <2>4. Then(<<a>>) \/ Then(<<>>)
    BY <2>1, <2>3
  <2>5. CASE Then(<<a>>)
    <3>1. PassInv'
      BY <1>1, <1>2, <2>2, <2>3, <2>5, PassPopsTo
    <3> QED
      BY <2>1, <2>2, <3>1
  <2>6. CASE Then(<<>>)
    <3>1. PassInv'
      BY <1>1, <1>2, <2>2, <2>6, PassPops
    <3> QED
      BY <2>1, <2>2, <3>1
  <2> QED
    BY <2>4, <2>5, <2>6
<1> QED
  BY <1>4, <1>5

\* A step that goes to the host for its session.
LEMMA LaunchAwaits ==
    ASSUME RailsInv, Doing("launch"), NEW s \in Steps, s = Head(pass).step,
           Kind[s] \notin {"review", "pr"}, UNCHANGED runVars, UNCHANGED ses,
           Then(<<StepOp("create", s)>>)
    PROVE  RowsInv' /\ PassInv'
<1>1. PassInv /\ row' = row
  BY DEF RailsInv, runVars
<1>2. pass # <<>>
  BY <1>1, HeadIsDue
<1>3. RowsInv' /\ \A t \in Steps : Undisturbed(t)
  BY RunsStay DEF RailsInv
<1>4. PICK c \in Ops : /\ c = StepOp("create", s) /\ c \in Due'
                       /\ c.kind \in Claims =>
                             Head(pass).kind \in Claims /\ c.step = Head(pass).step
  BY <1>1, CreateIsDue
<1>5. PassInv'
  BY <1>1, <1>2, <1>3, <1>4, PassPopsTo
<1> QED
  BY <1>3, <1>5

\* A review and a pull request run without a session.
LEMMA LaunchToolKeeps ==
    ASSUME RailsInv, Doing("launch"), NEW s \in Steps, s = Head(pass).step,
           LaunchTool(s), UNCHANGED ses
    PROVE  RowsInv' /\ PassInv' /\ cpu' = "free"
<1>1. cpu' = "free"
  BY DEF LaunchTool, Awaits
<1>2. CASE Kind[s] \in {"review", "pr"}
  <2>1. PICK count \in {{}, {0}} : count = IF Kind[s] = "pr" THEN {} ELSE {0}
    OBVIOUS
  <2>2. SetStep(s, "running", FALSE, count) /\ Then(<<>>)
    BY <1>2, <2>1 DEF LaunchTool
  <2>3. count # {} => Kind[s] \notin Loops
    BY <1>2, <2>1 DEF Loops
  <2>4. RowsInv' /\ \A t \in Steps : t # s => Undisturbed(t)
    BY <1>2, <2>2, <2>3, SetStepKeeps DEF RailsInv
  <2>5. pass # <<>> /\ Head(pass).kind \in Claims /\ PassInv
    BY HeadIsDue DEF RailsInv, Claims
  <2>6. PassInv'
    BY <2>2, <2>4, <2>5, PassPops
  <2> QED
    BY <1>1, <2>4, <2>6
<1>3. CASE Kind[s] \notin {"review", "pr"}
  <2>1. UNCHANGED runVars /\ Then(<<StepOp("create", s)>>)
    BY <1>3 DEF LaunchTool
  <2> QED
    BY <1>1, <1>3, <2>1, LaunchAwaits
<1> QED
  BY <1>2, <1>3

\* A card whose brief is being rewritten stalls, and its rail runs on.
LEMMA LaunchCardKeeps ==
    ASSUME RailsInv, Doing("launch"), NEW s \in Steps, s = Head(pass).step,
           Kind[s] = "card", LaunchCard(s), UNCHANGED ses
    PROVE  RowsInv' /\ PassInv' /\ cpu' = "free"
<1>1. cpu' = "free"
  BY DEF LaunchCard, Awaits
<1>2. CASE s \in locked
  <2>1. SetStep(s, "stalled", FALSE, {}) /\ Then(<<>>)
    BY <1>2 DEF LaunchCard
  <2>2. RowsInv' /\ \A t \in Steps : Undisturbed(t)
    BY <2>1, SetStepKeeps DEF RailsInv
  <2>3. pass # <<>> /\ PassInv
    BY HeadIsDue DEF RailsInv
  <2>4. PassInv'
    BY <2>1, <2>2, <2>3, PassPops
  <2> QED
    BY <1>1, <2>2, <2>4
<1>3. CASE s \notin locked
  <2>1. UNCHANGED runVars /\ Then(<<StepOp("create", s)>>)
    BY <1>3 DEF LaunchCard
  <2> QED
    BY <1>1, <2>1, LaunchAwaits
<1> QED
  BY <1>2, <1>3

\* A launch, held back or of one of its kinds.
LEMMA DoLaunchKeeps ==
    ASSUME RailsInv, DoLaunch
    PROVE  RailsInv'
<1>1. Doing("launch") /\ ticking /\ PassInv /\ again \in BOOLEAN
  BY DEF DoLaunch, Doing, RailsInv, LoopInv
<1>2. PICK s \in Steps : s = Head(pass).step /\ pass # <<>>
  BY <1>1, HeadIsDue DEF Stepped
<1>3. WorldInv' /\ ses' = ses /\ hand' = hand /\ ticking' = ticking /\ tickAgain' = tickAgain
  BY PassLeaves DEF DoLaunch
<1>4. \/ Then(<<>>) /\ cpu' = "pass" /\ UNCHANGED <<runVars, again>>
      \/ Kind[s] = "gavin" /\ LaunchGavin(s)
      \/ Kind[s] = "card" /\ LaunchCard(s) /\ again' = again
      \/ LaunchTool(s) /\ again' = again
  BY <1>2 DEF DoLaunch, RunsOn
<1>5. RowsInv' /\ PassInv' /\ cpu' \in {"free", "pass"} /\ again' \in BOOLEAN
  <2>1. CASE Then(<<>>) /\ cpu' = "pass" /\ UNCHANGED <<runVars, again>>
    <3>1. UNCHANGED runVars /\ again' = again
      BY <2>1
    <3>2. RowsInv' /\ \A t \in Steps : Undisturbed(t)
      BY <1>3, <3>1, RunsStay DEF RailsInv
    <3>3. PassInv'
      BY <1>1, <1>2, <2>1, <3>2, PassPops
    <3> QED
      BY <1>1, <2>1, <3>1, <3>2, <3>3
  <2>2. CASE Kind[s] = "gavin" /\ LaunchGavin(s)
    BY <1>1, <1>2, <1>3, <2>2, LaunchGavinKeeps
  <2>3. CASE Kind[s] = "card" /\ LaunchCard(s) /\ again' = again
    BY <1>1, <1>2, <1>3, <2>3, LaunchCardKeeps
  <2>4. CASE LaunchTool(s) /\ again' = again
    BY <1>1, <1>2, <1>3, <2>4, LaunchToolKeeps
  <2> QED
    BY <1>4, <2>1, <2>2, <2>3, <2>4
<1>6. tickAgain' \in BOOLEAN
  BY <1>3 DEF RailsInv, LoopInv
<1> QED
  BY <1>1, <1>3, <1>5, <1>6, Together

\* createSessionOnRailPage has answered.
LEMMA DoCreateKeeps ==
    ASSUME RailsInv, DoCreate
    PROVE  RailsInv'
<1>1. Doing("create") /\ ticking /\ PassInv
  BY DEF DoCreate, Doing, RailsInv
<1>2. /\ pass # <<>> /\ Head(pass) \in Due /\ Head(pass).kind = "create"
      /\ Head(pass).step \in Steps
  BY <1>1, HeadIsDue DEF Stepped
<1>3. PICK s \in Steps : s = Head(pass).step
  BY <1>2
<1>4. /\ card' = card /\ blocked' = blocked /\ locked' = locked /\ report' = report
      /\ held' = held /\ hand' = hand /\ ticking' = ticking /\ tickAgain' = tickAgain
      /\ again' = again
  BY DEF DoCreate
<1>5. \/ /\ ses' = [ses EXCEPT ![s] = "new"]
         /\ Then(<<StepOp("bind", s)>>) /\ cpu' = "free" /\ UNCHANGED runVars
      \/ Stall(s, {}) /\ ses' = ses
  BY <1>3 DEF DoCreate, Awaits
<1>6. RowsInv' /\ PassInv' /\ WorldInv' /\ cpu' = "free"
  <2>1. CASE /\ ses' = [ses EXCEPT ![s] = "new"]
             /\ Then(<<StepOp("bind", s)>>) /\ cpu' = "free" /\ UNCHANGED runVars
    <3>1. /\ ses' \in [Steps -> Live \cup Dead \cup {"none"}] /\ ses'[s] = "new"
          /\ \A t \in Steps : ses[t] # "none" => ses'[t] # "none"
      BY <2>1 DEF RailsInv, WorldInv, Live, Healthy
    <3>2. RowsInv' /\ \A t \in Steps : Undisturbed(t)
      BY <2>1, <3>1, RunsStay DEF RailsInv
    <3>3. PICK a \in Due : a = Head(pass) /\ a.kind = "create" /\ a.step = s
      BY <1>2, <1>3
    <3>4. Kind[s] \notin {"review", "pr"}
      BY <3>3 DEF Due, Sound, StepAction, Stepped
    <3>5. PICK b : b = StepOp("bind", s)
      OBVIOUS
    <3>6. /\ b = [kind |-> "bind", step |-> s, rail |-> "none", st |-> "none", n |-> 0]
          /\ b.kind = "bind" /\ b.step = s
      BY <3>5 DEF StepOp, Op
    <3>7. b \in Ops
      BY <3>6 DEF Ops, Stepped
    <3>8. Sound(b)
      BY <3>4, <3>6 DEF Sound, StepAction, Railed
    <3>9. Stands(b)'
      BY <3>1, <3>6 DEF Stands
    <3>10. b \in Due'
      BY <3>7, <3>8, <3>9 DEF Due
    <3>11. Head(pass).kind \in Claims /\ b.step = Head(pass).step
      BY <1>2, <1>3, <3>6 DEF Claims
    <3>12. PassInv'
      BY <1>1, <1>2, <2>1, <3>2, <3>5, <3>7, <3>10, <3>11, PassPopsTo
    <3>13. WorldInv'
      BY <1>4, <3>1 DEF RailsInv, WorldInv
    <3> QED
      BY <2>1, <3>2, <3>12, <3>13
  <2>2. CASE Stall(s, {}) /\ ses' = ses
    <3>1. RowsInv' /\ PassInv' /\ cpu' = "free"
      BY <1>2, <2>2, StallKeeps
    <3>2. WorldInv'
      BY <1>4, <2>2 DEF RailsInv, WorldInv
    <3> QED
      BY <3>1, <3>2
  <2> QED
    BY <1>5, <2>1, <2>2
<1>7. again' \in BOOLEAN /\ tickAgain' \in BOOLEAN
  BY <1>4 DEF RailsInv, LoopInv
<1> QED
  BY <1>1, <1>4, <1>6, <1>7, Together

\* The row names its session at last.
LEMMA DoBindKeeps ==
    ASSUME RailsInv, DoBind
    PROVE  RailsInv'
<1>1. Doing("bind") /\ ticking /\ PassInv /\ Then(<<>>) /\ cpu' = "free" /\ again' = again
  BY DEF DoBind, Doing, RailsInv, Awaits
<1>2. WorldInv' /\ ses' = ses /\ hand' = hand /\ ticking' = ticking /\ tickAgain' = tickAgain
  BY PassLeaves DEF DoBind
<1>3. /\ pass # <<>> /\ Head(pass) \in Due /\ Head(pass).kind = "bind"
      /\ Head(pass).step \in Steps
  BY <1>1, HeadIsDue DEF Stepped
<1>4. PICK a \in Due : a = Head(pass) /\ a.kind = "bind" /\ a.step \in Steps
  BY <1>3
<1>5. PICK s \in Steps : s = a.step
  BY <1>4
<1>6. Kind[s] \notin {"review", "pr"} /\ ses[s] # "none"
  BY <1>4, <1>5 DEF Due, Sound, Stands, StepAction, Stepped
<1>7. PICK count \in {{}, {0}} : count = IF Kind[s] = "until" THEN {} ELSE {0}
  OBVIOUS
<1>8. SetStep(s, "running", TRUE, count)
  BY <1>4, <1>5, <1>7 DEF DoBind
<1>9. count # {} => Kind[s] \notin Loops
  BY <1>6, <1>7 DEF Loops
<1>10. RowsInv' /\ \A t \in Steps : t # s => Undisturbed(t)
  BY <1>2, <1>6, <1>8, <1>9, SetStepKeeps DEF RailsInv
<1>11. Head(pass).kind \in Claims /\ Head(pass).step = s
  BY <1>4, <1>5 DEF Claims
<1>12. PassInv'
  BY <1>1, <1>3, <1>10, <1>11, PassPops
<1>13. again' \in BOOLEAN /\ tickAgain' \in BOOLEAN
  BY <1>1, <1>2 DEF RailsInv, LoopInv
<1> QED
  BY <1>1, <1>2, <1>10, <1>12, <1>13, Together

\* runTick: what it decides is what a pass may hold.
LEMMA RunTickKeeps ==
    ASSUME RailsInv, RunTick
    PROVE  RailsInv'
<1>1. /\ ticking /\ ticking' = ticking /\ cpu' = "pass" /\ tickAgain' = tickAgain
      /\ again' = again /\ hand' = hand /\ UNCHANGED runVars /\ UNCHANGED worldVars
      /\ pass' = NextActions
  BY DEF RunTick, RailsInv, LoopInv
<1>2. WorldInv' /\ ses' = ses
  BY <1>1 DEF RailsInv, WorldInv, worldVars
<1>3. RowsInv' /\ \A t \in Steps : Undisturbed(t)
  BY <1>1, <1>2, RunsStay DEF RailsInv
<1>4. PICK p \in Seq(Due) : p = NextActions /\ Apart(p)
  BY NextActionsIsDue DEF RailsInv
<1>5. PICK D : D = Due'
  OBVIOUS
<1>6. ASSUME NEW i \in 1..Len(p)
      PROVE  p[i] \in D
  <2>1. p[i] \in Due
    OBVIOUS
  <2>2. p[i].kind \in Claims => p[i].step \in Steps
    BY <2>1 DEF Due, Sound, StepAction, Claims, Stepped
  <2> QED
    BY <1>3, <1>5, <2>1, <2>2, StillDue
<1>7. p \in Seq(D)
  BY <1>6, SeqMembers
<1>8. PassInv'
  BY <1>1, <1>4, <1>5, <1>7 DEF PassInv
<1>9. again' \in BOOLEAN /\ tickAgain' \in BOOLEAN
  BY <1>1 DEF RailsInv, LoopInv
<1> QED
  BY <1>1, <1>2, <1>3, <1>8, <1>9, Together

\* The end of a pass (tick): another begins only if one was asked for.
LEMMA EndPassKeeps ==
    ASSUME RailsInv, EndPass
    PROVE  RailsInv'
<1>1. /\ pass = <<>> /\ pass' = pass /\ hand' = hand /\ UNCHANGED runVars /\ UNCHANGED worldVars
      /\ ticking' = (tickAgain \/ again) /\ cpu' = IF ticking' THEN "tick" ELSE "free"
      /\ tickAgain' = FALSE /\ again' = FALSE
  BY DEF EndPass
<1>2. WorldInv' /\ ses' = ses
  BY <1>1 DEF RailsInv, WorldInv, worldVars
<1>3. RowsInv'
  BY <1>1, <1>2, RunsStay DEF RailsInv
<1>4. HandInv'
  BY <1>1 DEF RailsInv, HandInv
<1>5. PassInv'
  BY <1>1, PassEmpty
<1>6. LoopInv'
  <2>1. ticking' \in BOOLEAN /\ tickAgain' \in BOOLEAN /\ again' \in BOOLEAN
    BY <1>1
  <2>2. cpu' \in {"tick", "free"} /\ (cpu' = "tick" => ticking')
    BY <1>1
  <2> QED
    BY <1>1, <2>1, <2>2 DEF LoopInv
<1> QED
  BY <1>2, <1>3, <1>4, <1>5, <1>6 DEF RailsInv

----------------------------------------------------------------------------
(* The presses, the rest of a handler, and the world *)

\* A press, or a piece of a handler, beside a pass it does not touch.
LEMMA BesidePass ==
    ASSUME RailsInv, UNCHANGED worldVars, UNCHANGED passVars, cpu' \in {"free", "hand"},
           HandInv', RowsInv', \A t \in Steps : Undisturbed(t)
    PROVE  RailsInv'
<1>1. pass' = pass /\ ticking' = ticking /\ tickAgain' = tickAgain /\ again' = again
  BY DEF passVars
<1>2. WorldInv'
  BY DEF RailsInv, WorldInv, worldVars
<1>3. LoopInv'
  BY <1>1 DEF RailsInv, LoopInv
<1>4. PassInv'
  BY <1>1, PassStays DEF RailsInv
<1> QED
  BY <1>2, <1>3, <1>4 DEF RailsInv

\* What a handler has left is written later.
LEMMA HandedOps ==
    /\ TickOp \in Handed
    /\ \A s \in Steps : StepOp("reset", s) \in Handed
    /\ \A r \in RailSet, n \in Nat : RailOp("idle", r, n) \in Handed
                                     /\ RailOp("unpause", r, n) \in Handed
<1>1. TickOp \in Handed
  <2>1. PICK a : a = TickOp
    OBVIOUS
  <2>2. /\ a = [kind |-> "tick", step |-> "none", rail |-> "none", st |-> "none", n |-> 0]
        /\ a.kind = "tick"
    BY <2>1 DEF TickOp, Op
  <2> QED
    BY <2>1, <2>2 DEF Handed
<1>2. ASSUME NEW s \in Steps
      PROVE  StepOp("reset", s) \in Handed
  <2>1. PICK a : a = StepOp("reset", s)
    OBVIOUS
  <2>2. /\ a = [kind |-> "reset", step |-> s, rail |-> "none", st |-> "none", n |-> 0]
        /\ a.kind = "reset" /\ a.step = s
    BY <2>1 DEF StepOp, Op
  <2> QED
    BY <2>1, <2>2 DEF Handed
<1>3. ASSUME NEW r \in RailSet, NEW n \in Nat, NEW k \in {"idle", "unpause"}
      PROVE  RailOp(k, r, n) \in Handed
  <2>1. PICK a : a = RailOp(k, r, n)
    OBVIOUS
  <2>2. /\ a = [kind |-> k, step |-> "none", rail |-> r, st |-> "none", n |-> n]
        /\ a.kind = k /\ a.rail = r
    BY <2>1 DEF RailOp, Op
  <2> QED
    BY <2>1, <2>2 DEF Handed
<1> QED
  BY <1>1, <1>2, <1>3

\* What a press leaves its handler is of the handler's actions.
LEMMA HandedSeqs ==
    ASSUME NEW a \in Handed, NEW b \in Handed
    PROVE  <<>> \in Seq(Handed) /\ <<a>> \in Seq(Handed) /\ <<a, b>> \in Seq(Handed)
<1>1. PICK H : H = Handed
  OBVIOUS
<1>2. <<>> \in Seq(H) /\ <<a>> \in Seq(H) /\ <<a, b>> \in Seq(H)
  BY <1>1
<1> QED
  BY <1>1, <1>2

\* A press that writes one row, and ticks after it.
LEMMA PressStepKeeps ==
    ASSUME RailsInv, NEW s \in Steps, PressRetry(s) \/ PressMarkDone(s) \/ PressSkip(s)
    PROVE  RailsInv'
<1>1. Press /\ cpu' = cpu
  BY DEF PressRetry, PressMarkDone, PressSkip
<1>2. UNCHANGED worldVars /\ UNCHANGED passVars /\ cpu' = "free" /\ ses' = ses
  BY <1>1 DEF Press, worldVars
<1>3. PICK x \in {"pending", "done", "skipped"}, named \in BOOLEAN, count \in {{}, {0}} :
        SetStep(s, x, named, count)
  <2>1. row[s].ses \in BOOLEAN
    BY DEF RailsInv, RowsInv
  <2>2. \/ SetStep(s, "pending", FALSE, {0}) \/ SetStep(s, "done", row[s].ses, {})
        \/ SetStep(s, "skipped", row[s].ses, {})
    BY DEF PressRetry, PressMarkDone, PressSkip
  <2> QED
    BY <2>1, <2>2
<1>4. RowsInv' /\ \A t \in Steps : Undisturbed(t)
  BY <1>2, <1>3, SetStepKeeps DEF RailsInv
<1>5. HandInv'
  <2>1. PICK a \in Handed, b \in Handed :
          a = TickOp /\ b = RailOp("unpause", Owning[s], StageOf[s])
    BY HandedOps, Placing
  <2>2. hand' \in {<<a>>, <<b, a>>}
    BY <2>1 DEF PressRetry, PressMarkDone, PressSkip
  <2> QED
    BY <2>2, HandedSeqs DEF HandInv
<1> QED
  BY <1>2, <1>4, <1>5, BesidePass

\* Start, Pause and Reset.
LEMMA PressRailKeeps ==
    ASSUME RailsInv, NEW r \in RailSet, PressStart(r) \/ PressPause(r) \/ PressReset(r)
    PROVE  RailsInv'
<1>1. Press
  BY DEF PressStart, PressPause, PressReset
<1>2. UNCHANGED worldVars /\ UNCHANGED passVars /\ cpu = "free" /\ ses' = ses
  BY <1>1 DEF Press, worldVars
<1>3. rail[r].at \in Nat /\ FirstUnfinished(r) \in Nat
  BY FirstUnfinishedType DEF RailsInv, RowsInv
<1>4. CASE PressStart(r)
  <2>1. PICK j \in Nat : j = IF rail[r].st = "paused" /\ rail[r].at \in DOMAIN Stages[r]
                             THEN rail[r].at ELSE FirstUnfinished(r)
    BY <1>3
  <2>2. SetRail(r, "running", j) /\ hand' = <<TickOp>> /\ cpu' = cpu
    BY <1>4, <2>1 DEF PressStart
  <2>3. RowsInv' /\ \A t \in Steps : Undisturbed(t)
    BY <1>2, <2>2, SetRailKeeps DEF RailsInv
  <2>4. HandInv'
    BY <2>2, HandedOps, HandedSeqs DEF HandInv
  <2> QED
    BY <1>2, <2>2, <2>3, <2>4, BesidePass
<1>5. CASE PressPause(r)
  <2>1. PICK j \in Nat : j = rail[r].at
    BY <1>3
  <2>2. SetRail(r, "paused", j) /\ hand' = hand /\ cpu' = cpu
    BY <1>5, <2>1 DEF PressPause
  <2>3. RowsInv' /\ \A t \in Steps : Undisturbed(t)
    BY <1>2, <2>2, SetRailKeeps DEF RailsInv
  <2>4. HandInv'
    BY <2>2 DEF RailsInv, HandInv
  <2> QED
    BY <1>2, <2>2, <2>3, <2>4, BesidePass
<1>6. CASE PressReset(r)
  <2>1. PICK flat \in Seq(StepsOf[r]) : flat = FlatSteps[r]
    BY FlatFacts
  <2>2. PICK p : p = [i \in 1..Len(flat) |-> StepOp("reset", flat[i])]
    OBVIOUS
  <2>3. p \in Seq(Handed)
    <3>1. \A i \in 1..Len(flat) : flat[i] \in Steps
      BY <2>1 DEF Steps
    <3>2. \A i \in 1..Len(flat) : StepOp("reset", flat[i]) \in Handed
      BY <3>1, HandedOps
    <3>3. Len(flat) \in Nat
      OBVIOUS
    <3>4. p \in [1..Len(flat) -> Handed]
      BY <2>2, <3>2
    <3> QED
      BY <3>3, <3>4
  <2>4. PICK a \in Handed : a = RailOp("idle", r, 0)
    BY HandedOps
  <2>5. hand' = p \o <<a>> /\ cpu' = "hand" /\ UNCHANGED runVars
    <3>1. DOMAIN flat = 1..Len(flat)
      OBVIOUS
    <3> QED
      BY <1>6, <2>1, <2>2, <2>4, <3>1 DEF PressReset
  <2>6. HandInv'
    <3>1. <<a>> \in Seq(Handed)
      BY HandedSeqs
    <3>2. p \o <<a>> \in Seq(Handed)
      BY <2>3, <3>1, ConcatIn
    <3> QED
      BY <2>5, <3>2 DEF HandInv
  <2>7. RowsInv' /\ \A t \in Steps : Undisturbed(t)
    BY <1>2, <2>5, RunsStay DEF RailsInv
  <2> QED
    BY <1>2, <2>5, <2>6, <2>7, BesidePass
<1> QED
  BY <1>4, <1>5, <1>6

\* A tick begins a pass, or is remembered by the one under way.
LEMMA TickKeeps ==
    ASSUME RailsInv, Tick, RowsInv', WorldInv', HandInv', \A t \in Steps : Undisturbed(t)
    PROVE  RailsInv'
<1>1. pass' = pass
  BY DEF Tick
<1>2. PassInv'
  BY <1>1, PassStays DEF RailsInv
<1>3. LoopInv'
  <2>1. CASE ticking
    <3>1. ticking' = ticking /\ tickAgain' = TRUE /\ again' = again /\ cpu' = "free"
      BY <2>1 DEF Tick
    <3> QED
      BY <2>1, <3>1 DEF RailsInv, LoopInv
  <2>2. CASE ~ticking
    <3>1. ticking' = TRUE /\ tickAgain' = tickAgain /\ again' = again /\ cpu' = "tick"
      BY <2>2 DEF Tick
    <3> QED
      BY <2>2, <3>1 DEF RailsInv, LoopInv
  <2> QED
    BY <2>1, <2>2
<1> QED
  BY <1>2, <1>3 DEF RailsInv

\* The rest of a handler, one await at a time.
LEMMA HandStepKeeps ==
    ASSUME RailsInv, HandStep
    PROVE  RailsInv'
<1>1. UNCHANGED worldVars /\ ses' = ses /\ hand' = Tail(hand) /\ hand # <<>>
  BY DEF HandStep, Handling, worldVars
<1>2. PICK p \in Seq(Handed) : p = hand /\ p # <<>>
  BY <1>1 DEF RailsInv, HandInv
<1>3. HandInv'
  BY <1>1, <1>2, TailOf DEF HandInv
<1>4. PICK a \in Handed : a = Head(hand)
  BY <1>2, TailOf
<1>5. WorldInv'
  BY <1>1 DEF RailsInv, WorldInv, worldVars
<1>6. CASE Handling("tick") /\ UNCHANGED runVars /\ Tick
  <2>1. RowsInv' /\ \A t \in Steps : Undisturbed(t)
    BY <1>1, <1>6, RunsStay DEF RailsInv
  <2> QED
    BY <1>3, <1>5, <1>6, <2>1, TickKeeps
<1>7. CASE /\ Handling("reset") /\ SetStep(Head(hand).step, "pending", FALSE, {0})
           /\ Awaits /\ UNCHANGED passVars
  <2>1. PICK s \in Steps : s = Head(hand).step
    BY <1>4, <1>7 DEF Handling, Handed
  <2>2. SetStep(s, "pending", FALSE, {0}) /\ cpu' = "free"
    BY <1>7, <2>1 DEF Awaits
  <2>3. RowsInv' /\ \A t \in Steps : Undisturbed(t)
    BY <1>1, <2>2, SetStepKeeps DEF RailsInv
  <2> QED
    BY <1>1, <1>3, <1>7, <2>2, <2>3, BesidePass
<1>8. CASE /\ Handling("idle") /\ SetRail(Head(hand).rail, "idle", 0)
           /\ Awaits /\ UNCHANGED passVars
  <2>1. PICK r \in RailSet : r = Head(hand).rail
    BY <1>4, <1>8 DEF Handling, Handed
  <2>2. SetRail(r, "idle", 0) /\ cpu' = "free"
    BY <1>8, <2>1 DEF Awaits
  <2>3. RowsInv' /\ \A t \in Steps : Undisturbed(t)
    BY <1>1, <2>2, SetRailKeeps DEF RailsInv
  <2> QED
    BY <1>1, <1>3, <1>8, <2>2, <2>3, BesidePass
<1>9. ASSUME Handling("unpause"), UNCHANGED passVars,
             IF rail[Head(hand).rail].st = "paused"
             THEN /\ SetRail(Head(hand).rail, "running",
                             IF rail[Head(hand).rail].at # 0 THEN rail[Head(hand).rail].at
                             ELSE Head(hand).n)
                  /\ Awaits
             ELSE UNCHANGED runVars /\ cpu' = "hand"
      PROVE  RailsInv'
  <2>1. PICK r \in RailSet, n \in Nat : r = Head(hand).rail /\ n = Head(hand).n
    BY <1>4, <1>9 DEF Handling, Handed
  <2>2. PICK j \in Nat : j = IF rail[r].at # 0 THEN rail[r].at ELSE n
    BY DEF RailsInv, RowsInv
  <2>3. \/ SetRail(r, "running", j) /\ cpu' = "free"
        \/ UNCHANGED runVars /\ cpu' = "hand"
    BY <1>9, <2>1, <2>2 DEF Awaits
  <2>4. RowsInv' /\ \A t \in Steps : Undisturbed(t)
    BY <1>1, <2>3, SetRailKeeps, RunsStay DEF RailsInv
  <2> QED
    BY <1>1, <1>3, <1>9, <2>3, <2>4, BesidePass
<1> QED
  BY <1>6, <1>7, <1>8, <1>9 DEF HandStep

\* What the world does, a tick follows: no session is unmade.
LEMMA WorldKeeps ==
    ASSUME RailsInv, World, WorldInv', \A t \in Steps : ses[t] # "none" => ses'[t] # "none"
    PROVE  RailsInv'
<1>1. UNCHANGED runVars /\ hand' = hand /\ Tick
  BY DEF World
<1>2. RowsInv' /\ \A t \in Steps : Undisturbed(t)
  BY <1>1, RunsStay DEF RailsInv
<1>3. HandInv'
  BY <1>1 DEF RailsInv, HandInv
<1> QED
  BY <1>1, <1>2, <1>3, TickKeeps

\* Sessions, cards, pull requests, holds, a restart of the daemon and a reload
\* of the window.
LEMMA WorldMovesKeep ==
    ASSUME RailsInv, WorldMoves
    PROVE  RailsInv'
<1> DEFINE Sessions == Live \cup Dead \cup {"none"}
<1>0. /\ ses \in [Steps -> Sessions]
      /\ card \subseteq Steps /\ blocked \subseteq Blockable /\ locked \subseteq Lockable
      /\ report \in [Steps -> {"waiting", "pass", "fail"}] /\ held \in BOOLEAN
  BY DEF RailsInv, WorldInv
<1>1. ASSUME NEW s \in Steps, SessionTurns(s)
      PROVE  RailsInv'
  <2>1. PICK x \in Healthy \cup Dead \cup {"broken"} : ses' = [ses EXCEPT ![s] = x]
    BY <1>1 DEF SessionTurns
  <2>2. x \in Sessions /\ x # "none"
    BY DEF Live, Dead, Healthy
  <2>3. /\ ses' \in [Steps -> Sessions]
        /\ \A t \in Steps : ses[t] # "none" => ses'[t] # "none"
    <3> HIDE DEF Sessions
    <3> QED
      BY <1>0, <2>1, <2>2
  <2>4. WorldInv' /\ World
    BY <1>0, <1>1, <2>3 DEF WorldInv, SessionTurns
  <2> QED
    BY <2>3, <2>4, WorldKeeps
<1>2. ASSUME NEW s \in Steps, CardDone(s)
      PROVE  RailsInv'
  <2>1. WorldInv' /\ World /\ ses' = ses
    BY <1>0, <1>2 DEF WorldInv, CardDone
  <2> QED
    BY <2>1, WorldKeeps
<1>3. ASSUME NEW s \in Steps, PullRequest(s)
      PROVE  RailsInv'
  <2>1. World /\ ses' = ses
    BY <1>3 DEF PullRequest
  <2>2. PICK x \in {"waiting", "pass", "fail"} : report' = [report EXCEPT ![s] = x]
    BY <1>3 DEF PullRequest
  <2>3. report' \in [Steps -> {"waiting", "pass", "fail"}]
    BY <1>0, <2>2
  <2>4. WorldInv'
    BY <1>0, <1>3, <2>3 DEF WorldInv, PullRequest
  <2> QED
    BY <2>1, <2>4, WorldKeeps
<1>4. ASSUME NEW s \in Blockable, BlockerMoves(s)
      PROVE  RailsInv'
  <2>1. World /\ ses' = ses /\ blocked' \subseteq Blockable
    BY <1>0, <1>4 DEF BlockerMoves
  <2>2. WorldInv'
    BY <1>0, <1>4, <2>1 DEF WorldInv, BlockerMoves
  <2> QED
    BY <2>1, <2>2, WorldKeeps
<1>5. ASSUME NEW s \in Lockable, LockMoves(s)
      PROVE  RailsInv'
  <2>1. World /\ ses' = ses /\ locked' \subseteq Lockable
    BY <1>0, <1>5 DEF LockMoves
  <2>2. WorldInv'
    BY <1>0, <1>5, <2>1 DEF WorldInv, LockMoves
  <2> QED
    BY <2>1, <2>2, WorldKeeps
<1>6. CASE HoldMoves
  <2>1. World /\ ses' = ses
    BY <1>6 DEF HoldMoves
  <2>2. held' \in BOOLEAN
    BY <1>6 DEF HoldMoves
  <2>3. WorldInv'
    BY <1>0, <1>6, <2>2 DEF WorldInv, HoldMoves
  <2> QED
    BY <2>1, <2>3, WorldKeeps
<1>7. CASE DaemonRestarts
  <2>1. World /\ ses' = [s \in Steps |-> IF ses[s] \in Live THEN "bare" ELSE ses[s]]
    BY <1>7 DEF DaemonRestarts
  <2>2. "bare" \in Sessions
    BY DEF Live
  <2>3. /\ ses' \in [Steps -> Sessions]
        /\ \A t \in Steps : ses[t] # "none" => ses'[t] # "none"
    <3> HIDE DEF Sessions
    <3> QED
      BY <1>0, <2>1, <2>2
  <2>4. WorldInv'
    BY <1>0, <1>7, <2>3 DEF WorldInv, DaemonRestarts
  <2> QED
    BY <2>1, <2>3, <2>4, WorldKeeps
<1>8. CASE Reloads
  <2>1. /\ UNCHANGED runVars /\ hand' = <<>> /\ pass' = <<>> /\ ticking' = TRUE
        /\ tickAgain' = FALSE /\ again' = FALSE /\ cpu' = "tick"
        /\ card' = card /\ blocked' = blocked /\ locked' = locked /\ held' = held
    BY <1>8 DEF Reloads
  <2> DEFINE back(s) == CASE ses[s] = "new" /\ Kind[s] \in Agents -> "rest"
                          [] ses[s] \in Dead -> "gone"
                          [] OTHER -> ses[s]
  <2>2. ses' = [s \in Steps |-> back(s)] /\ report' = [s \in Steps |-> "waiting"]
    BY <1>8 DEF Reloads
  <2>3. ASSUME NEW t \in Steps
        PROVE  back(t) \in Sessions /\ (ses[t] # "none" => back(t) # "none")
    BY <1>0 DEF Live, Dead, Healthy
  <2>4. /\ ses' \in [Steps -> Sessions]
        /\ \A t \in Steps : ses[t] # "none" => ses'[t] # "none"
    <3> HIDE DEF Sessions, back
    <3> QED
      BY <2>2, <2>3
  <2>5. WorldInv'
    BY <1>0, <2>1, <2>2, <2>4 DEF WorldInv
  <2>6. RowsInv'
    BY <2>1, <2>4, RunsStay DEF RailsInv
  <2>7. PassInv' /\ LoopInv'
    BY <2>1, PassEmpty DEF LoopInv
  <2>8. HandInv'
    BY <2>1, HandedOps, HandedSeqs DEF HandInv
  <2> QED
    BY <2>5, <2>6, <2>7, <2>8 DEF RailsInv
<1> QED
  BY <1>1, <1>2, <1>3, <1>4, <1>5, <1>6, <1>7, <1>8 DEF WorldMoves

----------------------------------------------------------------------------
(* What nextActions leaves out of nothing: its whole list *)

\* The actions of a sequence.
Listed(q) == {q[i] : i \in 1..Len(q)}

\* What is flattened is what the parts have.
LEMMA FlattenLists ==
    ASSUME NEW R, NEW qs \in Seq(Seq(R))
    PROVE  Listed(FlattenSeq(qs)) = UNION {Listed(qs[k]) : k \in 1..Len(qs)}
<1> DEFINE q == FlattenSeq(qs)
<1>0. Placed(q, qs, Len(qs))
  BY FlattenPlaces
<1>2. \A k \in 1..Len(qs) : \A m \in 1..Len(qs[k]) : \E i \in 1..Len(q) : q[i] = qs[k][m]
  BY FlattenCovers
<1> HIDE DEF q
<1>1. PICK at \in [1..Len(q) -> (1..Len(qs)) \X Nat] :
            \A i \in 1..Len(q) :
                  /\ at[i][2] \in 1..Len(qs[at[i][1]])
                  /\ q[i] = qs[at[i][1]][at[i][2]]
  BY <1>0, Zenon DEF Placed
<1>3. ASSUME NEW i \in 1..Len(q)
      PROVE  \E k \in 1..Len(qs) : q[i] \in Listed(qs[k])
  <2>1. at[i][1] \in 1..Len(qs)
    BY <1>1
  <2>2. q[i] \in Listed(qs[at[i][1]])
    BY <1>1 DEF Listed
  <2> QED
    BY <2>1, <2>2
<1>4. ASSUME NEW k \in 1..Len(qs), NEW m \in 1..Len(qs[k])
      PROVE  qs[k][m] \in Listed(q)
  BY <1>2 DEF Listed
<1>5. ASSUME NEW a
      PROVE  a \in Listed(q) <=> a \in UNION {Listed(qs[k]) : k \in 1..Len(qs)}
  <2>1. ASSUME a \in Listed(q)
        PROVE  a \in UNION {Listed(qs[k]) : k \in 1..Len(qs)}
    <3>1. PICK i \in 1..Len(q) : a = q[i]
      BY <2>1 DEF Listed
    <3> QED
      BY <1>3, <3>1
  <2>2. ASSUME a \in UNION {Listed(qs[k]) : k \in 1..Len(qs)}
        PROVE  a \in Listed(q)
    <3>1. PICK k \in 1..Len(qs) : a \in Listed(qs[k])
      BY <2>2
    <3>2. PICK m \in 1..Len(qs[k]) : a = qs[k][m]
      BY <3>1 DEF Listed
    <3> QED
      BY <1>4, <3>2
  <2> QED
    BY <2>1, <2>2
<1> QED
  BY <1>5 DEF q

\* What may come before a rail leaves its stage: what is done, and what does
\* not write the rail's cursor.
Free == {"markDone", "advance", "unpause", "arm", "startRail"}
Concerns(a, r) == a.step \in StepsOf[r] \/ a.rail = r

\* The action takes the step's rail to a stage after the step's own.
Passes(a, s) ==
    \/ /\ a.kind \in {"advance", "arm", "setRail"}
       /\ a.rail = Owning[s] /\ StageOf[s] < a.n
    \/ /\ a.kind = "loopBack"
       /\ Owning[a.step] = Owning[s] /\ StageOf[s] < StageOf[Before[a.step]]

\* Before a pass takes a rail to its next stage it only marks steps of it
\* done (rule 4 leaves a stage whose steps are finished), and takes it to
\* the stages before that one; and no step is marked done when its rail has
\* been taken past it.
MayPrecede(a, b) ==
    /\ b.kind = "advance" /\ Concerns(a, b.rail) =>
          a.kind \in Free /\ (a.kind = "advance" => a.n < b.n)
    /\ b.kind = "markDone" /\ a.kind \in {"advance", "loopBack"} => ~Passes(a, b.step)
Ordered(q) == \A i, k \in 1..Len(q) : i < k => MayPrecede(q[i], q[k])

\* Parts that are in order, and follow each other in order, are so flattened.
LEMMA FlattenOrders ==
    ASSUME NEW R, NEW qs \in Seq(Seq(R)), \A k \in 1..Len(qs) : Ordered(qs[k]),
           \A k, l \in 1..Len(qs) : k < l =>
              \A a \in Listed(qs[k]), b \in Listed(qs[l]) : MayPrecede(a, b)
    PROVE  Ordered(FlattenSeq(qs))
<1> DEFINE q == FlattenSeq(qs)
<1>0. Placed(q, qs, Len(qs))
  BY FlattenPlaces
<1> HIDE DEF q
<1>1. PICK at \in [1..Len(q) -> (1..Len(qs)) \X Nat] :
            /\ \A i, j \in 1..Len(q) :
                  i < j => \/ at[i][1] < at[j][1]
                           \/ at[i][1] = at[j][1] /\ at[i][2] < at[j][2]
            /\ \A i \in 1..Len(q) :
                  /\ at[i][2] \in 1..Len(qs[at[i][1]])
                  /\ q[i] = qs[at[i][1]][at[i][2]]
  BY <1>0, Zenon DEF Placed
<1> SUFFICES ASSUME NEW i \in 1..Len(q), NEW j \in 1..Len(q), i < j
             PROVE  MayPrecede(q[i], q[j])
  BY DEF Ordered, q
<1> DEFINE k == at[i][1]
           m == at[i][2]
           l == at[j][1]
           n == at[j][2]
<1>2. k \in 1..Len(qs) /\ l \in 1..Len(qs)
  OBVIOUS
<1>3. m \in 1..Len(qs[k]) /\ q[i] = qs[k][m]
  BY <1>1
<1>4. n \in 1..Len(qs[l]) /\ q[j] = qs[l][n]
  BY <1>1
<1>5. k < l \/ (k = l /\ m < n)
  BY <1>1
<1> HIDE DEF k, m, l, n
<1>6. CASE k < l
  <2>1. q[i] \in Listed(qs[k]) /\ q[j] \in Listed(qs[l])
    BY <1>3, <1>4 DEF Listed
  <2> QED
    BY <1>2, <1>6, <2>1
<1>7. CASE k = l /\ m < n
  <2>1. Ordered(qs[k])
    BY <1>2
  <2> QED
    BY <1>3, <1>4, <1>7, <2>1 DEF Ordered
<1> QED
  BY <1>5, <1>6, <1>7

\* What a rule says of a step is one action about it.
LEMMA ActionLists ==
    ASSUME NEW s \in Steps, NEW k \in Rules
    PROVE  /\ k = "none" => Listed(ActionFor(k, s)) = {}
           /\ \A a \in Listed(ActionFor(k, s)) :
                 k # "none" /\ a.kind = k /\ a.step = s /\ a.rail = "none"
           /\ k # "none" => \E a \in Listed(ActionFor(k, s)) : a.kind = k /\ a.step = s
<1>1. CASE k = "none"
  <2>1. ActionFor(k, s) = <<>>
    BY <1>1 DEF ActionFor
  <2>2. Listed(<<>>) = {}
    BY DEF Listed
  <2> QED
    BY <1>1, <2>1, <2>2
<1>2. CASE k # "none"
  <2>1. PICK a : ActionFor(k, s) = <<a>> /\ a.kind = k /\ a.step = s /\ a.rail = "none"
    <3> DEFINE b == IF k = "loopBack" THEN Op(k, s, "none", "none", row[s].tries + 1)
                    ELSE StepOp(k, s)
    <3>1. ActionFor(k, s) = <<b>>
      BY <1>2 DEF ActionFor
    <3>2. b.kind = k /\ b.step = s /\ b.rail = "none"
      BY DEF StepOp, Op
    <3> QED
      BY <3>1, <3>2
  <2>2. Listed(<<a>>) = {a}
    <3>1. Len(<<a>>) = 1 /\ <<a>>[1] = a /\ 1..1 = {1}
      OBVIOUS
    <3> QED
      BY <3>1 DEF Listed
  <2> QED
    BY <1>2, <2>1, <2>2
<1> QED
  BY <1>1, <1>2

\* A step is finished in the pass's simulation if it is, or is marked so.
LEMMA SimulatedFacts ==
    ASSUME RowsInv, NEW s \in Steps
    PROVE  /\ Finished(Simulated(s)) <=> Rule(s) = "markDone" \/ Finished(row[s].st)
           /\ Finished(row[s].st) => Rule(s) = "none"
<1>1. row[s].st \in {"pending", "running", "done", "stalled", "skipped"}
  BY DEF RowsInv
<1>2. Finished(row[s].st) => Rule(s) = "none"
  BY <1>1 DEF Rule, Finished
<1>3. Rule(s) \in Rules
  BY RuleFacts
<1>4. Simulated(s) = CASE Rule(s) = "none" -> row[s].st
                       [] Rule(s) = "markDone" -> "done"
                       [] Rule(s) = "launch" -> "running"
                       [] Rule(s) = "stall" -> "stalled"
                       [] Rule(s) = "loopExhausted" -> "stalled"
                       [] Rule(s) = "loopBack" -> "pending"
  BY <1>3 DEF Simulated, Rules
<1>5. Finished(Simulated(s)) <=> Rule(s) = "markDone" \/ (Rule(s) = "none" /\ Finished(row[s].st))
  BY <1>3, <1>4 DEF Rules, Finished
<1> QED
  BY <1>2, <1>5

\* The steps of a stage are its rail's.
LEMMA StageSteps ==
    ASSUME NEW r \in RailSet, NEW j \in 1..Len(Stages[r]), NEW i \in 1..Len(Stages[r][j])
    PROVE  Stages[r][j][i] \in StepsOf[r] /\ Stages[r][j][i] \in Steps
<1>1. Stages[r] \in Seq(Seq(Steps))
  BY RailsAssumption
<1>2. j \in DOMAIN Stages[r] /\ i \in DOMAIN Stages[r][j] /\ Stages[r][j] \in Seq(Steps)
  BY <1>1
<1>3. Stages[r][j][i] \in Steps
  BY <1>2
<1>4. Stages[r][j][i] \in StepsOf[r]
  BY <1>2 DEF StepsOf
<1> QED
  BY <1>3, <1>4

\* The place of a step is the one it is listed at.
LEMMA StageFacts ==
    ASSUME NEW r \in RailSet, NEW j \in 1..Len(Stages[r]), NEW i \in 1..Len(Stages[r][j])
    PROVE  Owning[Stages[r][j][i]] = r /\ StageOf[Stages[r][j][i]] = j
<1>1. PICK s \in Steps : s = Stages[r][j][i] /\ s \in StepsOf[r]
  BY StageSteps
<1>2. Owning[s] = r
  BY <1>1, Placing, StepsApart
<1> DEFINE At(l) == \E k \in DOMAIN Stages[r][l] : Stages[r][l][k] = s
<1>3. StageOf[s] = CHOOSE l \in DOMAIN Stages[r] : At(l)
  BY <1>2 DEF StageOf
<1>4. Stages[r] \in Seq(Seq(Steps))
  BY RailsAssumption
<1>5. j \in DOMAIN Stages[r] /\ i \in DOMAIN Stages[r][j]
  BY <1>4
<1>6. At(j)
  BY <1>1, <1>5
<1>7. ASSUME NEW l \in DOMAIN Stages[r], At(l)
      PROVE  l = j
  <2>1. PICK k \in DOMAIN Stages[r][l] : Stages[r][l][k] = s
    BY <1>7
  <2>2. Stages[r][l][k] = Stages[r][j][i]
    BY <1>1, <2>1
  <2> QED
    BY <1>5, <2>2, OncesAssumption
<1> HIDE DEF At
<1>8. (CHOOSE l \in DOMAIN Stages[r] : At(l)) = j
  BY <1>5, <1>6, <1>7
<1> QED
  BY <1>1, <1>2, <1>3, <1>8

\* A step is on its rail at the stage the plan gives for it.
LEMMA PlacedAt ==
    ASSUME NEW s \in Steps
    PROVE  /\ StageOf[s] \in 1..Len(Stages[Owning[s]])
           /\ \E i \in 1..Len(Stages[Owning[s]][StageOf[s]]) :
                 Stages[Owning[s]][StageOf[s]][i] = s
<1>1. PICK r \in RailSet : r = Owning[s] /\ s \in StepsOf[r]
  BY Placing
<1>2. Stages[r] \in Seq(Seq(Steps))
  BY RailsAssumption
<1>3. PICK j \in DOMAIN Stages[r] : s \in {Stages[r][j][i] : i \in DOMAIN Stages[r][j]}
  BY <1>1 DEF StepsOf
<1>4. PICK i \in DOMAIN Stages[r][j] : s = Stages[r][j][i]
  BY <1>3
<1>5. j \in 1..Len(Stages[r]) /\ i \in 1..Len(Stages[r][j])
  <2>1. j \in 1..Len(Stages[r]) /\ Stages[r][j] \in Seq(Steps)
    BY <1>2
  <2> QED
    BY <1>4, <2>1
<1>6. StageOf[s] = j
  BY <1>4, <1>5, StageFacts
<1> QED
  BY <1>1, <1>4, <1>5, <1>6

\* Whatever a stage lists is a step of that rail and stage.
LEMMA StepPlace ==
    ASSUME NEW r \in RailSet, NEW j \in 1..Len(Stages[r]), NEW i \in 1..Len(Stages[r][j])
    PROVE  \E q \in Steps : q = Stages[r][j][i] /\ Owning[q] = r /\ StageOf[q] = j
<1>1. PICK q \in Steps : q = Stages[r][j][i]
  BY StageSteps
<1> QED
  BY <1>1, StageFacts

\* A stage lists a step once.
LEMMA ListedOnce ==
    ASSUME NEW r \in RailSet, NEW j \in 1..Len(Stages[r])
    PROVE  \A i, k \in 1..Len(Stages[r][j]) : Stages[r][j][i] = Stages[r][j][k] => i = k
<1>1. Stages[r] \in Seq(Seq(Steps))
  BY RailsAssumption
<1>2. j \in DOMAIN Stages[r] /\ DOMAIN Stages[r][j] = 1..Len(Stages[r][j])
  BY <1>1
<1> QED
  BY <1>2, OncesAssumption

\* Stage by stage, and in a stage as it lists them.
InPlaces(flat, r) ==
    \E at \in [1..Len(flat) -> (1..Len(Stages[r])) \X Nat] :
        /\ \A i, j \in 1..Len(flat) :
              i < j => \/ at[i][1] < at[j][1]
                       \/ at[i][1] = at[j][1] /\ at[i][2] < at[j][2]
        /\ \A i \in 1..Len(flat) :
              /\ at[i][2] \in 1..Len(Stages[r][at[i][1]])
              /\ flat[i] = Stages[r][at[i][1]][at[i][2]]
              /\ StageOf[flat[i]] = at[i][1]

\* The steps of a rail are run stage by stage.
LEMMA FlatPlaces ==
    ASSUME NEW r \in RailSet
    PROVE  InPlaces(FlatSteps[r], r)
<1>0. \A j \in 1..Len(Stages[r]) : \A m \in 1..Len(Stages[r][j]) : StageOf[Stages[r][j][m]] = j
  BY StageFacts
<1>1. Stages[r] \in Seq(Seq(Steps))
  BY RailsAssumption
<1>2. PICK flat \in Seq(StepsOf[r]) : flat = FlatSteps[r] /\ flat = FlattenSeq(Stages[r])
  BY FlatFacts DEF FlatSteps
<1>3. PICK at \in [1..Len(flat) -> (1..Len(Stages[r])) \X Nat] :
            /\ \A i, j \in 1..Len(flat) :
                  i < j => \/ at[i][1] < at[j][1]
                           \/ at[i][1] = at[j][1] /\ at[i][2] < at[j][2]
            /\ \A i \in 1..Len(flat) :
                  /\ at[i][2] \in 1..Len(Stages[r][at[i][1]])
                  /\ flat[i] = Stages[r][at[i][1]][at[i][2]]
  <2>1. Placed(flat, Stages[r], Len(Stages[r]))
    BY <1>1, <1>2, FlattenPlaces
  <2> QED
    BY <2>1 DEF Placed
<1>4. ASSUME NEW n \in 1..Len(flat)
      PROVE  StageOf[flat[n]] = at[n][1]
  <2>1. PICK j \in 1..Len(Stages[r]) : j = at[n][1]
    BY <1>3
  <2>2. PICK m \in 1..Len(Stages[r][j]) : flat[n] = Stages[r][j][m]
    BY <1>3, <2>1
  <2>3. StageOf[Stages[r][j][m]] = j
    BY <1>0, Zenon
  <2> QED
    BY <2>1, <2>2, <2>3
<1>5. \A i \in 1..Len(flat) :
         /\ at[i][2] \in 1..Len(Stages[r][at[i][1]])
         /\ flat[i] = Stages[r][at[i][1]][at[i][2]]
         /\ StageOf[flat[i]] = at[i][1]
  BY <1>3, <1>4
<1>6. \A i, j \in 1..Len(flat) :
         i < j => \/ at[i][1] < at[j][1]
                  \/ at[i][1] = at[j][1] /\ at[i][2] < at[j][2]
  BY <1>3
<1>7. InPlaces(flat, r)
  BY <1>5, <1>6, Zenon DEF InPlaces
<1> QED
  BY <1>2, <1>7

\* The step before one is on its rail, at its stage or an earlier one.
LEMMA BeforeStage ==
    ASSUME NEW s \in Steps, Before[s] # "none"
    PROVE  Before[s] \in Steps /\ Owning[Before[s]] = Owning[s] /\ StageOf[Before[s]] <= StageOf[s]
<1>1. PICK r \in RailSet : r = Owning[s] /\ s \in StepsOf[r]
  BY Placing
<1>2. Before[s] \in Steps /\ Before[s] \in StepsOf[r]
  BY <1>1, Placing
<1>3. Owning[Before[s]] = r
  BY <1>1, <1>2, Placing, StepsApart
<1>4. PICK flat \in Seq(StepsOf[r]) : flat = FlatSteps[r]
  BY FlatFacts
<1> DEFINE i == CHOOSE k \in DOMAIN flat : flat[k] = s
<1>5. Before[s] = IF i = 1 THEN "none" ELSE flat[i - 1]
  BY <1>1, <1>4 DEF Before
<1>6. i \in 1..Len(flat) /\ flat[i] = s
  <2>1. \E k \in DOMAIN flat : flat[k] = s
    BY <1>1, <1>4, FlatFacts
  <2>2. i \in DOMAIN flat /\ flat[i] = s
    BY <2>1, Zenon
  <2> QED
    BY <2>2
<1> HIDE DEF i
<1>7. i - 1 \in 1..Len(flat) /\ i - 1 < i /\ Before[s] = flat[i - 1]
  BY <1>5, <1>6
<1>8. InPlaces(flat, r)
  BY <1>4, FlatPlaces
<1>9. PICK at \in [1..Len(flat) -> (1..Len(Stages[r])) \X Nat] :
        /\ \A h, k \in 1..Len(flat) :
              h < k => \/ at[h][1] < at[k][1]
                       \/ at[h][1] = at[k][1] /\ at[h][2] < at[k][2]
        /\ \A h \in 1..Len(flat) : StageOf[flat[h]] = at[h][1]
  BY <1>8 DEF InPlaces
<1>10. /\ StageOf[s] = at[i][1] /\ StageOf[Before[s]] = at[i - 1][1]
       /\ at[i - 1][1] < at[i][1] \/ at[i - 1][1] = at[i][1]
  BY <1>6, <1>7, <1>9
<1>11. StageOf[s] \in Nat /\ StageOf[Before[s]] \in Nat
  BY <1>2, Placing
<1> QED
  BY <1>1, <1>2, <1>3, <1>10, <1>11

\* The walk of a stage says of each step it reaches what its rule says, and
\* nothing else.
LEMMA WalkStageLists ==
    ASSUME RowsInv, NEW r \in RailSet, NEW j \in 1..Len(Stages[r])
    PROVE  /\ \A a \in Listed(WalkStage(r, j)) :
                 \E i \in 1..Len(Stages[r][j]) :
                    /\ Reached(r, j, i) /\ a.kind = Rule(Stages[r][j][i]) /\ a.kind # "none"
                    /\ a.step = Stages[r][j][i] /\ a.rail = "none"
           /\ \A i \in 1..Len(Stages[r][j]) :
                 Reached(r, j, i) /\ Rule(Stages[r][j][i]) # "none" =>
                    \E a \in Listed(WalkStage(r, j)) :
                       a.kind = Rule(Stages[r][j][i]) /\ a.step = Stages[r][j][i]
<1>1. Stages[r] \in Seq(Seq(Steps))
  BY RailsAssumption
<1>2. PICK stage \in Seq(Steps) : stage = Stages[r][j]
  BY <1>1
<1> DEFINE k(i) == IF Reached(r, j, i) THEN Rule(stage[i]) ELSE "none"
<1>3. PICK qs : qs = [i \in 1..Len(stage) |-> ActionFor(k(i), stage[i])]
  OBVIOUS
<1>4. WalkStage(r, j) = FlattenSeq(qs)
  <2>1. DOMAIN stage = 1..Len(stage)
    BY <1>2
  <2> QED
    BY <1>2, <1>3, <2>1 DEF WalkStage
<1>5. ASSUME NEW i \in 1..Len(stage)
      PROVE  /\ qs[i] \in Seq(Due) /\ stage[i] \in Steps
             /\ k(i) \in Rules /\ qs[i] = ActionFor(k(i), stage[i])
  <2>1. stage[i] \in Steps
    BY <1>2
  <2>2. /\ k(i) \in Rules
        /\ k(i) = "launch" => row[stage[i]].st # "running"
        /\ k(i) = "loopBack" => /\ Kind[stage[i]] \in Loops /\ Before[stage[i]] # "none"
                                /\ ~(row[stage[i]].tries >= MaxTries)
    BY <2>1, RuleFacts DEF Rules
  <2> HIDE DEF k
  <2>3. ActionFor(k(i), stage[i]) \in Seq(Due)
    BY <2>1, <2>2, ActionIsDue
  <2>4. qs[i] = ActionFor(k(i), stage[i])
    BY <1>3
  <2> QED
    BY <2>1, <2>2, <2>3, <2>4
<1>6. Len(qs) = Len(stage) /\ qs \in Seq(Seq(Due))
  <2>1. Len(stage) \in Nat
    BY <1>2
  <2>2. qs \in [1..Len(stage) -> Seq(Due)]
    <3> HIDE DEF k
    <3> QED
      BY <1>3, <1>5
  <2> QED
    BY <2>1, <2>2, <1>3
<1>7. Listed(WalkStage(r, j)) = UNION {Listed(qs[i]) : i \in 1..Len(stage)}
  BY <1>4, <1>6, FlattenLists
<1>8. ASSUME NEW a \in Listed(WalkStage(r, j))
      PROVE  \E i \in 1..Len(stage) :
                /\ Reached(r, j, i) /\ a.kind = Rule(stage[i]) /\ a.kind # "none"
                /\ a.step = stage[i] /\ a.rail = "none"
  <2>1. PICK i \in 1..Len(stage) : a \in Listed(qs[i])
    BY <1>7
  <2> HIDE DEF k
  <2>2. k(i) # "none" /\ a.kind = k(i) /\ a.step = stage[i] /\ a.rail = "none"
    BY <1>5, <2>1, ActionLists
  <2> QED
    BY <2>2 DEF k
<1>9. ASSUME NEW i \in 1..Len(stage), Reached(r, j, i), Rule(stage[i]) # "none"
      PROVE  \E a \in Listed(WalkStage(r, j)) : a.kind = Rule(stage[i]) /\ a.step = stage[i]
  <2>1. k(i) = Rule(stage[i]) /\ k(i) # "none"
    BY <1>9
  <2> HIDE DEF k
  <2>2. PICK a \in Listed(qs[i]) : a.kind = k(i) /\ a.step = stage[i]
    BY <1>5, <2>1, ActionLists
  <2> QED
    BY <1>7, <2>1, <2>2
<1> QED
  BY <1>2, <1>8, <1>9

\* The walk of a running rail comes to this stage.
Walked(r, j) ==
    /\ j \in 1..Len(Stages[r])
    /\ j >= rail[r].at /\ \A k \in rail[r].at..j - 1 : StagePasses(r, k)

LeaveOp(r, j) ==
    IF j = Len(Stages[r]) THEN RailOp("complete", r, 0) ELSE RailOp("advance", r, j + 1)

\* A stage the walk leaves has only steps that are done, or are marked so.
LEMMA PassedStage ==
    ASSUME RowsInv, NEW r \in RailSet, NEW j \in 1..Len(Stages[r]), StagePasses(r, j)
    PROVE  /\ \A a \in Listed(WalkStage(r, j)) : a.kind = "markDone"
           /\ \A i \in 1..Len(Stages[r][j]) :
                 Rule(Stages[r][j][i]) = "markDone" \/ Finished(row[Stages[r][j][i]].st)
<1>1. Stages[r] \in Seq(Seq(Steps))
  BY RailsAssumption
<1>2. PICK stage \in Seq(Steps) : stage = Stages[r][j]
  BY <1>1
<1>3. ASSUME NEW i \in 1..Len(stage)
      PROVE  /\ Rule(stage[i]) = "markDone" \/ Finished(row[stage[i]].st)
             /\ Rule(stage[i]) \in {"markDone", "none"}
  <2>1. stage[i] \in Steps /\ i \in DOMAIN Stages[r][j]
    BY <1>2
  <2>2. Finished(Simulated(stage[i]))
    BY <1>2, <2>1 DEF StagePasses
  <2> QED
    BY <2>1, <2>2, SimulatedFacts
<1>4. ASSUME NEW a \in Listed(WalkStage(r, j))
      PROVE  a.kind = "markDone"
  <2>1. PICK i \in 1..Len(stage) : a.kind = Rule(stage[i]) /\ a.kind # "none"
    BY <1>2, WalkStageLists
  <2> QED
    BY <1>3, <2>1
<1> QED
  BY <1>2, <1>3, <1>4

\* What the walk of a rail lists: what it says of the stages it comes to, and
\* how it leaves each.
LEMMA WalkRailLists ==
    ASSUME RowsInv, NEW r \in RailSet, rail[r].at \in 1..Len(Stages[r])
    PROVE  /\ \A a \in Listed(WalkRail(r)) :
                 \E j \in 1..Len(Stages[r]) :
                    /\ Walked(r, j)
                    /\ \/ a \in Listed(WalkStage(r, j))
                       \/ StagePasses(r, j) /\ a = LeaveOp(r, j)
           /\ \A j \in 1..Len(Stages[r]) : Walked(r, j) =>
                 /\ Listed(WalkStage(r, j)) \subseteq Listed(WalkRail(r))
                 /\ StagePasses(r, j) => LeaveOp(r, j) \in Listed(WalkRail(r))
           /\ Ordered(WalkRail(r))
<1>1. Stages[r] \in Seq(Seq(Steps)) /\ rail[r].at \in Nat
  BY RailsAssumption DEF RowsInv
<1> DEFINE N == Len(Stages[r])
           left(j) == IF Walked(r, j) THEN WalkStage(r, j) \o Leave(r, j) ELSE <<>>
<1>2. PICK qs : qs = [j \in 1..N |-> left(j)]
  OBVIOUS
<1>3. N \in Nat /\ DOMAIN Stages[r] = 1..N
  BY <1>1
<1>4. WalkRail(r) = FlattenSeq(qs)
  <2>1. rail[r].at \in DOMAIN Stages[r]
    BY <1>3
  <2>2. qs = [j \in DOMAIN Stages[r] |->
                IF j >= rail[r].at /\ \A k \in rail[r].at..j - 1 : StagePasses(r, k)
                THEN WalkStage(r, j) \o Leave(r, j) ELSE <<>>]
    BY <1>2, <1>3 DEF Walked
  <2> QED
    BY <2>1, <2>2 DEF WalkRail
<1>5. ASSUME NEW j \in 1..N
      PROVE  /\ qs[j] \in Seq(Due)
             /\ ~Walked(r, j) => Listed(qs[j]) = {}
             /\ Walked(r, j) =>
                  Listed(qs[j]) = Listed(WalkStage(r, j)) \cup
                                  (IF StagePasses(r, j) THEN {LeaveOp(r, j)} ELSE {})
             /\ Ordered(qs[j])
  <2>1. PICK w \in Seq(Due) : w = WalkStage(r, j)
    BY WalkStageIsDue
  <2>2. PICK a \in Due : a = LeaveOp(r, j)
    <3>1. j + 1 \in Nat /\ 0 \in Nat
      BY <1>3
    <3>2. RailOp("complete", r, 0) \in Due /\ RailOp("advance", r, j + 1) \in Due
      BY <3>1, RailOpIsDue
    <3> QED
      BY <3>2 DEF LeaveOp
  <2>3. Leave(r, j) = IF StagePasses(r, j) THEN <<a>> ELSE <<>>
    BY <2>2 DEF Leave, LeaveOp
  <2>4. qs[j] = IF ~Walked(r, j) THEN <<>> ELSE IF StagePasses(r, j) THEN w \o <<a>> ELSE w
    <3>1. w \o <<>> = w
      OBVIOUS
    <3> QED
      BY <1>2, <2>1, <2>3, <3>1
  <2>5. CASE ~Walked(r, j)
    <3>1. qs[j] = <<>> /\ <<>> \in Seq(Due) /\ Len(<<>>) = 0 /\ 1..0 = {}
      BY <2>4, <2>5
    <3>2. Listed(<<>>) = {} /\ Ordered(<<>>)
      BY <3>1 DEF Listed, Ordered
    <3> QED
      BY <2>5, <3>1, <3>2
  <2>6. ASSUME NEW b \in Listed(w)
        PROVE  b.kind # "advance" /\ b.step \in Steps /\ StageOf[b.step] = j
    <3>1. PICK i \in 1..Len(Stages[r][j]) :
             b.kind = Rule(Stages[r][j][i]) /\ b.step = Stages[r][j][i]
      BY <2>1, <2>6, WalkStageLists
    <3>2. b.step \in Steps /\ StageOf[b.step] = j
      <4>1. \E q \in Steps : q = Stages[r][j][i] /\ Owning[q] = r /\ StageOf[q] = j
        BY <1>3, StepPlace
      <4> QED
        BY <3>1, <4>1
    <3>3. Rule(b.step) \in Rules
      BY <3>2, RuleFacts
    <3> QED
      BY <3>1, <3>2, <3>3 DEF Rules
  <2>9. ASSUME NEW b \in Listed(w), NEW c \in Listed(w)
        PROVE  MayPrecede(b, c)
    <3>1. b.kind = "loopBack" => Before[b.step] # "none"
      <4>1. PICK i \in 1..Len(w) : b = w[i]
        BY <2>9 DEF Listed
      <4>2. b \in Due
        BY <4>1
      <4>3. "none" \notin Steps
        BY OncesAssumption
      <4> QED
        BY <4>2, <4>3 DEF Due, Sound, StepAction, Stepped
    <3>2. b.kind = "loopBack" => StageOf[Before[b.step]] <= j /\ StageOf[Before[b.step]] \in Nat
      BY <2>6, <3>1, BeforeStage, Placing
    <3>3. j \in Nat
      BY <1>3
    <3>4. StageOf[c.step] = j /\ b.kind # "advance" /\ c.kind # "advance"
      BY <2>6
    <3> QED
      BY <3>2, <3>3, <3>4 DEF MayPrecede, Passes
  <2>7. CASE Walked(r, j) /\ ~StagePasses(r, j)
    <3>1. qs[j] = w
      BY <2>4, <2>7
    <3>2. Ordered(w)
      BY <2>9 DEF Ordered, Listed
    <3> QED
      BY <2>1, <2>7, <3>1, <3>2
  <2>8. CASE Walked(r, j) /\ StagePasses(r, j)
    <3>1. PICK q \in Seq(Due) : q = w \o <<a>>
      <4>1. <<a>> \in Seq(Due)
        BY ShortSeqs
      <4> QED
        BY <4>1, ConcatIn
    <3>2. /\ Len(q) = Len(w) + 1 /\ Len(w) \in Nat /\ q[Len(w) + 1] = a
          /\ \A i \in 1..Len(w) : q[i] = w[i]
      BY <3>1
    <3>3. Listed(q) = Listed(w) \cup {a}
      <4>1. \A i \in 1..Len(q) : i \in 1..Len(w) \/ i = Len(w) + 1
        BY <3>2
      <4>2. Len(w) + 1 \in 1..Len(q) /\ \A i \in 1..Len(w) : i \in 1..Len(q)
        BY <3>2
      <4> QED
        BY <3>2, <4>1, <4>2 DEF Listed
    <3>4. \A b \in Listed(w) : b.kind = "markDone"
      BY <2>1, <2>8, PassedStage
    <3>5. Ordered(q)
      <4>1. \A i, k \in 1..Len(q) : i < k => i \in 1..Len(w)
        BY <3>2
      <4>2. \A i \in 1..Len(w) : q[i].kind = "markDone" /\ "markDone" \in Free
        BY <3>2, <3>4 DEF Listed, Free
      <4> QED
        BY <4>1, <4>2 DEF Ordered, MayPrecede
    <3> QED
      BY <2>1, <2>2, <2>4, <2>8, <3>1, <3>3, <3>5
  <2> QED
    BY <2>5, <2>7, <2>8
<1> HIDE DEF left
<1>6. Len(qs) = N /\ qs \in Seq(Seq(Due))
  <2>1. qs \in [1..N -> Seq(Due)]
    BY <1>2, <1>5
  <2> HIDE DEF N
  <2> QED
    BY <1>3, <2>1
<1>7. Listed(WalkRail(r)) = UNION {Listed(qs[j]) : j \in 1..N}
  BY <1>4, <1>6, FlattenLists
<1>8. ASSUME NEW k \in 1..N, NEW l \in 1..N, k < l,
             NEW a \in Listed(qs[k]), NEW b \in Listed(qs[l])
      PROVE  MayPrecede(a, b)
  <2>1. Walked(r, l) /\ Walked(r, k)
    BY <1>5, <1>8
  <2>2. k \in rail[r].at..l - 1
    BY <1>1, <1>3, <1>8, <2>1 DEF Walked
  <2>3. StagePasses(r, k)
    BY <2>1, <2>2 DEF Walked
  <2>4. a \in Listed(WalkStage(r, k)) \/ a = LeaveOp(r, k)
    BY <1>5, <2>1, <2>3
  <2>5. k # Len(Stages[r])
    BY <1>3, <1>8
  <2>6. a.kind = "markDone" \/ (a.kind = "advance" /\ a.n = k + 1)
    BY <2>3, <2>4, <2>5, PassedStage DEF LeaveOp, RailOp, Op
  <2>7. b.kind = "advance" => b.n = l + 1
    <3>1. CASE b \in Listed(WalkStage(r, l))
      <4>1. PICK i \in 1..Len(Stages[r][l]) : b.kind = Rule(Stages[r][l][i])
        BY <3>1, WalkStageLists
      <4>2. Rule(Stages[r][l][i]) \in Rules
        BY StageSteps, RuleFacts
      <4> QED
        BY <4>1, <4>2 DEF Rules
    <3>2. CASE b = LeaveOp(r, l)
      BY <3>2 DEF LeaveOp, RailOp, Op
    <3> QED
      BY <1>5, <2>1, <3>1, <3>2
  <2>8. ASSUME b.kind = "markDone", a.kind = "advance"
        PROVE  ~(StageOf[b.step] < a.n)
    <3>1. b \in Listed(WalkStage(r, l))
      BY <1>5, <2>1, <2>8 DEF LeaveOp, RailOp, Op
    <3>2. PICK i \in 1..Len(Stages[r][l]) : b.step = Stages[r][l][i]
      BY <3>1, WalkStageLists
    <3>3. StageOf[b.step] = l
      BY <3>2, StageFacts
    <3> QED
      BY <1>3, <1>8, <2>6, <2>8, <3>3
  <2> QED
    BY <1>3, <1>8, <2>6, <2>7, <2>8 DEF MayPrecede, Free, Passes
<1>9. Ordered(WalkRail(r))
  BY <1>4, <1>5, <1>6, <1>8, FlattenOrders
<1>10. ASSUME NEW a \in Listed(WalkRail(r))
       PROVE  \E j \in 1..N :
                 /\ Walked(r, j)
                 /\ \/ a \in Listed(WalkStage(r, j))
                    \/ StagePasses(r, j) /\ a = LeaveOp(r, j)
  <2>1. PICK j \in 1..N : a \in Listed(qs[j])
    BY <1>7
  <2>2. Walked(r, j)
    BY <1>5, <2>1
  <2>3. a \in Listed(WalkStage(r, j)) \cup (IF StagePasses(r, j) THEN {LeaveOp(r, j)} ELSE {})
    BY <1>5, <2>1, <2>2
  <2> QED
    BY <2>2, <2>3
<1>11. ASSUME NEW j \in 1..N, Walked(r, j)
       PROVE  /\ Listed(WalkStage(r, j)) \subseteq Listed(WalkRail(r))
              /\ StagePasses(r, j) => LeaveOp(r, j) \in Listed(WalkRail(r))
  <2>1. Listed(qs[j]) \subseteq Listed(WalkRail(r))
    BY <1>7
  <2>2. Listed(qs[j]) = Listed(WalkStage(r, j)) \cup
                        (IF StagePasses(r, j) THEN {LeaveOp(r, j)} ELSE {})
    BY <1>5, <1>11
  <2> QED
    BY <2>1, <2>2
<1> QED
  BY <1>9, <1>10, <1>11

\* What is decided for a rail is about its steps or about itself.
Belongs(a, r) ==
    \/ a.kind \in Rules \ {"none"} /\ a.step \in StepsOf[r] /\ a.rail = "none"
    \/ a.kind \in {"complete", "advance", "arm"} /\ a.step = "none" /\ a.rail = r

\* The walk of a rail is about that rail.
LEMMA WalkRailBelongs ==
    ASSUME RowsInv, NEW r \in RailSet, NEW a \in Listed(WalkRail(r))
    PROVE  Belongs(a, r)
<1>1. Stages[r] \in Seq(Seq(Steps)) /\ rail[r].at \in Nat
  BY RailsAssumption DEF RowsInv
<1>2. CASE rail[r].at \notin DOMAIN Stages[r]
  <2>1. WalkRail(r) = <<RailOp("complete", r, 0)>>
    BY <1>2 DEF WalkRail
  <2>2. PICK b : b = RailOp("complete", r, 0)
    OBVIOUS
  <2>3. Len(<<b>>) = 1 /\ <<b>>[1] = b /\ 1..1 = {1}
    OBVIOUS
  <2>4. a = b
    BY <2>1, <2>2, <2>3 DEF Listed
  <2> QED
    BY <2>2, <2>4 DEF Belongs, RailOp, Op
<1>3. CASE rail[r].at \in DOMAIN Stages[r]
  <2>1. rail[r].at \in 1..Len(Stages[r])
    BY <1>1, <1>3
  <2>2. PICK j \in 1..Len(Stages[r]) : a \in Listed(WalkStage(r, j)) \/ a = LeaveOp(r, j)
    BY <2>1, WalkRailLists
  <2>3. CASE a \in Listed(WalkStage(r, j))
    <3>1. PICK i \in 1..Len(Stages[r][j]) :
             /\ a.kind = Rule(Stages[r][j][i]) /\ a.kind # "none"
             /\ a.step = Stages[r][j][i] /\ a.rail = "none"
      BY <2>3, WalkStageLists
    <3>2. Stages[r][j][i] \in StepsOf[r] /\ Rule(Stages[r][j][i]) \in Rules
      BY StageSteps, RuleFacts
    <3> QED
      BY <3>1, <3>2 DEF Belongs
  <2>4. CASE a = LeaveOp(r, j)
    BY <2>4 DEF Belongs, LeaveOp, RailOp, Op
  <2> QED
    BY <2>2, <2>3, <2>4
<1> QED
  BY <1>2, <1>3

\* What a pass writes about a rail that does not run: what is true of its
\* steps, or, if nothing is left to write, that it is armed.
LEMMA ReconcileLists ==
    ASSUME RowsInv, NEW r \in RailSet
    PROVE  /\ \A a \in Listed(ReconcileRail(r)) :
                 \/ /\ a.kind = ReconcileRule(a.step) /\ a.kind # "none"
                    /\ a.step \in StepsOf[r] /\ a.rail = "none"
                 \/ /\ a = RailOp("arm", r, FirstUnfinished(r))
                    /\ rail[r].st = "idle" /\ FirstUnfinished(r) # 0
           /\ \A s \in StepsOf[r] : ReconcileRule(s) # "none" =>
                 \E a \in Listed(ReconcileRail(r)) : a.kind = ReconcileRule(s) /\ a.step = s
           /\ Ordered(ReconcileRail(r))
<1>1. PICK flat \in Seq(StepsOf[r]) : flat = FlatSteps[r]
  BY FlatFacts
<1> DEFINE spoken(i) == ActionFor(ReconcileRule(flat[i]), flat[i])
<1>2. PICK qs : qs = [i \in 1..Len(flat) |-> spoken(i)]
  OBVIOUS
<1>3. Len(flat) \in Nat /\ DOMAIN flat = 1..Len(flat)
  OBVIOUS
<1>4. ASSUME NEW i \in 1..Len(flat)
      PROVE  /\ qs[i] \in Seq(Due) /\ flat[i] \in StepsOf[r] /\ flat[i] \in Steps
             /\ ReconcileRule(flat[i]) \in Rules \ {"launch", "loopBack", "loopExhausted"}
             /\ qs[i] = ActionFor(ReconcileRule(flat[i]), flat[i])
  <2>1. flat[i] \in StepsOf[r] /\ flat[i] \in Steps
    BY DEF Steps
  <2>2. ReconcileRule(flat[i]) \in {"none", "markDone", "stall"}
    BY <2>1, ReconcileFacts
  <2>3. spoken(i) \in Seq(Due)
    BY <2>1, <2>2, ActionIsDue DEF Rules
  <2>4. qs[i] = spoken(i)
    BY <1>2
  <2> QED
    BY <2>1, <2>2, <2>3, <2>4 DEF Rules
<1>5. Len(qs) = Len(flat) /\ qs \in Seq(Seq(Due))
  <2>1. qs \in [1..Len(flat) -> Seq(Due)]
    <3> HIDE DEF spoken
    <3> QED
      BY <1>2, <1>4
  <2> QED
    BY <1>3, <2>1, <1>2
<1> HIDE DEF spoken
<1> DEFINE truths == FlattenSeq(qs)
           arms == /\ truths = <<>> /\ rail[r].st = "idle"
                   /\ FirstUnfinished(r) # 0 /\ TriggerFires(r)
<1>6. ReconcileRail(r) = IF arms THEN <<RailOp("arm", r, FirstUnfinished(r))>> ELSE truths
  BY <1>1, <1>2, <1>3 DEF ReconcileRail, spoken
<1>7. Listed(truths) = UNION {Listed(qs[i]) : i \in 1..Len(flat)}
  BY <1>5, FlattenLists
<1>8. ASSUME NEW a \in Listed(truths)
      PROVE  /\ a.kind = ReconcileRule(a.step) /\ a.kind # "none"
             /\ a.step \in StepsOf[r] /\ a.rail = "none"
             /\ a.kind \notin {"advance", "loopBack"}
  <2>1. PICK i \in 1..Len(flat) : a \in Listed(qs[i])
    BY <1>7
  <2>2. /\ ReconcileRule(flat[i]) # "none" /\ a.kind = ReconcileRule(flat[i])
        /\ a.step = flat[i] /\ a.rail = "none"
    BY <1>4, <2>1, ActionLists
  <2>3. ReconcileRule(flat[i]) \in Rules
    BY <1>4
  <2> QED
    BY <1>4, <2>2, <2>3 DEF Rules
<1>9. ASSUME NEW s \in StepsOf[r], ReconcileRule(s) # "none"
      PROVE  \E a \in Listed(truths) : a.kind = ReconcileRule(s) /\ a.step = s
  <2>1. PICK i \in 1..Len(flat) : flat[i] = s
    BY <1>1, FlatFacts
  <2>2. PICK a \in Listed(qs[i]) : a.kind = ReconcileRule(s) /\ a.step = s
    BY <1>4, <1>9, <2>1, ActionLists
  <2> QED
    BY <1>7, <2>2
<1> HIDE DEF truths
<1>10. CASE arms
  <2>1. PICK b : b = RailOp("arm", r, FirstUnfinished(r))
    OBVIOUS
  <2>2. Len(<<b>>) = 1 /\ <<b>>[1] = b /\ 1..1 = {1}
    OBVIOUS
  <2>3. Listed(<<b>>) = {b} /\ Ordered(<<b>>)
    BY <2>2 DEF Listed, Ordered
  <2>4. ReconcileRail(r) = <<b>>
    BY <1>6, <1>10, <2>1
  <2>5. Listed(truths) = {}
    <3>1. Len(<<>>) = 0 /\ 1..0 = {}
      OBVIOUS
    <3> QED
      BY <1>10, <3>1 DEF Listed
  <2> QED
    BY <1>9, <1>10, <2>1, <2>3, <2>4, <2>5
<1>11. CASE ~arms
  <2> HIDE DEF arms
  <2>1. ReconcileRail(r) = truths
    BY <1>6, <1>11
  <2>2. Ordered(truths)
    BY <1>8 DEF Ordered, MayPrecede, Listed
  <2> QED
    BY <1>8, <1>9, <2>1, <2>2
<1> QED
  BY <1>10, <1>11

\* What a pass decides for a rail.
Decided(r) == IF rail[r].st = "running" THEN WalkRail(r) ELSE ReconcileRail(r)

\* What is decided of one rail is Due, in order, and about that rail.
LEMMA DecidedBelongs ==
    ASSUME RowsInv, NEW r \in RailSet
    PROVE  /\ Decided(r) \in Seq(Due) /\ Ordered(Decided(r))
           /\ \A a \in Listed(Decided(r)) : Belongs(a, r)
<1>1. CASE rail[r].st = "running"
  <2>1. Decided(r) = WalkRail(r)
    BY <1>1 DEF Decided
  <2>2. Ordered(WalkRail(r))
    <3>1. Stages[r] \in Seq(Seq(Steps)) /\ rail[r].at \in Nat
      BY RailsAssumption DEF RowsInv
    <3>2. CASE rail[r].at \in 1..Len(Stages[r])
      BY <3>2, WalkRailLists
    <3>3. CASE rail[r].at \notin 1..Len(Stages[r])
      <4>1. rail[r].at \notin DOMAIN Stages[r]
        BY <3>1, <3>3
      <4>2. PICK b : b = RailOp("complete", r, 0)
        OBVIOUS
      <4>3. WalkRail(r) = <<b>> /\ Len(<<b>>) = 1
        BY <4>1, <4>2 DEF WalkRail
      <4> QED
        BY <4>3 DEF Ordered
    <3> QED
      BY <3>2, <3>3
  <2> QED
    BY <2>1, <2>2, WalkRailIsDue, WalkRailBelongs
<1>2. CASE rail[r].st # "running"
  <2>1. Decided(r) = ReconcileRail(r)
    BY <1>2 DEF Decided
  <2>2. ASSUME NEW a \in Listed(ReconcileRail(r))
        PROVE  Belongs(a, r)
    <3>1. CASE /\ a.kind = ReconcileRule(a.step) /\ a.kind # "none"
               /\ a.step \in StepsOf[r] /\ a.rail = "none"
      <4>1. a.step \in Steps
        BY <3>1 DEF Steps
      <4>2. a.kind \in Rules
        BY <3>1, <4>1, ReconcileFacts DEF Rules
      <4> QED
        BY <3>1, <4>2 DEF Belongs
    <3>2. CASE a = RailOp("arm", r, FirstUnfinished(r))
      BY <3>2 DEF Belongs, RailOp, Op
    <3> QED
      BY <2>2, <3>1, <3>2, ReconcileLists
  <2> QED
    BY <2>1, <2>2, ReconcileRailIsDue, ReconcileLists
<1> QED
  BY <1>1, <1>2

\* What belongs to a rail concerns no other.
LEMMA BelongsConcerns ==
    ASSUME NEW r \in RailSet, NEW x \in RailSet, NEW a, Belongs(a, r), Concerns(a, x)
    PROVE  r = x
<1>1. CASE a.step \in StepsOf[r] /\ a.rail = "none"
  <2>1. a.step \in StepsOf[x]
    BY <1>1, OncesAssumption DEF Concerns
  <2> QED
    BY <1>1, <2>1, StepsApart
<1>2. CASE a.step = "none" /\ a.rail = r
  <2>1. a.step \notin StepsOf[x]
    BY <1>2, OncesAssumption DEF Steps
  <2> QED
    BY <1>2, <2>1 DEF Concerns
<1> QED
  BY <1>1, <1>2 DEF Belongs

\* The list of a pass is what it decides for each rail, and a rail leaves a
\* stage after what was said of its steps.
LEMMA NextLists ==
    ASSUME RowsInv
    PROVE  /\ \A a \in Listed(NextActions) :
                 \E r \in RailSet : a \in Listed(Decided(r)) /\ Belongs(a, r)
           /\ \A r \in RailSet : Listed(Decided(r)) \subseteq Listed(NextActions)
           /\ Ordered(NextActions)
<1>1. Rails \in Seq(RailSet) /\ Len(Rails) \in Nat /\ DOMAIN Rails = 1..Len(Rails)
  BY RailsAssumption
<1>2. PICK qs : qs = [i \in 1..Len(Rails) |-> Decided(Rails[i])]
  OBVIOUS
<1>3. NextActions = FlattenSeq(qs)
  BY <1>1, <1>2 DEF NextActions, Decided
<1>4. ASSUME NEW i \in 1..Len(Rails)
      PROVE  /\ Rails[i] \in RailSet /\ qs[i] = Decided(Rails[i]) /\ qs[i] \in Seq(Due)
             /\ Ordered(qs[i]) /\ \A a \in Listed(qs[i]) : Belongs(a, Rails[i])
  <2>1. PICK r \in RailSet : r = Rails[i]
    BY <1>1
  <2>2. qs[i] = Decided(r)
    BY <1>2, <2>1
  <2> QED
    BY <2>1, <2>2, DecidedBelongs
<1>5. Len(qs) = Len(Rails) /\ qs \in Seq(Seq(Due))
  <2>1. qs \in [1..Len(Rails) -> Seq(Due)]
    BY <1>2, <1>4
  <2> QED
    BY <1>1, <1>2, <2>1
<1>6. Listed(NextActions) = UNION {Listed(qs[i]) : i \in 1..Len(Rails)}
  BY <1>3, <1>5, FlattenLists
<1>7. ASSUME NEW k \in 1..Len(Rails), NEW l \in 1..Len(Rails), k < l,
             NEW a \in Listed(qs[k]), NEW b \in Listed(qs[l]),
             \/ b.kind = "advance" /\ Concerns(a, b.rail)
             \/ b.kind = "markDone" /\ a.kind \in {"advance", "loopBack"} /\ Passes(a, b.step)
      PROVE  FALSE
  <2>1. PICK r \in RailSet, x \in RailSet : r = Rails[k] /\ x = Rails[l]
    BY <1>4
  <2>2. Belongs(a, r) /\ Belongs(b, x)
    BY <1>4, <2>1
  <2>3. b.kind = "advance" => b.rail = x
    BY <2>2 DEF Belongs, Rules
  <2>7. ASSUME b.kind = "markDone", a.kind \in {"advance", "loopBack"}, Passes(a, b.step)
        PROVE  r = x
    <3>1. b.step \in StepsOf[x] /\ b.step \in Steps
      BY <2>2, <2>7 DEF Belongs, Rules, Steps
    <3>2. Owning[b.step] = x
      BY <3>1, Placing, StepsApart
    <3>3. ASSUME a.kind = "advance"
          PROVE  r = x
      BY <2>2, <2>7, <3>2, <3>3 DEF Belongs, Rules, Passes
    <3>4. ASSUME a.kind = "loopBack"
          PROVE  r = x
      <4>1. a.step \in StepsOf[r] /\ a.step \in Steps
        BY <2>2, <3>4 DEF Belongs, Rules, Steps
      <4>2. Owning[a.step] = r
        BY <4>1, Placing, StepsApart
      <4> QED
        BY <2>7, <3>2, <3>4, <4>2 DEF Passes
    <3> QED
      BY <2>7, <3>3, <3>4
  <2>4. r = x
    BY <1>7, <2>2, <2>3, <2>7, BelongsConcerns
  <2>5. k \in DOMAIN Rails /\ l \in DOMAIN Rails /\ Rails[k] = Rails[l]
    BY <1>1, <2>1, <2>4
  <2>6. k = l
    BY <2>5, OncesAssumption, Zenon
  <2> QED
    BY <1>7, <2>6
<1>8. Ordered(NextActions)
  <2>1. \A k, l \in 1..Len(Rails) : k < l =>
          \A a \in Listed(qs[k]), b \in Listed(qs[l]) : MayPrecede(a, b)
    BY <1>7 DEF MayPrecede
  <2> QED
    BY <1>3, <1>4, <1>5, <2>1, FlattenOrders
<1>9. ASSUME NEW a \in Listed(NextActions)
      PROVE  \E r \in RailSet : a \in Listed(Decided(r)) /\ Belongs(a, r)
  <2>1. PICK i \in 1..Len(Rails) : a \in Listed(qs[i])
    BY <1>6
  <2> QED
    BY <1>4, <2>1
<1>10. ASSUME NEW r \in RailSet
       PROVE  Listed(Decided(r)) \subseteq Listed(NextActions)
  <2>1. PICK i \in 1..Len(Rails) : Rails[i] = r
    BY <1>1 DEF RailSet
  <2> QED
    BY <1>4, <1>6, <2>1
<1> QED
  BY <1>8, <1>9, <1>10

\* One step comes before another on its rail.
Earlier(q, s) ==
    /\ Owning[q] = Owning[s]
    /\ \/ StageOf[q] < StageOf[s]
       \/ /\ <<Owning[s], StageOf[s]>> \in Sequential
          /\ \E i, k \in 1..Len(Stages[Owning[s]][StageOf[s]]) :
                /\ i < k
                /\ Stages[Owning[s]][StageOf[s]][i] = q
                /\ Stages[Owning[s]][StageOf[s]][k] = s

\* A step whose turn it is has none unfinished before it.
LEMMA InTurnClears ==
    ASSUME NEW s \in Steps, NEW q \in Steps, InTurn(s), Earlier(q, s)
    PROVE  Finished(row[q].st)
<1>1. PICK r \in RailSet : r = Owning[s] /\ r = Owning[q] /\ s \in StepsOf[r] /\ q \in StepsOf[r]
  BY Placing DEF Earlier
<1>2. PICK flat \in Seq(StepsOf[r]) : flat = FlatSteps[r]
  BY FlatFacts
<1>3. PICK at \in [1..Len(flat) -> (1..Len(Stages[r])) \X Nat] :
            /\ \A i, j \in 1..Len(flat) :
                  i < j => \/ at[i][1] < at[j][1]
                           \/ at[i][1] = at[j][1] /\ at[i][2] < at[j][2]
            /\ \A i \in 1..Len(flat) :
                  /\ at[i][2] \in 1..Len(Stages[r][at[i][1]])
                  /\ flat[i] = Stages[r][at[i][1]][at[i][2]]
                  /\ StageOf[flat[i]] = at[i][1]
  BY <1>2, FlatPlaces DEF InPlaces
<1>4. \A t \in StepsOf[r] : \E n \in 1..Len(flat) : flat[n] = t
  BY <1>2, FlatFacts
<1>5. PICK i \in 1..Len(flat), k \in 1..Len(flat) : flat[i] = q /\ flat[k] = s
  BY <1>1, <1>4
<1>6. /\ at[i][1] \in 1..Len(Stages[r]) /\ at[k][1] \in 1..Len(Stages[r])
      /\ at[i][2] \in Nat /\ at[k][2] \in Nat
  BY <1>3
<1>7. StageOf[q] = at[i][1] /\ StageOf[s] = at[k][1]
  BY <1>3, <1>5
<1>8. i < k
  <2>1. CASE StageOf[q] < StageOf[s]
    <3>1. ~(at[k][1] <= at[i][1])
      BY <1>6, <1>7, <2>1
    <3>2. \A x, y \in 1..Len(flat) : x < y => at[x][1] <= at[y][1]
      <4>1. ASSUME NEW x \in 1..Len(flat), NEW y \in 1..Len(flat), x < y
            PROVE  at[x][1] <= at[y][1]
        <5>1. at[x][1] < at[y][1] \/ at[x][1] = at[y][1]
          BY <1>3, <4>1
        <5>2. at[x][1] \in Nat /\ at[y][1] \in Nat
          OBVIOUS
        <5> QED
          BY <5>1, <5>2
      <4> QED
        BY <4>1
    <3>3. ~(k < i) /\ i # k
      BY <1>6, <3>1, <3>2
    <3> QED
      BY <3>3
  <2>2. CASE ~(StageOf[q] < StageOf[s])
    <3>1. PICK m \in 1..Len(Stages[r][StageOf[s]]), n \in 1..Len(Stages[r][StageOf[s]]) :
            m < n /\ Stages[r][StageOf[s]][m] = q /\ Stages[r][StageOf[s]][n] = s
      BY <1>1, <2>2 DEF Earlier
    <3>2. StageOf[q] = StageOf[s]
      BY <1>6, <1>7, <3>1, StageFacts
    <3> DEFINE j == at[i][1]
               a == at[i][2]
               b == at[k][2]
    <3>3. j \in 1..Len(Stages[r]) /\ j = StageOf[s] /\ at[k][1] = j
      BY <1>6, <1>7, <3>2
    <3>4. /\ a \in 1..Len(Stages[r][j]) /\ Stages[r][j][a] = q
          /\ b \in 1..Len(Stages[r][j]) /\ Stages[r][j][b] = s
      BY <1>3, <1>5, <3>3
    <3>5. (i < k => a < b) /\ (k < i => b < a) /\ (i = k => a = b)
      BY <1>3, <1>6, <3>3
    <3> HIDE DEF j, a, b
    <3>6. \A c, d \in 1..Len(Stages[r][j]) : Stages[r][j][c] = Stages[r][j][d] => c = d
      BY <3>3, ListedOnce
    <3>7. a = m /\ b = n
      BY <3>1, <3>3, <3>4, <3>6
    <3> QED
      BY <3>1, <3>5, <3>7
  <2> QED
    BY <2>1, <2>2
<1>9. DOMAIN flat = 1..Len(flat)
  BY <1>2
<1>10. StageOf[flat[i]] < StageOf[s] \/ <<Owning[s], StageOf[s]>> \in Sequential
  BY <1>5 DEF Earlier
<1> QED
  BY <1>1, <1>2, <1>5, <1>8, <1>9, <1>10 DEF InTurn

\* What a pass marks done of a running rail rule 2 says is done.
LEMMA MarkedByRule ==
    ASSUME RowsInv, NEW a \in Listed(NextActions), a.step \in Steps,
           rail[Owning[a.step]].st = "running"
    PROVE  a.kind = Rule(a.step)
<1>1. PICK r \in RailSet : a \in Listed(Decided(r)) /\ Belongs(a, r)
  BY NextLists
<1>2. a.step \in StepsOf[r] /\ a.kind \in Rules
  BY <1>1, OncesAssumption DEF Belongs
<1>3. Owning[a.step] = r
  BY <1>2, Placing, StepsApart
<1>4. a \in Listed(WalkRail(r))
  BY <1>1, <1>3 DEF Decided
<1>5. Stages[r] \in Seq(Seq(Steps)) /\ rail[r].at \in Nat
  BY RailsAssumption DEF RowsInv
<1>6. CASE rail[r].at \in 1..Len(Stages[r])
  <2>1. PICK j \in 1..Len(Stages[r]) : a \in Listed(WalkStage(r, j)) \/ a = LeaveOp(r, j)
    BY <1>4, <1>6, WalkRailLists
  <2>2. a # LeaveOp(r, j)
    BY <1>2 DEF LeaveOp, RailOp, Op, Rules
  <2> QED
    BY <2>1, <2>2, WalkStageLists
<1>7. CASE rail[r].at \notin 1..Len(Stages[r])
  <2>1. rail[r].at \notin DOMAIN Stages[r]
    BY <1>5, <1>7
  <2>2. PICK b : b = RailOp("complete", r, 0)
    OBVIOUS
  <2>3. WalkRail(r) = <<b>> /\ Len(<<b>>) = 1 /\ <<b>>[1] = b /\ 1..1 = {1}
    BY <2>1, <2>2 DEF WalkRail
  <2>4. a = b
    BY <1>4, <2>3 DEF Listed
  <2> QED
    BY <1>2, <2>2, <2>4 DEF RailOp, Op, Rules
<1> QED
  BY <1>6, <1>7

\* A running rail's pass says of a step on its stage, or after it, what its
\* rule says, unless one before it is not finished and is not marked done.
LEMMA WalkSays ==
    ASSUME RowsInv, NEW s \in Steps, rail[Owning[s]].st = "running",
           rail[Owning[s]].at \in 1..Len(Stages[Owning[s]]),
           rail[Owning[s]].at <= StageOf[s], Rule(s) # "none"
    PROVE  \/ \E a \in Listed(NextActions) : a.kind = Rule(s) /\ a.step = s
           \/ \E q \in Steps : /\ Earlier(q, s) /\ ~Finished(row[q].st)
                               /\ \A a \in Listed(NextActions) :
                                    a.kind = "markDone" => a.step # q
<1>1. PICK r \in RailSet : r = Owning[s] /\ s \in StepsOf[r]
  BY Placing
<1>0. \A l \in 1..Len(Stages[r]) : \A m \in 1..Len(Stages[r][l]) :
         \E q \in Steps : q = Stages[r][l][m] /\ Owning[q] = r /\ StageOf[q] = l
  BY StepPlace
<1>2. Stages[r] \in Seq(Seq(Steps)) /\ rail[r].at \in Nat
  BY RailsAssumption DEF RowsInv
<1>3. PICK j \in 1..Len(Stages[r]) : j = StageOf[s]
  BY <1>1, PlacedAt
<1>4. PICK i \in 1..Len(Stages[r][j]) : Stages[r][j][i] = s
  BY <1>1, <1>3, PlacedAt
<1>5. ASSUME NEW q \in Steps, Earlier(q, s), ~Finished(row[q].st), Rule(q) # "markDone"
      PROVE  \A a \in Listed(NextActions) : a.kind = "markDone" => a.step # q
  BY <1>5, MarkedByRule DEF Earlier
<1>6. CASE Walked(r, j)
  <2>1. CASE Reached(r, j, i)
    <3>1. PICK a \in Listed(WalkStage(r, j)) : a.kind = Rule(s) /\ a.step = s
      BY <1>4, <2>1, WalkStageLists
    <3>2. a \in Listed(WalkRail(r))
      BY <1>1, <1>6, <3>1, WalkRailLists
    <3>3. a \in Listed(NextActions)
      BY <1>1, <3>2, NextLists DEF Decided
    <3> QED
      BY <3>1, <3>3
  <2>2. CASE ~Reached(r, j, i)
    <3>1. PICK k \in 1..i - 1 : ~Finished(Simulated(Stages[r][j][k])) /\ <<r, j>> \in Sequential
      BY <2>2 DEF Reached
    <3>2. k \in 1..Len(Stages[r][j]) /\ k < i
      BY <1>2
    <3>3. PICK q \in Steps : q = Stages[r][j][k] /\ Owning[q] = r
      BY <1>0, <1>3, <3>2
    <3>4. Rule(q) # "markDone" /\ ~Finished(row[q].st)
      BY <3>1, <3>3, SimulatedFacts
    <3>5. Earlier(q, s)
      BY <1>1, <1>3, <1>4, <3>1, <3>2, <3>3 DEF Earlier
    <3> QED
      BY <1>5, <3>4, <3>5
  <2> QED
    BY <2>1, <2>2
<1>7. CASE ~Walked(r, j)
  <2>1. PICK k \in rail[r].at..j - 1 : ~StagePasses(r, k)
    BY <1>1, <1>2, <1>3, <1>7 DEF Walked
  <2>2. k \in 1..Len(Stages[r]) /\ k < j
    BY <1>1, <1>2
  <2>3. PICK i2 \in DOMAIN Stages[r][k] : ~Finished(Simulated(Stages[r][k][i2]))
    BY <2>1 DEF StagePasses
  <2>4. i2 \in 1..Len(Stages[r][k])
    BY <1>2, <2>2, <2>3
  <2>5. PICK q \in Steps : q = Stages[r][k][i2] /\ Owning[q] = r /\ StageOf[q] = k
    BY <1>0, <2>2, <2>4, Zenon
  <2>6. Rule(q) # "markDone" /\ ~Finished(row[q].st)
    BY <2>3, <2>5, SimulatedFacts
  <2>7. Earlier(q, s)
    BY <1>1, <1>3, <2>2, <2>5 DEF Earlier
  <2> QED
    BY <1>5, <2>6, <2>7
<1> QED
  BY <1>6, <1>7

----------------------------------------------------------------------------
(* Why a stalled step's rail is paused *)

\* What is left of the pass: where it takes a rail, whether it stops it, and
\* what it says of a step.
Advances(r) == {a \in Listed(pass) : a.kind = "advance" /\ a.rail = r}
Stop(a, r) ==
    a.rail = r /\ (a.kind = "complete" \/ (a.kind = "setRail" /\ a.st = "paused"))
Stops(r) == \E a \in Listed(pass) : Stop(a, r)
About(s) == \E a \in Listed(pass) : a.kind \in Stepped /\ a.step = s
Marked(s) == \E a \in Listed(pass) : a.kind = "markDone" /\ a.step = s

\* Another pass is to come, which reads everything again.
Ticks == \E i \in 1..Len(hand) : hand[i].kind = "tick"
Coming == cpu = "tick" \/ tickAgain \/ again \/ Ticks

\* The rail is, or will be, past the step's stage.
Behind(s) ==
    /\ \A a \in Advances(Owning[s]) : StageOf[s] < a.n
    /\ Advances(Owning[s]) = {} => StageOf[s] < rail[Owning[s]].at

\* A step before this one is not finished, and the pass does not mark it so.
Preceded(s) == \E q \in Steps : Earlier(q, s) /\ ~Finished(row[q].st) /\ ~Marked(q)

\* A stalled step of a rail that runs, or that the pass will set running, and
\* what may still come of it.
Waiting(s) ==
    /\ row[s].st = "stalled" /\ s \notin locked
    /\ rail[Owning[s]].st = "running" \/ Advances(Owning[s]) # {}
Excused(s) == held \/ Coming \/ About(s) \/ Stops(Owning[s]) \/ Behind(s) \/ Preceded(s)

StallInv == refused = 0 => \A s \in Steps : Waiting(s) => Excused(s)

\* A loop that has run out is stalled after its log is read: its rail is
\* paused next, unless a press set it running meanwhile.
ExhaustInv ==
    refused = 0 =>
        \A a \in Listed(pass) :
            a.kind = "exhaust" /\ rail[Owning[a.step]].st = "running" =>
                Coming \/ Stops(Owning[a.step])
ExhaustFirst(q) == \A i \in 1..Len(q) : q[i].kind = "exhaust" => i = 1

\* What sends a rail back asks for a pass, and a press that unpauses one ticks.
LoopAgain == \A a \in Listed(pass) : a.kind = "setRail" /\ a.st = "running" => again
HandTail == \A i \in 1..Len(hand) : hand[i].kind = "unpause" => hand[Len(hand)].kind = "tick"

StallsInv ==
    /\ Ordered(pass) /\ ExhaustFirst(pass) /\ LoopAgain /\ HandTail
    /\ ExhaustInv /\ StallInv

\* What is left of a pass is its head and the rest, and an action leaves what
\* it puts in front and the rest.
LEMMA PassSplits ==
    ASSUME PassInv, pass # <<>>, NEW ops \in Seq(Ops), pass' = ops \o Tail(pass)
    PROVE  /\ Listed(pass) = {Head(pass)} \cup Listed(Tail(pass))
           /\ Listed(pass') = Listed(ops) \cup Listed(Tail(pass))
           /\ Head(pass) \in Due /\ Listed(pass) \subseteq Due
           /\ ExhaustFirst(pass) => \A a \in Listed(Tail(pass)) : a.kind # "exhaust"
           /\ Ordered(pass) => \A a \in Listed(Tail(pass)) : MayPrecede(Head(pass), a)
<1>1. PICK p \in Seq(Due) : p = pass /\ p # <<>>
  BY DEF PassInv
<1>2. PICK t \in Seq(Due) : t = Tail(p) /\ Len(t) = Len(p) - 1
  BY <1>1, TailOf
<1>3. /\ Len(p) \in Nat /\ Len(p) # 0 /\ Head(p) = p[1] /\ Len(t) \in Nat
      /\ \A i \in 1..Len(t) : i + 1 \in 1..Len(p) /\ t[i] = p[i + 1]
      /\ \A i \in 1..Len(p) : p[i] \in Due
  BY <1>1, <1>2, TailOf
<1>4. \A i \in 1..Len(p) : i = 1 \/ (i - 1 \in 1..Len(t) /\ t[i - 1] = p[i])
  BY <1>2, <1>3
<1>5. 1 \in 1..Len(p)
  BY <1>3
<1>6. Listed(p) = {p[1]} \cup Listed(t)
  <2>1. \A i \in 1..Len(p) : p[i] = p[1] \/ p[i] \in Listed(t)
    BY <1>4 DEF Listed
  <2>2. p[1] \in Listed(p)
    BY <1>5 DEF Listed
  <2>3. \A i \in 1..Len(t) : t[i] \in Listed(p)
    BY <1>3 DEF Listed
  <2> QED
    BY <2>1, <2>2, <2>3 DEF Listed
<1>7. t \in Seq(Ops)
  <2>1. \A i \in 1..Len(t) : t[i] \in Ops
    BY <1>2 DEF Due
  <2> QED
    BY <2>1, SeqMembers
<1>8. PICK q \in Seq(Ops) : q = ops \o t
  BY <1>7, ConcatIn
<1>9. /\ Len(q) = Len(ops) + Len(t) /\ Len(ops) \in Nat
      /\ \A i \in 1..Len(ops) : i \in 1..Len(q) /\ q[i] = ops[i]
      /\ \A i \in 1..Len(t) : Len(ops) + i \in 1..Len(q) /\ q[Len(ops) + i] = t[i]
      /\ \A i \in 1..Len(q) : i \in 1..Len(ops) \/ i - Len(ops) \in 1..Len(t)
  BY <1>3, <1>7, <1>8
<1>10. Listed(q) = Listed(ops) \cup Listed(t)
  <2>1. \A i \in 1..Len(q) : q[i] \in Listed(ops) \cup Listed(t)
    <3>1. ASSUME NEW i \in 1..Len(q) PROVE q[i] \in Listed(ops) \cup Listed(t)
      <4>1. CASE i \in 1..Len(ops)
        BY <1>9, <4>1 DEF Listed
      <4>2. CASE i - Len(ops) \in 1..Len(t)
        <5>1. PICK m \in 1..Len(t) : m = i - Len(ops)
          BY <4>2
        <5>2. Len(ops) + m = i
          BY <1>9, <5>1
        <5>3. q[i] = t[m]
          BY <1>9, <5>2
        <5> QED
          BY <5>3 DEF Listed
      <4> QED
        BY <1>9, <4>1, <4>2
    <3> QED
      BY <3>1
  <2>2. \A i \in 1..Len(ops) : ops[i] \in Listed(q)
    BY <1>9 DEF Listed
  <2>3. \A i \in 1..Len(t) : t[i] \in Listed(q)
    BY <1>9 DEF Listed
  <2> QED
    BY <2>1, <2>2, <2>3 DEF Listed
<1>11. ASSUME ExhaustFirst(p), NEW a \in Listed(t)
       PROVE  a.kind # "exhaust"
  <2>1. PICK i \in 1..Len(t) : a = t[i]
    BY DEF Listed
  <2>2. i + 1 \in 1..Len(p) /\ a = p[i + 1] /\ i + 1 # 1
    BY <1>3, <2>1
  <2> QED
    BY <1>11, <2>2 DEF ExhaustFirst
<1>12. ASSUME Ordered(p), NEW a \in Listed(t)
       PROVE  MayPrecede(p[1], a)
  <2>1. PICK i \in 1..Len(t) : a = t[i]
    BY DEF Listed
  <2>2. i + 1 \in 1..Len(p) /\ a = p[i + 1] /\ 1 < i + 1
    BY <1>3, <2>1
  <2> QED
    BY <1>5, <1>12, <2>2 DEF Ordered
<1>13. Listed(p) \subseteq Due
  BY <1>3 DEF Listed
<1> QED
  BY <1>1, <1>2, <1>3, <1>5, <1>6, <1>8, <1>10, <1>11, <1>12, <1>13

\* What an action of the pass puts in front of the rest: nothing that takes a
\* rail on or marks a step done, and what may not come before an advance is
\* about a rail that the action itself was about.
Follows(ops) ==
    \A i \in 1..Len(ops) :
        /\ ops[i].kind \notin {"advance", "markDone", "loopBack"}
        /\ ops[i].kind \notin Free =>
              /\ Head(pass).kind \notin Free
              /\ \A r \in RailSet : Concerns(ops[i], r) => Concerns(Head(pass), r)
        /\ ops[i].kind = "exhaust" =>
              /\ i = 1
              /\ rail'[Owning[ops[i].step]].st = "running" =>
                    \E k \in 1..Len(ops) : Stop(ops[k], Owning[ops[i].step])
        /\ ops[i].kind = "setRail" /\ ops[i].st = "running" => again'

\* The order survives an action that leaves things that may follow it.
LEMMA OrderGoesOn ==
    ASSUME PassInv, pass # <<>>, NEW ops \in Seq(Ops), pass' = ops \o Tail(pass),
           Follows(ops), Ordered(pass), ExhaustFirst(pass)
    PROVE  Ordered(pass') /\ ExhaustFirst(pass')
<1>1. PICK p \in Seq(Due) : p = pass /\ p # <<>>
  BY DEF PassInv
<1>2. PICK t \in Seq(Due) : t = Tail(p) /\ Len(t) = Len(p) - 1
  BY <1>1, TailOf
<1>3. /\ Len(p) \in Nat /\ Len(p) # 0 /\ Head(p) = p[1] /\ Len(t) \in Nat
      /\ \A i \in 1..Len(t) : i + 1 \in 1..Len(p) /\ t[i] = p[i + 1]
  BY <1>1, <1>2, TailOf
<1>4. /\ \A i \in 1..Len(t) : t[i] \in Listed(t) /\ t[i].kind # "exhaust" /\ t[i] \in Due
      /\ \A i \in 1..Len(t) :
            t[i].kind = "advance" /\ Concerns(Head(pass), t[i].rail) => Head(pass).kind \in Free
  <2>0. \A a \in Listed(Tail(pass)) : a.kind # "exhaust" /\ MayPrecede(Head(pass), a)
    BY PassSplits
  <2>1. \A i \in 1..Len(t) : t[i] \in Listed(t) /\ t[i] \in Due
    BY <1>2 DEF Listed
  <2>2. Listed(t) = Listed(Tail(pass))
    BY <1>1, <1>2
  <2> QED
    BY <2>0, <2>1, <2>2 DEF MayPrecede
<1>5. t \in Seq(Ops)
  <2>1. \A i \in 1..Len(t) : t[i] \in Ops
    BY <1>2 DEF Due
  <2> QED
    BY <2>1, SeqMembers
<1>6. PICK q \in Seq(Ops) : q = ops \o t
  BY <1>5, ConcatIn
<1> DEFINE L == Len(ops)
<1>7. /\ Len(q) = L + Len(t) /\ L \in Nat
      /\ \A i \in 1..L : q[i] = ops[i]
      /\ \A i \in 1..Len(q) : i \in 1..L \/ (i - L \in 1..Len(t) /\ q[i] = t[i - L])
  BY <1>3, <1>5, <1>6
<1> HIDE DEF L
<1>8. ASSUME NEW i \in 1..Len(q), NEW k \in 1..Len(q), i < k, q[k].kind = "advance",
             Concerns(q[i], q[k].rail)
      PROVE  q[i].kind \in Free /\ (q[i].kind = "advance" => q[i].n < q[k].n)
  <2>1. k - L \in 1..Len(t) /\ q[k] = t[k - L]
    BY <1>7, <1>8 DEF Follows, L
  <2>2. PICK m \in 1..Len(t) : m = k - L /\ q[k] = t[m]
    BY <2>1
  <2>3. CASE i \in 1..L
    <3>1. q[k].rail \in RailSet
      BY <1>4, <1>8, <2>2 DEF Due, Sound, RailAction, Railed
    <3>2. q[i] = ops[i] /\ i \in 1..Len(ops)
      BY <1>7, <2>3 DEF L
    <3>3. CASE q[i].kind \notin Free
      <4>1. Head(pass).kind \notin Free /\ Concerns(Head(pass), q[k].rail)
        BY <1>8, <3>1, <3>2, <3>3 DEF Follows
      <4> QED
        BY <1>4, <1>8, <2>2, <4>1
    <3>4. q[i].kind # "advance"
      BY <3>2 DEF Follows
    <3> QED
      BY <3>3, <3>4
  <2>4. CASE i - L \in 1..Len(t) /\ q[i] = t[i - L]
    <3>1. PICK n \in 1..Len(t) : n = i - L /\ q[i] = t[n]
      BY <2>4
    <3>2. /\ n + 1 \in 1..Len(p) /\ m + 1 \in 1..Len(p) /\ n + 1 < m + 1
          /\ p[n + 1] = q[i] /\ p[m + 1] = q[k]
      BY <1>3, <1>7, <1>8, <2>2, <3>1
    <3> QED
      BY <1>1, <1>8, <3>2 DEF Ordered, MayPrecede
  <2> QED
    BY <1>7, <2>3, <2>4
<1>11. ASSUME NEW i \in 1..Len(q), NEW k \in 1..Len(q), i < k, q[k].kind = "markDone",
              q[i].kind \in {"advance", "loopBack"}
       PROVE  ~Passes(q[i], q[k].step)
  <2>1. PICK m \in 1..Len(t) : m = k - L /\ q[k] = t[m]
    BY <1>7, <1>11 DEF Follows, L
  <2>2. PICK n \in 1..Len(t) : n = i - L /\ q[i] = t[n]
    BY <1>7, <1>11 DEF Follows, L
  <2>3. i \in Nat /\ k \in Nat /\ n < m
    BY <1>7, <1>11, <2>1, <2>2
  <2>4. /\ n + 1 \in 1..Len(p) /\ t[n] = p[n + 1]
        /\ m + 1 \in 1..Len(p) /\ t[m] = p[m + 1]
    BY <1>3
  <2>5. n + 1 < m + 1
    BY <1>3, <2>3
  <2> QED
    BY <1>1, <1>11, <2>1, <2>2, <2>4, <2>5 DEF Ordered, MayPrecede
<1>9. ASSUME NEW i \in 1..Len(q), q[i].kind = "exhaust"
      PROVE  i = 1
  BY <1>4, <1>7, <1>9 DEF Follows, L
<1>10. pass' = q
  BY <1>1, <1>2, <1>6
<1> QED
  BY <1>8, <1>9, <1>10, <1>11 DEF Ordered, MayPrecede, ExhaustFirst

\* What an action of the pass has to show for the invariant.
LEMMA PassStalls ==
    ASSUME RailsInv, StallsInv, pass # <<>>, NEW ops \in Seq(Ops),
           pass' = ops \o Tail(pass), Follows(ops), hand' = hand, again => again',
           refused' = 0 => \A s \in Steps : Waiting(s)' => Excused(s)'
    PROVE  StallsInv'
<1>1. Ordered(pass') /\ ExhaustFirst(pass')
  BY OrderGoesOn DEF RailsInv, StallsInv
<1>2. /\ Listed(pass) = {Head(pass)} \cup Listed(Tail(pass))
      /\ Listed(pass') = Listed(ops) \cup Listed(Tail(pass))
      /\ \A a \in Listed(Tail(pass)) : a.kind # "exhaust"
  BY PassSplits DEF RailsInv, StallsInv
<1>3. LoopAgain'
  <2>1. ASSUME NEW a \in Listed(pass'), a.kind = "setRail", a.st = "running"
        PROVE  again'
    <3>1. CASE a \in Listed(ops)
      BY <2>1, <3>1 DEF Listed, Follows
    <3>2. CASE a \in Listed(Tail(pass))
      BY <1>2, <2>1, <3>2 DEF StallsInv, LoopAgain
    <3> QED
      BY <1>2, <3>1, <3>2
  <2> QED
    BY <2>1 DEF LoopAgain
<1>4. HandTail'
  BY DEF StallsInv, HandTail
<1>5. ExhaustInv'
  <2>1. ASSUME NEW a \in Listed(pass'), a.kind = "exhaust",
               rail'[Owning[a.step]].st = "running"
        PROVE  Stops(Owning[a.step])'
    <3>1. PICK i \in 1..Len(ops) : a = ops[i]
      BY <1>2, <2>1 DEF Listed
    <3>2. PICK k \in 1..Len(ops) : Stop(ops[k], Owning[a.step])
      BY <2>1, <3>1 DEF Follows
    <3>3. ops[k] \in Listed(pass')
      BY <1>2 DEF Listed
    <3> QED
      BY <3>2, <3>3 DEF Stops
  <2> QED
    BY <2>1 DEF ExhaustInv
<1>6. StallInv'
  BY DEF StallInv
<1> QED
  BY <1>1, <1>3, <1>4, <1>5, <1>6 DEF StallsInv

\* A step that a pass's action is not about stays excused.
LEMMA StillExcused ==
    ASSUME RailsInv, StallsInv, refused = 0, pass # <<>>, NEW ops \in Seq(Ops),
           pass' = ops \o Tail(pass), Follows(ops), NEW s \in Steps, Waiting(s)',
           hand' = hand, held' = held, locked' = locked, cpu # "tick",
           tickAgain => tickAgain', again => again',
           row'[s] = row[s], rail'[Owning[s]] = rail[Owning[s]],
           Head(pass).kind \in Stepped => Head(pass).step # s,
           ~Stop(Head(pass), Owning[s]),
           ~(Head(pass).kind = "advance" /\ Head(pass).rail = Owning[s]),
           \A t \in Steps : ~Finished(row[t].st) =>
              \/ ~Finished(row'[t].st)
              \/ Head(pass).kind = "markDone" /\ Head(pass).step = t
    PROVE  Excused(s)'
<1>1. /\ Listed(pass) = {Head(pass)} \cup Listed(Tail(pass))
      /\ Listed(pass') = Listed(ops) \cup Listed(Tail(pass))
  BY PassSplits DEF RailsInv
<1>2. \A a \in Listed(ops) : a.kind \notin {"advance", "markDone"}
  BY DEF Follows, Listed
<1>3. Advances(Owning[s])' = Advances(Owning[s])
  BY <1>1, <1>2 DEF Advances
<1>4. Waiting(s)
  BY <1>3 DEF Waiting
<1>5. Excused(s)
  BY <1>4 DEF StallsInv, StallInv
<1>6. CASE held \/ Coming
  BY <1>6 DEF Excused, Coming, Ticks
<1>7. CASE About(s)
  <2>1. About(s)'
    BY <1>1, <1>7 DEF About
  <2> QED
    BY <2>1 DEF Excused
<1>8. CASE Stops(Owning[s])
  <2>1. Stops(Owning[s])'
    BY <1>1, <1>8 DEF Stops
  <2> QED
    BY <2>1 DEF Excused
<1>9. CASE Behind(s)
  <2>1. Behind(s)'
    BY <1>3, <1>9 DEF Behind
  <2> QED
    BY <2>1 DEF Excused
<1>10. CASE Preceded(s)
  <2>1. PICK q \in Steps : Earlier(q, s) /\ ~Finished(row[q].st) /\ ~Marked(q)
    BY <1>10 DEF Preceded
  <2>2. ~Marked(q)' /\ ~(Head(pass).kind = "markDone" /\ Head(pass).step = q)
    BY <1>1, <1>2, <2>1 DEF Marked
  <2>3. ~Finished(row'[q].st)
    BY <2>1, <2>2
  <2>4. Preceded(s)'
    BY <2>1, <2>2, <2>3 DEF Preceded
  <2> QED
    BY <2>4 DEF Excused
<1> QED
  BY <1>5, <1>6, <1>7, <1>8, <1>9, <1>10 DEF Excused

\* An action that writes the row of the step it is about, and no other.
LEMMA StepWritten ==
    ASSUME RailsInv, StallsInv, pass # <<>>, NEW ops \in Seq(Ops),
           pass' = ops \o Tail(pass), Follows(ops), hand' = hand, held' = held,
           locked' = locked, cpu # "tick", tickAgain => tickAgain', again => again',
           Head(pass).kind \in Stepped, NEW q \in Steps, q = Head(pass).step,
           refused' = 0 =>
              /\ refused = 0 /\ rail' = rail
              /\ \A t \in Steps : t # q => row'[t] = row[t]
              /\ Head(pass).kind = "markDone" \/ (~Finished(row[q].st) => ~Finished(row'[q].st))
              /\ Waiting(q)' => Excused(q)'
    PROVE  StallsInv'
<1>1. ASSUME refused' = 0, NEW s \in Steps, Waiting(s)'
      PROVE  Excused(s)'
  <2>1. CASE s = q
    BY <1>1, <2>1
  <2>2. CASE s # q
    <3>1. ~Stop(Head(pass), Owning[s]) /\ Head(pass).kind # "advance"
      BY DEF Stop, Stepped
    <3>2. row'[s] = row[s] /\ rail'[Owning[s]] = rail[Owning[s]]
      BY <1>1, <2>2
    <3>3. \A t \in Steps : ~Finished(row[t].st) =>
             \/ ~Finished(row'[t].st)
             \/ Head(pass).kind = "markDone" /\ Head(pass).step = t
      BY <1>1
    <3> QED
      BY <1>1, <2>2, <3>1, <3>2, <3>3, StillExcused
  <2> QED
    BY <2>1, <2>2
<1> QED
  BY <1>1, PassStalls

\* An action that writes no row but the rail it is about, if that.
LEMMA RailWritten ==
    ASSUME RailsInv, StallsInv, pass # <<>>, Then(<<>>), hand' = hand, held' = held,
           locked' = locked, cpu # "tick", tickAgain => tickAgain', again => again',
           Head(pass).kind \notin Stepped, NEW r \in RailSet, r = Head(pass).rail,
           refused' = 0 =>
              /\ refused = 0 /\ row' = row
              /\ \A o \in RailSet : o # r => rail'[o] = rail[o]
              /\ \A s \in Steps : Owning[s] = r /\ Waiting(s)' => Excused(s)'
    PROVE  StallsInv'
<1>0. <<>> \in Seq(Ops)
  OBVIOUS
<1>1. PICK ops \in Seq(Ops) : ops = <<>>
  BY <1>0
<1>2. Len(ops) = 0 /\ pass' = ops \o Tail(pass)
  BY <1>1 DEF Then
<1>3. Follows(ops)
  BY <1>2 DEF Follows
<1>4. ASSUME refused' = 0, NEW s \in Steps, Waiting(s)'
      PROVE  Excused(s)'
  <2>1. CASE Owning[s] = r
    BY <1>4, <2>1
  <2>2. CASE Owning[s] # r
    <3>1. /\ ~Stop(Head(pass), Owning[s])
          /\ ~(Head(pass).kind = "advance" /\ Head(pass).rail = Owning[s])
      BY <2>2 DEF Stop
    <3>2. row'[s] = row[s] /\ rail'[Owning[s]] = rail[Owning[s]]
      BY <1>4, <2>2, Placing
    <3>3. \A t \in Steps : ~Finished(row[t].st) => ~Finished(row'[t].st)
      BY <1>4
    <3> QED
      BY <1>2, <1>3, <1>4, <3>1, <3>2, <3>3, StillExcused
  <2> QED
    BY <2>1, <2>2
<1> QED
  BY <1>2, <1>3, <1>4, PassStalls

\* Another pass to come excuses every step.
LEMMA ComingExcuses ==
    ASSUME Coming'
    PROVE  \A s \in Steps : Excused(s)'
BY DEF Excused

\* A write that is not refused, while none was.
LEMMA SetStepActs ==
    ASSUME RowsInv, NEW s \in Steps, NEW x, NEW named, NEW count,
           SetStep(s, x, named, count), refused' = 0
    PROVE  /\ refused = 0 /\ rail' = rail /\ row'[s].st = x
           /\ \A t \in Steps : t # s => row'[t] = row[t]
<1>1. refused \in Nat /\ refused + 1 # 0
  BY DEF RowsInv
<1>2. ~Refuse
  BY <1>1 DEF Refuse
<1>3. PICK n : row' = [row EXCEPT ![s] = [st |-> x, ses |-> named, tries |-> n]]
  BY <1>2 DEF SetStep
<1>4. rail' = rail /\ refused' = refused
  BY <1>2 DEF SetStep
<1>5. DOMAIN row = Steps
  BY DEF RowsInv
<1> QED
  BY <1>3, <1>4, <1>5

\* A write of a rail the daemon accepted is of that rail alone.
LEMMA SetRailActs ==
    ASSUME RowsInv, NEW r \in RailSet, NEW x, NEW n, SetRail(r, x, n), refused' = 0
    PROVE  /\ refused = 0 /\ row' = row /\ rail'[r].st = x /\ rail'[r].at = n
           /\ \A o \in RailSet : o # r => rail'[o] = rail[o]
<1>1. refused \in Nat /\ refused + 1 # 0
  BY DEF RowsInv
<1>2. ~Refuse
  BY <1>1 DEF Refuse
<1>3. rail' = [rail EXCEPT ![r] = [st |-> x, at |-> n]] /\ row' = row /\ refused' = refused
  BY <1>2 DEF SetRail
<1>4. DOMAIN rail = RailSet
  BY DEF RowsInv
<1> QED
  BY <1>3, <1>4

\* What is in the actions.
LEMMA StepOps ==
    ASSUME NEW k \in Stepped, NEW s \in Steps
    PROVE  /\ StepOp(k, s) \in Ops /\ StepOp(k, s).kind = k /\ StepOp(k, s).step = s
           /\ StepOp(k, s).rail = "none"
BY DEF StepOp, Op, Ops

\* The actions that name a rail and no step.
LEMMA RailOps ==
    ASSUME NEW k \in Railed, NEW r \in RailSet, NEW x \in {"none", "running", "paused"},
           NEW n \in Nat
    PROVE  /\ Op(k, "none", r, x, n) \in Ops /\ Op(k, "none", r, x, n).kind = k
           /\ Op(k, "none", r, x, n).step = "none" /\ Op(k, "none", r, x, n).rail = r
           /\ Op(k, "none", r, x, n).st = x /\ Op(k, "none", r, x, n).n = n
BY DEF Op, Ops

\* What an action leaves behind: nothing, or one write.
LEMMA NoneFollows ==
    \E ops \in Seq(Ops) : ops = <<>> /\ Follows(ops)
<1>1. <<>> \in Seq(Ops) /\ Len(<<>>) = 0 /\ 1..0 = {}
  OBVIOUS
<1> QED
  BY <1>1 DEF Follows

\* One action left in front may follow the action that left it.
LEMMA OneFollows ==
    ASSUME NEW a \in Ops, a.kind \notin {"advance", "markDone", "exhaust", "loopBack"},
           a.kind \notin Free =>
              /\ Head(pass).kind \notin Free
              /\ \A r \in RailSet : Concerns(a, r) => Concerns(Head(pass), r),
           a.kind = "setRail" /\ a.st = "running" => again'
    PROVE  \E ops \in Seq(Ops) : ops = <<a>> /\ Follows(ops) /\ Listed(ops) = {a}
<1>1. PICK ops \in Seq(Ops) : ops = <<a>>
  BY ShortSeqs
<1>2. Len(ops) = 1 /\ ops[1] = a
  BY <1>1
<1>3. \A i \in 1..Len(ops) : i = 1 /\ ops[i] = a
  BY <1>2
<1>4. Listed(ops) = {a}
  BY <1>2, <1>3 DEF Listed
<1>5. Follows(ops)
  BY <1>3 DEF Follows
<1> QED
  BY <1>1, <1>4, <1>5

\* What pauses a step's rail, or is about the step, is about what its rail is.
LEMMA SameConcern ==
    ASSUME NEW q \in Steps, q = Head(pass).step, NEW a, NEW r \in RailSet, Concerns(a, r),
           \/ a.step = "none" /\ a.rail = Owning[q]
           \/ a.step \in Steps /\ a.rail = "none" /\ Owning[a.step] = Owning[q]
    PROVE  Concerns(Head(pass), r)
<1>1. "none" \notin Steps /\ "none" \notin RailSet
  BY OncesAssumption
<1>2. q \in StepsOf[Owning[q]] /\ Owning[q] \in RailSet
  BY Placing
<1>3. CASE a.step = "none" /\ a.rail = Owning[q]
  <2>1. a.step \notin StepsOf[r]
    BY <1>1, <1>3 DEF Steps
  <2>2. r = Owning[q]
    BY <1>3, <2>1 DEF Concerns
  <2> QED
    BY <1>2, <2>2 DEF Concerns
<1>4. CASE a.step \in Steps /\ a.rail = "none" /\ Owning[a.step] = Owning[q]
  <2>1. a.step \in StepsOf[r]
    BY <1>1, <1>4 DEF Concerns
  <2>2. a.step \in StepsOf[Owning[q]]
    BY <1>4, Placing
  <2>3. r = Owning[q]
    BY <1>2, <2>1, <2>2, StepsApart
  <2> QED
    BY <1>2, <2>3 DEF Concerns
<1> QED
  BY <1>3, <1>4

\* The step a rail's advance comes after is not one the pass still acts on.
LEMMA NoAdvance ==
    ASSUME RailsInv, StallsInv, pass # <<>>, NEW ops \in Seq(Ops),
           pass' = ops \o Tail(pass), Follows(ops),
           Head(pass).kind \notin Free, NEW r \in RailSet, Concerns(Head(pass), r)
    PROVE  Advances(r)' = {}
<1>1. /\ Listed(pass') = Listed(ops) \cup Listed(Tail(pass))
      /\ \A a \in Listed(Tail(pass)) :
            a.kind = "advance" /\ Concerns(Head(pass), a.rail) => Head(pass).kind \in Free
  BY PassSplits DEF RailsInv, StallsInv, MayPrecede
<1>2. \A a \in Listed(ops) : a.kind # "advance"
  BY DEF Follows, Listed
<1> QED
  BY <1>1, <1>2 DEF Advances

\* A stall pauses the rail next, or leaves one that does not run.
LEMMA StallStalls ==
    ASSUME RailsInv, StallsInv, NEW k \in Stepped \ Free, Doing(k), NEW q \in Steps,
           q = Head(pass).step, NEW count, Stall(q, count), hand' = hand, held' = held,
           locked' = locked, tickAgain => tickAgain', again => again'
    PROVE  StallsInv'
<1>1. /\ pass # <<>> /\ Head(pass).kind = k /\ cpu # "tick"
      /\ Owning[q] \in RailSet /\ rail[Owning[q]].at \in Nat
  BY Placing DEF Doing, RailsInv, RowsInv
<1>2. Concerns(Head(pass), Owning[q])
  BY Placing DEF Concerns
<1>3. refused' = 0 =>
        /\ refused = 0 /\ rail' = rail /\ row'[q].st = "stalled"
        /\ \A t \in Steps : t # q => row'[t] = row[t]
  BY SetStepActs DEF Stall, RailsInv
<1>4. CASE rail[Owning[q]].st = "running"
  <2>1. PICK a \in Ops :
          /\ a = Op("setRail", "none", Owning[q], "paused", rail[Owning[q]].at)
          /\ a.kind = "setRail" /\ a.step = "none" /\ a.rail = Owning[q] /\ a.st = "paused"
    BY <1>1, RailOps DEF Railed
  <2>2. \A r \in RailSet : Concerns(a, r) => Concerns(Head(pass), r)
    BY <2>1, SameConcern
  <2>3. PICK ops \in Seq(Ops) : ops = <<a>> /\ Follows(ops) /\ Listed(ops) = {a}
    BY <1>1, <2>1, <2>2, OneFollows
  <2>4. pass' = ops \o Tail(pass)
    BY <1>4, <2>1, <2>3 DEF Stall, Then
  <2>5. a \in Listed(pass')
    BY <1>1, <2>3, <2>4, PassSplits DEF RailsInv
  <2>6. Excused(q)'
    BY <2>1, <2>5 DEF Excused, Stops, Stop
  <2> QED
    BY <1>1, <1>3, <2>3, <2>4, <2>6, StepWritten DEF Finished
<1>5. CASE rail[Owning[q]].st # "running"
  <2>1. PICK ops \in Seq(Ops) : ops = <<>> /\ Follows(ops)
    BY NoneFollows
  <2>2. pass' = ops \o Tail(pass)
    BY <1>5, <2>1 DEF Stall, Then
  <2>3. Advances(Owning[q])' = {}
    BY <1>1, <1>2, <2>1, <2>2, NoAdvance
  <2>4. refused' = 0 => ~Waiting(q)'
    BY <1>3, <1>5, <2>3 DEF Waiting
  <2> QED
    BY <1>1, <1>3, <2>1, <2>2, <2>4, StepWritten DEF Finished
<1> QED
  BY <1>4, <1>5

\* A step marked done was marked by the pass, so nothing that it excuses is
\* lost.
LEMMA DoMarkDoneStalls ==
    ASSUME RailsInv, StallsInv, DoMarkDone
    PROVE  StallsInv'
<1>1. /\ Doing("markDone") /\ pass # <<>> /\ Head(pass).kind = "markDone" /\ cpu # "tick"
      /\ hand' = hand /\ held' = held /\ locked' = locked /\ tickAgain' = tickAgain
      /\ again => again'
  BY DEF DoMarkDone, Doing, PassUnchanged, worldVars
<1>2. PICK q \in Steps : q = Head(pass).step
  BY <1>1, HeadIsDue DEF Stepped, RailsInv
<1>3. PICK ops \in Seq(Ops) : pass' = ops \o Tail(pass) /\ Follows(ops)
  <2>1. CASE row[q].st = "stalled"
    <3>1. Owning[q] \in RailSet /\ StageOf[q] \in Nat
      BY Placing
    <3>2. PICK a \in Ops : a = RailOp("unpause", Owning[q], StageOf[q]) /\ a.kind = "unpause"
      BY <3>1, RailOps DEF RailOp, Railed
    <3>3. PICK ops \in Seq(Ops) : ops = <<a>> /\ Follows(ops)
      BY <3>2, OneFollows DEF Free
    <3>4. pass' = ops \o Tail(pass)
      BY <1>2, <2>1, <3>2, <3>3 DEF DoMarkDone, Then
    <3> QED
      BY <3>3, <3>4
  <2>2. CASE row[q].st # "stalled"
    <3>1. PICK ops \in Seq(Ops) : ops = <<>> /\ Follows(ops)
      BY NoneFollows
    <3>2. pass' = ops \o Tail(pass)
      BY <1>2, <2>2, <3>1 DEF DoMarkDone, Then
    <3> QED
      BY <3>1, <3>2
  <2> QED
    BY <2>1, <2>2
<1>4. refused' = 0 =>
        /\ refused = 0 /\ rail' = rail /\ row'[q].st = "done"
        /\ \A t \in Steps : t # q => row'[t] = row[t]
  BY <1>2, SetStepActs DEF DoMarkDone, RailsInv
<1>5. refused' = 0 => ~Waiting(q)'
  BY <1>4 DEF Waiting
<1> QED
  BY <1>1, <1>2, <1>3, <1>4, <1>5, StepWritten DEF Stepped

\* stallStep leaves the write of the row and the rail's pause.
LEMMA DoStallStalls ==
    ASSUME RailsInv, StallsInv, DoStall
    PROVE  StallsInv'
<1>1. /\ Doing("stall") /\ hand' = hand /\ held' = held /\ locked' = locked
      /\ tickAgain' = tickAgain /\ again' = again
  BY DEF DoStall, PassUnchanged, worldVars
<1>2. PICK q \in Steps : q = Head(pass).step
  BY <1>1, HeadIsDue DEF Stepped, RailsInv
<1>3. Stall(q, {})
  BY <1>2 DEF DoStall
<1>4. "stall" \in Stepped \ Free
  BY DEF Stepped, Free
<1> QED
  BY <1>1, <1>2, <1>3, <1>4, StallStalls

\* What a loop that has run out leaves for after its log is read.
LEMMA ExhaustFollows ==
    ASSUME RailsInv, Doing("loopExhausted"), NEW q \in Steps, q = Head(pass).step,
           rail' = rail,
           Then(<<StepOp("exhaust", q)>> \o
                (IF rail[Owning[q]].st = "running"
                 THEN <<Op("setRail", "none", Owning[q], "paused", rail[Owning[q]].at)>>
                 ELSE <<>>))
    PROVE  \E ops \in Seq(Ops) :
              pass' = ops \o Tail(pass) /\ Follows(ops) /\ StepOp("exhaust", q) \in Listed(ops)
<1>1. /\ Head(pass).kind \notin Free /\ Owning[q] \in RailSet /\ rail[Owning[q]].at \in Nat
  BY Placing DEF Doing, Free, RailsInv, RowsInv
<1>2. PICK a \in Ops : /\ a = StepOp("exhaust", q) /\ a.kind = "exhaust" /\ a.step = q
                       /\ a.rail = "none"
  BY StepOps DEF Stepped
<1>3. PICK b \in Ops :
        /\ b = Op("setRail", "none", Owning[q], "paused", rail[Owning[q]].at)
        /\ b.kind = "setRail" /\ b.step = "none" /\ b.rail = Owning[q] /\ b.st = "paused"
  BY <1>1, RailOps DEF Railed
<1>4. \A r \in RailSet :
        (Concerns(a, r) => Concerns(Head(pass), r)) /\ (Concerns(b, r) => Concerns(Head(pass), r))
  BY <1>2, <1>3, SameConcern
<1>5. Stop(b, Owning[q])
  BY <1>3 DEF Stop
<1>6. CASE rail[Owning[q]].st = "running"
  <2>1. PICK ops \in Seq(Ops) : ops = <<a>> \o <<b>> /\ Len(ops) = 2 /\ ops[1] = a /\ ops[2] = b
    BY ShortPair
  <2>2. \A i \in 1..Len(ops) : (i = 1 /\ ops[i] = a) \/ (i = 2 /\ ops[i] = b)
    BY <2>1
  <2>3. 1 \in 1..Len(ops) /\ 2 \in 1..Len(ops)
    BY <2>1
  <2>4. Follows(ops)
    <3>1. \E k \in 1..Len(ops) : Stop(ops[k], Owning[q])
      BY <1>5, <2>1, <2>3
    <3>2. \A i \in 1..Len(ops) :
            /\ ops[i].kind \in {"exhaust", "setRail"}
            /\ ops[i].kind = "exhaust" => i = 1 /\ ops[i].step = q
            /\ ops[i].kind = "setRail" => ops[i].st # "running"
            /\ \A r \in RailSet : Concerns(ops[i], r) => Concerns(Head(pass), r)
      BY <1>2, <1>3, <1>4, <2>2
    <3> QED
      BY <1>1, <3>1, <3>2 DEF Follows
  <2>5. pass' = ops \o Tail(pass)
    BY <1>2, <1>3, <1>6, <2>1 DEF Then
  <2>6. a \in Listed(ops)
    BY <2>1, <2>3 DEF Listed
  <2> QED
    BY <1>2, <2>4, <2>5, <2>6
<1>7. CASE rail[Owning[q]].st # "running"
  <2>1. PICK ops \in Seq(Ops) : ops = <<a>> /\ <<a>> \o <<>> = <<a>>
    BY ShortSeqs
  <2>2. Len(ops) = 1 /\ ops[1] = a /\ 1 \in 1..Len(ops) /\ \A i \in 1..Len(ops) : i = 1
    BY <2>1
  <2>3. Follows(ops)
    BY <1>1, <1>2, <1>4, <1>7, <2>2 DEF Follows
  <2>4. pass' = ops \o Tail(pass)
    BY <1>2, <1>7, <2>1 DEF Then
  <2>5. a \in Listed(ops)
    BY <2>2 DEF Listed
  <2> QED
    BY <1>2, <2>3, <2>4, <2>5
<1> QED
  BY <1>6, <1>7

\* An exhausted loop leaves its row and the pause of the rail it was read on.
LEMMA DoLoopExhaustedStalls ==
    ASSUME RailsInv, StallsInv, DoLoopExhausted
    PROVE  StallsInv'
<1>1. /\ Doing("loopExhausted") /\ pass # <<>> /\ Head(pass).kind = "loopExhausted"
      /\ cpu # "tick" /\ hand' = hand /\ held' = held /\ locked' = locked
      /\ tickAgain' = tickAgain /\ again' = again
  BY DEF DoLoopExhausted, Doing, PassUnchanged, worldVars
<1>2. PICK q \in Steps : q = Head(pass).step
  BY <1>1, HeadIsDue DEF Stepped, RailsInv
<1>3. CASE Kind[q] = "pr"
  <2>1. Stall(q, {0})
    BY <1>2, <1>3 DEF DoLoopExhausted
  <2>2. "loopExhausted" \in Stepped \ Free
    BY DEF Stepped, Free
  <2> QED
    BY <1>1, <1>2, <2>1, <2>2, StallStalls
<1>4. CASE Kind[q] # "pr"
  <2>1. rail' = rail /\ row' = row /\ refused' = refused
    BY <1>2, <1>4 DEF DoLoopExhausted, runVars
  <2>2. PICK ops \in Seq(Ops) :
          pass' = ops \o Tail(pass) /\ Follows(ops) /\ StepOp("exhaust", q) \in Listed(ops)
    BY <1>1, <1>2, <1>4, <2>1, ExhaustFollows DEF DoLoopExhausted
  <2>3. StepOp("exhaust", q) \in Listed(pass')
    BY <1>1, <2>2, PassSplits DEF RailsInv
  <2>4. StepOp("exhaust", q).kind \in Stepped /\ StepOp("exhaust", q).step = q
    BY StepOps DEF Stepped
  <2>5. Excused(q)'
    BY <2>3, <2>4 DEF Excused, About
  <2> QED
    BY <1>1, <1>2, <2>1, <2>2, <2>5, StepWritten DEF Stepped
<1> QED
  BY <1>3, <1>4

\* A loop that goes back asks for a pass.
LEMMA DoLoopBackStalls ==
    ASSUME RailsInv, StallsInv, DoLoopBack
    PROVE  StallsInv'
<1>1. /\ Doing("loopBack") /\ pass # <<>> /\ Head(pass).kind = "loopBack" /\ PassInv
      /\ hand' = hand /\ again' = TRUE
  BY DEF DoLoopBack, Doing, RailsInv
<1>2. Head(pass) \in Due /\ Head(pass).step \in Steps
  BY <1>1, HeadIsDue DEF Stepped
<1>3. PICK q \in Steps, p \in Steps : q = Head(pass).step /\ p = Before[q]
  BY <1>1, <1>2 DEF Due, Sound, StepAction, Stepped
<1>4. Owning[q] \in RailSet /\ StageOf[p] \in Nat /\ Owning[p] = Owning[q]
  <2>1. p # "none"
    BY OncesAssumption
  <2>2. p \in StepsOf[Owning[q]] /\ Owning[q] \in RailSet
    BY <1>3, <2>1, Placing
  <2> QED
    BY <2>2, Placing, StepsApart
<1>5. Head(pass).n \in Nat
  BY <1>1, HeadIsDue
<1>6. PICK c \in Ops : /\ c = Op("count", q, "none", "none", Head(pass).n)
                       /\ c.kind = "count" /\ c.step = q /\ c.rail = "none"
  <2>1. PICK c : c = Op("count", q, "none", "none", Head(pass).n)
    OBVIOUS
  <2>2. /\ c = [kind |-> "count", step |-> q, rail |-> "none", st |-> "none", n |-> Head(pass).n]
        /\ c.kind = "count" /\ c.step = q /\ c.rail = "none"
    BY <2>1 DEF Op
  <2>3. c \in Ops
    BY <1>5, <2>2 DEF Ops, Stepped
  <2> QED
    BY <2>1, <2>2, <2>3
<1>7. PICK d \in Ops : /\ d = StepOp("rearm", p) /\ d.kind = "rearm" /\ d.step = p
                       /\ d.rail = "none"
  BY StepOps DEF Stepped
<1>8. PICK e \in Ops :
        /\ e = Op("setRail", "none", Owning[q], "running", StageOf[p])
        /\ e.kind = "setRail" /\ e.step = "none" /\ e.rail = Owning[q]
  BY <1>4, RailOps DEF Railed
<1>9. PICK ops : ops = <<c, d, e>>
  OBVIOUS
<1>10. /\ ops \in Seq(Ops) /\ Len(ops) = 3 /\ ops[1] = c /\ ops[2] = d /\ ops[3] = e
  BY <1>9
<1>11. pass' = ops \o Tail(pass)
  BY <1>3, <1>6, <1>7, <1>8, <1>9 DEF DoLoopBack, Then
<1>12. \A r \in RailSet : \A a \in {c, d, e} : Concerns(a, r) => Concerns(Head(pass), r)
  BY <1>3, <1>4, <1>6, <1>7, <1>8, SameConcern
<1>13. \A i \in 1..Len(ops) : ops[i] \in {c, d, e}
  BY <1>10
<1>14. Follows(ops)
  BY <1>1, <1>6, <1>7, <1>8, <1>12, <1>13 DEF Follows, Free
<1>15. \A s \in Steps : Excused(s)'
  BY <1>1, ComingExcuses DEF Coming
<1> QED
  BY <1>1, <1>10, <1>11, <1>14, <1>15, PassStalls

\* The writes left for after an await: of the count, of the step before, and
\* of a loop that ran out, whose rail no advance is left for.
LEMMA DoSetStepStalls ==
    ASSUME RailsInv, StallsInv, DoSetStep
    PROVE  StallsInv'
<1>1. /\ pass # <<>> /\ cpu # "tick" /\ Then(<<>>) /\ again' = again
      /\ hand' = hand /\ held' = held /\ locked' = locked /\ tickAgain' = tickAgain
      /\ Head(pass).kind \in {"count", "rearm", "exhaust"}
  BY DEF DoSetStep, Doing, PassUnchanged, worldVars
<1>2. PICK q \in Steps : q = Head(pass).step /\ Head(pass) \in Listed(pass)
  <2>1. PassInv
    BY DEF RailsInv
  <2>2. Head(pass).step \in Steps
    BY <1>1, <2>1, HeadIsDue DEF DoSetStep, Stepped
  <2>3. PICK p \in Seq(Due) : p = pass /\ p # <<>>
    BY <1>1, <2>1 DEF PassInv
  <2>4. Head(p) = p[1] /\ 1 \in 1..Len(p)
    BY <2>3, TailOf
  <2>5. Head(p) \in Listed(p)
    BY <2>4 DEF Listed
  <2> QED
    BY <2>2, <2>3, <2>5
<1>3. PICK ops \in Seq(Ops) : ops = <<>> /\ Follows(ops)
  BY NoneFollows
<1>4. pass' = ops \o Tail(pass)
  BY <1>1, <1>3 DEF Then
<1>5. Head(pass).kind \notin Free /\ Concerns(Head(pass), Owning[q])
  BY <1>1, <1>2, Placing DEF Free, Concerns
<1>6. Advances(Owning[q])' = {}
  BY <1>1, <1>3, <1>4, <1>5, Placing, NoAdvance
<1>7. ASSUME refused' = 0
      PROVE  /\ refused = 0 /\ rail' = rail
             /\ \A t \in Steps : t # q => row'[t] = row[t]
             /\ row'[q].st = IF Head(pass).kind = "exhaust" THEN "stalled" ELSE "pending"
  <2>1. CASE Doing("count")
    <3>1. Head(pass).kind = "count" /\ refused \in Nat /\ refused + 1 # 0 /\ DOMAIN row = Steps
      BY <2>1 DEF Doing, RailsInv, RowsInv
    <3>2. /\ row' = [row EXCEPT ![q] = [st |-> "pending", ses |-> FALSE, tries |-> Head(pass).n]]
          /\ rail' = rail /\ refused' = refused
      BY <1>2, <1>7, <2>1, <3>1 DEF DoSetStep, Doing
    <3> QED
      BY <1>7, <3>1, <3>2
  <2>2. CASE Doing("rearm")
    <3>1. Head(pass).kind = "rearm" /\ SetStep(q, "pending", FALSE, {})
      BY <1>2, <2>2 DEF DoSetStep, Doing
    <3> QED
      BY <1>7, <3>1, SetStepActs DEF RailsInv
  <2>3. CASE Doing("exhaust")
    <3>1. Head(pass).kind = "exhaust" /\ SetStep(q, "stalled", FALSE, {0})
      BY <1>2, <2>3 DEF DoSetStep, Doing
    <3> QED
      BY <1>7, <3>1, SetStepActs DEF RailsInv
  <2> QED
    BY <2>1, <2>2, <2>3 DEF DoSetStep
<1>8. ASSUME refused' = 0, Waiting(q)'
      PROVE  Excused(q)'
  <2>1. Head(pass).kind = "exhaust" /\ rail[Owning[q]].st = "running" /\ refused = 0
    BY <1>6, <1>7, <1>8 DEF Waiting
  <2>2. Coming \/ Stops(Owning[q])
    BY <1>2, <2>1 DEF StallsInv, ExhaustInv
  <2>3. CASE Coming
    <3>1. Coming'
      BY <1>1, <2>3 DEF Coming, Ticks
    <3> QED
      BY <3>1 DEF Excused
  <2>4. CASE Stops(Owning[q])
    <3>1. /\ Listed(pass) = {Head(pass)} \cup Listed(Tail(pass))
          /\ Listed(pass') = Listed(ops) \cup Listed(Tail(pass))
      BY <1>1, <1>4, PassSplits DEF RailsInv
    <3>2. ~Stop(Head(pass), Owning[q])
      BY <2>1 DEF Stop
    <3>3. Stops(Owning[q])'
      BY <2>4, <3>1, <3>2 DEF Stops
    <3> QED
      BY <3>3 DEF Excused
  <2> QED
    BY <2>2, <2>3, <2>4
<1>9. refused' = 0 => ~Finished(row'[q].st)
  BY <1>7 DEF Finished
<1>10. Head(pass).kind \in Stepped
  BY <1>1 DEF Stepped
<1> QED
  BY <1>1, <1>2, <1>3, <1>4, <1>7, <1>8, <1>9, <1>10, StepWritten

\* A rail is paused by a stall, which no advance follows, or sent back by a
\* loop, which has asked for another pass.
LEMMA DoSetRailStalls ==
    ASSUME RailsInv, StallsInv, DoSetRail
    PROVE  StallsInv'
<1>1. /\ Doing("setRail") /\ pass # <<>> /\ cpu # "tick" /\ Then(<<>>) /\ again' = again
      /\ hand' = hand /\ held' = held /\ locked' = locked /\ tickAgain' = tickAgain
      /\ Head(pass).kind = "setRail" /\ PassInv
  BY DEF DoSetRail, Doing, PassUnchanged, worldVars, RailsInv
<1>2. PICK r \in RailSet : r = Head(pass).rail
  BY <1>1, HeadIsDue DEF Railed
<1>3. PICK ops \in Seq(Ops) : ops = <<>> /\ Follows(ops)
  BY NoneFollows
<1>4. pass' = ops \o Tail(pass)
  BY <1>1, <1>3 DEF Then
<1>5. Advances(r)' = {}
  BY <1>1, <1>2, <1>3, <1>4, NoAdvance DEF Free, Concerns
<1>6. /\ Head(pass) \in Listed(pass) /\ Head(pass) \in Due
  BY <1>1, <1>4, PassSplits
<1>7. Head(pass).st \in {"running", "paused"}
  BY <1>1, <1>6 DEF Due, Sound, RailAction, Railed
<1>8. refused' = 0 =>
        /\ refused = 0 /\ row' = row /\ rail'[r].st = Head(pass).st
        /\ \A o \in RailSet : o # r => rail'[o] = rail[o]
  BY <1>2, SetRailActs DEF DoSetRail, RailsInv
<1>9. ASSUME refused' = 0, NEW s \in Steps, Owning[s] = r, Waiting(s)'
      PROVE  Excused(s)'
  <2>1. Head(pass).st = "running"
    BY <1>5, <1>8, <1>9 DEF Waiting
  <2>2. again
    BY <1>1, <1>6, <2>1 DEF StallsInv, LoopAgain
  <2> QED
    BY <1>1, <2>2 DEF Excused, Coming
<1>10. Head(pass).kind \notin Stepped
  BY <1>1 DEF Stepped
<1> QED
  BY <1>1, <1>2, <1>8, <1>9, <1>10, RailWritten

\* Rule 5 lets a rail that waited run on: it asks for a pass.
LEMMA DoUnpauseStalls ==
    ASSUME RailsInv, StallsInv, DoUnpause
    PROVE  StallsInv'
<1>1. /\ Doing("unpause") /\ pass # <<>> /\ cpu # "tick" /\ Then(<<>>) /\ (again => again')
      /\ hand' = hand /\ held' = held /\ locked' = locked /\ tickAgain' = tickAgain
      /\ Head(pass).kind = "unpause" /\ PassInv
  BY DEF DoUnpause, Doing, PassUnchanged, worldVars, RailsInv
<1>2. PICK r \in RailSet : r = Head(pass).rail
  BY <1>1, HeadIsDue DEF Railed
<1>3. PICK ops \in Seq(Ops) : ops = <<>> /\ Follows(ops)
  BY NoneFollows
<1>4. pass' = ops \o Tail(pass)
  BY <1>1, <1>3 DEF Then
<1>5. CASE rail[r].st = "paused"
  <2>1. \A s \in Steps : Excused(s)'
    BY <1>2, <1>5, ComingExcuses DEF DoUnpause, Coming
  <2> QED
    BY <1>1, <1>3, <1>4, <2>1, PassStalls
<1>6. CASE rail[r].st # "paused"
  <2>1. rail' = rail /\ row' = row /\ refused' = refused
    BY <1>2, <1>6 DEF DoUnpause, runVars
  <2>2. ASSUME refused' = 0, NEW s \in Steps, Waiting(s)'
        PROVE  Excused(s)'
    <3>1. /\ ~Stop(Head(pass), Owning[s]) /\ Head(pass).kind # "advance"
          /\ Head(pass).kind \notin Stepped
      BY <1>1 DEF Stop, Stepped
    <3>2. \A t \in Steps : ~Finished(row[t].st) => ~Finished(row'[t].st)
      BY <2>1
    <3> QED
      BY <1>1, <1>3, <1>4, <2>1, <2>2, <3>1, <3>2, StillExcused
  <2> QED
    BY <1>1, <1>3, <1>4, <2>2, PassStalls
<1> QED
  BY <1>5, <1>6

\* An advance takes its rail past the steps that were behind it.
LEMMA DoAdvanceStalls ==
    ASSUME RailsInv, StallsInv, DoAdvance
    PROVE  StallsInv'
<1>1. /\ Doing("advance") /\ pass # <<>> /\ cpu # "tick" /\ Then(<<>>) /\ again' = again
      /\ hand' = hand /\ held' = held /\ locked' = locked /\ tickAgain' = tickAgain
      /\ Head(pass).kind = "advance" /\ PassInv
  BY DEF DoAdvance, Doing, worldVars, RailsInv
<1>2. PICK r \in RailSet : r = Head(pass).rail
  BY <1>1, HeadIsDue DEF Railed
<1>3. PICK ops \in Seq(Ops) : ops = <<>> /\ pass' = ops \o Tail(pass)
  BY <1>1, NoneFollows DEF Then
<1>4. /\ Listed(pass) = {Head(pass)} \cup Listed(Tail(pass))
      /\ Listed(pass') = Listed(ops) \cup Listed(Tail(pass))
  BY <1>1, <1>3, PassSplits
<1>5. Listed(ops) = {}
  <2>1. Len(ops) = 0
    BY <1>3
  <2>2. 1..Len(ops) = {}
    BY <2>1
  <2> QED
    BY <2>2 DEF Listed
<1>6. Listed(pass') \subseteq Listed(pass) /\ Listed(pass) = {Head(pass)} \cup Listed(pass')
  BY <1>4, <1>5
<1>7. refused' = 0 =>
        /\ refused = 0 /\ row' = row /\ rail'[r].at = Head(pass).n
        /\ \A o \in RailSet : o # r => rail'[o] = rail[o]
  BY <1>2, SetRailActs DEF DoAdvance, RailsInv
<1>8. ASSUME refused' = 0, NEW s \in Steps, Owning[s] = r, Waiting(s)'
      PROVE  Excused(s)'
  <2>1. Head(pass) \in Advances(r)
    BY <1>1, <1>2, <1>6 DEF Advances
  <2>2. Waiting(s)
    BY <1>1, <1>7, <1>8, <2>1 DEF Waiting
  <2>3. Excused(s) /\ refused = 0
    BY <1>7, <1>8, <2>2 DEF StallsInv, StallInv
  <2>4. CASE held \/ Coming
    BY <1>1, <2>4 DEF Excused, Coming, Ticks
  <2>5. CASE About(s)
    <3>1. About(s)'
      BY <1>1, <1>6, <2>5 DEF About, Stepped
    <3> QED
      BY <3>1 DEF Excused
  <2>6. CASE Stops(Owning[s])
    <3>1. Stops(Owning[s])'
      BY <1>1, <1>6, <2>6 DEF Stops, Stop
    <3> QED
      BY <3>1 DEF Excused
  <2>7. CASE Behind(s)
    <3>1. Advances(Owning[s])' \subseteq Advances(Owning[s])
      BY <1>6 DEF Advances
    <3>2. StageOf[s] < rail'[Owning[s]].at
      BY <1>7, <1>8, <2>1, <2>7 DEF Behind
    <3>3. Behind(s)'
      BY <2>7, <3>1, <3>2 DEF Behind
    <3> QED
      BY <3>3 DEF Excused
  <2>8. CASE Preceded(s)
    <3>1. PICK q \in Steps : Earlier(q, s) /\ ~Finished(row[q].st) /\ ~Marked(q)
      BY <2>8 DEF Preceded
    <3>2. ~Marked(q)' /\ row'[q] = row[q]
      BY <1>6, <1>7, <1>8, <3>1 DEF Marked
    <3>3. Preceded(s)'
      BY <3>1, <3>2 DEF Preceded
    <3> QED
      BY <3>3 DEF Excused
  <2> QED
    BY <2>3, <2>4, <2>5, <2>6, <2>7, <2>8 DEF Excused
<1>9. Head(pass).kind \notin Stepped
  BY <1>1 DEF Stepped
<1> QED
  BY <1>1, <1>2, <1>7, <1>8, <1>9, RailWritten

\* A completed rail runs no longer.
LEMMA DoCompleteStalls ==
    ASSUME RailsInv, StallsInv, DoComplete
    PROVE  StallsInv'
<1>1. /\ Doing("complete") /\ pass # <<>> /\ cpu # "tick" /\ Then(<<>>) /\ (again => again')
      /\ hand' = hand /\ held' = held /\ locked' = locked /\ tickAgain' = tickAgain
      /\ Head(pass).kind = "complete" /\ PassInv
  BY DEF DoComplete, Doing, PassUnchanged, worldVars, RailsInv
<1>2. PICK r \in RailSet : r = Head(pass).rail
  BY <1>1, HeadIsDue DEF Railed
<1>3. PICK ops \in Seq(Ops) : ops = <<>> /\ Follows(ops)
  BY NoneFollows
<1>4. pass' = ops \o Tail(pass)
  BY <1>1, <1>3 DEF Then
<1>5. Advances(r)' = {}
  BY <1>1, <1>2, <1>3, <1>4, NoAdvance DEF Free, Concerns
<1>6. refused' = 0 =>
        /\ refused = 0 /\ row' = row /\ rail'[r].st = "idle"
        /\ \A o \in RailSet : o # r => rail'[o] = rail[o]
  BY <1>2, SetRailActs DEF DoComplete, RailsInv
<1>7. refused' = 0 => \A s \in Steps : Owning[s] = r => ~Waiting(s)'
  BY <1>5, <1>6 DEF Waiting
<1>8. Head(pass).kind \notin Stepped
  BY <1>1 DEF Stepped
<1> QED
  BY <1>1, <1>2, <1>6, <1>7, <1>8, RailWritten

\* An armed rail is read again by a pass that is asked for.
LEMMA DoArmStalls ==
    ASSUME RailsInv, StallsInv, DoArm
    PROVE  StallsInv'
<1>1. /\ pass # <<>> /\ Then(<<>>) /\ again' = TRUE /\ hand' = hand
  BY DEF DoArm, Doing, PassUnchanged
<1>2. PICK ops \in Seq(Ops) : ops = <<>> /\ Follows(ops)
  BY NoneFollows
<1>3. pass' = ops \o Tail(pass)
  BY <1>1, <1>2 DEF Then
<1>4. \A s \in Steps : Excused(s)'
  BY <1>1, ComingExcuses DEF Coming
<1> QED
  BY <1>1, <1>2, <1>3, <1>4, PassStalls

\* The rail a start-rail step names runs from its first stage.
LEMMA DoStartRailStalls ==
    ASSUME RailsInv, StallsInv, DoStartRail
    PROVE  StallsInv'
<1>1. /\ Doing("startRail") /\ pass # <<>> /\ cpu # "tick" /\ Then(<<>>) /\ again' = again
      /\ hand' = hand /\ held' = held /\ locked' = locked /\ Head(pass).kind = "startRail"
  BY DEF DoStartRail, Doing, worldVars
<1>2. PICK ops \in Seq(Ops) : ops = <<>> /\ Follows(ops)
  BY NoneFollows
<1>3. pass' = ops \o Tail(pass)
  BY <1>1, <1>2 DEF Then
<1>4. CASE tickAgain' = TRUE
  <2>1. \A s \in Steps : Excused(s)'
    BY <1>4, ComingExcuses DEF Coming
  <2> QED
    BY <1>1, <1>2, <1>3, <2>1, PassStalls
<1>5. CASE UNCHANGED <<runVars, tickAgain>>
  <2>1. rail' = rail /\ row' = row /\ refused' = refused /\ tickAgain' = tickAgain
    BY <1>5 DEF runVars
  <2>2. ASSUME refused' = 0, NEW s \in Steps, Waiting(s)'
        PROVE  Excused(s)'
    <3>1. /\ ~Stop(Head(pass), Owning[s]) /\ Head(pass).kind # "advance"
          /\ Head(pass).kind \notin Stepped
      BY <1>1 DEF Stop, Stepped
    <3>2. \A t \in Steps : ~Finished(row[t].st) => ~Finished(row'[t].st)
      BY <2>1
    <3> QED
      BY <1>1, <1>2, <1>3, <2>1, <2>2, <3>1, <3>2, StillExcused
  <2> QED
    BY <1>1, <1>2, <1>3, <2>2, PassStalls
<1> QED
  BY <1>4, <1>5 DEF DoStartRail

\* An action that leaves one write about its own step.
LEMMA OwnFollows ==
    ASSUME NEW q \in Steps, q = Head(pass).step, Head(pass).kind \notin Free,
           NEW k \in {"create", "bind"}, Then(<<StepOp(k, q)>>)
    PROVE  \E ops \in Seq(Ops) : /\ pass' = ops \o Tail(pass) /\ Follows(ops)
                                 /\ StepOp(k, q) \in Listed(ops)
<1>1. PICK a \in Ops : /\ a = StepOp(k, q) /\ a.kind = k /\ a.step = q /\ a.rail = "none"
  BY StepOps DEF Stepped
<1>2. \A r \in RailSet : Concerns(a, r) => Concerns(Head(pass), r)
  BY <1>1, SameConcern
<1>3. PICK ops \in Seq(Ops) : ops = <<a>> /\ Follows(ops) /\ Listed(ops) = {a}
  BY <1>1, <1>2, OneFollows
<1> QED
  BY <1>1, <1>3 DEF Then

\* What a launch awaits the host for is still about its step.
LEMMA AwaitedStalls ==
    ASSUME RailsInv, StallsInv, NEW j \in Stepped \ Free, Doing(j), NEW q \in Steps,
           q = Head(pass).step, NEW k \in {"create", "bind"}, Then(<<StepOp(k, q)>>),
           UNCHANGED runVars, hand' = hand, held' = held, locked' = locked,
           tickAgain => tickAgain', again => again'
    PROVE  StallsInv'
<1>1. pass # <<>> /\ cpu # "tick" /\ Head(pass).kind = j
  BY DEF Doing
<1>2. PICK ops \in Seq(Ops) : /\ pass' = ops \o Tail(pass) /\ Follows(ops)
                              /\ StepOp(k, q) \in Listed(ops)
  BY <1>1, OwnFollows
<1>3. StepOp(k, q) \in Listed(pass')
  BY <1>1, <1>2, PassSplits DEF RailsInv
<1>4. StepOp(k, q).kind \in Stepped /\ StepOp(k, q).step = q
  BY StepOps DEF Stepped
<1>5. Excused(q)'
  BY <1>3, <1>4 DEF Excused, About
<1>6. rail' = rail /\ row' = row /\ refused' = refused
  BY DEF runVars
<1> QED
  BY <1>1, <1>2, <1>5, <1>6, StepWritten

\* A write that leaves nothing behind and does not stall, or stalls a step
\* whose card is being rewritten.
LEMMA WrittenStalls ==
    ASSUME RailsInv, StallsInv, NEW j \in Stepped, Doing(j), NEW q \in Steps,
           q = Head(pass).step, Then(<<>>), hand' = hand, held' = held, locked' = locked,
           NEW x \in {"running", "stalled"}, NEW named, NEW count, SetStep(q, x, named, count),
           x = "stalled" => q \in locked, tickAgain => tickAgain', again => again'
    PROVE  StallsInv'
<1>1. pass # <<>> /\ cpu # "tick" /\ Head(pass).kind = j
  BY DEF Doing
<1>2. PICK ops \in Seq(Ops) : ops = <<>> /\ Follows(ops)
  BY NoneFollows
<1>3. pass' = ops \o Tail(pass)
  BY <1>2 DEF Then
<1>4. refused' = 0 =>
        /\ refused = 0 /\ rail' = rail /\ row'[q].st = x
        /\ \A t \in Steps : t # q => row'[t] = row[t]
  BY SetStepActs DEF RailsInv
<1>5. refused' = 0 => ~Finished(row'[q].st) /\ ~Waiting(q)'
  BY <1>4 DEF Finished, Waiting
<1> QED
  BY <1>1, <1>2, <1>3, <1>4, <1>5, StepWritten

\* A launch held back writes nothing, or leaves an action about its step.
LEMMA DoLaunchStalls ==
    ASSUME RailsInv, StallsInv, DoLaunch
    PROVE  StallsInv'
<1>1. /\ Doing("launch") /\ pass # <<>> /\ cpu # "tick" /\ Head(pass).kind = "launch"
      /\ hand' = hand /\ held' = held /\ locked' = locked /\ tickAgain' = tickAgain
      /\ "launch" \in Stepped \ Free
  BY DEF DoLaunch, Doing, PassUnchanged, worldVars, Stepped, Free
<1>2. PICK q \in Steps : q = Head(pass).step
  BY <1>1, HeadIsDue DEF Stepped, RailsInv
<1>3. CASE held /\ Then(<<>>) /\ RunsOn /\ UNCHANGED <<runVars, again>>
  <2>1. PICK ops \in Seq(Ops) : ops = <<>> /\ Follows(ops)
    BY NoneFollows
  <2>2. pass' = ops \o Tail(pass)
    BY <1>3, <2>1 DEF Then
  <2>3. \A s \in Steps : Excused(s)'
    BY <1>1, <1>3 DEF Excused
  <2> QED
    BY <1>1, <1>3, <2>1, <2>2, <2>3, PassStalls
<1>4. CASE ~held /\ Kind[q] = "gavin" /\ LaunchGavin(q)
  <2>1. CASE Stall(q, {}) /\ UNCHANGED again
    BY <1>1, <1>2, <2>1, StallStalls
  <2>2. CASE /\ again' = TRUE
             /\ Then(IF rail[Target[q]].st = "idle"
                     THEN <<RailOp("startRail", Target[q], 0)>> ELSE <<>>)
    <3>1. PICK ops \in Seq(Ops) : pass' = ops \o Tail(pass) /\ Follows(ops)
      <4>1. CASE rail[Target[q]].st = "idle"
        <5>1. Target[q] \in RailSet
          BY <1>4, RailsAssumption
        <5>2. PICK a \in Ops : a = RailOp("startRail", Target[q], 0) /\ a.kind = "startRail"
          BY <5>1, RailOps DEF RailOp, Railed
        <5>3. PICK ops \in Seq(Ops) : ops = <<a>> /\ Follows(ops)
          BY <5>2, OneFollows DEF Free
        <5> QED
          BY <2>2, <4>1, <5>2, <5>3 DEF Then
      <4>2. CASE rail[Target[q]].st # "idle"
        <5>1. PICK ops \in Seq(Ops) : ops = <<>> /\ Follows(ops)
          BY NoneFollows
        <5> QED
          BY <2>2, <4>2, <5>1 DEF Then
      <4> QED
        BY <4>1, <4>2
    <3>2. \A s \in Steps : Excused(s)'
      BY <2>2, ComingExcuses DEF Coming
    <3> QED
      BY <1>1, <2>2, <3>1, <3>2, PassStalls
  <2> QED
    BY <1>4, <2>1, <2>2 DEF LaunchGavin
<1>5. CASE ~held /\ Kind[q] = "card" /\ LaunchCard(q) /\ UNCHANGED again
  <2>1. CASE q \in locked
    <3>1. SetStep(q, "stalled", FALSE, {}) /\ Then(<<>>)
      BY <1>5, <2>1 DEF LaunchCard
    <3> QED
      BY <1>1, <1>2, <1>5, <2>1, <3>1, WrittenStalls
  <2>2. CASE q \notin locked
    <3>1. Then(<<StepOp("create", q)>>) /\ UNCHANGED runVars
      BY <1>5, <2>2 DEF LaunchCard
    <3> QED
      BY <1>1, <1>2, <1>5, <3>1, AwaitedStalls
  <2> QED
    BY <2>1, <2>2
<1>6. CASE ~held /\ Kind[q] \notin {"gavin", "card"} /\ LaunchTool(q) /\ UNCHANGED again
  <2>1. CASE /\ SetStep(q, "running", FALSE, IF Kind[q] = "pr" THEN {} ELSE {0})
             /\ Then(<<>>)
    <3>1. PICK count : count = IF Kind[q] = "pr" THEN {} ELSE {0}
      OBVIOUS
    <3>2. SetStep(q, "running", FALSE, count)
      BY <2>1, <3>1
    <3> QED
      BY <1>1, <1>2, <1>6, <2>1, <3>2, WrittenStalls
  <2>2. CASE Then(<<StepOp("create", q)>>) /\ UNCHANGED runVars
    BY <1>1, <1>2, <1>6, <2>2, AwaitedStalls
  <2> QED
    BY <1>6, <2>1, <2>2 DEF LaunchTool
<1> QED
  BY <1>2, <1>3, <1>4, <1>5, <1>6 DEF DoLaunch

\* A session's creation writes no row and leaves the bind of its step.
LEMMA DoCreateStalls ==
    ASSUME RailsInv, StallsInv, DoCreate
    PROVE  StallsInv'
<1>1. /\ Doing("create") /\ hand' = hand /\ held' = held /\ locked' = locked
      /\ tickAgain' = tickAgain /\ again' = again /\ "create" \in Stepped \ Free
  BY DEF DoCreate, Stepped, Free
<1>2. PICK q \in Steps : q = Head(pass).step
  BY <1>1, HeadIsDue DEF Stepped, RailsInv
<1>3. CASE Then(<<StepOp("bind", q)>>) /\ UNCHANGED runVars
  BY <1>1, <1>2, <1>3, AwaitedStalls
<1>4. CASE Stall(q, {})
  BY <1>1, <1>2, <1>4, StallStalls
<1> QED
  BY <1>2, <1>3, <1>4 DEF DoCreate

\* A bound row says running.
LEMMA DoBindStalls ==
    ASSUME RailsInv, StallsInv, DoBind
    PROVE  StallsInv'
<1>1. /\ Doing("bind") /\ hand' = hand /\ held' = held /\ locked' = locked /\ Then(<<>>)
      /\ tickAgain' = tickAgain /\ again' = again /\ "bind" \in Stepped
  BY DEF DoBind, PassUnchanged, worldVars, Stepped
<1>2. PICK q \in Steps : q = Head(pass).step
  BY <1>1, HeadIsDue DEF Stepped, RailsInv
<1>3. PICK count : count = IF Kind[q] = "until" THEN {} ELSE {0}
  OBVIOUS
<1>4. SetStep(q, "running", TRUE, count)
  BY <1>2, <1>3 DEF DoBind
<1> QED
  BY <1>1, <1>2, <1>4, WrittenStalls

\* A stalled step has a rule: it is done, launched or stalled again.
LEMMA StalledRule ==
    ASSUME NEW s \in Steps, row[s].st = "stalled"
    PROVE  Rule(s) \in {"markDone", "stall", "launch"}
BY DEF Rule, Finished

\* A pass says something of every stalled step of a running rail, unless the
\* rail has nothing left or the step is not yet, or no more, its rail's.
LEMMA RunTickStalls ==
    ASSUME RailsInv, StallsInv, RunTick
    PROVE  StallsInv'
<1>1. /\ pass' = NextActions /\ rail' = rail /\ row' = row /\ refused' = refused
      /\ hand' = hand /\ locked' = locked /\ held' = held /\ RowsInv
  BY DEF RunTick, runVars, worldVars, RailsInv
<1>2. Ordered(pass') /\ \A a \in Listed(pass') : \E r \in RailSet :
        a \in Listed(Decided(r)) /\ Belongs(a, r)
  BY <1>1, NextLists
<1>3. \A a \in Listed(pass') : a.kind \notin {"exhaust", "setRail"}
  BY <1>2 DEF Belongs, Rules
<1>4. ExhaustFirst(pass') /\ LoopAgain' /\ ExhaustInv' /\ HandTail'
  <2>1. ExhaustFirst(pass')
    BY <1>3 DEF ExhaustFirst, Listed
  <2>2. LoopAgain' /\ ExhaustInv'
    BY <1>3 DEF LoopAgain, ExhaustInv
  <2>3. HandTail'
    BY <1>1 DEF StallsInv, HandTail
  <2> QED
    BY <2>1, <2>2, <2>3
<1>5. ASSUME NEW s \in Steps, Waiting(s)'
      PROVE  Excused(s)'
  <2>1. PICK r \in RailSet : r = Owning[s] /\ s \in StepsOf[r]
    BY Placing
  <2>2. \A a \in Listed(pass') : a.kind = "advance" /\ a.rail = r =>
           a \in Listed(Decided(r))
    BY <1>2 DEF Belongs, Rules
  <2>3. row[s].st = "stalled" /\ (rail[r].st = "running" \/ Advances(r)' # {})
    BY <1>1, <1>5, <2>1 DEF Waiting
  <2>4. CASE rail[r].st # "running"
    <3>1. PICK a \in Listed(pass') : a.kind = "advance" /\ a.rail = r
      BY <2>3, <2>4 DEF Advances
    <3>2. a \in Listed(ReconcileRail(r))
      BY <2>2, <2>4, <3>1 DEF Decided
    <3>3. \/ a = RailOp("arm", r, FirstUnfinished(r))
          \/ a.kind = ReconcileRule(a.step) /\ a.step \in Steps
      BY <1>1, <3>2, ReconcileLists DEF Steps
    <3>4. a.kind # "advance"
      BY <3>3, ReconcileFacts DEF RailOp, Op
    <3> QED
      BY <3>1, <3>4
  <2>5. CASE rail[r].st = "running"
    <3>0. Stages[r] \in Seq(Seq(Steps)) /\ rail[r].at \in Nat /\ StageOf[s] \in Nat
      BY <1>1, Placing, RailsAssumption DEF RowsInv
    <3>1. Decided(r) = WalkRail(r) /\ Listed(WalkRail(r)) \subseteq Listed(pass')
      BY <1>1, <2>5, NextLists DEF Decided
    <3>2. CASE rail[r].at \notin 1..Len(Stages[r])
      <4>1. rail[r].at \notin DOMAIN Stages[r]
        BY <3>0, <3>2
      <4>2. PICK b : b = RailOp("complete", r, 0)
        OBVIOUS
      <4>3. WalkRail(r) = <<b>> /\ Len(<<b>>) = 1 /\ <<b>>[1] = b /\ 1 \in 1..1
        BY <4>1, <4>2 DEF WalkRail
      <4>4. b \in Listed(pass')
        BY <3>1, <4>3 DEF Listed
      <4>5. Stop(b, r)
        BY <4>2 DEF Stop, RailOp, Op
      <4> QED
        BY <2>1, <4>4, <4>5 DEF Excused, Stops
    <3>3. CASE rail[r].at \in 1..Len(Stages[r]) /\ StageOf[s] < rail[r].at
      <4>1. ASSUME NEW a \in Listed(pass'), a.kind = "advance", a.rail = r
            PROVE  StageOf[s] < a.n
        <5>1. a \in Listed(WalkRail(r))
          BY <2>2, <3>1, <4>1
        <5>2. PICK j \in 1..Len(Stages[r]) :
                Walked(r, j) /\ (a \in Listed(WalkStage(r, j)) \/ a = LeaveOp(r, j))
          BY <1>1, <3>3, <5>1, WalkRailLists
        <5>3. a \notin Listed(WalkStage(r, j))
          <6>1. \A b \in Listed(WalkStage(r, j)) : b.rail = "none"
            BY <1>1, WalkStageLists
          <6> QED
            BY <4>1, <6>1, OncesAssumption
        <5>4. a = RailOp("advance", r, j + 1)
          BY <4>1, <5>2, <5>3 DEF LeaveOp, RailOp, Op
        <5>5. a.n = j + 1 /\ j >= rail[r].at
          BY <5>2, <5>4 DEF RailOp, Op, Walked
        <5> QED
          BY <3>0, <3>3, <5>5
      <4>2. Behind(s)'
        BY <1>1, <2>1, <3>3, <4>1 DEF Behind, Advances
      <4> QED
        BY <4>2 DEF Excused
    <3>4. CASE rail[r].at \in 1..Len(Stages[r]) /\ rail[r].at <= StageOf[s]
      <4>1. Rule(s) \in {"markDone", "stall", "launch"}
        BY <2>3, StalledRule
      <4>2. CASE \E a \in Listed(NextActions) : a.kind = Rule(s) /\ a.step = s
        BY <1>1, <4>1, <4>2 DEF Excused, About, Stepped
      <4>3. CASE \E q \in Steps : /\ Earlier(q, s) /\ ~Finished(row[q].st)
                                  /\ \A a \in Listed(NextActions) :
                                       a.kind = "markDone" => a.step # q
        <5>1. Preceded(s)'
          BY <1>1, <4>3 DEF Preceded, Marked
        <5> QED
          BY <5>1 DEF Excused
      <4> QED
        BY <1>1, <2>1, <2>5, <3>4, <4>1, <4>2, <4>3, WalkSays
    <3> QED
      BY <3>0, <3>2, <3>3, <3>4
  <2> QED
    BY <2>4, <2>5
<1> QED
  BY <1>2, <1>4, <1>5 DEF StallsInv, StallInv

\* The end of a pass that another one follows.
LEMMA EndPassStalls ==
    ASSUME RailsInv, StallsInv, EndPass
    PROVE  StallsInv'
<1>1. /\ pass' = pass /\ rail' = rail /\ row' = row /\ refused' = refused /\ cpu # "tick"
      /\ hand' = hand /\ locked' = locked /\ held' = held /\ pass = <<>>
      /\ cpu' = IF tickAgain \/ again THEN "tick" ELSE "free"
  BY DEF EndPass, runVars, worldVars
<1>2. Listed(pass) = {}
  <2>1. Len(<<>>) = 0 /\ 1..0 = {}
    OBVIOUS
  <2> QED
    BY <1>1, <2>1 DEF Listed
<1>3. Coming => Coming'
  BY <1>1 DEF Coming, Ticks
<1>4. Ordered(pass') /\ ExhaustFirst(pass') /\ HandTail'
  BY <1>1 DEF StallsInv, HandTail
<1>5. LoopAgain' /\ ExhaustInv'
  BY <1>1, <1>2 DEF LoopAgain, ExhaustInv
<1>6. ASSUME refused' = 0, NEW s \in Steps, Waiting(s)'
      PROVE  Excused(s)'
  <2>1. Waiting(s) /\ refused = 0
    BY <1>1, <1>6 DEF Waiting, Advances
  <2>2. Excused(s)
    BY <2>1 DEF StallsInv, StallInv
  <2>3. /\ About(s) <=> About(s)'
        /\ Stops(Owning[s]) <=> Stops(Owning[s])'
        /\ Behind(s) <=> Behind(s)'
        /\ Preceded(s) <=> Preceded(s)'
    BY <1>1 DEF About, Stops, Behind, Advances, Preceded, Marked
  <2> QED
    BY <1>1, <1>3, <2>2, <2>3 DEF Excused
<1> QED
  BY <1>4, <1>5, <1>6 DEF StallsInv, StallInv

\* What happens beside a pass: another pass is to come, or rails are stopped
\* and steps taken back.
LEMMA BesideStalls ==
    ASSUME RailsInv, StallsInv, pass' = pass, HandTail', again => again', Coming => Coming',
           refused' = 0 =>
              \/ Coming'
              \/ /\ refused = 0 /\ held' = held /\ locked' = locked
                 /\ \A r \in RailSet : rail'[r] = rail[r] \/ rail'[r].st # "running"
                 /\ \A s \in Steps : \/ row'[s] = row[s]
                                     \/ row'[s].st # "stalled" /\ ~Finished(row'[s].st)
    PROVE  StallsInv'
<1>1. Ordered(pass') /\ ExhaustFirst(pass') /\ LoopAgain'
  BY DEF StallsInv, LoopAgain
<1>2. CASE refused' = 0 => Coming'
  BY <1>1, <1>2 DEF StallsInv, ExhaustInv, StallInv, Excused
<1>3. CASE /\ refused' = 0 /\ refused = 0 /\ held' = held /\ locked' = locked
           /\ \A r \in RailSet : rail'[r] = rail[r] \/ rail'[r].st # "running"
           /\ \A s \in Steps : \/ row'[s] = row[s]
                               \/ row'[s].st # "stalled" /\ ~Finished(row'[s].st)
  <2>1. \A r : Stops(r)' <=> Stops(r)
    BY DEF Stops
  <2>2. ExhaustInv'
    <3>1. ASSUME NEW a \in Listed(pass), a.kind = "exhaust",
                 rail'[Owning[a.step]].st = "running"
          PROVE  Coming' \/ Stops(Owning[a.step])'
      <4>1. a \in Due
        <5>1. PICK p \in Seq(Due) : p = pass
          BY DEF RailsInv, PassInv
        <5> QED
          BY <5>1 DEF Listed
      <4>2. Owning[a.step] \in RailSet
        BY <3>1, <4>1, Placing DEF Due, Sound, StepAction, Stepped
      <4>3. rail[Owning[a.step]].st = "running"
        BY <1>3, <3>1, <4>2
      <4> QED
        BY <1>3, <2>1, <3>1, <4>3 DEF StallsInv, ExhaustInv
    <3> QED
      BY <3>1 DEF ExhaustInv
  <2>3. ASSUME NEW s \in Steps, Waiting(s)'
        PROVE  Excused(s)'
    <3>1. PICK r \in RailSet : r = Owning[s]
      BY Placing
    <3>2. Advances(r)' = Advances(r)
      BY DEF Advances
    <3>3. row'[s] = row[s]
      BY <1>3, <2>3 DEF Waiting
    <3>4. Waiting(s)
      BY <1>3, <2>3, <3>1, <3>2, <3>3 DEF Waiting
    <3>5. Excused(s)
      BY <1>3, <3>4 DEF StallsInv, StallInv
    <3>6. CASE held \/ Coming
      BY <1>3, <3>6 DEF Excused
    <3>7. CASE About(s) \/ Stops(Owning[s])
      BY <2>1, <3>7 DEF Excused, About
    <3>8. CASE Behind(s)
      <4>1. rail'[r] = rail[r] \/ Advances(r)' # {}
        BY <1>3, <2>3, <3>1 DEF Waiting
      <4>2. Behind(s)'
        BY <3>1, <3>2, <3>8, <4>1 DEF Behind
      <4> QED
        BY <4>2 DEF Excused
    <3>9. CASE Preceded(s)
      <4>1. PICK q \in Steps : Earlier(q, s) /\ ~Finished(row[q].st) /\ ~Marked(q)
        BY <3>9 DEF Preceded
      <4>2. ~Marked(q)' /\ ~Finished(row'[q].st)
        BY <1>3, <4>1 DEF Marked
      <4>3. Preceded(s)'
        BY <4>1, <4>2 DEF Preceded
      <4> QED
        BY <4>3 DEF Excused
    <3> QED
      BY <3>5, <3>6, <3>7, <3>8, <3>9 DEF Excused
  <2> QED
    BY <1>1, <2>2, <2>3 DEF StallsInv, StallInv
<1> QED
  BY <1>2, <1>3

\* A tick brings a pass.
LEMMA TickComes ==
    ASSUME Tick
    PROVE  Coming' /\ pass' = pass /\ again' = again
<1>1. CASE ticking
  BY <1>1 DEF Tick, Coming
<1>2. CASE ~ticking
  BY <1>2 DEF Tick, Coming
<1> QED
  BY <1>1, <1>2

\* What a handler has left ends in the tick it owes, if it owes one.
LEMMA HandGoesOn ==
    ASSUME HandInv, HandTail, hand # <<>>, hand' = Tail(hand)
    PROVE  /\ HandTail'
           /\ Head(hand).kind # "tick" => (Ticks => Ticks')
           /\ Head(hand).kind = "unpause" => Ticks'
<1>1. PICK p \in Seq(Handed) : p = hand /\ p # <<>>
  BY DEF HandInv
<1>2. PICK t \in Seq(Handed) : t = Tail(p) /\ Len(t) = Len(p) - 1
  BY <1>1, TailOf
<1>3. /\ Len(p) \in Nat /\ Len(p) # 0 /\ Head(p) = p[1] /\ Len(t) \in Nat
      /\ \A i \in 1..Len(t) : i + 1 \in 1..Len(p) /\ t[i] = p[i + 1]
  BY <1>1, <1>2, TailOf
<1>4. \A i \in 1..Len(p) : i # 1 => i - 1 \in 1..Len(t) /\ t[i - 1] = p[i]
  BY <1>2, <1>3
<1>5. hand' = t
  BY <1>1, <1>2
<1>6. ASSUME NEW i \in 1..Len(t), t[i].kind = "unpause"
      PROVE  t[Len(t)].kind = "tick"
  <2>1. i + 1 \in 1..Len(p) /\ p[i + 1].kind = "unpause"
    BY <1>3, <1>6
  <2>2. p[Len(p)].kind = "tick"
    BY <1>1, <2>1 DEF HandTail
  <2>3. Len(t) \in 1..Len(t) /\ Len(t) + 1 = Len(p)
    BY <1>2, <1>3
  <2>4. t[Len(t)] = p[Len(p)]
    BY <1>3, <2>3
  <2> QED
    BY <2>2, <2>4
<1>7. ASSUME p[1].kind # "tick", NEW i \in 1..Len(p), p[i].kind = "tick"
      PROVE  \E j \in 1..Len(t) : t[j].kind = "tick"
  BY <1>4, <1>7
<1>8. ASSUME p[1].kind = "unpause"
      PROVE  \E i \in 1..Len(p) : p[i].kind = "tick"
  <2>1. 1 \in 1..Len(p) /\ Len(p) \in 1..Len(p)
    BY <1>3
  <2>2. p[Len(p)].kind = "tick"
    BY <1>1, <1>8, <2>1 DEF HandTail
  <2> QED
    BY <2>1, <2>2
<1>9. HandTail'
  BY <1>5, <1>6 DEF HandTail
<1>10. Head(hand).kind # "tick" => (Ticks => Ticks')
  BY <1>1, <1>3, <1>5, <1>7 DEF Ticks
<1>11. Head(hand).kind = "unpause" => Ticks'
  BY <1>1, <1>3, <1>5, <1>7, <1>8 DEF Ticks
<1> QED
  BY <1>9, <1>10, <1>11

\* A press carried out write by write; one that unpauses ends in a tick.
LEMMA HandStepStalls ==
    ASSUME RailsInv, StallsInv, HandStep
    PROVE  StallsInv'
<1>1. /\ hand' = Tail(hand) /\ hand # <<>> /\ cpu # "tick" /\ held' = held /\ locked' = locked
      /\ HandInv /\ HandTail /\ RowsInv
  BY DEF HandStep, Handling, worldVars, RailsInv, StallsInv
<1>2. /\ HandTail'
      /\ Head(hand).kind # "tick" => (Ticks => Ticks')
      /\ Head(hand).kind = "unpause" => Ticks'
  BY <1>1, HandGoesOn
<1>3. Head(hand) \in Handed
  <2>1. PICK p \in Seq(Handed) : p = hand /\ p # <<>>
    BY <1>1 DEF HandInv
  <2> QED
    BY <2>1, TailOf
<1>4. CASE Handling("tick") /\ UNCHANGED runVars /\ Tick
  <2>1. Coming' /\ pass' = pass /\ again' = again
    BY <1>4, TickComes
  <2> QED
    BY <1>2, <2>1, BesideStalls
<1>5. ASSUME Head(hand).kind # "tick", UNCHANGED passVars
      PROVE  pass' = pass /\ again' = again /\ (Coming => Coming')
  BY <1>1, <1>2, <1>5 DEF passVars, Coming
<1>6. CASE /\ Handling("reset") /\ SetStep(Head(hand).step, "pending", FALSE, {0})
           /\ UNCHANGED passVars
  <2>1. Head(hand).kind = "reset"
    BY <1>6 DEF Handling
  <2>2. PICK q \in Steps : q = Head(hand).step
    BY <1>3, <2>1 DEF Handed
  <2>3. refused' = 0 =>
          /\ refused = 0 /\ rail' = rail /\ row'[q].st = "pending"
          /\ \A t \in Steps : t # q => row'[t] = row[t]
    BY <1>1, <1>6, <2>2, SetStepActs
  <2>4. refused' = 0 => \A s \in Steps :
          row'[s] = row[s] \/ (row'[s].st # "stalled" /\ ~Finished(row'[s].st))
    BY <2>3 DEF Finished
  <2>5. pass' = pass /\ again' = again /\ (Coming => Coming')
    BY <1>5, <1>6, <2>1
  <2> QED
    BY <1>1, <1>2, <2>3, <2>4, <2>5, BesideStalls
<1>7. CASE /\ Handling("idle") /\ SetRail(Head(hand).rail, "idle", 0)
           /\ UNCHANGED passVars
  <2>1. Head(hand).kind = "idle"
    BY <1>7 DEF Handling
  <2>2. PICK r \in RailSet : r = Head(hand).rail
    BY <1>3, <2>1 DEF Handed
  <2>3. refused' = 0 =>
          /\ refused = 0 /\ row' = row /\ rail'[r].st = "idle"
          /\ \A o \in RailSet : o # r => rail'[o] = rail[o]
    BY <1>1, <1>7, <2>2, SetRailActs
  <2>4. refused' = 0 => \A o \in RailSet : rail'[o] = rail[o] \/ rail'[o].st # "running"
    BY <2>3
  <2>5. pass' = pass /\ again' = again /\ (Coming => Coming')
    BY <1>5, <1>7, <2>1
  <2> QED
    BY <1>1, <1>2, <2>3, <2>4, <2>5, BesideStalls
<1>8. CASE Handling("unpause") /\ UNCHANGED passVars
  <2>1. Head(hand).kind = "unpause"
    BY <1>8 DEF Handling
  <2>2. Coming'
    BY <1>2, <2>1 DEF Coming
  <2>3. pass' = pass /\ again' = again
    BY <1>5, <1>8, <2>1
  <2> QED
    BY <1>2, <2>2, <2>3, BesideStalls
<1> QED
  BY <1>4, <1>6, <1>7, <1>8 DEF HandStep

\* What a press leaves for its handler.
LEMMA ShortHands ==
    /\ hand' = <<TickOp>> => HandTail' /\ Ticks'
    /\ \A r, n : hand' = <<RailOp("unpause", r, n), TickOp>> => HandTail' /\ Ticks'
    /\ hand' = <<>> => HandTail'
<1>0. TickOp.kind = "tick"
  BY DEF TickOp, Op
<1>1. PICK a : a = TickOp /\ a.kind = "tick"
  BY <1>0
<1>2. ASSUME hand' = <<a>>
      PROVE  HandTail' /\ Ticks'
  <2>1. Len(<<a>>) = 1 /\ <<a>>[1] = a /\ 1 \in 1..1
    OBVIOUS
  <2> QED
    BY <1>1, <1>2, <2>1 DEF HandTail, Ticks
<1>3. ASSUME NEW b, hand' = <<b, a>>
      PROVE  HandTail' /\ Ticks'
  <2>1. Len(<<b, a>>) = 2 /\ <<b, a>>[2] = a /\ 2 \in 1..2
    OBVIOUS
  <2> QED
    BY <1>1, <1>3, <2>1 DEF HandTail, Ticks
<1>4. ASSUME hand' = <<>>
      PROVE  HandTail'
  <2>1. Len(<<>>) = 0 /\ 1..0 = {}
    OBVIOUS
  <2> QED
    BY <1>4, <2>1 DEF HandTail
<1> QED
  BY <1>1, <1>2, <1>3, <1>4

\* A press ticks, or it stops a rail.
LEMMA PressesStall ==
    ASSUME RailsInv, StallsInv, Presses
    PROVE  StallsInv'
<1>1. \A r \in RailSet : PressStart(r) \/ PressPause(r) \/ PressReset(r) => Press
  BY DEF PressStart, PressPause, PressReset
<1>2. \A s \in Steps : PressRetry(s) \/ PressMarkDone(s) \/ PressSkip(s) => Press
  BY DEF PressRetry, PressMarkDone, PressSkip
<1>3. Press
  BY <1>1, <1>2 DEF Presses
<1>4. /\ pass' = pass /\ again' = again /\ tickAgain' = tickAgain /\ cpu = "free"
      /\ hand = <<>> /\ held' = held /\ locked' = locked /\ ~Ticks
  <2>1. Len(<<>>) = 0 /\ 1..0 = {}
    OBVIOUS
  <2> QED
    BY <1>3, <2>1 DEF Press, passVars, worldVars, Ticks
<1>5. Coming => Coming'
  BY <1>4 DEF Coming
<1>6. CASE HandTail' /\ Ticks'
  <2>1. Coming'
    BY <1>6 DEF Coming
  <2> QED
    BY <1>4, <1>6, <2>1, BesideStalls
<1>7. ASSUME NEW r \in RailSet, PressStart(r)
      PROVE  HandTail' /\ Ticks'
  BY <1>7, ShortHands DEF PressStart
<1>8. ASSUME NEW s \in Steps, PressRetry(s) \/ PressMarkDone(s) \/ PressSkip(s)
      PROVE  HandTail' /\ Ticks'
  BY <1>8, ShortHands DEF PressRetry, PressMarkDone, PressSkip
<1>9. ASSUME NEW r \in RailSet, PressPause(r)
      PROVE  StallsInv'
  <2>1. hand' = hand /\ SetRail(r, "paused", rail[r].at)
    BY <1>9 DEF PressPause
  <2>2. HandTail'
    BY <1>4, <2>1, ShortHands
  <2>3. refused' = 0 =>
          /\ refused = 0 /\ row' = row /\ rail'[r].st = "paused"
          /\ \A o \in RailSet : o # r => rail'[o] = rail[o]
    BY <2>1, SetRailActs DEF RailsInv
  <2>4. refused' = 0 => \A o \in RailSet : rail'[o] = rail[o] \/ rail'[o].st # "running"
    BY <2>3
  <2> QED
    BY <1>4, <1>5, <2>2, <2>3, <2>4, BesideStalls
<1>10. ASSUME NEW r \in RailSet, PressReset(r)
       PROVE  StallsInv'
  <2>1. PICK flat \in Seq(StepsOf[r]) : flat = FlatSteps[r]
    BY FlatFacts
  <2>2. PICK p : p = [i \in 1..Len(flat) |-> StepOp("reset", flat[i])]
    OBVIOUS
  <2>3. p \in Seq(Handed) /\ \A i \in 1..Len(p) : p[i].kind = "reset"
    <3>1. \A i \in 1..Len(flat) : flat[i] \in Steps
      BY <2>1 DEF Steps
    <3>2. \A i \in 1..Len(flat) : StepOp("reset", flat[i]) \in Handed
      BY <3>1, HandedOps
    <3>3. Len(flat) \in Nat
      OBVIOUS
    <3>4. p \in [1..Len(flat) -> Handed]
      BY <2>2, <3>2
    <3>5. Len(p) = Len(flat)
      BY <2>2, <3>3
    <3>6. \A s : StepOp("reset", s).kind = "reset"
      BY DEF StepOp, Op
    <3> QED
      BY <2>2, <3>3, <3>4, <3>5, <3>6
  <2>4. PICK a \in Handed : a = RailOp("idle", r, 0) /\ a.kind = "idle"
    <3>1. RailOp("idle", r, 0) \in Handed
      BY HandedOps
    <3>2. RailOp("idle", r, 0).kind = "idle"
      BY DEF RailOp, Op
    <3> QED
      BY <3>1, <3>2
  <2>5. hand' = p \o <<a>> /\ UNCHANGED runVars
    <3>1. DOMAIN flat = 1..Len(flat)
      OBVIOUS
    <3> QED
      BY <1>10, <2>1, <2>2, <2>4, <3>1 DEF PressReset
  <2>6. \A i \in 1..Len(hand') : hand'[i].kind # "unpause"
    <3>1. PICK q : q = p \o <<a>>
      OBVIOUS
    <3>2. <<a>> \in Seq(Handed) /\ Len(<<a>>) = 1 /\ <<a>>[1] = a
      OBVIOUS
    <3>3. /\ Len(q) = Len(p) + 1 /\ Len(p) \in Nat
          /\ \A i \in 1..Len(p) : q[i] = p[i]
          /\ q[Len(p) + 1] = a
      BY <2>3, <3>1, <3>2
    <3>4. \A i \in 1..Len(q) : i \in 1..Len(p) \/ i = Len(p) + 1
      BY <3>3
    <3> QED
      BY <2>3, <2>4, <2>5, <3>1, <3>3, <3>4
  <2>7. HandTail'
    BY <2>6 DEF HandTail
  <2>8. rail' = rail /\ row' = row /\ refused' = refused
    BY <2>5 DEF runVars
  <2> QED
    BY <1>4, <1>5, <2>7, <2>8, BesideStalls
<1> QED
  BY <1>6, <1>7, <1>8, <1>9, <1>10 DEF Presses

\* What the world does, a tick follows; a reload begins a pass of its own.
LEMMA WorldMovesStall ==
    ASSUME RailsInv, StallsInv, WorldMoves
    PROVE  StallsInv'
<1>1. CASE World
  <2>1. Coming' /\ pass' = pass /\ again' = again /\ hand' = hand
    BY <1>1, TickComes DEF World
  <2>2. HandTail'
    BY <2>1 DEF StallsInv, HandTail
  <2> QED
    BY <2>1, <2>2, BesideStalls
<1>2. CASE Reloads
  <2>1. pass' = <<>> /\ hand' = <<>> /\ cpu' = "tick"
    BY <1>2 DEF Reloads
  <2>2. Len(<<>>) = 0 /\ 1..0 = {}
    OBVIOUS
  <2>3. Listed(pass') = {} /\ Ordered(pass') /\ ExhaustFirst(pass')
    BY <2>1, <2>2 DEF Listed, Ordered, ExhaustFirst
  <2>4. HandTail'
    BY <2>1, ShortHands
  <2>5. \A s \in Steps : Excused(s)'
    BY <2>1, ComingExcuses DEF Coming
  <2> QED
    BY <2>3, <2>4, <2>5 DEF StallsInv, LoopAgain, ExhaustInv, StallInv
<1>3. \A s \in Steps : SessionTurns(s) \/ CardDone(s) \/ PullRequest(s) => World
  BY DEF SessionTurns, CardDone, PullRequest
<1>4. \A s : BlockerMoves(s) \/ LockMoves(s) => World
  BY DEF BlockerMoves, LockMoves
<1>5. HoldMoves \/ DaemonRestarts => World
  BY DEF HoldMoves, DaemonRestarts
<1> QED
  BY <1>1, <1>2, <1>3, <1>4, <1>5 DEF WorldMoves

\* Nothing is stalled in an empty window.
LEMMA StallsInit == Init => StallsInv
<1> SUFFICES ASSUME Init PROVE StallsInv
  OBVIOUS
<1>1. /\ pass = <<>> /\ hand = <<>>
      /\ row = [s \in Steps |-> [st |-> "pending", ses |-> FALSE, tries |-> 0]]
  BY DEF Init
<1>2. Len(<<>>) = 0 /\ 1..0 = {}
  OBVIOUS
<1>3. Listed(pass) = {} /\ Ordered(pass) /\ ExhaustFirst(pass) /\ HandTail
  BY <1>1, <1>2 DEF Listed, Ordered, ExhaustFirst, HandTail
<1>4. \A s \in Steps : row[s].st # "stalled"
  BY <1>1
<1> QED
  BY <1>3, <1>4 DEF StallsInv, LoopAgain, ExhaustInv, StallInv, Waiting

\* Every step keeps it, one lemma for each action.
LEMMA StallsNext == RailsInv /\ StallsInv /\ [Next]_vars => StallsInv'
<1> SUFFICES ASSUME RailsInv, StallsInv, [Next]_vars PROVE StallsInv'
  OBVIOUS
<1>1. CASE PassStep
  BY <1>1, DoMarkDoneStalls, DoStallStalls, DoLoopExhaustedStalls, DoLoopBackStalls,
     DoSetStepStalls, DoSetRailStalls, DoUnpauseStalls, DoAdvanceStalls, DoCompleteStalls,
     DoArmStalls, DoStartRailStalls, DoLaunchStalls, DoCreateStalls, DoBindStalls,
     RunTickStalls, EndPassStalls DEF PassStep
<1>2. CASE HandStep
  BY <1>2, HandStepStalls
<1>3. CASE Presses
  BY <1>3, PressesStall
<1>4. CASE WorldMoves
  BY <1>4, WorldMovesStall
<1>5. CASE UNCHANGED vars
  <2>1. /\ pass' = pass /\ hand' = hand /\ again' = again /\ tickAgain' = tickAgain
        /\ cpu' = cpu /\ refused' = refused /\ held' = held /\ locked' = locked
        /\ rail' = rail /\ row' = row
    BY <1>5 DEF vars
  <2>2. HandTail' /\ (Coming => Coming')
    BY <2>1 DEF StallsInv, HandTail, Coming, Ticks
  <2> QED
    BY <2>1, <2>2, BesideStalls
<1> QED
  BY <1>1, <1>2, <1>3, <1>4, <1>5 DEF Next

\* In a quiet window nothing is left that could excuse it.
LEMMA QuietStalls ==
    ASSUME RailsInv, StallsInv
    PROVE  StallsPause
<1> SUFFICES ASSUME Quiet, refused = 0, ~held, NEW r \in RailSet, rail[r].st = "running",
                    NEW s \in Current(r), InTurn(s), row[s].st = "stalled"
             PROVE  s \in locked
  BY DEF StallsPause
<1>1. /\ pass = <<>> /\ hand = <<>> /\ ~tickAgain /\ ~again /\ cpu # "tick"
  BY DEF Quiet, RailsInv, LoopInv
<1>2. Listed(pass) = {} /\ ~Coming
  <2>1. Len(<<>>) = 0 /\ 1..0 = {}
    OBVIOUS
  <2> QED
    BY <1>1, <2>1 DEF Listed, Coming, Ticks
<1>3. s \in Steps /\ Owning[s] = r /\ StageOf[s] = rail[r].at
  <2>1. rail[r].at \in DOMAIN Stages[r]
    BY DEF Current
  <2>2. PICK i \in DOMAIN Stages[r][rail[r].at] : s = Stages[r][rail[r].at][i]
    BY <2>1 DEF Current
  <2>0. \A l \in 1..Len(Stages[r]) : \A m \in 1..Len(Stages[r][l]) :
          \E q \in Steps : q = Stages[r][l][m] /\ Owning[q] = r /\ StageOf[q] = l
    BY StepPlace
  <2>3. Stages[r] \in Seq(Seq(Steps))
    BY RailsAssumption
  <2>4. PICK j \in 1..Len(Stages[r]) : j = rail[r].at
    BY <2>1, <2>3
  <2>5. Stages[r][j] \in Seq(Steps)
    BY <2>3
  <2>6. PICK k \in 1..Len(Stages[r][j]) : s = Stages[r][j][k]
    BY <2>2, <2>4, <2>5
  <2>7. PICK q \in Steps : q = Stages[r][j][k] /\ Owning[q] = r /\ StageOf[q] = j
    BY <2>0, Zenon
  <2> QED
    BY <2>4, <2>6, <2>7
<1>4. ~About(s) /\ ~Stops(Owning[s]) /\ Advances(Owning[s]) = {}
  BY <1>2 DEF About, Stops, Advances
<1>5. ~Behind(s)
  BY <1>3, <1>4, Placing DEF Behind
<1>6. ~Preceded(s)
  BY <1>3, InTurnClears DEF Preceded
<1>7. ~Excused(s)
  BY <1>2, <1>4, <1>5, <1>6 DEF Excused
<1>8. ~Waiting(s)
  BY <1>3, <1>7 DEF StallsInv, StallInv
<1> QED
  BY <1>3, <1>8 DEF Waiting

----------------------------------------------------------------------------
(* Why a running rail is never stuck *)

\* What may still move a step: a session, a person, the poll of its pull
\* request or its card's develop run, or what is left of the pass.
Waits(s) ==
    \/ /\ row[s].st = "running"
       /\ Kind[s] \notin {"review", "pr"} => SessionOf(s) \in Healthy /\ ~AgentTurnEnded(s)
    \/ row[s].st = "stalled" /\ s \in locked
Works(s) == ~Marked(s) /\ (Waits(s) \/ About(s))

\* The step is on the stage its rail is at once the pass has taken it on.
AtEnd(s) ==
    \/ Advances(Owning[s]) = {} /\ StageOf[s] = rail[Owning[s]].at
    \/ \E a \in Advances(Owning[s]) :
          a.n = StageOf[s] /\ \A b \in Advances(Owning[s]) : b.n <= a.n

\* A handler is taking the rail back to its start.
Resetting(r) == \E i \in 1..Len(hand) : hand[i].kind = "idle" /\ hand[i].rail = r

\* What is to come of a running rail.
Tended(r) ==
    \/ held \/ Coming \/ "rail" \in overridden \/ Resetting(r) \/ Stops(r)
    \/ \E s \in Steps : Owning[s] = r /\ AtEnd(s) /\ Works(s)
WaitInv == refused = 0 => \A r \in RailSet : rail[r].st = "running" => Tended(r)

\* A loop that goes back has asked for a pass; a session that is being bound
\* is new, unless something happened to it since, which ticked; a handler
\* that takes steps back ends with their rail.
RearmAgain == \A a \in Listed(pass) : a.kind \in {"count", "rearm"} => again
BindInv == \A a \in Listed(pass) : a.kind = "bind" => ses[a.step] = "new" \/ Coming
ResetTail ==
    \A i \in 1..Len(hand) : hand[i].kind = "reset" =>
        hand[Len(hand)].kind = "idle" /\ hand[Len(hand)].rail = Owning[hand[i].step]

WaitsInv == RearmAgain /\ BindInv /\ ResetTail /\ WaitInv

\* What is listed once an action has left this in front of the rest.
Left(X) == Listed(pass') = X \cup Listed(Tail(pass))

\* What an action leaves is in front of what the pass has left.
LEMMA LeftFacts ==
    ASSUME PassInv, pass # <<>>
    PROVE  /\ Listed(pass) = {Head(pass)} \cup Listed(Tail(pass)) /\ Head(pass) \in Due
           /\ Then(<<>>) => Left({})
           /\ \A a \in Ops : Then(<<a>>) => Left({a})
           /\ \A a, b \in Ops : Then(<<a>> \o <<b>>) => Left({a, b})
           /\ \A a, b, c \in Ops : Then(<<a, b, c>>) => Left({a, b, c})
<1>1. ASSUME NEW ops \in Seq(Ops), Then(ops)
      PROVE  Left(Listed(ops))
  BY <1>1, PassSplits DEF Then, Left
<1>2. Listed(pass) = {Head(pass)} \cup Listed(Tail(pass)) /\ Head(pass) \in Due
  <2>1. PICK p \in Seq(Due) : p = pass /\ p # <<>>
    BY DEF PassInv
  <2>2. PICK t \in Seq(Due) : t = Tail(p) /\ Len(t) = Len(p) - 1
    BY <2>1, TailOf
  <2>3. /\ Len(p) \in Nat /\ Len(p) # 0 /\ Head(p) = p[1] /\ p[1] \in Due
        /\ \A i \in 1..Len(t) : i + 1 \in 1..Len(p) /\ t[i] = p[i + 1]
        /\ \A i \in 1..Len(p) : i = 1 \/ (i - 1 \in 1..Len(t) /\ t[i - 1] = p[i])
        /\ 1 \in 1..Len(p)
    BY <2>1, <2>2, TailOf
  <2>4. Listed(p) = {p[1]} \cup Listed(t)
    <3>1. \A i \in 1..Len(p) : p[i] = p[1] \/ p[i] \in Listed(t)
      BY <2>3 DEF Listed
    <3>2. p[1] \in Listed(p) /\ \A i \in 1..Len(t) : t[i] \in Listed(p)
      BY <2>3 DEF Listed
    <3> QED
      BY <3>1, <3>2 DEF Listed
  <2> QED
    BY <2>1, <2>2, <2>3, <2>4
<1>3. Then(<<>>) => Left({})
  <2>0. <<>> \in Seq(Ops) /\ Len(<<>>) = 0 /\ 1..0 = {}
    OBVIOUS
  <2>1. PICK ops \in Seq(Ops) : ops = <<>>
    BY <2>0
  <2>2. Listed(ops) = {}
    BY <2>0, <2>1 DEF Listed
  <2> QED
    BY <1>1, <2>1, <2>2
<1>4. ASSUME NEW a \in Ops, Then(<<a>>)
      PROVE  Left({a})
  <2>1. PICK ops \in Seq(Ops) : ops = <<a>>
    BY ShortSeqs
  <2>2. Len(ops) = 1 /\ ops[1] = a /\ 1..1 = {1}
    BY <2>1
  <2>3. Listed(ops) = {a}
    BY <2>2 DEF Listed
  <2> QED
    BY <1>1, <1>4, <2>1, <2>3
<1>5. ASSUME NEW a \in Ops, NEW b \in Ops, Then(<<a>> \o <<b>>)
      PROVE  Left({a, b})
  <2>1. PICK ops \in Seq(Ops) : ops = <<a>> \o <<b>> /\ Len(ops) = 2 /\ ops[1] = a /\ ops[2] = b
    BY ShortPair
  <2>2. 1..2 = {1, 2}
    OBVIOUS
  <2>3. Listed(ops) = {a, b}
    BY <2>1, <2>2 DEF Listed
  <2> QED
    BY <1>1, <1>5, <2>1, <2>3
<1>6. ASSUME NEW a \in Ops, NEW b \in Ops, NEW c \in Ops, Then(<<a, b, c>>)
      PROVE  Left({a, b, c})
  <2>1. PICK ops : ops = <<a, b, c>>
    OBVIOUS
  <2>2. ops \in Seq(Ops) /\ Len(ops) = 3 /\ ops[1] = a /\ ops[2] = b /\ ops[3] = c
    BY <2>1
  <2>3. 1..3 = {1, 2, 3}
    OBVIOUS
  <2>4. Listed(ops) = {a, b, c}
    BY <2>2, <2>3 DEF Listed
  <2> QED
    BY <1>1, <1>6, <2>1, <2>2, <2>4
<1> QED
  BY <1>2, <1>3, <1>4, <1>5, <1>6

\* What an action of the pass may leave, and what it may not touch.
Beside(X) ==
    /\ Left(X) /\ hand' = hand
    /\ tickAgain => tickAgain'
    /\ again => again'
    /\ \A t \in Steps : ses'[t] = ses[t] \/ ses'[t] = "new"
    /\ \A a \in X : /\ a.kind \notin {"advance", "markDone"}
                    /\ a.kind \in {"count", "rearm"} => again'
                    /\ a.kind = "bind" => ses'[a.step] = "new"

\* What an action of the pass has to show for the invariant.
LEMMA PassWaits ==
    ASSUME RailsInv, WaitsInv, NEW k, Doing(k), NEW X, Beside(X),
           refused' = 0 => \A r \in RailSet : rail'[r].st = "running" => Tended(r)'
    PROVE  WaitsInv'
<1>1. pass # <<>> /\ cpu # "tick"
  BY DEF Doing
<1>2. /\ Listed(pass) = {Head(pass)} \cup Listed(Tail(pass))
      /\ Listed(pass') = X \cup Listed(Tail(pass))
  BY <1>1, LeftFacts DEF RailsInv, Beside, Left
<1>3. RearmAgain'
  BY <1>2 DEF WaitsInv, RearmAgain, Beside
<1>4. Coming => Coming'
  BY <1>1 DEF Beside, Coming, Ticks
<1>5. BindInv'
  <2>1. ASSUME NEW a \in Listed(pass'), a.kind = "bind"
        PROVE  ses'[a.step] = "new" \/ Coming'
    <3>1. CASE a \in X
      BY <2>1, <3>1 DEF Beside
    <3>2. CASE a \in Listed(Tail(pass))
      <4>1. a \in Listed(pass) /\ a \in Due
        <5>1. a \in Listed(pass)
          BY <1>2, <3>2
        <5>2. PICK p \in Seq(Due) : p = pass
          BY DEF RailsInv, PassInv
        <5> QED
          BY <5>1, <5>2 DEF Listed
      <4>2. a.step \in Steps
        BY <2>1, <4>1 DEF Due, Sound, StepAction, Stepped
      <4> QED
        BY <1>4, <2>1, <4>1, <4>2 DEF WaitsInv, BindInv, Beside
    <3> QED
      BY <1>2, <3>1, <3>2
  <2> QED
    BY <2>1 DEF BindInv
<1>6. ResetTail'
  BY DEF WaitsInv, ResetTail, Beside
<1>7. WaitInv'
  BY DEF WaitInv
<1> QED
  BY <1>3, <1>5, <1>6, <1>7 DEF WaitsInv

\* A rail that a pass's action is not about stays tended.
LEMMA StillTended ==
    ASSUME RailsInv, WaitsInv, refused = 0, NEW k, Doing(k), NEW X, Beside(X),
           held' = held, overridden \subseteq overridden',
           NEW r \in RailSet, rail[r].st = "running", rail'[r] = rail[r],
           ~Stop(Head(pass), r), ~(Head(pass).kind = "advance" /\ Head(pass).rail = r),
           \A s \in Steps : Owning[s] = r /\ Works(s) => Waits(s)' \/ About(s)'
    PROVE  Tended(r)'
<1>1. pass # <<>> /\ cpu # "tick" /\ hand' = hand
  BY DEF Doing, Beside
<1>2. /\ Listed(pass) = {Head(pass)} \cup Listed(Tail(pass))
      /\ Listed(pass') = X \cup Listed(Tail(pass))
      /\ \A a \in X : a.kind \notin {"advance", "markDone"}
  BY <1>1, LeftFacts DEF RailsInv, Beside, Left
<1>3. Tended(r)
  BY DEF WaitsInv, WaitInv
<1>4. CASE held \/ Coming \/ "rail" \in overridden \/ Resetting(r)
  <2>1. Coming => Coming'
    BY <1>1 DEF Beside, Coming, Ticks
  <2>2. Resetting(r) => Resetting(r)'
    BY <1>1 DEF Resetting
  <2> QED
    BY <1>4, <2>1, <2>2 DEF Tended
<1>5. CASE Stops(r)
  <2>1. Stops(r)'
    BY <1>2, <1>5 DEF Stops
  <2> QED
    BY <2>1 DEF Tended
<1>6. CASE \E s \in Steps : Owning[s] = r /\ AtEnd(s) /\ Works(s)
  <2>1. PICK s \in Steps : Owning[s] = r /\ AtEnd(s) /\ Works(s)
    BY <1>6
  <2>2. Advances(r)' = Advances(r)
    BY <1>2 DEF Advances
  <2>3. AtEnd(s)'
    BY <2>1, <2>2 DEF AtEnd
  <2>4. ~Marked(s)'
    BY <1>2, <2>1 DEF Works, Marked
  <2>5. Works(s)'
    BY <2>1, <2>4 DEF Works
  <2> QED
    BY <2>1, <2>3, <2>5 DEF Tended
<1> QED
  BY <1>3, <1>4, <1>5, <1>6 DEF Tended

\* An action about one step, which writes no rail and no row but that one.
LEMMA StepTended ==
    ASSUME RailsInv, WaitsInv, NEW k \in Stepped, Doing(k), NEW X, Beside(X),
           NEW q \in Steps, q = Head(pass).step,
           held' = held, locked' = locked, overridden' = overridden,
           refused' = 0 =>
              /\ refused = 0 /\ rail' = rail
              /\ \A t \in Steps : t # q => row'[t] = row[t] /\ ses'[t] = ses[t]
              /\ \/ Waits(q)' \/ About(q)' \/ Head(pass).kind = "markDone"
                 \/ rail[Owning[q]].st = "running" => Tended(Owning[q])'
    PROVE  WaitsInv'
<1>1. pass # <<>> /\ Head(pass).kind = k
  BY DEF Doing
<1>2. /\ Listed(pass) = {Head(pass)} \cup Listed(Tail(pass))
      /\ Listed(pass') = X \cup Listed(Tail(pass))
  BY <1>1, LeftFacts DEF RailsInv, Beside, Left
<1>3. ASSUME refused' = 0, NEW r \in RailSet, rail'[r].st = "running"
      PROVE  Tended(r)'
  <2>1. CASE r = Owning[q] /\ Tended(Owning[q])'
    BY <2>1
  <2>2. CASE \/ r # Owning[q] \/ Waits(q)' \/ About(q)' \/ Head(pass).kind = "markDone"
    <3>1. ~Stop(Head(pass), r) /\ Head(pass).kind # "advance"
      BY <1>1 DEF Stop, Stepped
    <3>2. ASSUME NEW s \in Steps, Owning[s] = r, Works(s)
          PROVE  Waits(s)' \/ About(s)'
      <4>1. CASE s = q
        <5>1. Head(pass).kind # "markDone"
          BY <1>2, <3>2, <4>1 DEF Works, Marked
        <5> QED
          BY <2>2, <3>2, <4>1, <5>1
      <4>2. CASE s # q
        <5>1. row'[s] = row[s] /\ ses'[s] = ses[s]
          BY <1>3, <4>2
        <5>2. Waits(s) => Waits(s)'
          BY <5>1 DEF Waits, SessionOf, AgentTurnEnded
        <5>3. About(s) => About(s)'
          BY <1>2, <4>2 DEF About
        <5> QED
          BY <3>2, <5>2, <5>3 DEF Works
      <4> QED
        BY <4>1, <4>2
    <3>3. rail'[r] = rail[r] /\ rail[r].st = "running" /\ refused = 0
      BY <1>3
    <3> QED
      BY <3>1, <3>2, <3>3, StillTended
  <2> QED
    BY <1>3, <2>1, <2>2
<1> QED
  BY <1>3, PassWaits

\* An action about one rail, which writes no row and no rail but that one.
LEMMA RailTended ==
    ASSUME RailsInv, WaitsInv, NEW k \in Railed, Doing(k), NEW X, Beside(X),
           NEW q \in RailSet, q = Head(pass).rail,
           held' = held, locked' = locked, overridden \subseteq overridden', ses' = ses,
           refused' = 0 =>
              /\ refused = 0 /\ row' = row
              /\ \A r \in RailSet : r # q => rail'[r] = rail[r]
              /\ \/ rail' = rail /\ k \notin {"advance", "complete", "setRail"}
                 \/ rail'[q].st = "running" => Tended(q)'
    PROVE  WaitsInv'
<1>1. pass # <<>> /\ Head(pass).kind = k
  BY DEF Doing
<1>2. /\ Listed(pass) = {Head(pass)} \cup Listed(Tail(pass))
      /\ Listed(pass') = X \cup Listed(Tail(pass))
  BY <1>1, LeftFacts DEF RailsInv, Beside, Left
<1>3. ASSUME refused' = 0, NEW r \in RailSet, rail'[r].st = "running"
      PROVE  Tended(r)'
  <2>1. CASE r = q /\ Tended(q)'
    BY <2>1
  <2>2. CASE r # q \/ (rail' = rail /\ k \notin {"advance", "complete", "setRail"})
    <3>1. ~Stop(Head(pass), r) /\ ~(Head(pass).kind = "advance" /\ Head(pass).rail = r)
      BY <1>1, <2>2 DEF Stop
    <3>2. ASSUME NEW s \in Steps, Works(s)
          PROVE  Waits(s)' \/ About(s)'
      <4>1. Waits(s) => Waits(s)'
        BY <1>3 DEF Waits, SessionOf, AgentTurnEnded
      <4>2. About(s) => About(s)'
        <5>1. Head(pass).kind \notin Stepped
          BY <1>1 DEF Stepped, Railed
        <5> QED
          BY <1>2, <5>1 DEF About
      <4> QED
        BY <3>2, <4>1, <4>2 DEF Works
    <3>3. rail'[r] = rail[r] /\ rail[r].st = "running" /\ refused = 0
      BY <1>3, <2>2
    <3> QED
      BY <3>1, <3>2, <3>3, StillTended
  <2> QED
    BY <1>3, <2>1, <2>2
<1> QED
  BY <1>3, PassWaits

----------------------------------------------------------------------------
\* Another pass to come tends every rail.
LEMMA ComingTends ==
    ASSUME Coming'
    PROVE  \A r \in RailSet : Tended(r)'
BY DEF Tended

\* A stall leaves the pause of a rail that runs.
LEMMA StallTends ==
    ASSUME RailsInv, WaitsInv, NEW k \in Stepped, Doing(k), NEW q \in Steps,
           q = Head(pass).step, NEW count, Stall(q, count), hand' = hand, held' = held,
           locked' = locked, overridden' = overridden, ses' = ses,
           tickAgain => tickAgain', again => again'
    PROVE  WaitsInv'
<1>1. /\ pass # <<>> /\ PassInv /\ Owning[q] \in RailSet /\ rail[Owning[q]].at \in Nat
  BY Placing DEF Doing, RailsInv, RowsInv
<1>2. refused' = 0 =>
        /\ refused = 0 /\ rail' = rail
        /\ \A t \in Steps : t # q => row'[t] = row[t]
  BY SetStepActs DEF Stall, RailsInv
<1>3. CASE rail[Owning[q]].st = "running"
  <2>1. PICK a \in Ops :
          /\ a = Op("setRail", "none", Owning[q], "paused", rail[Owning[q]].at)
          /\ a.kind = "setRail" /\ a.rail = Owning[q] /\ a.st = "paused"
    BY <1>1, RailOps DEF Railed
  <2>2. Then(<<a>>)
    BY <1>3, <2>1 DEF Stall
  <2>3. Left({a})
    BY <1>1, <2>2, LeftFacts
  <2>4. Beside({a})
    BY <2>1, <2>3 DEF Beside
  <2>5. Tended(Owning[q])'
    BY <2>1, <2>3 DEF Left, Tended, Stops, Stop
  <2> QED
    BY <1>2, <2>4, <2>5, StepTended
<1>4. CASE rail[Owning[q]].st # "running"
  <2>1. Then(<<>>)
    BY <1>4 DEF Stall
  <2>2. Left({})
    BY <1>1, <2>1, LeftFacts
  <2>3. Beside({})
    BY <2>2 DEF Beside
  <2> QED
    BY <1>2, <1>4, <2>3, StepTended
<1> QED
  BY <1>3, <1>4

\* A step that is marked done was not what its rail waited for.
LEMMA DoMarkDoneTends ==
    ASSUME RailsInv, WaitsInv, DoMarkDone
    PROVE  WaitsInv'
<1>1. /\ Doing("markDone") /\ pass # <<>> /\ Head(pass).kind = "markDone" /\ PassInv
      /\ hand' = hand /\ held' = held /\ locked' = locked /\ tickAgain' = tickAgain
      /\ (again => again') /\ overridden' = overridden /\ ses' = ses /\ "markDone" \in Stepped
  BY DEF DoMarkDone, Doing, PassUnchanged, worldVars, boundVars, RailsInv, Stepped
<1>2. PICK q \in Steps : q = Head(pass).step
  BY <1>1, HeadIsDue DEF Stepped
<1>3. PICK X : Beside(X)
  <2>1. CASE row[q].st = "stalled"
    <3>1. Owning[q] \in RailSet /\ StageOf[q] \in Nat
      BY Placing
    <3>2. PICK a \in Ops : a = RailOp("unpause", Owning[q], StageOf[q]) /\ a.kind = "unpause"
      BY <3>1, RailOps DEF RailOp, Railed
    <3>3. Then(<<a>>)
      BY <1>2, <2>1, <3>2 DEF DoMarkDone
    <3>4. Left({a})
      BY <1>1, <3>3, LeftFacts
    <3>5. Beside({a})
      BY <1>1, <3>2, <3>4 DEF Beside
    <3> QED
      BY <3>5
  <2>2. CASE row[q].st # "stalled"
    <3>1. Then(<<>>)
      BY <1>2, <2>2 DEF DoMarkDone
    <3>2. Left({})
      BY <1>1, <3>1, LeftFacts
    <3>3. Beside({})
      BY <1>1, <3>2 DEF Beside
    <3> QED
      BY <3>3
  <2> QED
    BY <2>1, <2>2
<1>4. refused' = 0 =>
        /\ refused = 0 /\ rail' = rail
        /\ \A t \in Steps : t # q => row'[t] = row[t]
  BY <1>2, SetStepActs DEF DoMarkDone, RailsInv
<1> QED
  BY <1>1, <1>2, <1>3, <1>4, StepTended

\* stallStep leaves the pause of a rail that runs.
LEMMA DoStallTends ==
    ASSUME RailsInv, WaitsInv, DoStall
    PROVE  WaitsInv'
<1>1. /\ Doing("stall") /\ hand' = hand /\ held' = held /\ locked' = locked
      /\ tickAgain' = tickAgain /\ again' = again /\ overridden' = overridden /\ ses' = ses
      /\ "stall" \in Stepped
  BY DEF DoStall, PassUnchanged, worldVars, boundVars, Stepped
<1>2. PICK q \in Steps : q = Head(pass).step
  BY <1>1, HeadIsDue DEF RailsInv
<1>3. Stall(q, {})
  BY <1>2 DEF DoStall
<1> QED
  BY <1>1, <1>2, <1>3, StallTends

\* A loop that has run out leaves the pause of a rail that ran when it was
\* read.
LEMMA DoLoopExhaustedTends ==
    ASSUME RailsInv, WaitsInv, DoLoopExhausted
    PROVE  WaitsInv'
<1>1. /\ Doing("loopExhausted") /\ pass # <<>> /\ PassInv
      /\ hand' = hand /\ held' = held /\ locked' = locked /\ ses' = ses
      /\ tickAgain' = tickAgain /\ again' = again /\ overridden' = overridden
      /\ "loopExhausted" \in Stepped
  BY DEF DoLoopExhausted, Doing, PassUnchanged, worldVars, boundVars, Stepped, RailsInv
<1>2. PICK q \in Steps : q = Head(pass).step
  BY <1>1, HeadIsDue DEF RailsInv
<1>3. CASE Kind[q] = "pr"
  <2>1. Stall(q, {0})
    BY <1>2, <1>3 DEF DoLoopExhausted
  <2> QED
    BY <1>1, <1>2, <2>1, StallTends
<1>4. CASE Kind[q] # "pr"
  <2>1. rail' = rail /\ row' = row /\ refused' = refused
    BY <1>2, <1>4 DEF DoLoopExhausted, runVars
  <2>2. PICK a \in Ops : a = StepOp("exhaust", q) /\ a.kind = "exhaust" /\ a.step = q
    BY StepOps DEF Stepped
  <2>3. PICK X : Left(X) /\ a \in X /\ \A b \in X : b.kind \in {"exhaust", "setRail"}
    <3>1. CASE rail[Owning[q]].st = "running"
      <4>1. Owning[q] \in RailSet /\ rail[Owning[q]].at \in Nat
        BY Placing DEF RailsInv, RowsInv
      <4>2. PICK b \in Ops :
              /\ b = Op("setRail", "none", Owning[q], "paused", rail[Owning[q]].at)
              /\ b.kind = "setRail"
        BY <4>1, RailOps DEF Railed
      <4>3. Then(<<a>> \o <<b>>)
        BY <1>2, <1>4, <2>2, <3>1, <4>2 DEF DoLoopExhausted
      <4>4. Left({a, b})
        BY <1>1, <4>3, LeftFacts
      <4> QED
        BY <2>2, <4>2, <4>4
    <3>2. CASE rail[Owning[q]].st # "running"
      <4>1. <<a>> \o <<>> = <<a>>
        OBVIOUS
      <4>2. Then(<<a>>)
        BY <1>2, <1>4, <2>2, <3>2, <4>1 DEF DoLoopExhausted
      <4>3. Left({a})
        BY <1>1, <4>2, LeftFacts
      <4> QED
        BY <2>2, <4>3
    <3> QED
      BY <3>1, <3>2
  <2>4. Beside(X)
    BY <1>1, <2>3 DEF Beside
  <2>5. About(q)'
    BY <2>2, <2>3 DEF Left, About, Stepped
  <2> QED
    BY <1>1, <1>2, <2>1, <2>4, <2>5, StepTended
<1> QED
  BY <1>3, <1>4

\* A loop that goes back asks for a pass.
LEMMA DoLoopBackTends ==
    ASSUME RailsInv, WaitsInv, DoLoopBack
    PROVE  WaitsInv'
<1>1. /\ Doing("loopBack") /\ pass # <<>> /\ Head(pass).kind = "loopBack" /\ PassInv
      /\ hand' = hand /\ again' = TRUE /\ tickAgain' = tickAgain /\ ses' = ses
  BY DEF DoLoopBack, Doing, RailsInv
<1>2. PICK h \in Due : h = Head(pass) /\ h.kind = "loopBack" /\ h.step \in Steps /\ h.n \in Nat
  BY <1>1, HeadIsDue DEF Stepped
<1>3. PICK q \in Steps, p \in Steps : q = h.step /\ p = Before[q]
  BY <1>2 DEF Due, Sound, StepAction, Stepped
<1>4. Owning[q] \in RailSet /\ StageOf[p] \in Nat
  BY Placing
<1>5. PICK c \in Ops : c = Op("count", q, "none", "none", h.n) /\ c.kind = "count"
  <2>1. PICK c : c = Op("count", q, "none", "none", h.n)
    OBVIOUS
  <2>2. c = [kind |-> "count", step |-> q, rail |-> "none", st |-> "none", n |-> h.n]
    BY <2>1 DEF Op
  <2>3. c \in Ops
    BY <1>2, <2>2 DEF Ops, Stepped
  <2> QED
    BY <2>1, <2>2, <2>3
<1>6. PICK d \in Ops : d = StepOp("rearm", p) /\ d.kind = "rearm"
  BY StepOps DEF Stepped
<1>7. PICK e \in Ops : /\ e = Op("setRail", "none", Owning[q], "running", StageOf[p])
                       /\ e.kind = "setRail"
  BY <1>4, RailOps DEF Railed
<1>8. Then(<<c, d, e>>)
  BY <1>2, <1>3, <1>5, <1>6, <1>7 DEF DoLoopBack
<1>9. Left({c, d, e})
  BY <1>1, <1>8, LeftFacts
<1>10. Beside({c, d, e})
  BY <1>1, <1>5, <1>6, <1>7, <1>9 DEF Beside
<1>11. \A r \in RailSet : Tended(r)'
  BY <1>1, ComingTends DEF Coming
<1> QED
  BY <1>1, <1>10, <1>11, PassWaits

\* The writes left for after an await: a pass was asked for, or the rail of a
\* loop that ran out is paused.
LEMMA DoSetStepTends ==
    ASSUME RailsInv, StallsInv, WaitsInv, DoSetStep
    PROVE  WaitsInv'
<1>1. PICK k \in {"count", "rearm", "exhaust"} : Doing(k)
  BY DEF DoSetStep
<1>2. /\ pass # <<>> /\ Head(pass).kind = k /\ k \in Stepped /\ PassInv /\ cpu # "tick"
      /\ Then(<<>>) /\ again' = again /\ hand' = hand /\ held' = held /\ locked' = locked
      /\ tickAgain' = tickAgain /\ ses' = ses /\ overridden' = overridden
  BY <1>1 DEF DoSetStep, Doing, PassUnchanged, worldVars, boundVars, Stepped, RailsInv
<1>3. PICK q \in Steps : q = Head(pass).step
  BY <1>1, <1>2, HeadIsDue
<1>4. /\ Left({}) /\ Head(pass) \in Listed(pass)
      /\ Listed(pass) = {Head(pass)} \cup Listed(Tail(pass))
  BY <1>2, LeftFacts
<1>5. Beside({})
  BY <1>2, <1>4 DEF Beside
<1>6. CASE k \in {"count", "rearm"}
  <2>1. again'
    BY <1>2, <1>4, <1>6 DEF WaitsInv, RearmAgain
  <2>2. \A r \in RailSet : Tended(r)'
    BY <2>1, ComingTends DEF Coming
  <2> QED
    BY <1>1, <1>5, <2>2, PassWaits
<1>7. CASE k = "exhaust"
  <2>1. SetStep(q, "stalled", FALSE, {0})
    BY <1>2, <1>3, <1>7 DEF DoSetStep, Doing
  <2>2. refused' = 0 =>
          /\ refused = 0 /\ rail' = rail
          /\ \A t \in Steps : t # q => row'[t] = row[t]
    BY <2>1, SetStepActs DEF RailsInv
  <2>3. ASSUME refused = 0, rail[Owning[q]].st = "running"
        PROVE  Tended(Owning[q])'
    <3>1. Coming \/ Stops(Owning[q])
      BY <1>2, <1>3, <1>4, <1>7, <2>3 DEF StallsInv, ExhaustInv
    <3>2. Coming => Coming'
      BY <1>2 DEF Coming, Ticks
    <3>3. Stops(Owning[q]) => Stops(Owning[q])'
      BY <1>2, <1>4, <1>7 DEF Left, Stops, Stop
    <3> QED
      BY <3>1, <3>2, <3>3 DEF Tended
  <2> QED
    BY <1>1, <1>2, <1>3, <1>5, <2>2, <2>3, StepTended
<1> QED
  BY <1>6, <1>7

----------------------------------------------------------------------------
\* What every action on a rail has in common.
LEMMA RailAct ==
    ASSUME RailsInv, NEW k \in Railed, Doing(k), Then(<<>>), hand' = hand, ses' = ses,
           tickAgain => tickAgain', again => again'
    PROVE  /\ Beside({}) /\ Head(pass) \in Listed(pass) /\ Head(pass) \in Due
           /\ Listed(pass) = {Head(pass)} \cup Listed(pass')
           /\ \E q \in RailSet : q = Head(pass).rail
<1>1. pass # <<>> /\ PassInv /\ Head(pass).kind = k
  BY DEF Doing, RailsInv
<1>2. /\ Left({}) /\ Head(pass) \in Due
      /\ Listed(pass) = {Head(pass)} \cup Listed(Tail(pass))
  BY <1>1, LeftFacts
<1>3. Beside({})
  BY <1>2 DEF Beside
<1>4. Head(pass).rail \in RailSet
  BY <1>1, HeadIsDue
<1> QED
  BY <1>2, <1>3, <1>4 DEF Left

\* A rail is paused, or sent back by a loop that has asked for a pass.
LEMMA DoSetRailTends ==
    ASSUME RailsInv, StallsInv, WaitsInv, DoSetRail
    PROVE  WaitsInv'
<1>1. /\ Doing("setRail") /\ Head(pass).kind = "setRail" /\ Then(<<>>) /\ "setRail" \in Railed
      /\ hand' = hand /\ held' = held /\ locked' = locked /\ ses' = ses
      /\ tickAgain' = tickAgain /\ again' = again /\ overridden' = overridden
  BY DEF DoSetRail, Doing, PassUnchanged, worldVars, boundVars, Railed
<1>2. /\ Beside({}) /\ Head(pass) \in Listed(pass) /\ Head(pass) \in Due
      /\ \E q \in RailSet : q = Head(pass).rail
  BY <1>1, RailAct
<1>3. PICK q \in RailSet : q = Head(pass).rail
  BY <1>2
<1>4. Head(pass).st \in {"running", "paused"}
  BY <1>1, <1>2 DEF Due, Sound, RailAction, Railed
<1>5. refused' = 0 =>
        /\ refused = 0 /\ row' = row /\ rail'[q].st = Head(pass).st
        /\ \A r \in RailSet : r # q => rail'[r] = rail[r]
  BY <1>3, SetRailActs DEF DoSetRail, RailsInv
<1>6. CASE Head(pass).st = "running"
  <2>1. again'
    BY <1>1, <1>2, <1>6 DEF StallsInv, LoopAgain
  <2>2. \A r \in RailSet : Tended(r)'
    BY <2>1, ComingTends DEF Coming
  <2> QED
    BY <1>1, <1>2, <2>2, PassWaits
<1>7. CASE Head(pass).st = "paused"
  BY <1>1, <1>2, <1>3, <1>5, <1>7, RailTended
<1> QED
  BY <1>4, <1>6, <1>7

\* Rule 5 lets a rail that waited run on: it asks for a pass.
LEMMA DoUnpauseTends ==
    ASSUME RailsInv, WaitsInv, DoUnpause
    PROVE  WaitsInv'
<1>1. /\ Doing("unpause") /\ Then(<<>>) /\ "unpause" \in Railed
      /\ hand' = hand /\ held' = held /\ locked' = locked /\ ses' = ses
      /\ tickAgain' = tickAgain /\ (again => again') /\ overridden' = overridden
  BY DEF DoUnpause, PassUnchanged, worldVars, boundVars, Railed
<1>2. Beside({}) /\ \E q \in RailSet : q = Head(pass).rail
  BY <1>1, RailAct
<1>3. PICK q \in RailSet : q = Head(pass).rail
  BY <1>2
<1>4. CASE rail[q].st = "paused"
  <2>1. again'
    BY <1>3, <1>4 DEF DoUnpause
  <2>2. \A r \in RailSet : Tended(r)'
    BY <2>1, ComingTends DEF Coming
  <2> QED
    BY <1>1, <1>2, <2>2, PassWaits
<1>5. CASE rail[q].st # "paused"
  <2>1. rail' = rail /\ row' = row /\ refused' = refused
    BY <1>3, <1>5 DEF DoUnpause, runVars
  <2> QED
    BY <1>1, <1>2, <1>3, <2>1, RailTended
<1> QED
  BY <1>4, <1>5

\* An advance takes its rail to the stage it waits on, or nearer to it; one
\* that sets running a rail that was stopped is remembered.
LEMMA DoAdvanceTends ==
    ASSUME RailsInv, StallsInv, WaitsInv, DoAdvance
    PROVE  WaitsInv'
<1>1. /\ Doing("advance") /\ Head(pass).kind = "advance" /\ Then(<<>>) /\ "advance" \in Railed
      /\ hand' = hand /\ held' = held /\ locked' = locked /\ ses' = ses /\ pass # <<>>
      /\ tickAgain' = tickAgain /\ again' = again /\ overridden \subseteq overridden'
      /\ cpu # "tick" /\ PassInv
  BY DEF DoAdvance, Doing, worldVars, Railed, RailsInv
<1>2. /\ Beside({}) /\ Head(pass) \in Listed(pass) /\ Head(pass) \in Due
      /\ Listed(pass) = {Head(pass)} \cup Listed(pass')
      /\ \E q \in RailSet : q = Head(pass).rail
  BY <1>1, RailAct
<1>3. PICK q \in RailSet : q = Head(pass).rail
  BY <1>2
<1>4. refused' = 0 =>
        /\ refused = 0 /\ row' = row /\ rail'[q].at = Head(pass).n
        /\ \A r \in RailSet : r # q => rail'[r] = rail[r]
  BY <1>3, SetRailActs DEF DoAdvance, RailsInv
<1>5. CASE rail[q].st # "running"
  <2>1. "rail" \in overridden'
    BY <1>3, <1>5 DEF DoAdvance
  <2>2. Tended(q)'
    BY <2>1 DEF Tended
  <2> QED
    BY <1>1, <1>2, <1>3, <1>4, <2>2, RailTended
<1>6. ASSUME rail[q].st = "running", refused' = 0
      PROVE  Tended(q)'
  <2>1. Tended(q)
    BY <1>4, <1>6 DEF WaitsInv, WaitInv
  <2>2. CASE held \/ Coming \/ "rail" \in overridden \/ Resetting(q)
    <3>1. Coming => Coming'
      BY <1>1 DEF Coming, Ticks
    <3>2. Resetting(q) => Resetting(q)'
      BY <1>1 DEF Resetting
    <3> QED
      BY <1>1, <2>2, <3>1, <3>2 DEF Tended
  <2>3. CASE Stops(q)
    <3>1. Stops(q)'
      BY <1>1, <1>2, <2>3 DEF Stops, Stop
    <3> QED
      BY <3>1 DEF Tended
  <2>4. CASE \E s \in Steps : Owning[s] = q /\ AtEnd(s) /\ Works(s)
    <3>1. PICK s \in Steps : Owning[s] = q /\ AtEnd(s) /\ Works(s)
      BY <2>4
    <3>2. Head(pass) \in Advances(q)
      BY <1>1, <1>2, <1>3 DEF Advances
    <3>3. PICK a \in Advances(q) : a.n = StageOf[s] /\ \A b \in Advances(q) : b.n <= a.n
      BY <3>1, <3>2 DEF AtEnd
    <3>4. \A b \in Advances(q)' : Head(pass).n < b.n
      <4>1. \A b \in Listed(Tail(pass)) : MayPrecede(Head(pass), b)
        <5>1. Ordered(pass)
          BY DEF StallsInv
        <5>2. PICK ops \in Seq(Ops) : ops = <<>> /\ Follows(ops)
          BY NoneFollows
        <5>3. pass' = ops \o Tail(pass)
          BY <1>1, <5>2 DEF Then
        <5> QED
          BY <1>1, <5>1, <5>3, PassSplits
      <4>2. Listed(pass') = Listed(Tail(pass))
        BY <1>2 DEF Beside, Left
      <4> QED
        BY <1>1, <1>3, <4>1, <4>2 DEF Advances, MayPrecede, Concerns
    <3>5. Advances(q) = {Head(pass)} \cup Advances(q)'
      BY <1>1, <1>2, <1>3 DEF Advances
    <3>6. \A b \in Advances(q) : b.n \in Nat
      <4>1. PICK p \in Seq(Due) : p = pass
        BY <1>1 DEF PassInv
      <4> QED
        BY <4>1 DEF Advances, Listed, Due, Ops
    <3>7. AtEnd(s)'
      <4>1. CASE Advances(q)' = {}
        <5>1. a = Head(pass)
          BY <3>5, <4>1
        <5> QED
          BY <1>4, <1>6, <3>1, <3>3, <4>1, <5>1 DEF AtEnd
      <4>2. CASE Advances(q)' # {}
        <5>1. PICK b \in Advances(q)' : TRUE
          BY <4>2
        <5>2. Head(pass).n < b.n /\ b.n <= a.n /\ b \in Advances(q)
          BY <3>3, <3>4, <3>5, <5>1
        <5>3. a # Head(pass)
          BY <3>2, <3>3, <3>6, <5>2
        <5>4. a \in Advances(q)'
          BY <3>5, <5>3
        <5> QED
          BY <3>1, <3>3, <3>5, <5>4 DEF AtEnd
      <4> QED
        BY <4>1, <4>2
    <3>8. Works(s)'
      <4>1. ~Marked(s)'
        BY <1>2, <3>1 DEF Works, Marked
      <4>2. Waits(s) => Waits(s)'
        BY <1>1, <1>4, <1>6 DEF Waits, SessionOf, AgentTurnEnded
      <4>3. About(s) => About(s)'
        BY <1>1, <1>2 DEF About, Stepped
      <4> QED
        BY <3>1, <4>1, <4>2, <4>3 DEF Works
    <3> QED
      BY <3>1, <3>7, <3>8 DEF Tended
  <2> QED
    BY <2>1, <2>2, <2>3, <2>4 DEF Tended
<1>7. CASE rail[q].st = "running"
  BY <1>1, <1>2, <1>3, <1>4, <1>6, <1>7, RailTended
<1> QED
  BY <1>5, <1>7

\* A completed rail runs no longer.
LEMMA DoCompleteTends ==
    ASSUME RailsInv, WaitsInv, DoComplete
    PROVE  WaitsInv'
<1>1. /\ Doing("complete") /\ Then(<<>>) /\ "complete" \in Railed
      /\ hand' = hand /\ held' = held /\ locked' = locked /\ ses' = ses
      /\ tickAgain' = tickAgain /\ (again => again') /\ overridden' = overridden
  BY DEF DoComplete, PassUnchanged, worldVars, boundVars, Railed
<1>2. Beside({}) /\ \E q \in RailSet : q = Head(pass).rail
  BY <1>1, RailAct
<1>3. PICK q \in RailSet : q = Head(pass).rail
  BY <1>2
<1>4. refused' = 0 =>
        /\ refused = 0 /\ row' = row /\ rail'[q].st = "idle"
        /\ \A r \in RailSet : r # q => rail'[r] = rail[r]
  BY <1>3, SetRailActs DEF DoComplete, RailsInv
<1> QED
  BY <1>1, <1>2, <1>3, <1>4, RailTended

\* An armed rail is read again by a pass that is asked for.
LEMMA DoArmTends ==
    ASSUME RailsInv, WaitsInv, DoArm
    PROVE  WaitsInv'
<1>1. /\ Doing("arm") /\ Then(<<>>) /\ "arm" \in Railed /\ hand' = hand /\ ses' = ses
      /\ tickAgain' = tickAgain /\ again' = TRUE
  BY DEF DoArm, PassUnchanged, worldVars, Railed
<1>2. Beside({})
  BY <1>1, RailAct
<1>3. \A r \in RailSet : Tended(r)'
  BY <1>1, ComingTends DEF Coming
<1> QED
  BY <1>1, <1>2, <1>3, PassWaits

\* The rail a start-rail step names has had its tick left word of.
LEMMA DoStartRailTends ==
    ASSUME RailsInv, WaitsInv, DoStartRail
    PROVE  WaitsInv'
<1>1. /\ Doing("startRail") /\ Then(<<>>) /\ "startRail" \in Railed
      /\ hand' = hand /\ held' = held /\ locked' = locked /\ ses' = ses
      /\ (tickAgain => tickAgain') /\ again' = again
  BY DEF DoStartRail, worldVars, Railed
<1>2. Beside({}) /\ \E q \in RailSet : q = Head(pass).rail
  BY <1>1, RailAct
<1>3. PICK q \in RailSet : q = Head(pass).rail
  BY <1>2
<1>4. CASE FirstUnfinished(q) # 0
  <2>1. tickAgain'
    BY <1>3, <1>4 DEF DoStartRail
  <2>2. \A r \in RailSet : Tended(r)'
    BY <2>1, ComingTends DEF Coming
  <2> QED
    BY <1>1, <1>2, <2>2, PassWaits
<1>5. CASE FirstUnfinished(q) = 0
  <2>1. rail' = rail /\ row' = row /\ refused' = refused /\ overridden' = overridden
    BY <1>3, <1>5 DEF DoStartRail, runVars
  <2> QED
    BY <1>1, <1>2, <1>3, <2>1, RailTended
<1> QED
  BY <1>4, <1>5

----------------------------------------------------------------------------
\* What a launch awaits the host for is still about its step.
LEMMA AwaitedTends ==
    ASSUME RailsInv, WaitsInv, NEW j \in Stepped, Doing(j), NEW q \in Steps,
           q = Head(pass).step, NEW k \in {"create", "bind"}, Then(<<StepOp(k, q)>>),
           UNCHANGED runVars, hand' = hand, held' = held, locked' = locked,
           overridden' = overridden, tickAgain => tickAgain', again => again',
           IF k = "bind" THEN ses' = [ses EXCEPT ![q] = "new"] ELSE ses' = ses
    PROVE  WaitsInv'
<1>1. pass # <<>> /\ PassInv
  BY DEF Doing, RailsInv
<1>2. PICK a \in Ops : a = StepOp(k, q) /\ a.kind = k /\ a.step = q
  BY StepOps DEF Stepped
<1>3. Left({a})
  BY <1>1, <1>2, LeftFacts
<1>4. /\ \A t \in Steps : ses'[t] = ses[t] \/ ses'[t] = "new"
      /\ \A t \in Steps : t # q => ses'[t] = ses[t]
      /\ k = "bind" => ses'[q] = "new"
  BY DEF RailsInv, WorldInv
<1>5. Beside({a})
  BY <1>2, <1>3, <1>4 DEF Beside
<1>6. About(q)'
  BY <1>2, <1>3 DEF Left, About, Stepped
<1>7. rail' = rail /\ row' = row /\ refused' = refused
  BY DEF runVars
<1> QED
  BY <1>4, <1>5, <1>6, <1>7, StepTended

\* A row that is left with what it waits for.
LEMMA WrittenTends ==
    ASSUME RailsInv, WaitsInv, NEW j \in Stepped, Doing(j), NEW q \in Steps,
           q = Head(pass).step, Then(<<>>), hand' = hand, held' = held, locked' = locked,
           overridden' = overridden, ses' = ses,
           NEW x, NEW named, NEW count, SetStep(q, x, named, count),
           tickAgain => tickAgain', again => again',
           refused' = 0 => Waits(q)' \/ Coming'
    PROVE  WaitsInv'
<1>1. pass # <<>> /\ PassInv
  BY DEF Doing, RailsInv
<1>2. Left({})
  BY <1>1, LeftFacts
<1>3. Beside({})
  BY <1>2 DEF Beside
<1>4. refused' = 0 =>
        /\ refused = 0 /\ rail' = rail
        /\ \A t \in Steps : t # q => row'[t] = row[t]
  BY SetStepActs DEF RailsInv
<1>5. Coming' => Tended(Owning[q])'
  BY DEF Tended
<1> QED
  BY <1>3, <1>4, <1>5, StepTended

\* A launch held back waits for the hold to end; one taken stalls its step,
\* goes on about it, or leaves it waiting.
LEMMA DoLaunchTends ==
    ASSUME RailsInv, WaitsInv, DoLaunch
    PROVE  WaitsInv'
<1>1. /\ Doing("launch") /\ pass # <<>> /\ PassInv /\ "launch" \in Stepped
      /\ hand' = hand /\ held' = held /\ locked' = locked /\ tickAgain' = tickAgain
      /\ ses' = ses /\ overridden' = overridden
  BY DEF DoLaunch, Doing, PassUnchanged, worldVars, boundVars, Stepped, RailsInv
<1>2. PICK q \in Steps : q = Head(pass).step
  BY <1>1, HeadIsDue
<1>3. CASE held /\ Then(<<>>) /\ RunsOn /\ UNCHANGED <<runVars, again>>
  <2>1. Left({})
    BY <1>1, <1>3, LeftFacts
  <2>2. Beside({})
    BY <1>1, <1>3, <2>1 DEF Beside
  <2>3. \A r \in RailSet : Tended(r)'
    BY <1>1, <1>3 DEF Tended
  <2> QED
    BY <1>1, <2>2, <2>3, PassWaits
<1>4. CASE ~held /\ Kind[q] = "gavin" /\ LaunchGavin(q)
  <2>1. CASE Stall(q, {}) /\ UNCHANGED again
    BY <1>1, <1>2, <2>1, StallTends
  <2>2. CASE /\ again' = TRUE
             /\ Then(IF rail[Target[q]].st = "idle"
                     THEN <<RailOp("startRail", Target[q], 0)>> ELSE <<>>)
    <3>1. PICK X : Beside(X)
      <4>1. CASE rail[Target[q]].st = "idle"
        <5>1. Target[q] \in RailSet
          BY <1>4, RailsAssumption
        <5>2. PICK a \in Ops : a = RailOp("startRail", Target[q], 0) /\ a.kind = "startRail"
          BY <5>1, RailOps DEF RailOp, Railed
        <5>3. Then(<<a>>)
          BY <2>2, <4>1, <5>2
        <5>4. Left({a})
          BY <1>1, <5>3, LeftFacts
        <5>5. Beside({a})
          BY <1>1, <2>2, <5>2, <5>4 DEF Beside
        <5> QED
          BY <5>5
      <4>2. CASE rail[Target[q]].st # "idle"
        <5>1. Left({})
          BY <1>1, <2>2, <4>2, LeftFacts
        <5>2. Beside({})
          BY <1>1, <2>2, <5>1 DEF Beside
        <5> QED
          BY <5>2
      <4> QED
        BY <4>1, <4>2
    <3>2. \A r \in RailSet : Tended(r)'
      BY <2>2, ComingTends DEF Coming
    <3> QED
      BY <1>1, <3>1, <3>2, PassWaits
  <2> QED
    BY <1>4, <2>1, <2>2 DEF LaunchGavin
<1>5. CASE ~held /\ Kind[q] = "card" /\ LaunchCard(q) /\ UNCHANGED again
  <2>1. CASE q \in locked
    <3>1. SetStep(q, "stalled", FALSE, {}) /\ Then(<<>>)
      BY <1>5, <2>1 DEF LaunchCard
    <3>2. refused' = 0 => Waits(q)'
      BY <1>1, <2>1, <3>1, SetStepActs DEF Waits, RailsInv
    <3> QED
      BY <1>1, <1>2, <1>5, <3>1, <3>2, WrittenTends
  <2>2. CASE q \notin locked
    <3>1. Then(<<StepOp("create", q)>>) /\ UNCHANGED runVars
      BY <1>5, <2>2 DEF LaunchCard
    <3> QED
      BY <1>1, <1>2, <1>5, <3>1, AwaitedTends
  <2> QED
    BY <2>1, <2>2
<1>6. CASE ~held /\ Kind[q] \notin {"gavin", "card"} /\ LaunchTool(q) /\ UNCHANGED again
  <2>1. CASE /\ Kind[q] \in {"review", "pr"}
             /\ SetStep(q, "running", FALSE, IF Kind[q] = "pr" THEN {} ELSE {0})
             /\ Then(<<>>)
    <3>1. PICK count : count = IF Kind[q] = "pr" THEN {} ELSE {0}
      OBVIOUS
    <3>2. SetStep(q, "running", FALSE, count)
      BY <2>1, <3>1
    <3>3. refused' = 0 => Waits(q)'
      BY <1>1, <2>1, <3>2, SetStepActs DEF Waits, RailsInv
    <3> QED
      BY <1>1, <1>2, <1>6, <2>1, <3>2, <3>3, WrittenTends
  <2>2. CASE Then(<<StepOp("create", q)>>) /\ UNCHANGED runVars
    BY <1>1, <1>2, <1>6, <2>2, AwaitedTends
  <2> QED
    BY <1>6, <2>1, <2>2 DEF LaunchTool
<1> QED
  BY <1>2, <1>3, <1>4, <1>5, <1>6 DEF DoLaunch

\* A session's creation leaves the bind of its step.
LEMMA DoCreateTends ==
    ASSUME RailsInv, WaitsInv, DoCreate
    PROVE  WaitsInv'
<1>1. /\ Doing("create") /\ hand' = hand /\ held' = held /\ locked' = locked
      /\ tickAgain' = tickAgain /\ again' = again /\ overridden' = overridden
      /\ "create" \in Stepped
  BY DEF DoCreate, boundVars, Stepped
<1>2. PICK q \in Steps : q = Head(pass).step
  BY <1>1, HeadIsDue DEF RailsInv
<1>3. CASE /\ ses' = [ses EXCEPT ![q] = "new"]
           /\ Then(<<StepOp("bind", q)>>) /\ UNCHANGED runVars
  <2>1. PICK k \in {"create", "bind"} : k = "bind"
    OBVIOUS
  <2>2. Then(<<StepOp(k, q)>>) /\ IF k = "bind" THEN ses' = [ses EXCEPT ![q] = "new"]
                                  ELSE ses' = ses
    BY <1>3, <2>1
  <2> QED
    BY <1>1, <1>2, <1>3, <2>2, AwaitedTends
<1>4. CASE Stall(q, {}) /\ UNCHANGED ses
  BY <1>1, <1>2, <1>4, StallTends
<1> QED
  BY <1>2, <1>3, <1>4 DEF DoCreate

\* The row names a session at its first prompt, or one that has changed
\* since, which ticked.
LEMMA DoBindTends ==
    ASSUME RailsInv, WaitsInv, DoBind
    PROVE  WaitsInv'
<1>1. /\ Doing("bind") /\ Head(pass).kind = "bind" /\ pass # <<>> /\ cpu # "tick"
      /\ hand' = hand /\ held' = held /\ locked' = locked /\ Then(<<>>)
      /\ tickAgain' = tickAgain /\ again' = again /\ overridden' = overridden /\ ses' = ses
      /\ "bind" \in Stepped /\ PassInv
  BY DEF DoBind, Doing, PassUnchanged, worldVars, boundVars, Stepped, RailsInv
<1>2. PICK q \in Steps : q = Head(pass).step
  BY <1>1, HeadIsDue
<1>3. Head(pass) \in Listed(pass)
  BY <1>1, LeftFacts
<1>4. ses[q] = "new" \/ Coming
  BY <1>1, <1>2, <1>3 DEF WaitsInv, BindInv
<1>5. PICK count : count = IF Kind[q] = "until" THEN {} ELSE {0}
  OBVIOUS
<1>6. SetStep(q, "running", TRUE, count)
  BY <1>2, <1>5 DEF DoBind
<1>7. ASSUME refused' = 0, ses[q] = "new"
      PROVE  Waits(q)'
  <2>1. row'[q].st = "running" /\ row'[q].ses = TRUE
    <3>1. ~Refuse
      <4>1. refused \in Nat /\ refused + 1 # 0
        BY DEF RailsInv, RowsInv
      <4> QED
        BY <1>7, <4>1 DEF Refuse
    <3>2. PICK n : row' = [row EXCEPT ![q] = [st |-> "running", ses |-> TRUE, tries |-> n]]
      BY <1>6, <3>1 DEF SetStep
    <3> QED
      BY <3>2 DEF RailsInv, RowsInv
  <2>2. SessionOf(q)' = "new"
    BY <1>1, <1>7, <2>1 DEF SessionOf
  <2> QED
    BY <2>1, <2>2 DEF Waits, AgentTurnEnded, Healthy
<1>8. Coming => Coming'
  BY <1>1 DEF Coming, Ticks
<1> QED
  BY <1>1, <1>2, <1>4, <1>6, <1>7, <1>8, WrittenTends

\* Of some numbers one is the least.
LEMMA Least ==
    ASSUME NEW X \in SUBSET Nat, X # {}
    PROVE  \E m \in X : \A k \in X : m <= k
<1>1. PICK m \in X : \A k \in X : <<k, m>> \notin OpToRel(<, Nat)
  BY WFMin, NatLessThanWellFounded, Zenon
<1>2. \A k \in X : ~ (k < m)
  BY <1>1, Zenon DEF OpToRel
<1> QED
  BY <1>2

\* The walk of a rail leaves all its stages, or comes to one it does not
\* leave.
LEMMA WalkEnds ==
    ASSUME RowsInv, NEW r \in RailSet, rail[r].at \in 1..Len(Stages[r])
    PROVE  \/ \E j \in 1..Len(Stages[r]) : Walked(r, j) /\ ~StagePasses(r, j)
           \/ Walked(r, Len(Stages[r])) /\ StagePasses(r, Len(Stages[r]))
<1>1. Stages[r] \in Seq(Seq(Steps)) /\ Len(Stages[r]) \in Nat
  BY RailsAssumption
<1> DEFINE open == {j \in rail[r].at..Len(Stages[r]) : ~StagePasses(r, j)}
<1>2. CASE open # {}
  <2>1. open \in SUBSET Nat
    BY <1>1
  <2> HIDE DEF open
  <2>2. PICK j \in open : \A k \in open : j <= k
    BY <1>2, <2>1, Least
  <2>3. j \in 1..Len(Stages[r]) /\ j >= rail[r].at /\ ~StagePasses(r, j)
    BY <1>1, <2>2 DEF open
  <2>4. \A k \in rail[r].at..j - 1 : StagePasses(r, k)
    BY <1>1, <2>2, <2>3 DEF open
  <2> QED
    BY <2>3, <2>4 DEF Walked
<1>3. CASE open = {}
  <2>1. \A k \in rail[r].at..Len(Stages[r]) : StagePasses(r, k)
    BY <1>3
  <2> QED
    BY <1>1, <2>1 DEF Walked
<1> QED
  BY <1>2, <1>3

\* A pass takes a running rail from a stage the walk leaves to the next.
LEMMA WalkAdvances ==
    ASSUME RowsInv, NEW r \in RailSet, rail[r].st = "running",
           rail[r].at \in 1..Len(Stages[r]),
           NEW a \in Listed(NextActions), a.kind = "advance", a.rail = r
    PROVE  \E j \in 1..Len(Stages[r]) :
              /\ Walked(r, j) /\ StagePasses(r, j)
              /\ a.n = j + 1 /\ a.n \in 1..Len(Stages[r])
<1>1. PICK q \in RailSet : a \in Listed(Decided(q)) /\ Belongs(a, q)
  BY NextLists
<1>2. a \in Listed(WalkRail(r))
  BY <1>1 DEF Belongs, Rules, Decided
<1>3. PICK j \in 1..Len(Stages[r]) :
         /\ Walked(r, j)
         /\ \/ a \in Listed(WalkStage(r, j))
            \/ StagePasses(r, j) /\ a = LeaveOp(r, j)
  BY <1>2, WalkRailLists
<1>4. a \notin Listed(WalkStage(r, j))
  <2>1. \A b \in Listed(WalkStage(r, j)) : b.rail = "none"
    BY WalkStageLists
  <2> QED
    BY <2>1, OncesAssumption
<1>5. StagePasses(r, j) /\ a.n = j + 1 /\ j # Len(Stages[r])
  BY <1>3, <1>4 DEF LeaveOp, RailOp, Op
<1>6. Len(Stages[r]) \in Nat
  <2>1. Stages[r] \in Seq(Seq(Steps))
    BY RailsAssumption
  <2> QED
    BY <2>1
<1> QED
  BY <1>3, <1>5, <1>6

\* Rules 1 to 3 have nothing to say only of a step that something will move.
LEMMA SilentRule ==
    ASSUME RowsInv, WorldInv, NEW s \in Steps, Rule(s) = "none", ~Finished(row[s].st)
    PROVE  Waits(s)
<1>1. row[s].st \in {"pending", "running", "done", "stalled", "skipped"}
  BY DEF RowsInv
<1>2. row[s].st = "running" /\ RunningRule(s) = "none"
  BY <1>1 DEF Rule, Finished
<1>3. CASE Kind[s] \in {"review", "pr"}
  BY <1>2, <1>3 DEF Waits
<1>4. CASE Kind[s] \notin {"review", "pr"}
  <2>1. SessionOf(s) \in Live \cup Dead
    BY <1>2, <1>4 DEF RowsInv, RunningNamed, WorldInv, SessionOf
  <2>2. DeadSessionAction(s) # "none" /\ \A x \in BOOLEAN : LoopVerdict(s, x) # "none"
    BY DEF DeadSessionAction, LoopVerdict
  <2>3. SessionOf(s) \in Healthy /\ ~AgentTurnEnded(s)
    BY <1>2, <1>4, <2>1, <2>2 DEF RunningRule, Live, Dead, Healthy
  <2> QED
    BY <1>2, <2>3 DEF Waits
<1> QED
  BY <1>3, <1>4

\* A pass that leaves a stage of a running rail unfinished has read that its
\* first open step is waited on, or says something of it.
LEMMA WalkTends ==
    ASSUME RowsInv, WorldInv, NEW r \in RailSet, rail[r].st = "running",
           rail[r].at \in 1..Len(Stages[r]), NEW j \in 1..Len(Stages[r]),
           Walked(r, j), ~StagePasses(r, j)
    PROVE  \E s \in Steps :
              /\ Owning[s] = r /\ StageOf[s] = j
              /\ \A a \in Listed(NextActions) : a.kind = "markDone" => a.step # s
              /\ Waits(s) \/ \E a \in Listed(NextActions) : a.kind \in Stepped /\ a.step = s
<1>1. Stages[r] \in Seq(Seq(Steps)) /\ DOMAIN Stages[r][j] = 1..Len(Stages[r][j])
  <2>1. Stages[r] \in Seq(Seq(Steps))
    BY RailsAssumption
  <2>2. Stages[r][j] \in Seq(Steps)
    BY <2>1
  <2> QED
    BY <2>1, <2>2
<1> DEFINE open == {i \in 1..Len(Stages[r][j]) : ~Finished(Simulated(Stages[r][j][i]))}
<1>2. open # {} /\ open \in SUBSET Nat
  BY <1>1 DEF StagePasses
<1> HIDE DEF open
<1>3. PICK i \in open : \A k \in open : i <= k
  BY <1>2, Least
<1>4. i \in 1..Len(Stages[r][j]) /\ ~Finished(Simulated(Stages[r][j][i]))
  BY <1>3 DEF open
<1>5. Reached(r, j, i)
  <2>1. Len(Stages[r][j]) \in Nat
    <3>1. Stages[r][j] \in Seq(Steps)
      BY <1>1
    <3> QED
      BY <3>1
  <2>2. \A k \in 1..i - 1 : k \in 1..Len(Stages[r][j]) /\ ~(i <= k)
    BY <1>4, <2>1
  <2> QED
    BY <1>3, <2>2 DEF Reached, open
<1>6. PICK s \in Steps : s = Stages[r][j][i] /\ Owning[s] = r /\ StageOf[s] = j
  <2>1. \A l \in 1..Len(Stages[r]) : \A m \in 1..Len(Stages[r][l]) :
          \E q \in Steps : q = Stages[r][l][m] /\ Owning[q] = r /\ StageOf[q] = l
    BY StepPlace
  <2>2. \E q \in Steps : q = Stages[r][j][i] /\ Owning[q] = r /\ StageOf[q] = j
    BY <1>4, <2>1, Zenon
  <2> QED
    BY <2>2
<1>7. Rule(s) # "markDone" /\ ~Finished(row[s].st)
  BY <1>4, <1>6, SimulatedFacts
<1>8. \A a \in Listed(NextActions) : a.kind = "markDone" => a.step # s
  BY <1>6, <1>7, MarkedByRule
<1>9. CASE Rule(s) = "none"
  BY <1>6, <1>7, <1>8, <1>9, SilentRule
<1>10. CASE Rule(s) # "none"
  <2>1. PICK a \in Listed(WalkStage(r, j)) : a.kind = Rule(s) /\ a.step = s
    BY <1>4, <1>5, <1>6, <1>10, WalkStageLists
  <2>2. a \in Listed(WalkRail(r))
    BY <2>1, WalkRailLists
  <2>3. a \in Listed(NextActions)
    BY <2>2, NextLists DEF Decided
  <2>4. a.kind \in Stepped
    BY <1>10, <2>1, RuleFacts DEF Rules, Stepped
  <2> QED
    BY <1>6, <1>8, <2>1, <2>3, <2>4
<1> QED
  BY <1>9, <1>10

\* A pass takes a running rail to the stage whose open step is waited on.
LEMMA WalkPlaces ==
    ASSUME RowsInv, NEW r \in RailSet, rail[r].st = "running", rail' = rail,
           rail[r].at \in 1..Len(Stages[r]), NEW j \in 1..Len(Stages[r]),
           Walked(r, j), ~StagePasses(r, j), pass' = NextActions,
           NEW s \in Steps, Owning[s] = r, StageOf[s] = j
    PROVE  AtEnd(s)'
<1>1. Stages[r] \in Seq(Seq(Steps)) /\ Len(Stages[r]) \in Nat /\ rail[r].at \in Nat
  BY RailsAssumption
<1>2. ASSUME NEW a \in Advances(r)'
      PROVE  a.n <= j /\ rail[r].at < j /\ a.n \in Nat
  <2>1. PICK l \in 1..Len(Stages[r]) : Walked(r, l) /\ StagePasses(r, l) /\ a.n = l + 1
    BY <1>2, WalkAdvances DEF Advances
  <2>2. ~(j \in rail[r].at..l - 1) /\ l # j /\ j >= rail[r].at /\ l >= rail[r].at
    BY <2>1 DEF Walked
  <2> QED
    BY <1>1, <2>1, <2>2
<1>3. CASE j = rail[r].at
  BY <1>1, <1>2, <1>3 DEF AtEnd
<1>4. CASE j # rail[r].at
  <2>1. j - 1 \in 1..Len(Stages[r]) /\ j - 1 >= rail[r].at /\ j - 1 \in rail[r].at..j - 1
        /\ j - 1 # Len(Stages[r]) /\ (j - 1) + 1 = j
    BY <1>1, <1>4 DEF Walked
  <2>2. Walked(r, j - 1) /\ StagePasses(r, j - 1)
    BY <1>1, <2>1 DEF Walked
  <2>3. LeaveOp(r, j - 1) \in Listed(WalkRail(r))
    BY <2>1, <2>2, WalkRailLists
  <2>4. PICK a : a = RailOp("advance", r, j) /\ a = LeaveOp(r, j - 1)
    BY <2>1 DEF LeaveOp
  <2>5. a \in Listed(NextActions)
    BY <2>3, <2>4, NextLists DEF Decided
  <2>6. a \in Advances(r)' /\ a.n = j
    BY <2>4, <2>5 DEF Advances, RailOp, Op
  <2> QED
    BY <1>2, <2>6 DEF AtEnd
<1> QED
  BY <1>3, <1>4

\* What a pass decides for a running rail: it stops it, or it leaves it at a
\* step that is waited on or written about.
LEMMA RunTickTends ==
    ASSUME RailsInv, WaitsInv, RunTick
    PROVE  WaitsInv'
<1>1. /\ pass' = NextActions /\ rail' = rail /\ row' = row /\ refused' = refused
      /\ ses' = ses /\ hand' = hand /\ locked' = locked /\ RowsInv /\ WorldInv
  BY DEF RunTick, runVars, worldVars, RailsInv
<1>2. \A a \in Listed(pass') : \E r \in RailSet : a \in Listed(Decided(r)) /\ Belongs(a, r)
  BY <1>1, NextLists
<1>3. \A a \in Listed(pass') : a.kind \notin {"count", "rearm", "bind"}
  BY <1>2 DEF Belongs, Rules
<1>4. RearmAgain' /\ BindInv' /\ ResetTail'
  BY <1>1, <1>3 DEF WaitsInv, RearmAgain, BindInv, ResetTail
<1>5. ASSUME NEW r \in RailSet, rail[r].st = "running"
      PROVE  Tended(r)'
  <2>0. Stages[r] \in Seq(Seq(Steps)) /\ rail[r].at \in Nat /\ Len(Stages[r]) \in Nat
        /\ DOMAIN Stages[r] = 1..Len(Stages[r])
    BY <1>1, RailsAssumption DEF RowsInv
  <2>1. Decided(r) = WalkRail(r) /\ Listed(WalkRail(r)) \subseteq Listed(pass')
    BY <1>1, <1>5, NextLists DEF Decided
  <2>2. ASSUME RailOp("complete", r, 0) \in Listed(pass')
        PROVE  Tended(r)'
    <3>1. Stop(RailOp("complete", r, 0), r)
      BY DEF Stop, RailOp, Op
    <3> QED
      BY <2>2, <3>1 DEF Tended, Stops
  <2>3. CASE rail[r].at \notin 1..Len(Stages[r])
    <3>1. PICK b : b = RailOp("complete", r, 0)
      OBVIOUS
    <3>2. WalkRail(r) = <<b>> /\ Len(<<b>>) = 1 /\ <<b>>[1] = b /\ 1 \in 1..1
      BY <2>0, <2>3, <3>1 DEF WalkRail
    <3>3. b \in Listed(pass')
      BY <2>1, <3>2 DEF Listed
    <3> QED
      BY <2>2, <3>1, <3>3
  <2>4. CASE /\ rail[r].at \in 1..Len(Stages[r])
             /\ Walked(r, Len(Stages[r])) /\ StagePasses(r, Len(Stages[r]))
    <3>1. LeaveOp(r, Len(Stages[r])) \in Listed(pass')
      BY <1>1, <2>0, <2>1, <2>4, WalkRailLists DEF Walked
    <3> QED
      BY <2>2, <3>1 DEF LeaveOp
  <2>5. CASE /\ rail[r].at \in 1..Len(Stages[r])
             /\ \E j \in 1..Len(Stages[r]) : Walked(r, j) /\ ~StagePasses(r, j)
    <3>1. PICK j \in 1..Len(Stages[r]) : Walked(r, j) /\ ~StagePasses(r, j)
      BY <2>5
    <3>2. PICK s \in Steps :
             /\ Owning[s] = r /\ StageOf[s] = j
             /\ \A a \in Listed(NextActions) : a.kind = "markDone" => a.step # s
             /\ Waits(s) \/ \E a \in Listed(NextActions) : a.kind \in Stepped /\ a.step = s
      BY <1>1, <1>5, <2>5, <3>1, WalkTends
    <3>3. AtEnd(s)'
      BY <1>1, <1>5, <2>5, <3>1, <3>2, WalkPlaces
    <3>4. Waits(s) => Waits(s)'
      BY <1>1 DEF Waits, SessionOf, AgentTurnEnded
    <3>5. Works(s)'
      BY <1>1, <3>2, <3>4 DEF Works, Marked, About
    <3> QED
      BY <3>2, <3>3, <3>5 DEF Tended
  <2> QED
    BY <1>1, <2>3, <2>4, <2>5, WalkEnds
<1> QED
  BY <1>1, <1>4, <1>5 DEF WaitsInv, WaitInv

\* The end of a pass that another one follows.
LEMMA EndPassTends ==
    ASSUME RailsInv, WaitsInv, EndPass
    PROVE  WaitsInv'
<1>1. /\ pass' = pass /\ rail' = rail /\ row' = row /\ ses' = ses /\ refused' = refused
      /\ hand' = hand /\ locked' = locked /\ held' = held /\ overridden' = overridden
      /\ pass = <<>> /\ cpu # "tick" /\ cpu' = IF tickAgain \/ again THEN "tick" ELSE "free"
  BY DEF EndPass, runVars, worldVars, boundVars
<1>2. Listed(pass) = {}
  <2>1. Len(<<>>) = 0 /\ 1..0 = {}
    OBVIOUS
  <2> QED
    BY <1>1, <2>1 DEF Listed
<1>3. Coming => Coming'
  BY <1>1 DEF Coming, Ticks
<1>4. RearmAgain' /\ BindInv' /\ ResetTail'
  BY <1>1, <1>2 DEF WaitsInv, RearmAgain, BindInv, ResetTail
<1>5. ASSUME refused' = 0, NEW r \in RailSet, rail'[r].st = "running"
      PROVE  Tended(r)'
  <2>1. Tended(r)
    BY <1>1, <1>5 DEF WaitsInv, WaitInv
  <2>2. Resetting(r)' <=> Resetting(r)
    BY <1>1 DEF Resetting
  <2>3. ~Stops(r)
    BY <1>2 DEF Stops
  <2>4. CASE \E s \in Steps : Owning[s] = r /\ AtEnd(s) /\ Works(s)
    <3>1. PICK s \in Steps : Owning[s] = r /\ AtEnd(s) /\ Works(s)
      BY <2>4
    <3>2. AtEnd(s)' /\ Works(s)'
      BY <1>1, <3>1 DEF AtEnd, Advances, Works, Waits, Marked, About, SessionOf,
         AgentTurnEnded
    <3> QED
      BY <3>1, <3>2 DEF Tended
  <2> QED
    BY <1>1, <1>3, <2>1, <2>2, <2>3, <2>4 DEF Tended
<1> QED
  BY <1>4, <1>5 DEF WaitsInv, WaitInv

\* What happens beside a pass: another pass is to come, or a rail is stopped,
\* is being reset, or is left alone.
LEMMA BesideTends ==
    ASSUME RailsInv, WaitsInv, pass' = pass, ResetTail', again => again', Coming => Coming',
           \/ Coming'
           \/ /\ ses' = ses /\ held' = held /\ locked' = locked
              /\ overridden \subseteq overridden'
              /\ refused' = 0 =>
                    /\ refused = 0
                    /\ \A r \in RailSet :
                          \/ rail'[r].st # "running"
                          \/ Resetting(r)'
                          \/ /\ rail'[r] = rail[r] /\ (Resetting(r) => Resetting(r)')
                             /\ \A s \in Steps : Owning[s] = r => row'[s] = row[s]
    PROVE  WaitsInv'
<1>1. RearmAgain'
  BY DEF WaitsInv, RearmAgain
<1>2. CASE Coming'
  BY <1>1, <1>2 DEF WaitsInv, BindInv, WaitInv, Tended
<1>3. CASE /\ ses' = ses /\ held' = held /\ locked' = locked
           /\ overridden \subseteq overridden'
           /\ refused' = 0 =>
                 /\ refused = 0
                 /\ \A r \in RailSet :
                       \/ rail'[r].st # "running"
                       \/ Resetting(r)'
                       \/ /\ rail'[r] = rail[r] /\ (Resetting(r) => Resetting(r)')
                          /\ \A s \in Steps : Owning[s] = r => row'[s] = row[s]
  <2>1. BindInv'
    BY <1>3 DEF WaitsInv, BindInv
  <2>2. ASSUME refused' = 0, NEW r \in RailSet, rail'[r].st = "running"
        PROVE  Tended(r)'
    <3>1. CASE Resetting(r)'
      BY <3>1 DEF Tended
    <3>2. CASE /\ rail'[r] = rail[r] /\ (Resetting(r) => Resetting(r)')
               /\ \A s \in Steps : Owning[s] = r => row'[s] = row[s]
      <4>1. Tended(r)
        BY <1>3, <2>2, <3>2 DEF WaitsInv, WaitInv
      <4>2. Stops(r) => Stops(r)'
        BY DEF Stops
      <4>3. CASE \E s \in Steps : Owning[s] = r /\ AtEnd(s) /\ Works(s)
        <5>1. PICK s \in Steps : Owning[s] = r /\ AtEnd(s) /\ Works(s)
          BY <4>3
        <5>2. row'[s] = row[s] /\ Advances(r)' = Advances(r)
          BY <3>2, <5>1 DEF Advances
        <5>3. AtEnd(s)'
          BY <3>2, <5>1, <5>2 DEF AtEnd
        <5>4. Works(s)'
          BY <1>3, <5>1, <5>2 DEF Works, Waits, Marked, About, SessionOf, AgentTurnEnded
        <5> QED
          BY <5>1, <5>3, <5>4 DEF Tended
      <4> QED
        BY <1>3, <3>2, <4>1, <4>2, <4>3 DEF Tended
    <3> QED
      BY <1>3, <2>2, <3>1, <3>2
  <2> QED
    BY <1>1, <2>1, <2>2 DEF WaitsInv, WaitInv
<1> QED
  BY <1>2, <1>3

\* A handler that takes steps back goes on to their rail.
LEMMA HandResets ==
    ASSUME HandInv, ResetTail, hand # <<>>, hand' = Tail(hand)
    PROVE  /\ ResetTail'
           /\ \A r : Head(hand).kind = "reset" /\ r = Owning[Head(hand).step] =>
                        Resetting(r)'
           /\ \A r : Resetting(r) /\ ~(Head(hand).kind = "idle" /\ Head(hand).rail = r) =>
                        Resetting(r)'
<1>1. PICK p \in Seq(Handed) : p = hand /\ p # <<>>
  BY DEF HandInv
<1>2. PICK t \in Seq(Handed) : t = Tail(p) /\ Len(t) = Len(p) - 1
  BY <1>1, TailOf
<1>3. /\ Len(p) \in Nat /\ Len(p) # 0 /\ Head(p) = p[1] /\ Len(t) \in Nat
      /\ \A i \in 1..Len(t) : i + 1 \in 1..Len(p) /\ t[i] = p[i + 1]
  BY <1>1, <1>2, TailOf
<1>4. \A i \in 1..Len(p) : i # 1 => i - 1 \in 1..Len(t) /\ t[i - 1] = p[i]
  BY <1>2, <1>3
<1>5. hand' = t
  BY <1>1, <1>2
<1>6. ASSUME NEW i \in 1..Len(t), t[i].kind = "reset"
      PROVE  t[Len(t)].kind = "idle" /\ t[Len(t)].rail = Owning[t[i].step]
  <2>1. i + 1 \in 1..Len(p) /\ p[i + 1].kind = "reset" /\ p[i + 1] = t[i]
    BY <1>3, <1>6
  <2>2. p[Len(p)].kind = "idle" /\ p[Len(p)].rail = Owning[t[i].step]
    BY <1>1, <2>1 DEF ResetTail
  <2>3. Len(t) \in 1..Len(t) /\ Len(t) + 1 = Len(p)
    BY <1>2, <1>3
  <2>4. t[Len(t)] = p[Len(p)]
    BY <1>3, <2>3
  <2> QED
    BY <2>2, <2>4
<1>7. ASSUME p[1].kind = "reset"
      PROVE  \E j \in 1..Len(t) : t[j].kind = "idle" /\ t[j].rail = Owning[p[1].step]
  <2>1. 1 \in 1..Len(p) /\ Len(p) \in 1..Len(p)
    BY <1>3
  <2>2. p[Len(p)].kind = "idle" /\ p[Len(p)].rail = Owning[p[1].step]
    BY <1>1, <1>7, <2>1 DEF ResetTail
  <2>3. Len(p) # 1
    BY <1>7, <2>2
  <2>4. Len(p) - 1 \in 1..Len(t) /\ t[Len(p) - 1] = p[Len(p)]
    BY <1>4, <2>1, <2>3
  <2> QED
    BY <2>2, <2>4
<1>8. ASSUME NEW r, NEW i \in 1..Len(p), p[i].kind = "idle", p[i].rail = r,
             ~(p[1].kind = "idle" /\ p[1].rail = r)
      PROVE  \E j \in 1..Len(t) : t[j].kind = "idle" /\ t[j].rail = r
  <2>1. i # 1
    BY <1>8
  <2>2. i - 1 \in 1..Len(t) /\ t[i - 1] = p[i]
    BY <1>4, <2>1
  <2> QED
    BY <1>8, <2>2
<1>9. ResetTail'
  BY <1>5, <1>6 DEF ResetTail
<1>10. \A r : Head(hand).kind = "reset" /\ r = Owning[Head(hand).step] => Resetting(r)'
  BY <1>1, <1>3, <1>5, <1>7 DEF Resetting
<1>11. \A r : Resetting(r) /\ ~(Head(hand).kind = "idle" /\ Head(hand).rail = r) => Resetting(r)'
  BY <1>1, <1>3, <1>5, <1>8 DEF Resetting
<1> QED
  BY <1>9, <1>10, <1>11

\* A press carried out write by write: it ticks, or it resets a rail.
LEMMA HandStepTends ==
    ASSUME RailsInv, StallsInv, WaitsInv, HandStep
    PROVE  WaitsInv'
<1>1. /\ hand' = Tail(hand) /\ hand # <<>> /\ cpu # "tick" /\ held' = held
      /\ locked' = locked /\ ses' = ses /\ overridden' = overridden
      /\ HandInv /\ HandTail /\ ResetTail /\ RowsInv
  BY DEF HandStep, Handling, worldVars, boundVars, RailsInv, StallsInv, WaitsInv
<1>2. /\ Head(hand).kind # "tick" => (Ticks => Ticks')
      /\ Head(hand).kind = "unpause" => Ticks'
  BY <1>1, HandGoesOn
<1>3. /\ ResetTail'
      /\ \A r : Head(hand).kind = "reset" /\ r = Owning[Head(hand).step] => Resetting(r)'
      /\ \A r : Resetting(r) /\ ~(Head(hand).kind = "idle" /\ Head(hand).rail = r) =>
                   Resetting(r)'
  BY <1>1, HandResets
<1>4. Head(hand) \in Handed
  <2>1. PICK p \in Seq(Handed) : p = hand /\ p # <<>>
    BY <1>1 DEF HandInv
  <2> QED
    BY <2>1, TailOf
<1>5. CASE Handling("tick") /\ UNCHANGED runVars /\ Tick
  <2>1. Coming' /\ pass' = pass /\ again' = again
    BY <1>5, TickComes
  <2> QED
    BY <1>3, <2>1, BesideTends
<1>6. ASSUME Head(hand).kind # "tick", UNCHANGED passVars
      PROVE  pass' = pass /\ again' = again /\ (Coming => Coming')
  BY <1>1, <1>2, <1>6 DEF passVars, Coming
<1>7. CASE /\ Handling("reset") /\ SetStep(Head(hand).step, "pending", FALSE, {0})
           /\ UNCHANGED passVars
  <2>1. Head(hand).kind = "reset"
    BY <1>7 DEF Handling
  <2>2. PICK q \in Steps : q = Head(hand).step
    BY <1>4, <2>1 DEF Handed
  <2>3. refused' = 0 =>
          /\ refused = 0 /\ rail' = rail /\ row'[q].st = "pending"
          /\ \A t \in Steps : t # q => row'[t] = row[t]
    BY <1>1, <1>7, <2>2, SetStepActs
  <2>4. /\ \A r : r = Owning[q] => Resetting(r)'
        /\ \A r : Resetting(r) => Resetting(r)'
    BY <1>3, <2>1, <2>2
  <2>5. ASSUME refused' = 0, NEW r \in RailSet
        PROVE  \/ Resetting(r)'
               \/ /\ rail'[r] = rail[r] /\ (Resetting(r) => Resetting(r)')
                  /\ \A s \in Steps : Owning[s] = r => row'[s] = row[s]
    <3>1. CASE r = Owning[q]
      BY <2>4, <3>1
    <3>2. CASE r # Owning[q]
      <4>1. \A s \in Steps : Owning[s] = r => row'[s] = row[s]
        BY <2>3, <2>5, <3>2
      <4> QED
        BY <2>3, <2>4, <2>5, <4>1
    <3> QED
      BY <3>1, <3>2
  <2>6. pass' = pass /\ again' = again /\ (Coming => Coming')
    BY <1>6, <1>7, <2>1
  <2> QED
    BY <1>1, <1>3, <2>3, <2>5, <2>6, BesideTends
<1>8. CASE /\ Handling("idle") /\ SetRail(Head(hand).rail, "idle", 0)
           /\ UNCHANGED passVars
  <2>1. Head(hand).kind = "idle"
    BY <1>8 DEF Handling
  <2>2. PICK q \in RailSet : q = Head(hand).rail
    BY <1>4, <2>1 DEF Handed
  <2>3. refused' = 0 =>
          /\ refused = 0 /\ row' = row /\ rail'[q].st = "idle"
          /\ \A o \in RailSet : o # q => rail'[o] = rail[o]
    BY <1>1, <1>8, <2>2, SetRailActs
  <2>4. \A r : r # q => (Resetting(r) => Resetting(r)')
    BY <1>3, <2>2
  <2>5. refused' = 0 => \A r \in RailSet :
           \/ rail'[r].st # "running"
           \/ /\ rail'[r] = rail[r] /\ (Resetting(r) => Resetting(r)')
              /\ \A s \in Steps : Owning[s] = r => row'[s] = row[s]
    BY <2>3, <2>4
  <2>6. pass' = pass /\ again' = again /\ (Coming => Coming')
    BY <1>6, <1>8, <2>1
  <2> QED
    BY <1>1, <1>3, <2>3, <2>5, <2>6, BesideTends
<1>9. CASE Handling("unpause") /\ UNCHANGED passVars
  <2>1. Head(hand).kind = "unpause"
    BY <1>9 DEF Handling
  <2>2. Coming'
    BY <1>2, <2>1 DEF Coming
  <2>3. pass' = pass /\ again' = again
    BY <1>6, <1>9, <2>1
  <2> QED
    BY <1>3, <2>2, <2>3, BesideTends
<1> QED
  BY <1>5, <1>7, <1>8, <1>9 DEF HandStep

\* What a press that resets nothing leaves for its handler.
LEMMA ShortTails ==
    /\ hand' = <<TickOp>> => ResetTail'
    /\ \A r, n : hand' = <<RailOp("unpause", r, n), TickOp>> => ResetTail'
    /\ hand' = <<>> => ResetTail'
<1>0. TickOp.kind = "tick"
  BY DEF TickOp, Op
<1>1. PICK a : a = TickOp /\ a.kind = "tick"
  BY <1>0
<1>2. ASSUME hand' = <<a>>
      PROVE  ResetTail'
  <2>1. Len(<<a>>) = 1 /\ <<a>>[1] = a /\ 1..1 = {1}
    OBVIOUS
  <2> QED
    BY <1>1, <1>2, <2>1 DEF ResetTail
<1>3. ASSUME NEW b, b.kind = "unpause", hand' = <<b, a>>
      PROVE  ResetTail'
  <2>1. Len(<<b, a>>) = 2 /\ <<b, a>>[1] = b /\ <<b, a>>[2] = a /\ 1..2 = {1, 2}
    OBVIOUS
  <2>2. \A i \in 1..Len(hand') : hand'[i].kind # "reset"
    BY <1>1, <1>3, <2>1
  <2> QED
    BY <2>2 DEF ResetTail
<1>4. \A r, n : RailOp("unpause", r, n).kind = "unpause"
  BY DEF RailOp, Op
<1>5. ASSUME hand' = <<>>
      PROVE  ResetTail'
  <2>1. Len(<<>>) = 0 /\ 1..0 = {}
    OBVIOUS
  <2> QED
    BY <1>5, <2>1 DEF ResetTail
<1>6. ASSUME NEW r, NEW n, hand' = <<RailOp("unpause", r, n), TickOp>>
      PROVE  ResetTail'
  <2>1. PICK b : b = RailOp("unpause", r, n) /\ b.kind = "unpause"
    BY <1>4
  <2>2. hand' = <<b, a>>
    BY <1>1, <1>6, <2>1
  <2> QED
    BY <1>3, <2>1, <2>2
<1> QED
  BY <1>1, <1>2, <1>5, <1>6

\* A press ticks, stops a rail, or begins to reset it.
LEMMA PressesTend ==
    ASSUME RailsInv, WaitsInv, Presses
    PROVE  WaitsInv'
<1>1. \A r \in RailSet : PressStart(r) \/ PressPause(r) \/ PressReset(r) => Press
  BY DEF PressStart, PressPause, PressReset
<1>2. \A s \in Steps : PressRetry(s) \/ PressMarkDone(s) \/ PressSkip(s) => Press
  BY DEF PressRetry, PressMarkDone, PressSkip
<1>3. Press
  BY <1>1, <1>2 DEF Presses
<1>4. /\ pass' = pass /\ again' = again /\ tickAgain' = tickAgain /\ cpu = "free"
      /\ hand = <<>> /\ held' = held /\ locked' = locked /\ ses' = ses
      /\ ~Ticks /\ \A r : ~Resetting(r)
  <2>1. Len(<<>>) = 0 /\ 1..0 = {}
    OBVIOUS
  <2> QED
    BY <1>3, <2>1 DEF Press, passVars, worldVars, Ticks, Resetting
<1>5. Coming => Coming'
  BY <1>4 DEF Coming
<1>6. CASE ResetTail' /\ Ticks'
  <2>1. Coming'
    BY <1>6 DEF Coming
  <2> QED
    BY <1>4, <1>6, <2>1, BesideTends
<1>7. ASSUME NEW r \in RailSet, PressStart(r)
      PROVE  ResetTail' /\ Ticks'
  BY <1>7, ShortHands, ShortTails DEF PressStart
<1>8. ASSUME NEW s \in Steps, PressRetry(s) \/ PressMarkDone(s) \/ PressSkip(s)
      PROVE  ResetTail' /\ Ticks'
  BY <1>8, ShortHands, ShortTails DEF PressRetry, PressMarkDone, PressSkip
<1>9. ASSUME NEW r \in RailSet, PressPause(r)
      PROVE  WaitsInv'
  <2>1. hand' = hand /\ SetRail(r, "paused", rail[r].at) /\ overridden' = overridden
    BY <1>9 DEF PressPause
  <2>2. ResetTail'
    BY <1>4, <2>1, ShortTails
  <2>3. refused' = 0 =>
          /\ refused = 0 /\ row' = row /\ rail'[r].st = "paused"
          /\ \A o \in RailSet : o # r => rail'[o] = rail[o]
    BY <2>1, SetRailActs DEF RailsInv
  <2>4. refused' = 0 => \A o \in RailSet :
           \/ rail'[o].st # "running"
           \/ /\ rail'[o] = rail[o] /\ (Resetting(o) => Resetting(o)')
              /\ \A s \in Steps : Owning[s] = o => row'[s] = row[s]
    BY <1>4, <2>3
  <2> QED
    BY <1>4, <1>5, <2>1, <2>2, <2>3, <2>4, BesideTends
<1>10. ASSUME NEW r \in RailSet, PressReset(r)
       PROVE  WaitsInv'
  <2>1. PICK flat \in Seq(StepsOf[r]) : flat = FlatSteps[r]
    BY FlatFacts
  <2>2. PICK p : p = [i \in 1..Len(flat) |-> StepOp("reset", flat[i])]
    OBVIOUS
  <2>3. Len(p) = Len(flat) /\ Len(p) \in Nat /\ p \in Seq(Handed)
        /\ \A i \in 1..Len(p) : Owning[p[i].step] = r
    <3>1. \A i \in 1..Len(flat) : flat[i] \in Steps /\ flat[i] \in StepsOf[r]
      BY <2>1 DEF Steps
    <3>2. \A i \in 1..Len(flat) : StepOp("reset", flat[i]) \in Handed
      BY <3>1, HandedOps
    <3>3. Len(flat) \in Nat
      OBVIOUS
    <3>4. p \in [1..Len(flat) -> Handed]
      BY <2>2, <3>2
    <3>5. \A s : StepOp("reset", s).step = s
      BY DEF StepOp, Op
    <3>6. \A i \in 1..Len(flat) : p[i].step = flat[i]
      BY <2>2, <3>5
    <3>7. \A i \in 1..Len(flat) : Owning[flat[i]] = r
      BY <3>1, Placing, StepsApart
    <3> QED
      BY <2>2, <3>3, <3>4, <3>6, <3>7
  <2>4. PICK a : a = RailOp("idle", r, 0) /\ a.kind = "idle" /\ a.rail = r
    <3>1. RailOp("idle", r, 0).kind = "idle" /\ RailOp("idle", r, 0).rail = r
      BY DEF RailOp, Op
    <3> QED
      BY <3>1
  <2>5. hand' = p \o <<a>> /\ UNCHANGED runVars /\ overridden' = overridden
    <3>1. DOMAIN flat = 1..Len(flat)
      OBVIOUS
    <3> QED
      BY <1>10, <2>1, <2>2, <2>4, <3>1 DEF PressReset
  <2>6. PICK q : q = p \o <<a>>
    OBVIOUS
  <2>7. /\ Len(q) = Len(p) + 1 /\ q[Len(q)] = a /\ Len(q) \in 1..Len(q)
        /\ \A i \in 1..Len(q) : i = Len(q) \/ (i \in 1..Len(p) /\ q[i] = p[i])
    <3>1. a \in Handed
      BY <2>4, HandedOps
    <3>2. <<a>> \in Seq(Handed) /\ Len(<<a>>) = 1 /\ <<a>>[1] = a
      BY <3>1
    <3>3. /\ Len(q) = Len(p) + 1 /\ q[Len(p) + 1] = a
          /\ \A i \in 1..Len(p) : q[i] = p[i]
      BY <2>3, <2>6, <3>2
    <3> QED
      BY <2>3, <3>3
  <2>8. ResetTail'
    <3>1. \A i \in 1..Len(q) : q[i].kind = "reset" => Owning[q[i].step] = r
      BY <2>3, <2>4, <2>7
    <3> QED
      BY <2>4, <2>5, <2>6, <2>7, <3>1 DEF ResetTail
  <2>9. rail' = rail /\ row' = row /\ refused' = refused
    BY <2>5 DEF runVars
  <2> QED
    BY <1>4, <1>5, <2>5, <2>8, <2>9, BesideTends
<1> QED
  BY <1>6, <1>7, <1>8, <1>9, <1>10 DEF Presses

\* What the world does, a tick follows; a reload begins a pass of its own.
LEMMA WorldMovesTend ==
    ASSUME RailsInv, WaitsInv, WorldMoves
    PROVE  WaitsInv'
<1>1. CASE World
  <2>1. Coming' /\ pass' = pass /\ again' = again /\ hand' = hand
    BY <1>1, TickComes DEF World
  <2>2. ResetTail'
    BY <2>1 DEF WaitsInv, ResetTail
  <2> QED
    BY <2>1, <2>2, BesideTends
<1>2. CASE Reloads
  <2>1. pass' = <<>> /\ hand' = <<>> /\ cpu' = "tick"
    BY <1>2 DEF Reloads
  <2>2. Len(<<>>) = 0 /\ 1..0 = {}
    OBVIOUS
  <2>3. Listed(pass') = {}
    BY <2>1, <2>2 DEF Listed
  <2>4. ResetTail'
    BY <2>1, ShortTails
  <2>5. Coming'
    BY <2>1 DEF Coming
  <2> QED
    BY <2>3, <2>4, <2>5 DEF WaitsInv, RearmAgain, BindInv, WaitInv, Tended
<1>3. \A s \in Steps : SessionTurns(s) \/ CardDone(s) \/ PullRequest(s) => World
  BY DEF SessionTurns, CardDone, PullRequest
<1>4. \A s : BlockerMoves(s) \/ LockMoves(s) => World
  BY DEF BlockerMoves, LockMoves
<1>5. HoldMoves \/ DaemonRestarts => World
  BY DEF HoldMoves, DaemonRestarts
<1> QED
  BY <1>1, <1>2, <1>3, <1>4, <1>5 DEF WorldMoves

\* Nothing runs in an empty window.
LEMMA WaitsInit == Init => WaitsInv
<1> SUFFICES ASSUME Init PROVE WaitsInv
  OBVIOUS
<1>1. pass = <<>> /\ hand = <<>> /\ rail = [r \in RailSet |-> [st |-> "idle", at |-> 0]]
  BY DEF Init
<1>2. Len(<<>>) = 0 /\ 1..0 = {}
  OBVIOUS
<1>3. Listed(pass) = {} /\ ResetTail
  BY <1>1, <1>2 DEF Listed, ResetTail
<1>4. \A r \in RailSet : rail[r].st # "running"
  BY <1>1
<1> QED
  BY <1>3, <1>4 DEF WaitsInv, RearmAgain, BindInv, WaitInv

\* Every step keeps it, one lemma for each action.
LEMMA WaitsNext == RailsInv /\ StallsInv /\ WaitsInv /\ [Next]_vars => WaitsInv'
<1> SUFFICES ASSUME RailsInv, StallsInv, WaitsInv, [Next]_vars PROVE WaitsInv'
  OBVIOUS
<1>1. CASE PassStep
  BY <1>1, DoMarkDoneTends, DoStallTends, DoLoopExhaustedTends, DoLoopBackTends,
     DoSetStepTends, DoSetRailTends, DoUnpauseTends, DoAdvanceTends, DoCompleteTends,
     DoArmTends, DoStartRailTends, DoLaunchTends, DoCreateTends, DoBindTends,
     RunTickTends, EndPassTends DEF PassStep
<1>2. CASE HandStep
  BY <1>2, HandStepTends
<1>3. CASE Presses
  BY <1>3, PressesTend
<1>4. CASE WorldMoves
  BY <1>4, WorldMovesTend
<1>5. CASE UNCHANGED vars
  <2>1. /\ pass' = pass /\ hand' = hand /\ again' = again /\ tickAgain' = tickAgain
        /\ cpu' = cpu /\ refused' = refused /\ held' = held /\ locked' = locked
        /\ rail' = rail /\ row' = row /\ ses' = ses /\ overridden' = overridden
    BY <1>5 DEF vars
  <2>2. ResetTail' /\ (Coming => Coming') /\ \A r : Resetting(r)' <=> Resetting(r)
    BY <2>1 DEF WaitsInv, ResetTail, Coming, Ticks, Resetting
  <2> QED
    BY <2>1, <2>2, BesideTends
<1> QED
  BY <1>1, <1>2, <1>3, <1>4, <1>5 DEF Next

\* In a quiet window only a step that is waited on tends a rail.
LEMMA QuietWaits ==
    ASSUME RailsInv, WaitsInv
    PROVE  RunningRailsWait
<1> SUFFICES ASSUME Quiet, refused = 0, ~held, "rail" \notin overridden,
                    NEW r \in RailSet, rail[r].st = "running"
             PROVE  \E s \in Current(r) : Waits(s)
  BY DEF RunningRailsWait, Waits
<1>1. /\ pass = <<>> /\ hand = <<>> /\ ~tickAgain /\ ~again /\ cpu # "tick"
  BY DEF Quiet, RailsInv, LoopInv
<1>2. Listed(pass) = {} /\ ~Coming /\ ~Resetting(r)
  <2>1. Len(<<>>) = 0 /\ 1..0 = {}
    OBVIOUS
  <2> QED
    BY <1>1, <2>1 DEF Listed, Coming, Ticks, Resetting
<1>3. Tended(r)
  BY DEF WaitsInv, WaitInv
<1>4. PICK s \in Steps : Owning[s] = r /\ AtEnd(s) /\ Works(s)
  BY <1>2, <1>3 DEF Tended, Stops
<1>5. Waits(s) /\ StageOf[s] = rail[r].at
  BY <1>2, <1>4 DEF Works, About, AtEnd, Advances
<1>6. s \in Current(r)
  <2>1. /\ StageOf[s] \in 1..Len(Stages[r])
        /\ \E i \in 1..Len(Stages[r][StageOf[s]]) : Stages[r][StageOf[s]][i] = s
    BY <1>4, PlacedAt
  <2>2. PICK j \in 1..Len(Stages[r]) : j = StageOf[s]
    BY <2>1
  <2>3. PICK i \in 1..Len(Stages[r][j]) : Stages[r][j][i] = s
    BY <2>1, <2>2
  <2>4. Stages[r] \in Seq(Seq(Steps))
    BY RailsAssumption
  <2>5. j \in DOMAIN Stages[r] /\ i \in DOMAIN Stages[r][j]
    <3>1. Stages[r][j] \in Seq(Steps)
      BY <2>4
    <3> QED
      BY <2>4, <3>1
  <2> QED
    BY <1>5, <2>2, <2>3, <2>5 DEF Current
<1> QED
  BY <1>5, <1>6

----------------------------------------------------------------------------
(* Why the rows of a quiet window are true *)

\* The pass is still launching the step.
Launched == {"launch", "create", "bind"}
Launches(s) == \E a \in Listed(pass) : a.kind \in Launched /\ a.step = s

\* The rail may be at this stage: no step before it runs, or soon will.
Cleared(r, n) ==
    /\ n \in 1..Len(Stages[r])
    /\ \A s \in Steps : Owning[s] = r /\ StageOf[s] < n =>
          row[s].st # "running" /\ ~Launches(s)
CursorInv == \A r \in RailSet : rail[r].st # "idle" => Cleared(r, rail[r].at)

\* What is left of the pass takes no rail past a step that runs, unless it
\* marks that step done first.
MoveInv ==
    \A a \in Listed(pass) :
        /\ a.kind \in {"advance", "arm", "setRail"} => a.n \in 1..Len(Stages[a.rail])
        /\ \A s \in Steps : Passes(a, s) =>
              /\ ~Launches(s)
              /\ row[s].st = "running" => a.kind \in {"advance", "loopBack"} /\ Marked(s)

\* A step shown as running that nothing outside the window can finish.
Untrue(s) ==
    row[s].st = "running" /\ Kind[s] \notin {"review", "pr"} /\ SessionOf(s) \notin Healthy
TrueInv == \A s \in Steps : Untrue(s) => Coming \/ About(s) \/ Preceded(s)

\* None of it survives a write the daemon refused, or a rail started past a
\* step that is being launched.
Safe == refused = 0 /\ "step" \notin overridden
TruthInv == Safe => CursorInv /\ MoveInv /\ TrueInv

\* What an action of the pass leaves keeps to the stages its rail may be at,
\* and launches no step anew.
Calm(X) ==
    \A a \in X :
        /\ a.kind \notin {"advance", "markDone", "arm", "loopBack"}
        /\ a.kind = "setRail" => Cleared(a.rail, a.n)
        /\ a.kind \in Launched => Launches(a.step)

\* What an action of the pass has to show for the invariant.
LEMMA PassTruth ==
    ASSUME RailsInv, TruthInv, NEW k, Doing(k), NEW X, Beside(X),
           Safe' =>
              /\ Safe /\ Calm(X)
              /\ \A r \in RailSet : \/ rail'[r] = rail[r] \/ rail'[r].st = "idle"
                                    \/ \E n : rail'[r].at = n /\ Cleared(r, n)
              /\ \A s \in Steps :
                    \/ row'[s].st # "running"
                    \/ Launches(s) /\ (Untrue(s)' => Coming')
                    \/ /\ row'[s] = row[s] /\ ses'[s] = ses[s]
                       /\ Head(pass).kind \in Stepped /\ Head(pass).step = s =>
                             Head(pass).kind # "markDone" /\ (About(s)' \/ Coming')
              /\ \A s \in Steps : Finished(row'[s].st) =>
                    Finished(row[s].st) \/ Marked(s) \/ Coming'
    PROVE  TruthInv'
<1> SUFFICES ASSUME Safe' PROVE CursorInv' /\ MoveInv' /\ TrueInv'
  BY DEF TruthInv
<1>1. pass # <<>> /\ cpu # "tick" /\ CursorInv /\ MoveInv /\ TrueInv
  BY DEF Doing, TruthInv
<1>2. /\ Listed(pass) = {Head(pass)} \cup Listed(Tail(pass))
      /\ Listed(pass') = X \cup Listed(Tail(pass))
  BY <1>1, LeftFacts DEF RailsInv, Beside, Left
<1>3. Coming => Coming'
  BY <1>1 DEF Beside, Coming, Ticks
<1>4. \A s \in Steps : Launches(s)' => Launches(s)
  BY <1>2 DEF Launches, Calm
<1>5. /\ \A s \in Steps : Marked(s)' => Marked(s)
      /\ \A s \in Steps : Marked(s) => Marked(s)' \/ row'[s].st # "running" \/ Launches(s)
  BY <1>2 DEF Marked, Calm, Stepped
<1>6. \A s \in Steps : row'[s].st = "running" => row[s].st = "running" \/ Launches(s)
  OBVIOUS
<1>7. \A r, n : Cleared(r, n) =>
         /\ n \in 1..Len(Stages[r])
         /\ \A s \in Steps : Owning[s] = r /\ StageOf[s] < n =>
               row'[s].st # "running" /\ ~Launches(s)'
  BY <1>4, <1>6 DEF Cleared
<1>8. CursorInv'
  <2>1. ASSUME NEW r \in RailSet, rail'[r].st # "idle"
        PROVE  \E n : rail'[r].at = n /\ Cleared(r, n)
    BY <1>1, <2>1 DEF CursorInv
  <2> QED
    BY <1>7, <2>1 DEF CursorInv, Cleared
<1>9. ASSUME NEW a \in Listed(pass')
      PROVE  /\ a.kind \in {"advance", "arm", "setRail"} => a.n \in 1..Len(Stages[a.rail])
             /\ \A s \in Steps : Passes(a, s) =>
                   /\ ~Launches(s)'
                   /\ row'[s].st = "running" =>
                         a.kind \in {"advance", "loopBack"} /\ Marked(s)'
  <2>1. CASE a \in X
    BY <1>7, <2>1 DEF Calm, Passes
  <2>2. CASE a \in Listed(Tail(pass))
    <3>1. a \in Listed(pass)
      BY <1>2, <2>2
    <3> QED
      BY <1>1, <1>4, <1>5, <1>6, <3>1 DEF MoveInv
  <2> QED
    BY <1>2, <2>1, <2>2
<1>10. MoveInv'
  BY <1>9 DEF MoveInv
<1>11. ASSUME NEW s \in Steps, Untrue(s)', ~Coming'
       PROVE  About(s)' \/ Preceded(s)'
  <2>1. /\ row'[s] = row[s] /\ ses'[s] = ses[s]
        /\ Head(pass).kind \in Stepped /\ Head(pass).step = s => About(s)'
    BY <1>11 DEF Untrue
  <2>2. Untrue(s)
    BY <1>11, <2>1 DEF Untrue, SessionOf
  <2>3. About(s) \/ Preceded(s)
    BY <1>1, <1>3, <1>11, <2>2 DEF TrueInv
  <2>4. About(s) => About(s)'
    BY <1>2, <2>1 DEF About
  <2>5. Preceded(s) => Preceded(s)'
    BY <1>5, <1>11 DEF Preceded
  <2> QED
    BY <2>3, <2>4, <2>5
<1> QED
  BY <1>8, <1>10, <1>11 DEF TrueInv

\* An action about one step, which writes no rail and no row but that one.
LEMMA StepTruth ==
    ASSUME RailsInv, TruthInv, NEW k \in Stepped, Doing(k), NEW X, Beside(X),
           NEW q \in Steps, q = Head(pass).step, overridden \subseteq overridden',
           refused' = 0 =>
              /\ refused = 0 /\ rail' = rail
              /\ \A t \in Steps : t # q => row'[t] = row[t] /\ ses'[t] = ses[t],
           Safe' =>
              /\ Calm(X)
              /\ \/ row'[q].st # "running"
                 \/ Launches(q) /\ (Untrue(q)' => Coming')
                 \/ row'[q] = row[q] /\ ses'[q] = ses[q] /\ k # "markDone" /\ (About(q)' \/ Coming')
              /\ Finished(row'[q].st) => Finished(row[q].st) \/ k = "markDone" \/ Coming'
    PROVE  TruthInv'
<1>1. pass # <<>> /\ Head(pass).kind = k /\ Head(pass) \in Listed(pass)
  BY LeftFacts DEF Doing, RailsInv
<1>2. Safe' => Safe
  BY DEF Safe
<1>3. Safe' => \A s \in Steps : Finished(row'[s].st) =>
                  Finished(row[s].st) \/ Marked(s) \/ Coming'
  BY <1>1 DEF Safe, Marked
<1>4. Safe' => \A s \in Steps :
         \/ row'[s].st # "running"
         \/ Launches(s) /\ (Untrue(s)' => Coming')
         \/ /\ row'[s] = row[s] /\ ses'[s] = ses[s]
            /\ Head(pass).kind \in Stepped /\ Head(pass).step = s =>
                  Head(pass).kind # "markDone" /\ (About(s)' \/ Coming')
  BY <1>1 DEF Safe
<1>5. Safe' => rail' = rail
  BY DEF Safe
<1> QED
  BY <1>2, <1>3, <1>4, <1>5, PassTruth

\* An action about one rail, which writes no row and no rail but that one.
LEMMA RailTruth ==
    ASSUME RailsInv, TruthInv, NEW k \in Railed, Doing(k), Beside({}),
           NEW q \in RailSet, q = Head(pass).rail, overridden \subseteq overridden',
           ses' = ses,
           refused' = 0 =>
              /\ refused = 0 /\ row' = row
              /\ \A r \in RailSet : r # q => rail'[r] = rail[r],
           Safe' => \/ rail' = rail \/ rail'[q].st = "idle"
                    \/ \E n : rail'[q].at = n /\ Cleared(q, n)
    PROVE  TruthInv'
<1>1. Head(pass).kind \notin Stepped
  BY DEF Doing, Stepped, Railed
<1>2. Safe' => Safe /\ row' = row
  BY DEF Safe
<1>3. Safe' => \A r \in RailSet : \/ rail'[r] = rail[r] \/ rail'[r].st = "idle"
                                  \/ \E n : rail'[r].at = n /\ Cleared(r, n)
  BY DEF Safe
<1>4. Calm({})
  BY DEF Calm
<1> QED
  BY <1>1, <1>2, <1>3, <1>4, PassTruth

\* What the head of a pass takes a rail past does not run, and is not launched.
LEMMA HeadClears ==
    ASSUME RailsInv, StallsInv, TruthInv, Safe, NEW k, Doing(k)
    PROVE  /\ k \in {"advance", "arm", "setRail"} => Cleared(Head(pass).rail, Head(pass).n)
           /\ k = "loopBack" =>
                Cleared(Owning[Head(pass).step], StageOf[Before[Head(pass).step]])
<1>1. /\ pass # <<>> /\ PassInv /\ Head(pass).kind = k /\ MoveInv /\ Ordered(pass)
  BY DEF Doing, RailsInv, TruthInv, StallsInv
<1>2. Head(pass) \in Listed(pass) /\ Listed(pass) = {Head(pass)} \cup Listed(Tail(pass))
  BY <1>1, LeftFacts
<1>3. \A b \in Listed(Tail(pass)) : MayPrecede(Head(pass), b)
  <2>1. PICK p \in Seq(Due) : p = pass /\ p # <<>>
    BY <1>1 DEF PassInv
  <2>2. PICK t \in Seq(Due) : t = Tail(p) /\ Len(t) = Len(p) - 1
    BY <2>1, TailOf
  <2>3. /\ Len(p) \in Nat /\ Len(p) # 0 /\ Head(p) = p[1] /\ Len(t) \in Nat
        /\ \A i \in 1..Len(t) : i + 1 \in 1..Len(p) /\ t[i] = p[i + 1]
    BY <2>1, <2>2, TailOf
  <2>4. 1 \in 1..Len(p) /\ \A i \in 1..Len(t) : 1 < i + 1
    BY <2>3
  <2>5. \A i \in 1..Len(t) : MayPrecede(p[1], t[i])
    BY <1>1, <2>1, <2>3, <2>4 DEF Ordered
  <2> QED
    BY <2>1, <2>2, <2>3, <2>5 DEF Listed
<1>4. ASSUME NEW s \in Steps, Passes(Head(pass), s)
      PROVE  row[s].st # "running" /\ ~Launches(s)
  <2>1. /\ ~Launches(s)
        /\ row[s].st = "running" => k \in {"advance", "loopBack"} /\ Marked(s)
    BY <1>1, <1>2, <1>4 DEF MoveInv
  <2>2. ASSUME k \in {"advance", "loopBack"}, Marked(s)
        PROVE  FALSE
    <3>1. PICK b \in Listed(pass) : b.kind = "markDone" /\ b.step = s
      BY <2>2 DEF Marked
    <3>2. b \in Listed(Tail(pass))
      BY <1>1, <1>2, <2>2, <3>1
    <3> QED
      BY <1>1, <1>3, <1>4, <2>2, <3>1, <3>2 DEF MayPrecede
  <2> QED
    BY <2>1, <2>2
<1>5. ASSUME k \in {"advance", "arm", "setRail"}
      PROVE  Cleared(Head(pass).rail, Head(pass).n)
  <2>1. Head(pass).n \in 1..Len(Stages[Head(pass).rail])
    BY <1>1, <1>2, <1>5 DEF MoveInv
  <2>2. \A s \in Steps : Owning[s] = Head(pass).rail /\ StageOf[s] < Head(pass).n =>
           Passes(Head(pass), s)
    BY <1>1, <1>5 DEF Passes
  <2> QED
    BY <1>4, <2>1, <2>2 DEF Cleared
<1>6. ASSUME k = "loopBack"
      PROVE  Cleared(Owning[Head(pass).step], StageOf[Before[Head(pass).step]])
  <2>1. PICK q \in Steps : q = Head(pass).step /\ Before[q] \in Steps
    <3>1. Head(pass) \in Due /\ Head(pass).step \in Steps
      BY <1>1, <1>6, HeadIsDue DEF Stepped
    <3> QED
      BY <1>1, <1>6, <3>1 DEF Due, Sound, StepAction, Stepped
  <2>2. StageOf[Before[q]] \in 1..Len(Stages[Owning[q]])
    <3>1. Before[q] # "none"
      BY <2>1, OncesAssumption
    <3>2. Owning[Before[q]] = Owning[q]
      BY <3>1, BeforeStage
    <3> QED
      BY <2>1, <3>2, PlacedAt
  <2>3. \A s \in Steps : Owning[s] = Owning[q] /\ StageOf[s] < StageOf[Before[q]] =>
           Passes(Head(pass), s)
    BY <1>1, <1>6, <2>1 DEF Passes
  <2> QED
    BY <1>4, <2>1, <2>2, <2>3 DEF Cleared
<1> QED
  BY <1>5, <1>6

\* The launches of a pass, as its handlers read them.
LEMMA LaunchingIs ==
    ASSUME PassInv, NEW s
    PROVE  Launching(s) <=> Launches(s)
<1>1. PICK p \in Seq(Due) : p = pass
  BY DEF PassInv
<1>2. DOMAIN p = 1..Len(p)
  BY <1>1
<1> QED
  BY <1>1, <1>2 DEF Launching, Launches, Launched, Listed

\* The steps before the first stage with an open step are finished.
LEMMA FirstUnfinishedIs ==
    ASSUME NEW r \in RailSet, FirstUnfinished(r) # 0
    PROVE  /\ FirstUnfinished(r) \in 1..Len(Stages[r])
           /\ \A s \in Steps : Owning[s] = r /\ StageOf[s] < FirstUnfinished(r) =>
                 Finished(row[s].st)
<1> DEFINE Open(j) == \E i \in DOMAIN Stages[r][j] : ~Finished(row[Stages[r][j][i]].st)
           open == {j \in DOMAIN Stages[r] : Open(j)}
<1>1. FirstUnfinished(r) = IF open = {} THEN 0
                           ELSE CHOOSE j \in open : \A k \in open : j <= k
  BY DEF FirstUnfinished
<1>2. Stages[r] \in Seq(Seq(Steps)) /\ DOMAIN Stages[r] = 1..Len(Stages[r])
      /\ Len(Stages[r]) \in Nat
  <2>1. Stages[r] \in Seq(Seq(Steps))
    BY RailsAssumption
  <2> QED
    BY <2>1
<1>3. open \in SUBSET Nat
  <2> HIDE DEF Open
  <2> QED
    BY <1>2
<1>4. open # {}
  BY <1>1
<1> HIDE DEF open
<1>5. \E j \in open : \A k \in open : j <= k
  BY <1>3, <1>4, Least
<1>6. PICK f \in open : f = FirstUnfinished(r) /\ \A k \in open : f <= k
  <2>1. /\ (CHOOSE j \in open : \A k \in open : j <= k) \in open
        /\ \A l \in open : (CHOOSE j \in open : \A k \in open : j <= k) <= l
    BY <1>5, Zenon
  <2> QED
    BY <1>1, <1>4, <2>1
<1>7. f \in 1..Len(Stages[r])
  BY <1>2, <1>6 DEF open
<1>8. ASSUME NEW s \in Steps, Owning[s] = r, StageOf[s] < f
      PROVE  Finished(row[s].st)
  <2>1. PICK j \in 1..Len(Stages[r]) : j = StageOf[s]
    BY <1>8, PlacedAt
  <2>2. PICK i \in 1..Len(Stages[r][j]) : Stages[r][j][i] = s
    BY <1>8, <2>1, PlacedAt
  <2>3. j \notin open
    BY <1>2, <1>3, <1>6, <1>7, <1>8, <2>1
  <2>4. ~Open(j)
    BY <1>2, <2>1, <2>3 DEF open
  <2>5. DOMAIN Stages[r][j] = 1..Len(Stages[r][j])
    <3>1. Stages[r][j] \in Seq(Steps)
      BY <1>2
    <3> QED
      BY <3>1
  <2> QED
    BY <2>2, <2>4, <2>5
<1> QED
  BY <1>6, <1>7, <1>8

\* A rail that is started where nothing before is being launched may be there.
LEMMA StartClears ==
    ASSUME PassInv, NEW r \in RailSet, FirstUnfinished(r) # 0,
           StartsAt(r, FirstUnfinished(r)), "step" \notin overridden'
    PROVE  Cleared(r, FirstUnfinished(r))
<1>1. \A s \in StepsOf[r] : Launching(s) => ~(StageOf[s] < FirstUnfinished(r))
  BY DEF StartsAt
<1>2. \A s \in Steps : Owning[s] = r => s \in StepsOf[r]
  BY Placing
<1>3. \A s \in Steps : Finished(row[s].st) => row[s].st # "running"
  BY DEF Finished
<1> QED
  BY <1>1, <1>2, <1>3, FirstUnfinishedIs, LaunchingIs DEF Cleared

\* Nothing left is calm.
LEMMA NothingCalm == Calm({})
BY DEF Calm

\* A stall leaves the pause of its rail where that rail is.
LEMMA StallTruth ==
    ASSUME RailsInv, TruthInv, NEW k \in Stepped, Doing(k), NEW q \in Steps,
           q = Head(pass).step, NEW count, Stall(q, count), hand' = hand,
           overridden' = overridden, ses' = ses, tickAgain => tickAgain', again => again'
    PROVE  TruthInv'
<1>1. /\ pass # <<>> /\ PassInv /\ Owning[q] \in RailSet /\ rail[Owning[q]].at \in Nat
  BY Placing DEF Doing, RailsInv, RowsInv
<1>2. refused' = 0 =>
        /\ refused = 0 /\ rail' = rail /\ row'[q].st = "stalled"
        /\ \A t \in Steps : t # q => row'[t] = row[t]
  BY SetStepActs DEF Stall, RailsInv
<1>3. CASE rail[Owning[q]].st = "running"
  <2>1. PICK a \in Ops :
          /\ a = Op("setRail", "none", Owning[q], "paused", rail[Owning[q]].at)
          /\ a.kind = "setRail" /\ a.rail = Owning[q] /\ a.n = rail[Owning[q]].at
    BY <1>1, RailOps DEF Railed
  <2>2. Then(<<a>>)
    BY <1>3, <2>1 DEF Stall
  <2>3. Left({a})
    BY <1>1, <2>2, LeftFacts
  <2>4. Beside({a})
    BY <2>1, <2>3 DEF Beside
  <2>5. Safe' => Cleared(Owning[q], rail[Owning[q]].at)
    BY <1>1, <1>2, <1>3 DEF Safe, TruthInv, CursorInv
  <2>6. Safe' => Calm({a})
    BY <2>1, <2>5 DEF Calm, Launched
  <2> QED
    BY <1>2, <2>4, <2>6, StepTruth DEF Safe, Finished
<1>4. CASE rail[Owning[q]].st # "running"
  <2>1. Then(<<>>)
    BY <1>4 DEF Stall
  <2>2. Left({})
    BY <1>1, <2>1, LeftFacts
  <2>3. Beside({})
    BY <2>2 DEF Beside
  <2> QED
    BY <1>2, <2>3, NothingCalm, StepTruth DEF Safe, Finished
<1> QED
  BY <1>3, <1>4

\* A step that is marked done runs no longer.
LEMMA DoMarkDoneTruth ==
    ASSUME RailsInv, TruthInv, DoMarkDone
    PROVE  TruthInv'
<1>1. /\ Doing("markDone") /\ pass # <<>> /\ PassInv /\ "markDone" \in Stepped
      /\ hand' = hand /\ tickAgain' = tickAgain /\ (again => again')
      /\ overridden' = overridden /\ ses' = ses
  BY DEF DoMarkDone, Doing, PassUnchanged, worldVars, boundVars, RailsInv, Stepped
<1>2. PICK q \in Steps : q = Head(pass).step
  BY <1>1, HeadIsDue DEF Stepped
<1>3. PICK X : Beside(X) /\ Calm(X)
  <2>1. CASE row[q].st = "stalled"
    <3>1. Owning[q] \in RailSet /\ StageOf[q] \in Nat
      BY Placing
    <3>2. PICK a \in Ops : a = RailOp("unpause", Owning[q], StageOf[q]) /\ a.kind = "unpause"
      BY <3>1, RailOps DEF RailOp, Railed
    <3>3. Then(<<a>>)
      BY <1>2, <2>1, <3>2 DEF DoMarkDone
    <3>4. Left({a})
      BY <1>1, <3>3, LeftFacts
    <3>5. Beside({a})
      BY <1>1, <3>2, <3>4 DEF Beside
    <3>6. Calm({a})
      BY <3>2 DEF Calm, Launched
    <3> QED
      BY <3>5, <3>6
  <2>2. CASE row[q].st # "stalled"
    <3>1. Then(<<>>)
      BY <1>2, <2>2 DEF DoMarkDone
    <3>2. Left({})
      BY <1>1, <3>1, LeftFacts
    <3>3. Beside({})
      BY <1>1, <3>2 DEF Beside
    <3> QED
      BY <3>3, NothingCalm
  <2> QED
    BY <2>1, <2>2
<1>4. refused' = 0 =>
        /\ refused = 0 /\ rail' = rail /\ row'[q].st = "done"
        /\ \A t \in Steps : t # q => row'[t] = row[t]
  BY <1>2, SetStepActs DEF DoMarkDone, RailsInv
<1> QED
  BY <1>1, <1>2, <1>3, <1>4, StepTruth DEF Safe

\* stallStep.
LEMMA DoStallTruth ==
    ASSUME RailsInv, TruthInv, DoStall
    PROVE  TruthInv'
<1>1. /\ Doing("stall") /\ hand' = hand /\ tickAgain' = tickAgain /\ again' = again
      /\ overridden' = overridden /\ ses' = ses /\ "stall" \in Stepped
  BY DEF DoStall, PassUnchanged, worldVars, boundVars, Stepped
<1>2. PICK q \in Steps : q = Head(pass).step
  BY <1>1, HeadIsDue DEF RailsInv
<1>3. Stall(q, {})
  BY <1>2 DEF DoStall
<1> QED
  BY <1>1, <1>2, <1>3, StallTruth

\* A loop that has run out is still written about, and its rail is paused
\* where it is.
LEMMA DoLoopExhaustedTruth ==
    ASSUME RailsInv, TruthInv, DoLoopExhausted
    PROVE  TruthInv'
<1>1. /\ Doing("loopExhausted") /\ pass # <<>> /\ PassInv /\ hand' = hand /\ ses' = ses
      /\ tickAgain' = tickAgain /\ again' = again /\ overridden' = overridden
      /\ "loopExhausted" \in Stepped
  BY DEF DoLoopExhausted, Doing, PassUnchanged, worldVars, boundVars, Stepped, RailsInv
<1>2. PICK q \in Steps : q = Head(pass).step
  BY <1>1, HeadIsDue DEF RailsInv
<1>3. CASE Kind[q] = "pr"
  <2>1. Stall(q, {0})
    BY <1>2, <1>3 DEF DoLoopExhausted
  <2> QED
    BY <1>1, <1>2, <2>1, StallTruth
<1>4. CASE Kind[q] # "pr"
  <2>1. rail' = rail /\ row' = row /\ refused' = refused
    BY <1>2, <1>4 DEF DoLoopExhausted, runVars
  <2>2. PICK a \in Ops : a = StepOp("exhaust", q) /\ a.kind = "exhaust" /\ a.step = q
    BY StepOps DEF Stepped
  <2>3. PICK X : /\ Left(X) /\ a \in X /\ \A b \in X : b.kind \in {"exhaust", "setRail"}
                 /\ Safe => Calm(X)
    <3>1. CASE rail[Owning[q]].st = "running"
      <4>1. Owning[q] \in RailSet /\ rail[Owning[q]].at \in Nat
        BY Placing DEF RailsInv, RowsInv
      <4>2. PICK b \in Ops :
              /\ b = Op("setRail", "none", Owning[q], "paused", rail[Owning[q]].at)
              /\ b.kind = "setRail" /\ b.rail = Owning[q] /\ b.n = rail[Owning[q]].at
        BY <4>1, RailOps DEF Railed
      <4>3. Then(<<a>> \o <<b>>)
        BY <1>2, <1>4, <2>2, <3>1, <4>2 DEF DoLoopExhausted
      <4>4. Left({a, b})
        BY <1>1, <4>3, LeftFacts
      <4>5. Safe => Cleared(Owning[q], rail[Owning[q]].at)
        BY <3>1, <4>1 DEF TruthInv, CursorInv
      <4>6. Safe => Calm({a, b})
        BY <2>2, <4>2, <4>5 DEF Calm, Launched
      <4> QED
        BY <2>2, <4>2, <4>4, <4>6
    <3>2. CASE rail[Owning[q]].st # "running"
      <4>1. <<a>> \o <<>> = <<a>>
        OBVIOUS
      <4>2. Then(<<a>>)
        BY <1>2, <1>4, <2>2, <3>2, <4>1 DEF DoLoopExhausted
      <4>3. Left({a})
        BY <1>1, <4>2, LeftFacts
      <4>4. Calm({a})
        BY <2>2 DEF Calm, Launched
      <4> QED
        BY <2>2, <4>3, <4>4
    <3> QED
      BY <3>1, <3>2
  <2>4. Beside(X)
    BY <1>1, <2>3 DEF Beside
  <2>5. About(q)'
    BY <2>2, <2>3 DEF Left, About, Stepped
  <2>6. Safe' => Calm(X)
    BY <1>1, <2>1, <2>3 DEF Safe
  <2>7. Doing("loopExhausted") /\ "loopExhausted" # "markDone"
    BY <1>1
  <2> QED
    BY <1>1, <1>2, <2>1, <2>4, <2>5, <2>6, <2>7, StepTruth
<1> QED
  BY <1>3, <1>4

\* A loop that goes back leaves its rail for a stage it may be at, and asks
\* for a pass.
LEMMA DoLoopBackTruth ==
    ASSUME RailsInv, StallsInv, TruthInv, DoLoopBack
    PROVE  TruthInv'
<1>1. /\ Doing("loopBack") /\ pass # <<>> /\ Head(pass).kind = "loopBack" /\ PassInv
      /\ hand' = hand /\ again' = TRUE /\ tickAgain' = tickAgain /\ ses' = ses
      /\ row' = row /\ rail' = rail /\ overridden' = overridden /\ "loopBack" \in Stepped
  BY DEF DoLoopBack, Doing, RailsInv, boundVars, Stepped
<1>2. PICK h \in Due : h = Head(pass) /\ h.kind = "loopBack" /\ h.step \in Steps /\ h.n \in Nat
  BY <1>1, HeadIsDue DEF Stepped
<1>3. PICK q \in Steps, p \in Steps : q = h.step /\ p = Before[q]
  BY <1>2 DEF Due, Sound, StepAction, Stepped
<1>4. Owning[q] \in RailSet /\ StageOf[p] \in Nat
  BY Placing
<1>5. PICK c \in Ops : c = Op("count", q, "none", "none", h.n) /\ c.kind = "count"
  <2>1. PICK c : c = Op("count", q, "none", "none", h.n)
    OBVIOUS
  <2>2. c = [kind |-> "count", step |-> q, rail |-> "none", st |-> "none", n |-> h.n]
    BY <2>1 DEF Op
  <2>3. c \in Ops
    BY <1>2, <2>2 DEF Ops, Stepped
  <2> QED
    BY <2>1, <2>2, <2>3
<1>6. PICK d \in Ops : d = StepOp("rearm", p) /\ d.kind = "rearm"
  BY StepOps DEF Stepped
<1>7. PICK e \in Ops : /\ e = Op("setRail", "none", Owning[q], "running", StageOf[p])
                       /\ e.kind = "setRail" /\ e.rail = Owning[q] /\ e.n = StageOf[p]
  BY <1>4, RailOps DEF Railed
<1>8. Then(<<c, d, e>>)
  BY <1>2, <1>3, <1>5, <1>6, <1>7 DEF DoLoopBack
<1>9. Left({c, d, e})
  BY <1>1, <1>8, LeftFacts
<1>10. Beside({c, d, e})
  BY <1>1, <1>5, <1>6, <1>7, <1>9 DEF Beside
<1>11. refused' = 0 => refused = 0
  <2>1. refused \in Nat /\ refused + 1 # 0
    BY DEF RailsInv, RowsInv
  <2> QED
    BY <2>1 DEF DoLoopBack
<1>12. Safe' => Calm({c, d, e})
  <2>1. Safe' => Cleared(Owning[q], StageOf[p])
    BY <1>1, <1>2, <1>3, <1>11, HeadClears DEF Safe
  <2> QED
    BY <1>5, <1>6, <1>7, <2>1 DEF Calm, Launched
<1>13. Coming' /\ q = Head(pass).step
  BY <1>1, <1>2, <1>3 DEF Coming
<1> QED
  BY <1>1, <1>10, <1>11, <1>12, <1>13, StepTruth

\* The writes left for after an await take a step back, or stall it.
LEMMA DoSetStepTruth ==
    ASSUME RailsInv, TruthInv, DoSetStep
    PROVE  TruthInv'
<1>1. PICK k \in {"count", "rearm", "exhaust"} : Doing(k)
  BY DEF DoSetStep
<1>2. /\ pass # <<>> /\ Head(pass).kind = k /\ k \in Stepped /\ PassInv
      /\ Then(<<>>) /\ again' = again /\ hand' = hand
      /\ tickAgain' = tickAgain /\ ses' = ses /\ overridden' = overridden
  BY <1>1 DEF DoSetStep, Doing, PassUnchanged, worldVars, boundVars, Stepped, RailsInv
<1>3. PICK q \in Steps : q = Head(pass).step
  BY <1>1, <1>2, HeadIsDue
<1>4. Left({})
  BY <1>2, LeftFacts
<1>5. Beside({})
  BY <1>2, <1>4 DEF Beside
<1>6. refused' = 0 =>
        /\ refused = 0 /\ rail' = rail /\ row'[q].st \in {"pending", "stalled"}
        /\ \A t \in Steps : t # q => row'[t] = row[t]
  <2>1. CASE k = "count"
    <3>1. refused \in Nat /\ refused + 1 # 0 /\ DOMAIN row = Steps
      BY DEF RailsInv, RowsInv
    <3>2. \/ /\ row' = [row EXCEPT ![q] =
                          [st |-> "pending", ses |-> FALSE, tries |-> Head(pass).n]]
             /\ UNCHANGED <<rail, refused>>
          \/ refused' = refused + 1
      BY <1>2, <1>3, <2>1 DEF DoSetStep, Doing
    <3> QED
      BY <3>1, <3>2
  <2>2. CASE k = "rearm"
    <3>1. SetStep(q, "pending", FALSE, {})
      BY <1>2, <1>3, <2>2 DEF DoSetStep, Doing
    <3> QED
      BY <3>1, SetStepActs DEF RailsInv
  <2>3. CASE k = "exhaust"
    <3>1. SetStep(q, "stalled", FALSE, {0})
      BY <1>2, <1>3, <2>3 DEF DoSetStep, Doing
    <3> QED
      BY <3>1, SetStepActs DEF RailsInv
  <2> QED
    BY <2>1, <2>2, <2>3
<1> QED
  BY <1>1, <1>2, <1>3, <1>5, <1>6, NothingCalm, StepTruth DEF Safe, Finished

----------------------------------------------------------------------------
\* A rail is paused or sent back where it may be.
LEMMA DoSetRailTruth ==
    ASSUME RailsInv, StallsInv, TruthInv, DoSetRail
    PROVE  TruthInv'
<1>1. /\ Doing("setRail") /\ Then(<<>>) /\ "setRail" \in Railed
      /\ hand' = hand /\ ses' = ses
      /\ tickAgain' = tickAgain /\ again' = again /\ overridden' = overridden
  BY DEF DoSetRail, PassUnchanged, worldVars, boundVars, Railed
<1>2. Beside({}) /\ \E q \in RailSet : q = Head(pass).rail
  BY <1>1, RailAct
<1>3. PICK q \in RailSet : q = Head(pass).rail
  BY <1>2
<1>4. refused' = 0 =>
        /\ refused = 0 /\ row' = row /\ rail'[q].at = Head(pass).n
        /\ \A r \in RailSet : r # q => rail'[r] = rail[r]
  BY <1>3, SetRailActs DEF DoSetRail, RailsInv
<1>5. Safe' => Cleared(q, Head(pass).n)
  BY <1>1, <1>3, <1>4, HeadClears DEF Safe
<1> QED
  BY <1>1, <1>2, <1>3, <1>4, <1>5, RailTruth DEF Safe

\* An advance takes its rail past nothing that runs: what ran was marked done.
LEMMA DoAdvanceTruth ==
    ASSUME RailsInv, StallsInv, TruthInv, DoAdvance
    PROVE  TruthInv'
<1>1. /\ Doing("advance") /\ Then(<<>>) /\ "advance" \in Railed
      /\ hand' = hand /\ ses' = ses /\ tickAgain' = tickAgain /\ again' = again
      /\ overridden \subseteq overridden'
  BY DEF DoAdvance, worldVars, Railed
<1>2. Beside({}) /\ \E q \in RailSet : q = Head(pass).rail
  BY <1>1, RailAct
<1>3. PICK q \in RailSet : q = Head(pass).rail
  BY <1>2
<1>4. refused' = 0 =>
        /\ refused = 0 /\ row' = row /\ rail'[q].at = Head(pass).n
        /\ \A r \in RailSet : r # q => rail'[r] = rail[r]
  BY <1>3, SetRailActs DEF DoAdvance, RailsInv
<1>5. Safe' => Cleared(q, Head(pass).n)
  BY <1>1, <1>3, <1>4, HeadClears DEF Safe
<1> QED
  BY <1>1, <1>2, <1>3, <1>4, <1>5, RailTruth DEF Safe

\* A rail is armed at its first unfinished stage.
LEMMA DoArmTruth ==
    ASSUME RailsInv, StallsInv, TruthInv, DoArm
    PROVE  TruthInv'
<1>1. /\ Doing("arm") /\ Then(<<>>) /\ "arm" \in Railed
      /\ hand' = hand /\ ses' = ses /\ tickAgain' = tickAgain /\ again' = TRUE
      /\ overridden' = overridden
  BY DEF DoArm, PassUnchanged, worldVars, boundVars, Railed
<1>2. Beside({}) /\ \E q \in RailSet : q = Head(pass).rail
  BY <1>1, RailAct
<1>3. PICK q \in RailSet : q = Head(pass).rail
  BY <1>2
<1>4. refused' = 0 =>
        /\ refused = 0 /\ row' = row /\ rail'[q].at = Head(pass).n
        /\ \A r \in RailSet : r # q => rail'[r] = rail[r]
  BY <1>3, SetRailActs DEF DoArm, RailsInv
<1>5. Safe' => Cleared(q, Head(pass).n)
  BY <1>1, <1>3, <1>4, HeadClears DEF Safe
<1> QED
  BY <1>1, <1>2, <1>3, <1>4, <1>5, RailTruth DEF Safe

\* A rail that is put back to running is where it was.
LEMMA DoUnpauseTruth ==
    ASSUME RailsInv, TruthInv, DoUnpause
    PROVE  TruthInv'
<1>1. /\ Doing("unpause") /\ Then(<<>>) /\ "unpause" \in Railed
      /\ hand' = hand /\ ses' = ses
      /\ tickAgain' = tickAgain /\ (again => again') /\ overridden' = overridden
  BY DEF DoUnpause, PassUnchanged, worldVars, boundVars, Railed
<1>2. Beside({}) /\ \E q \in RailSet : q = Head(pass).rail
  BY <1>1, RailAct
<1>3. PICK q \in RailSet : q = Head(pass).rail
  BY <1>2
<1>4. CASE rail[q].st = "paused"
  <2>1. PICK n : n = IF rail[q].at # 0 THEN rail[q].at ELSE Head(pass).n
    OBVIOUS
  <2>2. SetRail(q, "running", n)
    BY <1>3, <1>4, <2>1 DEF DoUnpause
  <2>3. refused' = 0 =>
          /\ refused = 0 /\ row' = row /\ rail'[q].at = n
          /\ \A r \in RailSet : r # q => rail'[r] = rail[r]
    BY <2>2, SetRailActs DEF RailsInv
  <2>4. Safe' => Cleared(q, n)
    <3>1. Safe' => Cleared(q, rail[q].at)
      BY <1>1, <1>4, <2>3 DEF Safe, TruthInv, CursorInv
    <3>2. Cleared(q, rail[q].at) => rail[q].at # 0
      BY DEF Cleared
    <3> QED
      BY <2>1, <3>1, <3>2
  <2> QED
    BY <1>1, <1>2, <1>3, <2>3, <2>4, RailTruth DEF Safe
<1>5. CASE rail[q].st # "paused"
  <2>1. rail' = rail /\ row' = row /\ refused' = refused
    BY <1>3, <1>5 DEF DoUnpause, runVars
  <2> QED
    BY <1>1, <1>2, <1>3, <2>1, RailTruth
<1> QED
  BY <1>4, <1>5

\* A completed rail is at no stage.
LEMMA DoCompleteTruth ==
    ASSUME RailsInv, TruthInv, DoComplete
    PROVE  TruthInv'
<1>1. /\ Doing("complete") /\ Then(<<>>) /\ "complete" \in Railed
      /\ hand' = hand /\ ses' = ses
      /\ tickAgain' = tickAgain /\ (again => again') /\ overridden' = overridden
  BY DEF DoComplete, PassUnchanged, worldVars, boundVars, Railed
<1>2. Beside({}) /\ \E q \in RailSet : q = Head(pass).rail
  BY <1>1, RailAct
<1>3. PICK q \in RailSet : q = Head(pass).rail
  BY <1>2
<1>4. refused' = 0 =>
        /\ refused = 0 /\ row' = row /\ rail'[q].st = "idle"
        /\ \A r \in RailSet : r # q => rail'[r] = rail[r]
  BY <1>3, SetRailActs DEF DoComplete, RailsInv
<1> QED
  BY <1>1, <1>2, <1>3, <1>4, RailTruth DEF Safe

\* The rail a start-rail step names runs from its first unfinished stage.
LEMMA DoStartRailTruth ==
    ASSUME RailsInv, TruthInv, DoStartRail
    PROVE  TruthInv'
<1>1. /\ Doing("startRail") /\ Then(<<>>) /\ "startRail" \in Railed
      /\ hand' = hand /\ ses' = ses /\ PassInv
      /\ (tickAgain => tickAgain') /\ again' = again
  BY DEF DoStartRail, worldVars, Railed, RailsInv
<1>2. Beside({}) /\ \E q \in RailSet : q = Head(pass).rail
  BY <1>1, RailAct
<1>3. PICK q \in RailSet : q = Head(pass).rail
  BY <1>2
<1>4. CASE FirstUnfinished(q) # 0
  <2>1. PICK n : n = FirstUnfinished(q)
    OBVIOUS
  <2>2. SetRail(q, "running", n) /\ StartsAt(q, FirstUnfinished(q))
    BY <1>3, <1>4, <2>1 DEF DoStartRail
  <2>3. refused' = 0 =>
          /\ refused = 0 /\ row' = row /\ rail'[q].at = n
          /\ \A r \in RailSet : r # q => rail'[r] = rail[r]
    BY <2>2, SetRailActs DEF RailsInv
  <2>4. Safe' => Cleared(q, n)
    BY <1>1, <1>4, <2>1, <2>2, StartClears DEF Safe
  <2>5. overridden \subseteq overridden'
    BY <2>2 DEF StartsAt
  <2> QED
    BY <1>1, <1>2, <1>3, <2>3, <2>4, <2>5, RailTruth DEF Safe
<1>5. CASE FirstUnfinished(q) = 0
  <2>1. rail' = rail /\ row' = row /\ refused' = refused /\ overridden' = overridden
    BY <1>3, <1>5 DEF DoStartRail, runVars
  <2> QED
    BY <1>1, <1>2, <1>3, <2>1, RailTruth
<1> QED
  BY <1>4, <1>5

----------------------------------------------------------------------------
\* A step that awaits the host does not run yet.
LEMMA AwaitedTruth ==
    ASSUME RailsInv, TruthInv, NEW j \in {"launch", "create"}, Doing(j), NEW q \in Steps,
           q = Head(pass).step, NEW k \in {"create", "bind"}, Then(<<StepOp(k, q)>>),
           UNCHANGED runVars, hand' = hand, overridden' = overridden,
           tickAgain => tickAgain', again => again',
           IF k = "bind" THEN ses' = [ses EXCEPT ![q] = "new"] ELSE ses' = ses
    PROVE  TruthInv'
<1>1. /\ pass # <<>> /\ PassInv /\ Head(pass).kind = j /\ j \in Stepped
      /\ rail' = rail /\ row' = row /\ refused' = refused
  BY DEF Doing, RailsInv, Stepped, runVars
<1>2. PICK a \in Ops : a = StepOp(k, q) /\ a.kind = k /\ a.step = q
  BY StepOps DEF Stepped
<1>3. Left({a}) /\ Head(pass) \in Listed(pass) /\ Head(pass) \in Due
  BY <1>1, <1>2, LeftFacts
<1>4. /\ \A t \in Steps : ses'[t] = ses[t] \/ ses'[t] = "new"
      /\ \A t \in Steps : t # q => ses'[t] = ses[t]
      /\ k = "bind" => ses'[q] = "new"
  BY DEF RailsInv, WorldInv
<1>5. Beside({a})
  BY <1>2, <1>3, <1>4 DEF Beside
<1>6. Launches(q)
  BY <1>1, <1>3 DEF Launches, Launched
<1>7. Calm({a})
  BY <1>2, <1>6 DEF Calm
<1>8. row'[q].st # "running"
  BY <1>1, <1>3 DEF Due, Stands
<1> QED
  BY <1>1, <1>4, <1>5, <1>7, <1>8, StepTruth

\* A row that is written, and does not run or is true.
LEMMA WrittenTruth ==
    ASSUME RailsInv, TruthInv, NEW j \in Launched, Doing(j), NEW q \in Steps,
           q = Head(pass).step, Then(<<>>), hand' = hand,
           overridden' = overridden, ses' = ses,
           NEW x \in {"running", "stalled"}, NEW named, NEW count, SetStep(q, x, named, count),
           tickAgain => tickAgain', again => again',
           x = "running" /\ refused' = 0 /\ Untrue(q)' => Coming'
    PROVE  TruthInv'
<1>1. pass # <<>> /\ PassInv /\ Head(pass).kind = j /\ j \in Stepped
  BY DEF Doing, RailsInv, Stepped, Launched
<1>2. Left({}) /\ Head(pass) \in Listed(pass)
  BY <1>1, LeftFacts
<1>3. Beside({})
  BY <1>2 DEF Beside
<1>4. refused' = 0 =>
        /\ refused = 0 /\ rail' = rail /\ row'[q].st = x
        /\ \A t \in Steps : t # q => row'[t] = row[t]
  BY SetStepActs DEF RailsInv
<1>5. Launches(q)
  BY <1>1, <1>2 DEF Launches
<1>6. Safe' => /\ row'[q].st # "running" \/ (Untrue(q)' => Coming')
               /\ ~Finished(row'[q].st)
  BY <1>4 DEF Safe, Finished
<1> QED
  BY <1>1, <1>3, <1>4, <1>5, <1>6, NothingCalm, StepTruth

\* A launch held back, or taken, starts no step but one that waits for a
\* person or a pull request.
LEMMA DoLaunchTruth ==
    ASSUME RailsInv, TruthInv, DoLaunch
    PROVE  TruthInv'
<1>1. /\ Doing("launch") /\ pass # <<>> /\ PassInv /\ "launch" \in Stepped
      /\ hand' = hand /\ tickAgain' = tickAgain /\ ses' = ses /\ overridden' = overridden
      /\ "launch" \in Launched
  BY DEF DoLaunch, Doing, PassUnchanged, worldVars, boundVars, Stepped, Launched, RailsInv
<1>2. PICK q \in Steps : q = Head(pass).step
  BY <1>1, HeadIsDue
<1>3. CASE held /\ Then(<<>>) /\ RunsOn /\ UNCHANGED <<runVars, again>>
  <2>1. Left({})
    BY <1>1, <1>3, LeftFacts
  <2>2. Beside({})
    BY <1>1, <1>3, <2>1 DEF Beside
  <2>3. Head(pass) \in Due /\ Head(pass).kind = "launch"
    BY <1>1, HeadIsDue
  <2>4. rail' = rail /\ row' = row /\ refused' = refused
    BY <1>3 DEF runVars
  <2>5. row'[q].st # "running"
    BY <1>2, <2>3, <2>4 DEF Due, Stands
  <2> QED
    BY <1>1, <1>2, <2>2, <2>4, <2>5, NothingCalm, StepTruth
<1>4. CASE ~held /\ Kind[q] = "gavin" /\ LaunchGavin(q)
  <2>1. CASE Stall(q, {}) /\ UNCHANGED again
    BY <1>1, <1>2, <2>1, StallTruth
  <2>2. CASE /\ SetStep(q, "done", FALSE, {}) /\ again' = TRUE
             /\ Then(IF rail[Target[q]].st = "idle"
                     THEN <<RailOp("startRail", Target[q], 0)>> ELSE <<>>)
    <3>1. PICK X : Beside(X) /\ Calm(X)
      <4>1. CASE rail[Target[q]].st = "idle"
        <5>1. Target[q] \in RailSet
          BY <1>4, RailsAssumption
        <5>2. PICK a \in Ops : a = RailOp("startRail", Target[q], 0) /\ a.kind = "startRail"
          BY <5>1, RailOps DEF RailOp, Railed
        <5>3. Then(<<a>>)
          BY <2>2, <4>1, <5>2
        <5>4. Left({a})
          BY <1>1, <5>3, LeftFacts
        <5>5. Beside({a})
          BY <1>1, <2>2, <5>2, <5>4 DEF Beside
        <5>6. Calm({a})
          BY <5>2 DEF Calm, Launched
        <5> QED
          BY <5>5, <5>6
      <4>2. CASE rail[Target[q]].st # "idle"
        <5>1. Left({})
          BY <1>1, <2>2, <4>2, LeftFacts
        <5>2. Beside({})
          BY <1>1, <2>2, <5>1 DEF Beside
        <5> QED
          BY <5>2, NothingCalm
      <4> QED
        BY <4>1, <4>2
    <3>2. refused' = 0 =>
            /\ refused = 0 /\ rail' = rail /\ row'[q].st = "done"
            /\ \A t \in Steps : t # q => row'[t] = row[t]
      BY <2>2, SetStepActs DEF RailsInv
    <3>3. Coming'
      BY <2>2 DEF Coming
    <3> QED
      BY <1>1, <1>2, <3>1, <3>2, <3>3, StepTruth DEF Safe
  <2> QED
    BY <1>4, <2>1, <2>2 DEF LaunchGavin
<1>5. CASE ~held /\ Kind[q] = "card" /\ LaunchCard(q) /\ UNCHANGED again
  <2>1. CASE q \in locked
    <3>1. SetStep(q, "stalled", FALSE, {}) /\ Then(<<>>)
      BY <1>5, <2>1 DEF LaunchCard
    <3> QED
      BY <1>1, <1>2, <1>5, <3>1, WrittenTruth
  <2>2. CASE q \notin locked
    <3>1. Then(<<StepOp("create", q)>>) /\ UNCHANGED runVars
      BY <1>5, <2>2 DEF LaunchCard
    <3> QED
      BY <1>1, <1>2, <1>5, <3>1, AwaitedTruth
  <2> QED
    BY <2>1, <2>2
<1>6. CASE ~held /\ Kind[q] \notin {"gavin", "card"} /\ LaunchTool(q) /\ UNCHANGED again
  <2>1. CASE /\ Kind[q] \in {"review", "pr"}
             /\ SetStep(q, "running", FALSE, IF Kind[q] = "pr" THEN {} ELSE {0})
             /\ Then(<<>>)
    <3>1. PICK count : count = IF Kind[q] = "pr" THEN {} ELSE {0}
      OBVIOUS
    <3>2. SetStep(q, "running", FALSE, count)
      BY <2>1, <3>1
    <3>3. ~Untrue(q)'
      BY <2>1 DEF Untrue
    <3> QED
      BY <1>1, <1>2, <1>6, <2>1, <3>2, <3>3, WrittenTruth
  <2>2. CASE Then(<<StepOp("create", q)>>) /\ UNCHANGED runVars
    BY <1>1, <1>2, <1>6, <2>2, AwaitedTruth
  <2> QED
    BY <1>6, <2>1, <2>2 DEF LaunchTool
<1> QED
  BY <1>2, <1>3, <1>4, <1>5, <1>6 DEF DoLaunch

\* A session's creation writes no row, or stalls its step.
LEMMA DoCreateTruth ==
    ASSUME RailsInv, TruthInv, DoCreate
    PROVE  TruthInv'
<1>1. /\ Doing("create") /\ hand' = hand /\ tickAgain' = tickAgain /\ again' = again
      /\ overridden' = overridden /\ "create" \in Stepped
  BY DEF DoCreate, boundVars, Stepped
<1>2. PICK q \in Steps : q = Head(pass).step
  BY <1>1, HeadIsDue DEF RailsInv
<1>3. CASE /\ ses' = [ses EXCEPT ![q] = "new"]
           /\ Then(<<StepOp("bind", q)>>) /\ UNCHANGED runVars
  <2>1. PICK k \in {"create", "bind"} : k = "bind"
    OBVIOUS
  <2>2. Then(<<StepOp(k, q)>>) /\ IF k = "bind" THEN ses' = [ses EXCEPT ![q] = "new"]
                                  ELSE ses' = ses
    BY <1>3, <2>1
  <2> QED
    BY <1>1, <1>2, <1>3, <2>2, AwaitedTruth
<1>4. CASE Stall(q, {}) /\ UNCHANGED ses
  BY <1>1, <1>2, <1>4, StallTruth
<1> QED
  BY <1>2, <1>3, <1>4 DEF DoCreate

\* A row that is bound names a session at its first prompt, or one that has
\* changed since, which ticked.
LEMMA DoBindTruth ==
    ASSUME RailsInv, WaitsInv, TruthInv, DoBind
    PROVE  TruthInv'
<1>1. /\ Doing("bind") /\ Head(pass).kind = "bind" /\ pass # <<>> /\ cpu # "tick"
      /\ hand' = hand /\ Then(<<>>) /\ "bind" \in Launched /\ "bind" \in Stepped
      /\ tickAgain' = tickAgain /\ again' = again /\ overridden' = overridden /\ ses' = ses
      /\ PassInv
  BY DEF DoBind, Doing, PassUnchanged, worldVars, boundVars, Stepped, Launched, RailsInv
<1>2. PICK q \in Steps : q = Head(pass).step
  BY <1>1, HeadIsDue
<1>3. Head(pass) \in Listed(pass)
  BY <1>1, LeftFacts
<1>4. ses[q] = "new" \/ Coming
  BY <1>1, <1>2, <1>3 DEF WaitsInv, BindInv
<1>5. PICK count : count = IF Kind[q] = "until" THEN {} ELSE {0}
  OBVIOUS
<1>6. SetStep(q, "running", TRUE, count)
  BY <1>2, <1>5 DEF DoBind
<1>7. ASSUME refused' = 0, ses[q] = "new"
      PROVE  ~Untrue(q)'
  <2>1. row'[q].ses = TRUE
    <3>1. ~Refuse
      <4>1. refused \in Nat /\ refused + 1 # 0
        BY DEF RailsInv, RowsInv
      <4> QED
        BY <1>7, <4>1 DEF Refuse
    <3>2. PICK n : row' = [row EXCEPT ![q] = [st |-> "running", ses |-> TRUE, tries |-> n]]
      BY <1>6, <3>1 DEF SetStep
    <3> QED
      BY <3>2 DEF RailsInv, RowsInv
  <2>2. SessionOf(q)' = "new"
    BY <1>1, <1>7, <2>1 DEF SessionOf
  <2> QED
    BY <2>2 DEF Untrue, Healthy
<1>8. Coming => Coming'
  BY <1>1 DEF Coming, Ticks
<1> QED
  BY <1>1, <1>2, <1>4, <1>6, <1>7, <1>8, WrittenTruth

----------------------------------------------------------------------------
\* Both rules have something to say of a step whose row is not true.
LEMMA UntrueSpoken ==
    ASSUME RowsInv, WorldInv, NEW s \in Steps, Untrue(s)
    PROVE  /\ Rule(s) # "none" /\ Rule(s) \in Rules
           /\ ReconcileRule(s) \in {"markDone", "stall"}
<1>1. Rule(s) # "none"
  BY SilentRule DEF Untrue, Waits, Finished
<1>2. ReconcileRule(s) \in {"markDone", "stall"}
  BY DEF Untrue, ReconcileRule, DeadSessionAction
<1> QED
  BY <1>1, <1>2, RuleFacts

\* A pass launches a step, or sends a loop back, only on a running rail, at a
\* stage its walk comes to and does not leave.
LEMMA WalkLaunches ==
    ASSUME RowsInv, NEW a \in Listed(NextActions), a.kind \in {"launch", "loopBack"},
           NEW s \in Steps, a.step = s
    PROVE  /\ rail[Owning[s]].st = "running"
           /\ rail[Owning[s]].at \in 1..Len(Stages[Owning[s]]) =>
                 Walked(Owning[s], StageOf[s]) /\ ~StagePasses(Owning[s], StageOf[s])
<1>1. PICK r \in RailSet : a \in Listed(Decided(r)) /\ Belongs(a, r)
  BY NextLists
<1>2. s \in StepsOf[r] /\ Owning[s] = r
  <2>1. s \in StepsOf[r]
    BY <1>1, OncesAssumption DEF Belongs
  <2> QED
    BY <2>1, Placing, StepsApart
<1>3. rail[r].st = "running"
  <2>1. ASSUME rail[r].st # "running"
        PROVE  FALSE
    <3>1. a \in Listed(ReconcileRail(r))
      BY <1>1, <2>1 DEF Decided
    <3>2. a # RailOp("arm", r, FirstUnfinished(r))
      BY DEF RailOp, Op
    <3>3. a.kind = ReconcileRule(s)
      BY <3>1, <3>2, ReconcileLists
    <3> QED
      BY <3>3, ReconcileFacts
  <2> QED
    BY <2>1
<1>4. ASSUME rail[r].at \in 1..Len(Stages[r])
      PROVE  Walked(r, StageOf[s]) /\ ~StagePasses(r, StageOf[s])
  <2>1. a \in Listed(WalkRail(r))
    BY <1>1, <1>3 DEF Decided
  <2>2. PICK j \in 1..Len(Stages[r]) :
           Walked(r, j) /\ (a \in Listed(WalkStage(r, j)) \/ a = LeaveOp(r, j))
    BY <1>4, <2>1, WalkRailLists
  <2>3. a \in Listed(WalkStage(r, j))
    BY <2>2 DEF LeaveOp, RailOp, Op
  <2>4. PICK i \in 1..Len(Stages[r][j]) : a.step = Stages[r][j][i]
    BY <2>3, WalkStageLists
  <2>5. \E q \in Steps : q = Stages[r][j][i] /\ Owning[q] = r /\ StageOf[q] = j
    <3>1. \A l \in 1..Len(Stages[r]) : \A m \in 1..Len(Stages[r][l]) :
             \E q \in Steps : q = Stages[r][l][m] /\ Owning[q] = r /\ StageOf[q] = l
      BY StepPlace
    <3> QED
      BY <3>1, Zenon
  <2>6. StageOf[s] = j
    BY <2>4, <2>5
  <2>7. ~StagePasses(r, j)
    BY <2>3, PassedStage
  <2> QED
    BY <2>2, <2>6, <2>7
<1> QED
  BY <1>2, <1>3, <1>4

\* A pass that leaves the stage of a step launches nothing there, and marks
\* the step done if it still runs.
LEMMA WalkedPast ==
    ASSUME RowsInv, NEW s \in Steps, rail[Owning[s]].st = "running",
           Cleared(Owning[s], rail[Owning[s]].at),
           \A k \in rail[Owning[s]].at..StageOf[s] : StagePasses(Owning[s], k)
    PROVE  /\ \A a \in Listed(NextActions) :
                 a.kind \in {"launch", "loopBack"} => a.step # s
           /\ row[s].st = "running" =>
                 \E a \in Listed(NextActions) : a.kind = "markDone" /\ a.step = s
<1>1. PICK r \in RailSet : r = Owning[s]
  BY Placing
<1>2. PICK j \in 1..Len(Stages[r]) : j = StageOf[s]
  BY <1>1, PlacedAt
<1>3. Stages[r] \in Seq(Seq(Steps)) /\ rail[r].at \in 1..Len(Stages[r]) /\ rail[r].at \in Nat
  BY <1>1, RailsAssumption DEF RowsInv, Cleared
<1>4. ASSUME NEW a \in Listed(NextActions), a.kind \in {"launch", "loopBack"}, a.step = s
      PROVE  FALSE
  <2>1. Walked(r, j) /\ ~StagePasses(r, j)
    BY <1>1, <1>2, <1>3, <1>4, WalkLaunches
  <2>2. j \in rail[r].at..j
    BY <1>3, <2>1 DEF Walked
  <2> QED
    BY <1>1, <1>2, <2>1, <2>2
<1>5. ASSUME row[s].st = "running"
      PROVE  \E a \in Listed(NextActions) : a.kind = "markDone" /\ a.step = s
  <2>1. ~(StageOf[s] < rail[r].at)
    BY <1>1, <1>5 DEF Cleared
  <2>2. Walked(r, j) /\ StagePasses(r, j)
    BY <1>1, <1>2, <1>3, <2>1 DEF Walked
  <2>3. PICK i \in 1..Len(Stages[r][j]) : Stages[r][j][i] = s
    BY <1>1, <1>2, PlacedAt
  <2>4. DOMAIN Stages[r][j] = 1..Len(Stages[r][j]) /\ Len(Stages[r][j]) \in Nat
    <3>1. Stages[r][j] \in Seq(Steps)
      BY <1>3
    <3> QED
      BY <3>1
  <2>5. Reached(r, j, i)
    <3>1. \A k \in 1..i - 1 : k \in DOMAIN Stages[r][j]
      BY <2>4
    <3> QED
      BY <2>2, <3>1 DEF Reached, StagePasses
  <2>6. Rule(s) = "markDone"
    <3>1. Rule(Stages[r][j][i]) = "markDone" \/ Finished(row[Stages[r][j][i]].st)
      BY <2>2, PassedStage
    <3> QED
      BY <1>5, <2>3, <3>1 DEF Finished
  <2>7. PICK a \in Listed(WalkStage(r, j)) : a.kind = "markDone" /\ a.step = s
    BY <2>3, <2>5, <2>6, WalkStageLists
  <2>8. a \in Listed(WalkRail(r))
    BY <1>3, <2>2, <2>7, WalkRailLists
  <2>9. a \in Listed(NextActions)
    BY <1>1, <2>8, NextLists DEF Decided
  <2> QED
    BY <2>7, <2>9
<1> QED
  BY <1>4, <1>5

\* What a pass decides takes no rail past a step it launches, nor past one
\* that runs unless it marks that step done.
LEMMA WalkMoves ==
    ASSUME RowsInv, CursorInv, NEW a \in Listed(NextActions)
    PROVE  /\ a.kind \in {"advance", "arm", "setRail"} => a.n \in 1..Len(Stages[a.rail])
           /\ \A s \in Steps : Passes(a, s) =>
                 /\ \A b \in Listed(NextActions) : b.kind \in Launched => b.step # s
                 /\ row[s].st = "running" =>
                       /\ a.kind \in {"advance", "loopBack"}
                       /\ \E b \in Listed(NextActions) : b.kind = "markDone" /\ b.step = s
<1>1. PICK r \in RailSet : a \in Listed(Decided(r)) /\ Belongs(a, r)
  BY NextLists
<1>2. \A b \in Listed(NextActions) : b.kind \in Launched => b.kind = "launch"
  BY NextLists DEF Belongs, Rules, Launched
<1>3. ASSUME a.kind \in {"advance", "arm"}
      PROVE  /\ a.rail = r
             /\ a.kind = "advance" => rail[r].st = "running"
             /\ a.kind = "arm" => /\ a = RailOp("arm", r, FirstUnfinished(r))
                                  /\ rail[r].st = "idle" /\ FirstUnfinished(r) # 0
  <2>1. a.rail = r /\ a.rail # "none"
    BY <1>1, <1>3, OncesAssumption DEF Belongs, Rules
  <2>2. CASE rail[r].st = "running"
    <3>1. a \in Listed(WalkRail(r)) /\ rail[r].at \in 1..Len(Stages[r])
      BY <1>1, <2>2 DEF Decided, CursorInv, Cleared
    <3>2. PICK j \in 1..Len(Stages[r]) : a \in Listed(WalkStage(r, j)) \/ a = LeaveOp(r, j)
      BY <3>1, WalkRailLists
    <3>3. a = LeaveOp(r, j)
      BY <2>1, <3>2, WalkStageLists
    <3> QED
      BY <2>1, <2>2, <3>3 DEF LeaveOp, RailOp, Op
  <2>3. CASE rail[r].st # "running"
    <3>1. a \in Listed(ReconcileRail(r))
      BY <1>1, <2>3 DEF Decided
    <3>2. /\ a = RailOp("arm", r, FirstUnfinished(r))
          /\ rail[r].st = "idle" /\ FirstUnfinished(r) # 0
      BY <2>1, <3>1, ReconcileLists
    <3> QED
      BY <2>1, <3>2 DEF RailOp, Op
  <2> QED
    BY <2>2, <2>3
<1>4. CASE a.kind = "advance"
  <2>1. a.rail = r /\ rail[r].st = "running" /\ Cleared(r, rail[r].at)
    BY <1>3, <1>4 DEF CursorInv
  <2>2. PICK j \in 1..Len(Stages[r]) :
           /\ Walked(r, j) /\ StagePasses(r, j)
           /\ a.n = j + 1 /\ a.n \in 1..Len(Stages[r])
    BY <1>4, <2>1, WalkAdvances DEF Cleared
  <2>3. ASSUME NEW s \in Steps, Passes(a, s)
        PROVE  /\ Owning[s] = r /\ \A k \in rail[r].at..StageOf[s] : StagePasses(r, k)
    <3>1. Owning[s] = r /\ StageOf[s] < j + 1
      BY <1>4, <2>1, <2>2, <2>3 DEF Passes
    <3>2. rail[r].at \in Nat /\ StageOf[s] \in Nat
      BY Placing DEF RowsInv
    <3>3. \A k \in rail[r].at..StageOf[s] : k = j \/ k \in rail[r].at..j - 1
      BY <3>1, <3>2
    <3> QED
      BY <2>2, <3>1, <3>3 DEF Walked
  <2> QED
    BY <1>2, <1>4, <2>1, <2>2, <2>3, WalkedPast
<1>5. CASE a.kind = "loopBack"
  <2>1. PICK q \in Steps : q = a.step /\ q \in StepsOf[r] /\ Owning[q] = r
    <3>1. a.step \in StepsOf[r]
      BY <1>1, <1>5 DEF Belongs
    <3> QED
      BY <3>1, Placing, StepsApart DEF Steps
  <2>2. Before[q] # "none"
    <3>1. rail[r].st = "running"
      BY <1>5, <2>1, WalkLaunches
    <3>2. Rule(q) = "loopBack"
      BY <1>5, <2>1, <3>1, MarkedByRule
    <3> QED
      BY <3>2, RuleFacts
  <2>3. rail[r].st = "running" /\ Cleared(r, rail[r].at)
    BY <1>5, <2>1, WalkLaunches DEF CursorInv
  <2>4. Walked(r, StageOf[q])
    BY <1>5, <2>1, <2>3, WalkLaunches DEF Cleared
  <2>5. StageOf[Before[q]] <= StageOf[q] /\ StageOf[Before[q]] \in Nat /\ StageOf[q] \in Nat
    BY <2>2, BeforeStage, Placing
  <2>6. ASSUME NEW s \in Steps, Passes(a, s)
        PROVE  /\ Owning[s] = r /\ \A k \in rail[r].at..StageOf[s] : StagePasses(r, k)
    <3>1. Owning[s] = r /\ StageOf[s] < StageOf[Before[q]]
      BY <1>5, <2>1, <2>6 DEF Passes
    <3>2. rail[r].at \in Nat /\ StageOf[s] \in Nat
      BY Placing DEF RowsInv
    <3>3. \A k \in rail[r].at..StageOf[s] : k \in rail[r].at..StageOf[q] - 1
      BY <2>5, <3>1, <3>2
    <3> QED
      BY <2>4, <3>1, <3>3 DEF Walked
  <2> QED
    BY <1>2, <1>5, <2>3, <2>6, WalkedPast
<1>6. CASE a.kind = "arm"
  <2>1. a.rail = r /\ rail[r].st = "idle" /\ FirstUnfinished(r) # 0
    BY <1>3, <1>6
  <2>2. a.n = FirstUnfinished(r)
    BY <1>3, <1>6 DEF RailOp, Op
  <2>3. ASSUME NEW s \in Steps, Passes(a, s)
        PROVE  /\ row[s].st # "running"
               /\ \A b \in Listed(NextActions) : b.kind = "launch" => b.step # s
    <3>1. Owning[s] = r /\ StageOf[s] < FirstUnfinished(r)
      BY <1>6, <2>1, <2>2, <2>3 DEF Passes
    <3>2. Finished(row[s].st)
      BY <2>1, <3>1, FirstUnfinishedIs
    <3>3. \A b \in Listed(NextActions) : b.kind = "launch" => b.step # s
      BY <2>1, <3>1, WalkLaunches
    <3> QED
      BY <3>2, <3>3 DEF Finished
  <2> QED
    BY <1>2, <1>6, <2>1, <2>2, <2>3, FirstUnfinishedIs
<1>7. CASE a.kind \notin {"advance", "loopBack", "arm"}
  BY <1>1, <1>7 DEF Belongs, Rules, Passes
<1> QED
  BY <1>4, <1>5, <1>6, <1>7

\* A pass writes about a step whose row is not true, or leaves one before it.
LEMMA WalkTells ==
    ASSUME RowsInv, WorldInv, CursorInv, NEW s \in Steps, Untrue(s)
    PROVE  \/ \E a \in Listed(NextActions) : a.kind \in Stepped /\ a.step = s
           \/ \E q \in Steps : /\ Earlier(q, s) /\ ~Finished(row[q].st)
                               /\ \A a \in Listed(NextActions) :
                                    a.kind = "markDone" => a.step # q
<1>1. PICK r \in RailSet : r = Owning[s] /\ s \in StepsOf[r]
  BY Placing
<1>2. /\ Rule(s) # "none" /\ Rule(s) \in Rules
      /\ ReconcileRule(s) \in {"markDone", "stall"}
  BY UntrueSpoken
<1>3. CASE rail[r].st = "running"
  <2>1. rail[r].at \in 1..Len(Stages[r]) /\ ~(StageOf[s] < rail[r].at)
    BY <1>1, <1>3 DEF CursorInv, Cleared, Untrue
  <2>2. rail[r].at <= StageOf[s]
    BY <2>1, Placing
  <2>3. Rule(s) \in Stepped
    BY <1>2 DEF Rules, Stepped
  <2> QED
    BY <1>1, <1>2, <1>3, <2>1, <2>2, <2>3, WalkSays
<1>4. CASE rail[r].st # "running"
  <2>1. PICK a \in Listed(ReconcileRail(r)) : a.kind = ReconcileRule(s) /\ a.step = s
    BY <1>1, <1>2, ReconcileLists
  <2>2. a \in Listed(NextActions)
    BY <1>4, <2>1, NextLists DEF Decided
  <2> QED
    BY <1>2, <2>1, <2>2 DEF Stepped
<1> QED
  BY <1>3, <1>4

\* What a pass decides of a window it has read whole.
LEMMA RunTickTruth ==
    ASSUME RailsInv, TruthInv, RunTick
    PROVE  TruthInv'
<1> SUFFICES ASSUME Safe' PROVE CursorInv' /\ MoveInv' /\ TrueInv'
  BY DEF TruthInv
<1>1. /\ pass' = NextActions /\ rail' = rail /\ row' = row /\ refused' = refused
      /\ ses' = ses /\ overridden' = overridden /\ RowsInv /\ WorldInv
  BY DEF RunTick, runVars, worldVars, boundVars, RailsInv
<1>2. CursorInv
  BY <1>1 DEF TruthInv, Safe
<1>3. MoveInv'
  BY <1>1, <1>2, WalkMoves DEF MoveInv, Launches, Marked
<1>4. ASSUME NEW r \in RailSet, rail[r].st # "idle", NEW s \in Steps,
             Owning[s] = r, StageOf[s] < rail[r].at
      PROVE  ~Launches(s)'
  <2>1. ASSUME NEW a \in Listed(NextActions), a.kind \in Launched, a.step = s
        PROVE  FALSE
    <3>1. a.kind = "launch"
      BY <1>1, <2>1, NextLists DEF Belongs, Rules, Launched
    <3>2. rail[r].at \in 1..Len(Stages[r])
      BY <1>2, <1>4 DEF CursorInv, Cleared
    <3>3. Walked(r, StageOf[s])
      BY <1>1, <1>4, <2>1, <3>1, <3>2, WalkLaunches
    <3>4. rail[r].at \in Nat /\ StageOf[s] \in Nat
      BY <1>1, Placing DEF RowsInv
    <3> QED
      BY <1>4, <3>3, <3>4 DEF Walked
  <2> QED
    BY <1>1, <2>1 DEF Launches
<1>5. CursorInv'
  BY <1>1, <1>2, <1>4 DEF CursorInv, Cleared
<1>6. ASSUME NEW s \in Steps, Untrue(s)'
      PROVE  About(s)' \/ Preceded(s)'
  <2>1. Untrue(s)
    BY <1>1, <1>6 DEF Untrue, SessionOf
  <2> QED
    BY <1>1, <1>2, <2>1, WalkTells DEF About, Preceded, Marked
<1> QED
  BY <1>3, <1>5, <1>6 DEF TrueInv

\* What happens beside a pass: a rail stops, or is at a stage it may be at,
\* and no row is shown as running anew.
LEMMA BesideTruth ==
    ASSUME RailsInv, TruthInv, pass' = pass, Coming => Coming',
           Safe' =>
              /\ Safe
              /\ \A r \in RailSet : \/ rail'[r] = rail[r] \/ rail'[r].st = "idle"
                                    \/ \E n : rail'[r].at = n /\ Cleared(r, n)
              /\ \A s \in Steps : row'[s].st # "running" \/ row'[s] = row[s]
              /\ \/ Coming'
                 \/ /\ ses' = ses
                    /\ \A s \in Steps : Finished(row'[s].st) => Finished(row[s].st)
    PROVE  TruthInv'
<1> SUFFICES ASSUME Safe' PROVE CursorInv' /\ MoveInv' /\ TrueInv'
  BY DEF TruthInv
<1>1. CursorInv /\ MoveInv /\ TrueInv
  BY DEF TruthInv
<1>2. \A r, n : Cleared(r, n) =>
         /\ n \in 1..Len(Stages[r])
         /\ \A s \in Steps : Owning[s] = r /\ StageOf[s] < n =>
               row'[s].st # "running" /\ ~Launches(s)'
  BY DEF Cleared, Launches
<1>3. CursorInv'
  <2>1. ASSUME NEW r \in RailSet, rail'[r].st # "idle"
        PROVE  \E n : rail'[r].at = n /\ Cleared(r, n)
    BY <1>1, <2>1 DEF CursorInv
  <2> QED
    BY <1>2, <2>1 DEF CursorInv, Cleared
<1>4. MoveInv'
  BY <1>1 DEF MoveInv, Launches, Marked
<1>5. ASSUME NEW s \in Steps, Untrue(s)', ~Coming'
      PROVE  About(s)' \/ Preceded(s)'
  <2>1. row'[s] = row[s] /\ ses' = ses
    BY <1>5 DEF Untrue
  <2>2. Untrue(s)
    BY <1>5, <2>1 DEF Untrue, SessionOf
  <2>3. About(s) \/ Preceded(s)
    BY <1>1, <1>5, <2>2 DEF TrueInv
  <2> QED
    BY <1>5, <2>3 DEF About, Preceded, Marked
<1> QED
  BY <1>3, <1>4, <1>5 DEF TrueInv

\* The end of a pass that another one follows.
LEMMA EndPassTruth ==
    ASSUME RailsInv, TruthInv, EndPass
    PROVE  TruthInv'
<1>1. /\ pass' = pass /\ rail' = rail /\ row' = row /\ ses' = ses /\ refused' = refused
      /\ hand' = hand /\ overridden' = overridden
      /\ cpu # "tick" /\ cpu' = IF tickAgain \/ again THEN "tick" ELSE "free"
  BY DEF EndPass, runVars, worldVars, boundVars
<1>2. Coming => Coming'
  BY <1>1 DEF Coming, Ticks
<1> QED
  BY <1>1, <1>2, BesideTruth DEF Safe

\* A press carried out write by write takes steps back, stops a rail, or
\* lets one go on where it was.
LEMMA HandStepTruth ==
    ASSUME RailsInv, StallsInv, TruthInv, HandStep
    PROVE  TruthInv'
<1>1. /\ hand' = Tail(hand) /\ hand # <<>> /\ ses' = ses /\ overridden' = overridden
      /\ HandInv /\ HandTail /\ RowsInv
  BY DEF HandStep, Handling, worldVars, boundVars, RailsInv, StallsInv
<1>2. /\ Head(hand).kind # "tick" => (Ticks => Ticks')
      /\ Head(hand).kind = "unpause" => Ticks'
  BY <1>1, HandGoesOn
<1>3. Head(hand) \in Handed
  <2>1. PICK p \in Seq(Handed) : p = hand /\ p # <<>>
    BY <1>1 DEF HandInv
  <2> QED
    BY <2>1, TailOf
<1>4. CASE Handling("tick") /\ UNCHANGED runVars /\ Tick
  <2>1. Coming' /\ pass' = pass
    BY <1>4, TickComes
  <2>2. rail' = rail /\ row' = row /\ refused' = refused
    BY <1>4 DEF runVars
  <2> QED
    BY <1>1, <2>1, <2>2, BesideTruth DEF Safe
<1>5. ASSUME Head(hand).kind # "tick", UNCHANGED passVars, cpu # "tick"
      PROVE  pass' = pass /\ (Coming => Coming')
  BY <1>1, <1>2, <1>5 DEF passVars, Coming
<1>6. CASE /\ Handling("reset") /\ SetStep(Head(hand).step, "pending", FALSE, {0})
           /\ UNCHANGED passVars
  <2>1. Head(hand).kind = "reset" /\ cpu # "tick"
    BY <1>6 DEF Handling
  <2>2. PICK q \in Steps : q = Head(hand).step
    BY <1>3, <2>1 DEF Handed
  <2>3. Safe' =>
          /\ Safe /\ rail' = rail /\ row'[q].st = "pending"
          /\ \A t \in Steps : t # q => row'[t] = row[t]
    BY <1>1, <1>6, <2>2, SetStepActs DEF Safe
  <2>4. Safe' => \A t \in Steps :
           /\ row'[t].st # "running" \/ row'[t] = row[t]
           /\ Finished(row'[t].st) => Finished(row[t].st)
    BY <2>3 DEF Finished
  <2>5. pass' = pass /\ (Coming => Coming')
    BY <1>5, <1>6, <2>1
  <2> QED
    BY <1>1, <2>3, <2>4, <2>5, BesideTruth
<1>7. CASE /\ Handling("idle") /\ SetRail(Head(hand).rail, "idle", 0)
           /\ UNCHANGED passVars
  <2>1. Head(hand).kind = "idle" /\ cpu # "tick"
    BY <1>7 DEF Handling
  <2>2. PICK q \in RailSet : q = Head(hand).rail
    BY <1>3, <2>1 DEF Handed
  <2>3. Safe' =>
          /\ Safe /\ row' = row /\ rail'[q].st = "idle"
          /\ \A o \in RailSet : o # q => rail'[o] = rail[o]
    BY <1>1, <1>7, <2>2, SetRailActs DEF Safe
  <2>4. pass' = pass /\ (Coming => Coming')
    BY <1>5, <1>7, <2>1
  <2> QED
    BY <1>1, <2>3, <2>4, BesideTruth
<1>8. CASE /\ Handling("unpause") /\ UNCHANGED passVars
           /\ LET r == Head(hand).rail IN
                IF rail[r].st = "paused"
                THEN /\ SetRail(r, "running", IF rail[r].at # 0 THEN rail[r].at
                                              ELSE Head(hand).n)
                     /\ Awaits
                ELSE UNCHANGED runVars /\ cpu' = "hand"
  <2>1. Head(hand).kind = "unpause" /\ cpu # "tick"
    BY <1>8 DEF Handling
  <2>2. PICK q \in RailSet : q = Head(hand).rail
    BY <1>3, <2>1 DEF Handed
  <2>3. Coming' /\ pass' = pass
    BY <1>2, <1>5, <1>8, <2>1 DEF Coming
  <2>4. CASE rail[q].st = "paused"
    <3>1. PICK n : n = IF rail[q].at # 0 THEN rail[q].at ELSE Head(hand).n
      OBVIOUS
    <3>2. SetRail(q, "running", n)
      BY <1>8, <2>2, <2>4, <3>1
    <3>3. Safe' =>
            /\ Safe /\ row' = row /\ rail'[q].at = n
            /\ \A o \in RailSet : o # q => rail'[o] = rail[o]
      BY <1>1, <3>2, SetRailActs DEF Safe
    <3>4. Safe' => Cleared(q, rail[q].at)
      BY <2>4, <3>3 DEF TruthInv, CursorInv
    <3>5. Safe' => n = rail[q].at
      BY <3>1, <3>4 DEF Cleared
    <3> QED
      BY <1>1, <2>3, <3>3, <3>4, <3>5, BesideTruth
  <2>5. CASE rail[q].st # "paused"
    <3>1. rail' = rail /\ row' = row /\ refused' = refused
      BY <1>8, <2>2, <2>5 DEF runVars
    <3> QED
      BY <1>1, <2>3, <3>1, BesideTruth DEF Safe
  <2> QED
    BY <2>4, <2>5
<1> QED
  BY <1>4, <1>6, <1>7, <1>8 DEF HandStep

\* A press starts a rail where nothing before it runs, stops one, or ticks.
LEMMA PressesTruth ==
    ASSUME RailsInv, TruthInv, Presses
    PROVE  TruthInv'
<1>1. \A r \in RailSet : PressStart(r) \/ PressPause(r) \/ PressReset(r) => Press
  BY DEF PressStart, PressPause, PressReset
<1>2. \A s \in Steps : PressRetry(s) \/ PressMarkDone(s) \/ PressSkip(s) => Press
  BY DEF PressRetry, PressMarkDone, PressSkip
<1>3. Press
  BY <1>1, <1>2 DEF Presses
<1>4. /\ pass' = pass /\ again' = again /\ tickAgain' = tickAgain /\ cpu = "free"
      /\ ses' = ses /\ RowsInv /\ PassInv
      /\ ~Ticks
  <2>1. Len(<<>>) = 0 /\ 1..0 = {}
    OBVIOUS
  <2> QED
    BY <1>3, <2>1 DEF Press, passVars, worldVars, Ticks, RailsInv
<1>5. Coming => Coming'
  BY <1>4 DEF Coming
<1>6. ASSUME NEW r \in RailSet, PressStart(r)
      PROVE  TruthInv'
  <2>1. Coming'
    BY <1>6, ShortHands DEF PressStart, Coming
  <2>2. PICK n : n = IF rail[r].st = "paused" /\ rail[r].at \in DOMAIN Stages[r]
                     THEN rail[r].at ELSE FirstUnfinished(r)
    OBVIOUS
  <2>3. /\ SetRail(r, "running", n) /\ StartsAt(r, n)
        /\ rail[r].st # "running" /\ (rail[r].st = "idle" => FirstUnfinished(r) # 0)
    BY <1>6, <2>2 DEF PressStart
  <2>4. Safe' =>
          /\ Safe /\ row' = row /\ rail'[r].at = n
          /\ \A o \in RailSet : o # r => rail'[o] = rail[o]
    <3>1. overridden \subseteq overridden'
      BY <2>3 DEF StartsAt
    <3> QED
      BY <1>4, <2>3, <3>1, SetRailActs DEF Safe
  <2>5. Safe' => Cleared(r, n)
    <3>1. CASE rail[r].st = "idle"
      BY <1>4, <2>2, <2>3, <3>1, StartClears DEF Safe
    <3>2. CASE rail[r].st = "paused"
      <4>1. Safe' => Cleared(r, rail[r].at)
        BY <2>4, <3>2 DEF TruthInv, CursorInv
      <4>2. DOMAIN Stages[r] = 1..Len(Stages[r])
        <5>1. Stages[r] \in Seq(Seq(Steps))
          BY RailsAssumption
        <5> QED
          BY <5>1
      <4> QED
        BY <2>2, <3>2, <4>1, <4>2 DEF Cleared
    <3> QED
      BY <1>4, <2>3, <3>1, <3>2 DEF RowsInv
  <2> QED
    BY <1>4, <2>1, <2>4, <2>5, BesideTruth
<1>7. ASSUME NEW r \in RailSet, PressPause(r)
      PROVE  TruthInv'
  <2>1. /\ SetRail(r, "paused", rail[r].at) /\ overridden' = overridden
        /\ rail[r].st = "running"
    BY <1>7 DEF PressPause
  <2>2. Safe' =>
          /\ Safe /\ row' = row /\ rail'[r].at = rail[r].at
          /\ \A o \in RailSet : o # r => rail'[o] = rail[o]
    BY <1>4, <2>1, SetRailActs DEF Safe
  <2>3. Safe' => Cleared(r, rail[r].at)
    BY <2>1, <2>2 DEF TruthInv, CursorInv
  <2> QED
    BY <1>4, <1>5, <2>2, <2>3, BesideTruth
<1>8. ASSUME NEW r \in RailSet, PressReset(r)
      PROVE  TruthInv'
  <2>1. rail' = rail /\ row' = row /\ refused' = refused /\ overridden' = overridden
    BY <1>8 DEF PressReset, runVars
  <2> QED
    BY <1>4, <1>5, <2>1, BesideTruth DEF Safe
<1>9. ASSUME NEW s \in Steps, PressRetry(s) \/ PressMarkDone(s) \/ PressSkip(s)
      PROVE  TruthInv'
  <2>1. Coming'
    BY <1>9, ShortHands DEF PressRetry, PressMarkDone, PressSkip, Coming
  <2>2. PICK x \in {"pending", "done", "skipped"} :
           /\ overridden' = overridden
           /\ \E named, count : SetStep(s, x, named, count)
    BY <1>9 DEF PressRetry, PressMarkDone, PressSkip
  <2>3. Safe' =>
          /\ Safe /\ rail' = rail /\ row'[s].st # "running"
          /\ \A t \in Steps : t # s => row'[t] = row[t]
    BY <1>4, <2>2, SetStepActs DEF Safe
  <2>4. Safe' => \A t \in Steps : row'[t].st # "running" \/ row'[t] = row[t]
    BY <2>3
  <2> QED
    BY <1>4, <2>1, <2>3, <2>4, BesideTruth
<1> QED
  BY <1>6, <1>7, <1>8, <1>9 DEF Presses

\* What the world does, a tick follows; a reload begins a pass of its own.
LEMMA WorldMovesTruth ==
    ASSUME RailsInv, TruthInv, WorldMoves
    PROVE  TruthInv'
<1>1. CASE World
  <2>1. Coming' /\ pass' = pass
    BY <1>1, TickComes DEF World
  <2>2. rail' = rail /\ row' = row /\ refused' = refused /\ overridden' = overridden
    BY <1>1 DEF World, runVars
  <2> QED
    BY <2>1, <2>2, BesideTruth DEF Safe
<1>2. CASE Reloads
  <2>1. /\ pass' = <<>> /\ cpu' = "tick" /\ rail' = rail /\ row' = row
        /\ refused' = refused /\ overridden' = overridden
    BY <1>2 DEF Reloads, runVars
  <2>2. Len(<<>>) = 0 /\ 1..0 = {}
    OBVIOUS
  <2>3. Listed(pass') = {}
    BY <2>1, <2>2 DEF Listed
  <2>4. Coming'
    BY <2>1 DEF Coming
  <2>5. Safe' => CursorInv'
    BY <2>1, <2>3 DEF Safe, TruthInv, CursorInv, Cleared, Launches
  <2> QED
    BY <2>3, <2>4, <2>5 DEF TruthInv, MoveInv, TrueInv
<1>3. \A s \in Steps : SessionTurns(s) \/ CardDone(s) \/ PullRequest(s) => World
  BY DEF SessionTurns, CardDone, PullRequest
<1>4. \A s : BlockerMoves(s) \/ LockMoves(s) => World
  BY DEF BlockerMoves, LockMoves
<1>5. HoldMoves \/ DaemonRestarts => World
  BY DEF HoldMoves, DaemonRestarts
<1> QED
  BY <1>1, <1>2, <1>3, <1>4, <1>5 DEF WorldMoves

\* In an empty window no rail is started and no row says that anything runs.
LEMMA TruthInit == Init => TruthInv
<1> SUFFICES ASSUME Init PROVE TruthInv
  OBVIOUS
<1>1. /\ pass = <<>> /\ rail = [r \in RailSet |-> [st |-> "idle", at |-> 0]]
      /\ row = [s \in Steps |-> [st |-> "pending", ses |-> FALSE, tries |-> 0]]
  BY DEF Init
<1>2. Len(<<>>) = 0 /\ 1..0 = {}
  OBVIOUS
<1>3. Listed(pass) = {}
  BY <1>1, <1>2 DEF Listed
<1>4. /\ \A r \in RailSet : rail[r].st = "idle"
      /\ \A s \in Steps : row[s].st # "running"
  BY <1>1
<1> QED
  BY <1>3, <1>4 DEF TruthInv, CursorInv, MoveInv, TrueInv, Untrue

\* Every step keeps it, one lemma for each action.
LEMMA TruthNext == RailsInv /\ StallsInv /\ WaitsInv /\ TruthInv /\ [Next]_vars => TruthInv'
<1> SUFFICES ASSUME RailsInv, StallsInv, WaitsInv, TruthInv, [Next]_vars PROVE TruthInv'
  OBVIOUS
<1>1. CASE PassStep
  BY <1>1, DoMarkDoneTruth, DoStallTruth, DoLoopExhaustedTruth, DoLoopBackTruth,
     DoSetStepTruth, DoSetRailTruth, DoUnpauseTruth, DoAdvanceTruth, DoCompleteTruth,
     DoArmTruth, DoStartRailTruth, DoLaunchTruth, DoCreateTruth, DoBindTruth,
     RunTickTruth, EndPassTruth DEF PassStep
<1>2. CASE HandStep
  BY <1>2, HandStepTruth
<1>3. CASE Presses
  BY <1>3, PressesTruth
<1>4. CASE WorldMoves
  BY <1>4, WorldMovesTruth
<1>5. CASE UNCHANGED vars
  <2>1. /\ pass' = pass /\ hand' = hand /\ again' = again /\ tickAgain' = tickAgain
        /\ cpu' = cpu /\ refused' = refused /\ overridden' = overridden
        /\ rail' = rail /\ row' = row /\ ses' = ses
    BY <1>5 DEF vars
  <2>2. Coming => Coming'
    BY <2>1 DEF Coming, Ticks
  <2> QED
    BY <2>1, <2>2, BesideTruth DEF Safe
<1> QED
  BY <1>1, <1>2, <1>3, <1>4, <1>5 DEF Next

\* In a quiet window nothing is left to say of a row whose turn it is.
LEMMA QuietTruth ==
    ASSUME RailsInv, TruthInv
    PROVE  RowsAreTrue
<1> SUFFICES ASSUME Quiet, refused = 0, "step" \notin overridden,
                    NEW s \in Steps, InTurn(s), row[s].st = "running"
             PROVE  Kind[s] \in {"review", "pr"} \/ SessionOf(s) \in Healthy
  BY DEF RowsAreTrue
<1>1. /\ pass = <<>> /\ hand = <<>> /\ ~tickAgain /\ ~again /\ cpu # "tick"
  BY DEF Quiet, RailsInv, LoopInv
<1>2. Listed(pass) = {} /\ ~Coming
  <2>1. Len(<<>>) = 0 /\ 1..0 = {}
    OBVIOUS
  <2> QED
    BY <1>1, <2>1 DEF Listed, Coming, Ticks
<1>3. ~Preceded(s)
  BY InTurnClears DEF Preceded
<1> QED
  BY <1>2, <1>3 DEF TruthInv, Safe, TrueInv, Untrue, About

----------------------------------------------------------------------------
(* The theorems *)

\* An empty window satisfies the invariant (emptyOrchestration).
LEMMA RailsInitInv == Init => RailsInv
<1> SUFFICES ASSUME Init PROVE RailsInv
  OBVIOUS
<1>1. MaxTries \in Nat
  BY BoundsAssumption
<1>2. RowsInv
  <2>1. /\ rail = [r \in RailSet |-> [st |-> "idle", at |-> 0]]
        /\ row = [s \in Steps |-> [st |-> "pending", ses |-> FALSE, tries |-> 0]]
        /\ spent = [s \in Steps |-> 0] /\ refused = 0
    BY DEF Init
  <2>2. RunningNamed
    BY <2>1 DEF RunningNamed
  <2>3. SpentCounted
    BY <2>1 DEF SpentCounted
  <2> QED
    BY <1>1, <2>1, <2>2, <2>3 DEF RowsInv
<1>3. WorldInv
  BY DEF Init, WorldInv
<1>4. LoopInv
  BY DEF Init, LoopInv
<1>5. HandInv
  BY HandedOps, HandedSeqs DEF Init, HandInv
<1>6. PassInv
  <2>1. pass = <<>>
    BY DEF Init
  <2>2. StepOp("stall", "none").kind \notin Claims
    BY DEF StepOp, Op, Claims
  <2>3. Apart(<<>>)
    BY <2>2, OneApart
  <2>4. <<>> \in Seq(Due)
    OBVIOUS
  <2> QED
    BY <2>1, <2>3, <2>4 DEF PassInv
<1> QED
  BY <1>2, <1>3, <1>4, <1>5, <1>6 DEF RailsInv

\* Every step keeps it, one lemma for each action.
LEMMA RailsNextInv == RailsInv /\ [Next]_vars => RailsInv'
<1> SUFFICES ASSUME RailsInv, [Next]_vars PROVE RailsInv'
  OBVIOUS
<1>1. CASE PassStep
  BY <1>1, DoMarkDoneKeeps, DoStallKeeps, DoLoopExhaustedKeeps, DoLoopBackKeeps,
     DoSetStepKeeps, DoSetRailKeeps, DoUnpauseKeeps, DoRailKeeps, DoStartRailKeeps,
     DoLaunchKeeps, DoCreateKeeps, DoBindKeeps, RunTickKeeps, EndPassKeeps DEF PassStep
<1>2. CASE HandStep
  BY <1>2, HandStepKeeps
<1>3. CASE Presses
  BY <1>3, PressRailKeeps, PressStepKeeps DEF Presses
<1>4. CASE WorldMoves
  BY <1>4, WorldMovesKeep
<1>5. CASE UNCHANGED vars
  <2>1. UNCHANGED runVars /\ ses' = ses /\ pass' = pass
    BY <1>5 DEF vars, runVars
  <2>2. RowsInv' /\ \A t \in Steps : Undisturbed(t)
    BY <2>1, RunsStay DEF RailsInv
  <2>3. PassInv'
    BY <2>1, <2>2, PassStays DEF RailsInv
  <2>4. WorldInv' /\ LoopInv' /\ HandInv'
    BY <1>5 DEF vars, RailsInv, WorldInv, LoopInv, HandInv
  <2> QED
    BY <2>2, <2>3, <2>4 DEF RailsInv
<1> QED
  BY <1>1, <1>2, <1>3, <1>4, <1>5 DEF Next

\* In every reachable state the invariant holds.
THEOREM RailsInvariant == Spec => []RailsInv
BY RailsInitInv, RailsNextInv, PTL DEF Spec

\* Rows, sessions and what a pass has left have their types, no row counts
\* past the budget, and outside a pass nothing of one is left.
THEOREM RailsTypes == Spec => []TypeOK
<1>1. RailsInv => TypeOK
  <2> SUFFICES ASSUME RailsInv PROVE TypeOK
    OBVIOUS
  <2>1. {held, ticking, tickAgain, again} \subseteq BOOLEAN
    BY DEF RailsInv, WorldInv, LoopInv
  <2> QED
    BY <2>1 DEF RailsInv, RowsInv, WorldInv, LoopInv, TypeOK
<1> QED
  BY <1>1, RailsInvariant, PTL

\* The retries a loop makes before a press or its own exhaustion clears its
\* count stay within the budget, and one more for each write of the count the
\* daemon refused: no launch clears a loop's count (executeLoopBack, and the
\* bind of executeToolLaunch).
THEOREM BudgetKept == Spec => []LoopBudget
<1>1. RailsInv => LoopBudget
  <2> SUFFICES ASSUME RailsInv, NEW s \in Steps
               PROVE  spent[s] <= MaxTries + refused
    BY DEF LoopBudget
  <2>1. PICK m \in Nat, c \in 0..MaxTries, f \in Nat :
          m = spent[s] /\ c = row[s].tries /\ f = refused
    BY DEF RailsInv, RowsInv
  <2>2. m <= IF Kind[s] \in Loops THEN c + f ELSE 0
    BY <2>1 DEF RailsInv, RowsInv, SpentCounted
  <2>3. MaxTries \in Nat
    BY BoundsAssumption
  <2>4. m <= MaxTries + f
    BY <2>2, <2>3
  <2> QED
    BY <2>1, <2>4
<1> QED
  BY <1>1, RailsInvariant, PTL

\* A pass never makes a second agent for a step that already runs, although
\* it decided the launch before the awaits at which presses and other ticks
\* came in (launchCardOnRail and executeToolLaunch, under tick's guard).
THEOREM OneAgent == Spec => NoSecondAgent
<1>1. RailsInv => (\A s \in Steps : DoCreate /\ ses'[s] # ses[s] => row[s].st # "running")
  <2> SUFFICES ASSUME RailsInv, NEW s \in Steps, DoCreate, ses'[s] # ses[s]
               PROVE  row[s].st # "running"
    OBVIOUS
  <2>1. Doing("create") /\ PassInv
    BY DEF DoCreate, RailsInv
  <2>2. Head(pass) \in Due /\ Head(pass).kind = "create"
    BY <2>1, HeadIsDue
  <2>3. PICK a \in Due : a = Head(pass) /\ a.kind = "create"
    BY <2>2
  <2>4. ses' = [ses EXCEPT ![a.step] = "new"] \/ ses' = ses
    BY <2>3 DEF DoCreate
  <2>5. s = a.step
    BY <2>4 DEF RailsInv, WorldInv
  <2> QED
    BY <2>3, <2>5 DEF Due, Stands
<1> QED
  BY <1>1, RailsInvariant, PTL DEF NoSecondAgent

\* A stall pauses its rail: a quiet running rail has no stalled step on its
\* stage whose turn it is, but one that waits for its card's develop run
\* (stallStep, rule 5 of nextActions), whatever came between its writes.
THEOREM RailsPause == Spec => []StallsPause
<1>1. Init => RailsInv /\ StallsInv
  BY RailsInitInv, StallsInit
<1>2. RailsInv /\ StallsInv /\ [Next]_vars => RailsInv' /\ StallsInv'
  BY RailsNextInv, StallsNext
<1>3. RailsInv /\ StallsInv => StallsPause
  BY QuietStalls
<1> QED
  BY <1>1, <1>2, <1>3, PTL DEF Spec

\* A running rail is never stuck: when the window is quiet and launches are
\* not held, its stage has a step that something will still move, whatever
\* exited, was pressed or went wrong while a pass was under way -- nextActions
\* reads it all again as long as anything asked for a tick.
THEOREM RailsWait == Spec => []RunningRailsWait
<1>1. Init => RailsInv /\ StallsInv /\ WaitsInv
  BY RailsInitInv, StallsInit, WaitsInit
<1>2. RailsInv /\ StallsInv /\ WaitsInv /\ [Next]_vars => RailsInv' /\ StallsInv' /\ WaitsInv'
  BY RailsNextInv, StallsNext, WaitsNext
<1>3. RailsInv /\ StallsInv /\ WaitsInv => RunningRailsWait
  BY QuietWaits
<1> QED
  BY <1>1, <1>2, <1>3, PTL DEF Spec

\* The rows of a quiet window are true: a step whose turn it is and which is
\* shown as running has a session that can still finish it, or waits for a
\* person or a pull request, whatever died, restarted or was pressed while a
\* pass was under way (nextActions reconciles a rail of any state, and
\* executeActions asks for another pass).
THEOREM RowsHold == Spec => []RowsAreTrue
<1>1. Init => RailsInv /\ StallsInv /\ WaitsInv /\ TruthInv
  BY RailsInitInv, StallsInit, WaitsInit, TruthInit
<1>2. RailsInv /\ StallsInv /\ WaitsInv /\ TruthInv /\ [Next]_vars
         => RailsInv' /\ StallsInv' /\ WaitsInv' /\ TruthInv'
  BY RailsNextInv, StallsNext, WaitsNext, TruthNext
<1>3. RailsInv /\ TruthInv => RowsAreTrue
  BY QuietTruth
<1> QED
  BY <1>1, <1>2, <1>3, PTL DEF Spec
=============================================================================
