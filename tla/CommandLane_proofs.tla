------------------------- MODULE CommandLane_proofs -------------------------
(***************************************************************************)
(* The lane stays in step, for any number of requests, restarts and lost   *)
(* connections.  The inductive invariant follows a request through the     *)
(* places it can be in (queued, in the worker's hands, written, acted on), *)
(* of which it is in one at a time; keeps the traffic on the worker's      *)
(* connection to one request at most, the one it waits for or is owed; and *)
(* has the version each job was gated for travel with its place in the     *)
(* queue, between the swaps that ride in the same queue.                   *)
(***************************************************************************)
EXTENDS CommandLane, TLAPS

Jobs == {Ask(r) : r \in Reqs} \cup {Swap(c, v) : c \in Nat, v \in Versions}
Conn == [daemon : Nat, open : BOOLEAN, kept : BOOLEAN, inbox : Seq(Reqs), lines : Seq(Lines)]

Stages == {"idle", "gating", "admitted", "waiting", "withdrawn", "gone"} \cup Told
WorkerStates == [at : {"take", "settle", "dial", "write", "read"}, r : Reqs \cup {None}, fresh : BOOLEAN]

LaneTypes ==
    /\ compat \in Versions /\ version \in Versions /\ wversion \in Versions
    /\ queue \in Seq(Jobs)
    /\ caller \in [Reqs -> Stages]
    /\ gated \in [Reqs -> Versions \cup {None}]
    /\ worker \in WorkerStates
    /\ worker.at = "take" <=> worker.r = None
    /\ conns \in Seq(Conn) /\ daemons \in Seq(Versions) \ {<<>>}
    /\ conn \in 1..Len(conns) \cup {None}
    /\ \A c \in 1..Len(conns) : conns[c].daemon \in 1..Len(daemons)
    /\ owed \in 0..1
    /\ ran \in Seq(Reqs \X Nat)
    /\ got \in [Reqs -> Reqs \cup {None}]
    /\ line \in Seq(Reqs) /\ overtaken \subseteq Reqs

-----------------------------------------------------------------------------
(* Where a request is.                                                     *)

Asked(r) == \E i \in 1..Len(queue) : queue[i] = Ask(r)
Sent(r)  == \E c \in 1..Len(conns) : \E i \in 1..Len(conns[c].inbox) : conns[c].inbox[i] = r
Done(r)  == \E i \in 1..Len(ran) : ran[i][1] = r
Lined(r) == \E i \in 1..Len(line) : line[i] = r

\* A request is in one place at a time, and its caller where that says.
InPlace(r) ==
    /\ caller[r] \in {"idle", "gating", "admitted"} =>
          ~Asked(r) /\ worker.r # r /\ ~Sent(r) /\ ~Done(r) /\ ~Lined(r)
    /\ Asked(r) => caller[r] \in {"waiting", "withdrawn"} /\ worker.r # r /\ ~Sent(r) /\ ~Done(r)
    /\ worker.r = r =>
          caller[r] \in {"waiting", "gone"} /\ (worker.at # "read" => ~Sent(r) /\ ~Done(r))
    /\ Sent(r) => ~Done(r) /\ (worker.r = r \/ caller[r] \in {"unknown", "gone"})
    /\ Done(r) => worker.r = r \/ caller[r] \in {"answered", "unknown", "gone"}

Places == \A r \in Reqs : InPlace(r)

\* It is there once.
AsksOnce == \A i, j \in 1..Len(queue) : \A r \in Reqs : queue[i] = Ask(r) /\ queue[j] = Ask(r) => i = j
SentOnce == \A c, d \in 1..Len(conns) :
                \A i \in 1..Len(conns[c].inbox), j \in 1..Len(conns[d].inbox) :
                    conns[c].inbox[i] = conns[d].inbox[j] => c = d /\ i = j
RanOnce   == \A i, j \in 1..Len(ran) : ran[i][1] = ran[j][1] => i = j
LinedOnce == \A i, j \in 1..Len(line) : line[i] = line[j] => i = j
Once == AsksOnce /\ SentOnce /\ RanOnce /\ LinedOnce

-----------------------------------------------------------------------------
(* The traffic on a connection.                                            *)

Answer(c, i) == i \in 1..Len(conns[c].lines) /\ conns[c].lines[i].kind # "push"

Quiet(c) == conns[c].inbox = <<>> /\ \A i \in 1..Len(conns[c].lines) : ~Answer(c, i)

\* One request at most is under way on it.
Single(c) ==
    /\ Len(conns[c].inbox) <= 1
    /\ \A i, j \in 1..Len(conns[c].lines) :
          Answer(c, i) => conns[c].inbox = <<>> /\ (Answer(c, j) => i = j)

AnswersDone ==
    \A c \in 1..Len(conns) : \A i \in 1..Len(conns[c].lines) :
        Answer(c, i) => conns[c].lines[i].r \in Reqs /\ Done(conns[c].lines[i].r)

\* What is under way on it is request r.
Mine(c, r) ==
    /\ \A i \in 1..Len(conns[c].inbox) : conns[c].inbox[i] = r
    /\ \A i \in 1..Len(conns[c].lines) : Answer(c, i) => conns[c].lines[i].r = r

\* The worker's connection carries the request it reads the answer of, or
\* the one whose answer it is owed, and else nothing.
Expects(c, at, r, o) ==
    /\ Single(c)
    /\ at # "read" /\ o = 0 => Quiet(c)
    /\ at = "read" => Mine(c, r)

InStep ==
    /\ worker.at = "dial" => conn = None
    /\ worker.at \in {"write", "read"} => conn # None /\ owed = 0
    /\ conn # None => Expects(conn, worker.at, worker.r, owed)

\* The connections on their way to the worker carry nothing yet.
Fresh(c) == c \in 1..Len(conns) /\ c # conn /\ Quiet(c)

SwapsFresh ==
    \A i \in 1..Len(queue), c \in Nat, v \in Versions : queue[i] = Swap(c, v) =>
        Fresh(c) /\ \A j \in 1..Len(queue), w \in Versions : queue[j] = Swap(c, w) => i = j

-----------------------------------------------------------------------------
(* The version a request was gated for.                                    *)

\* The version the worker goes by when it comes to place i of the queue.
VersionAt(i, v) ==
    \/ v = wversion /\ \A k \in 1..(i - 1) : queue[k].job = "ask"
    \/ \E k \in 1..(i - 1) : /\ queue[k].job = "swap" /\ queue[k].version = v
                             /\ \A m \in (k + 1)..(i - 1) : queue[m].job = "ask"

Fits(r, v) == gated[r] = v \/ r \in overtaken

LastFit == VersionAt(Len(queue) + 1, version)
AdmittedFit == \A r \in Reqs : caller[r] = "admitted" => Fits(r, version)
QueueFit == \A i \in 1..Len(queue) : \A r \in Reqs :
                queue[i] = Ask(r) => r \in overtaken \/ VersionAt(i, gated[r])
HandFit == worker.r # None => Fits(worker.r, wversion)
ConnFit == conn # None => daemons[conns[conn].daemon] = wversion
SwapsFit == \A i \in 1..Len(queue), c \in Nat, v \in Versions :
                queue[i] = Swap(c, v) => daemons[conns[c].daemon] = v
SentFit == \A c \in 1..Len(conns) : \A i \in 1..Len(conns[c].inbox) :
                Fits(conns[c].inbox[i], daemons[conns[c].daemon])
RanFit == \A i \in 1..Len(ran) : ran[i][2] \in 1..Len(daemons) /\ Fits(ran[i][1], daemons[ran[i][2]])

VersionsKept ==
    /\ LastFit /\ AdmittedFit /\ QueueFit /\ HandFit /\ ConnFit /\ SwapsFit /\ SentFit /\ RanFit

-----------------------------------------------------------------------------
(* The order requests were queued in.                                      *)

\* r was queued before s.
Before(r, s) == \E i, j \in 1..Len(line) : i < j /\ line[i] = r /\ line[j] = s

Taken(r) == worker.r = r \/ Sent(r) \/ Done(r)

AllLined == \A r \in Reqs : Asked(r) \/ Taken(r) => Lined(r)
QueueOrder == \A i, j \in 1..Len(queue) : \A r, s \in Reqs :
                  i < j /\ queue[i] = Ask(r) /\ queue[j] = Ask(s) => Before(r, s)
TakenFirst == \A r, s \in Reqs : Taken(r) /\ Asked(s) => Before(r, s)
HandLast == \A r, s \in Reqs : (Sent(r) \/ Done(r)) /\ worker.r = s /\ r # s => Before(r, s)
RanOrder == \A i, j \in 1..Len(ran) : i < j /\ Before(ran[j][1], ran[i][1]) =>
                caller[ran[j][1]] \in {"unknown", "gone"}

InOrder == AllLined /\ QueueOrder /\ TakenFirst /\ HandLast /\ RanOrder

LaneInv ==
    /\ LaneTypes /\ Places /\ Once /\ AnswersDone /\ InStep /\ SwapsFresh
    /\ VersionsKept /\ InOrder /\ AnswersMatch

-----------------------------------------------------------------------------
(* What happens to a connection.                                           *)

\* Every connection stays what it was, but that its requests may be lost and
\* new connections, which carry nothing, may have been opened.
Calm ==
    /\ Len(conns') \in Nat /\ Len(conns) <= Len(conns')
    /\ \A c \in 1..Len(conns) :
          /\ conns'[c].daemon = conns[c].daemon
          /\ conns'[c].inbox = conns[c].inbox \/ conns'[c].inbox = <<>>
    /\ \A c \in 1..Len(conns') : c > Len(conns) =>
          conns'[c].inbox = <<>> /\ conns'[c].lines = <<>>

LinesSame == \A c \in 1..Len(conns) : conns'[c].lines = conns[c].lines

(* Appending to a sequence adds one place at its end.                      *)
LEMMA AppendPlaces ==
    ASSUME NEW S, NEW s \in Seq(S), NEW e \in S
    PROVE  /\ Append(s, e) \in Seq(S) /\ Len(Append(s, e)) = Len(s) + 1
           /\ \A i \in 1..Len(s) : Append(s, e)[i] = s[i]
           /\ Append(s, e)[Len(s) + 1] = e
  OBVIOUS

(* The tail of a sequence is the sequence one place on.                    *)
LEMMA TailPlaces ==
    ASSUME NEW S, NEW s \in Seq(S), s # <<>>
    PROVE  /\ Tail(s) \in Seq(S) /\ Len(s) > 0 /\ Len(Tail(s)) = Len(s) - 1
           /\ \A i \in 1..Len(Tail(s)) : Tail(s)[i] = s[i + 1]
           /\ Head(s) = s[1]
  OBVIOUS

(* Replacing one connection leaves the others, and a list of them.         *)
LEMMA OneConn ==
    ASSUME NEW s \in Seq(Conn), NEW c \in 1..Len(s), NEW e \in Conn
    PROVE  /\ [s EXCEPT ![c] = e] \in Seq(Conn) /\ Len([s EXCEPT ![c] = e]) = Len(s)
           /\ [s EXCEPT ![c] = e][c] = e
           /\ \A d \in 1..Len(s) : d # c => [s EXCEPT ![c] = e][d] = s[d]
  OBVIOUS

(* Hanging up leaves what a connection carries.                            *)
LEMMA HangupCalm ==
    ASSUME conns \in Seq(Conn), NEW c \in 1..Len(conns), conns' = Hangup(c)
    PROVE  conns' \in Seq(Conn) /\ Len(conns') = Len(conns) /\ Calm /\ LinesSame
  <1>1. conns[c] \in Conn
    OBVIOUS
  <1> DEFINE e == [conns[c] EXCEPT !.kept = FALSE]
  <1>2. e \in Conn /\ e.daemon = conns[c].daemon /\ e.inbox = conns[c].inbox /\ e.lines = conns[c].lines
    BY <1>1 DEF Conn
  <1>3. conns' = [conns EXCEPT ![c] = e]
    BY DEF Hangup
  <1> HIDE DEF e
  <1>4. /\ conns' \in Seq(Conn) /\ Len(conns') = Len(conns) /\ conns'[c] = e
        /\ \A d \in 1..Len(conns) : d # c => conns'[d] = conns[d]
    BY <1>2, <1>3, OneConn
  <1> QED
    BY <1>2, <1>4 DEF Calm, LinesSame

(* Reading a line takes it off the worker's connection.                    *)
LEMMA NextLineCalm ==
    ASSUME conns \in Seq(Conn), conn \in 1..Len(conns), conns[conn].lines # <<>>, conns' = NextLine
    PROVE  /\ conns' \in Seq(Conn) /\ Len(conns') = Len(conns) /\ Calm
           /\ conns'[conn].inbox = conns[conn].inbox
           /\ conns'[conn].lines = Tail(conns[conn].lines)
           /\ \A d \in 1..Len(conns) : d # conn => conns'[d] = conns[d]
  <1>1. conns[conn] \in Conn
    OBVIOUS
  <1> DEFINE e == [conns[conn] EXCEPT !.lines = Tail(@)]
  <1>0. conns[conn].lines \in Seq(Lines)
    BY <1>1 DEF Conn
  <1>a. Tail(conns[conn].lines) \in Seq(Lines)
    BY <1>0, TailPlaces
  <1>2. /\ e \in Conn /\ e.daemon = conns[conn].daemon /\ e.inbox = conns[conn].inbox
        /\ e.lines = Tail(conns[conn].lines)
    BY <1>1, <1>a DEF Conn
  <1>3. conns' = [conns EXCEPT ![conn] = e]
    BY DEF NextLine
  <1> HIDE DEF e
  <1>4. /\ conns' \in Seq(Conn) /\ Len(conns') = Len(conns) /\ conns'[conn] = e
        /\ \A d \in 1..Len(conns) : d # conn => conns'[d] = conns[d]
    BY <1>2, <1>3, OneConn
  <1> QED
    BY <1>2, <1>4 DEF Calm

(* Opening a connection adds an empty one.                                 *)
LEMMA DialCalm ==
    ASSUME conns \in Seq(Conn), NEW g \in Nat, conns' = Append(conns, Dialled(g))
    PROVE  /\ conns' \in Seq(Conn) /\ Len(conns') = Len(conns) + 1 /\ Calm /\ LinesSame
           /\ conns'[Len(conns) + 1] = Dialled(g) /\ \A d \in 1..Len(conns) : conns'[d] = conns[d]
  <1>1. Dialled(g) \in Conn /\ Dialled(g).inbox = <<>> /\ Dialled(g).lines = <<>>
    BY DEF Dialled, Conn
  <1>2. /\ conns' \in Seq(Conn) /\ Len(conns') = Len(conns) + 1
        /\ conns'[Len(conns) + 1] = Dialled(g) /\ \A d \in 1..Len(conns) : conns'[d] = conns[d]
    BY <1>1, AppendPlaces
  <1> QED
    BY <1>1, <1>2 DEF Calm, LinesSame

Written == conns' = [conns EXCEPT ![conn].inbox = Append(@, worker.r)]

(* Writing puts the request at the end of the connection's requests.       *)
LEMMA WriteEffect ==
    ASSUME conns \in Seq(Conn), conn \in 1..Len(conns), worker.r \in Reqs, Written
    PROVE  /\ conns' \in Seq(Conn) /\ Len(conns') = Len(conns) /\ LinesSame
           /\ conns'[conn].daemon = conns[conn].daemon
           /\ conns'[conn].inbox = Append(conns[conn].inbox, worker.r)
           /\ \A d \in 1..Len(conns) : d # conn => conns'[d] = conns[d]
  <1>1. conns[conn] \in Conn
    OBVIOUS
  <1> DEFINE e == [conns[conn] EXCEPT !.inbox = Append(@, worker.r)]
  <1>0. conns[conn].inbox \in Seq(Reqs)
    BY <1>1 DEF Conn
  <1>a. Append(conns[conn].inbox, worker.r) \in Seq(Reqs)
    BY <1>0, AppendPlaces
  <1>2. /\ e \in Conn /\ e.daemon = conns[conn].daemon /\ e.lines = conns[conn].lines
        /\ e.inbox = Append(conns[conn].inbox, worker.r)
    BY <1>1, <1>a DEF Conn
  <1>3. conns' = [conns EXCEPT ![conn] = e]
    BY DEF Written
  <1> HIDE DEF e
  <1>4. /\ conns' \in Seq(Conn) /\ Len(conns') = Len(conns) /\ conns'[conn] = e
        /\ \A d \in 1..Len(conns) : d # conn => conns'[d] = conns[d]
    BY <1>2, <1>3, OneConn
  <1> QED
    BY <1>2, <1>4 DEF LinesSame

(* A push is one more line on its connection.                              *)
LEMMA PushCalm ==
    ASSUME conns \in Seq(Conn), NEW c \in 1..Len(conns), Push(c)
    PROVE  /\ conns' \in Seq(Conn) /\ Len(conns') = Len(conns) /\ Calm
           /\ conns'[c].inbox = conns[c].inbox
           /\ conns'[c].lines = Append(conns[c].lines, [kind |-> "push", r |-> None])
           /\ \A d \in 1..Len(conns) : d # c => conns'[d] = conns[d]
  <1>1. conns[c] \in Conn
    OBVIOUS
  <1> DEFINE p == [kind |-> "push", r |-> None]
             e == [conns[c] EXCEPT !.lines = Append(@, p)]
  <1>0. conns[c].lines \in Seq(Lines) /\ p \in Lines
    BY <1>1 DEF Conn, Lines
  <1>a. Append(conns[c].lines, p) \in Seq(Lines)
    BY <1>0, AppendPlaces
  <1>3. conns' = [conns EXCEPT ![c] = e]
    BY DEF Push
  <1> HIDE DEF p
  <1>2. /\ e \in Conn /\ e.daemon = conns[c].daemon /\ e.inbox = conns[c].inbox
        /\ e.lines = Append(conns[c].lines, p)
    BY <1>1, <1>a DEF Conn
  <1> HIDE DEF e
  <1>4. /\ conns' \in Seq(Conn) /\ Len(conns') = Len(conns) /\ conns'[c] = e
        /\ \A d \in 1..Len(conns) : d # c => conns'[d] = conns[d]
    BY <1>2, <1>3, OneConn
  <1> QED
    BY <1>2, <1>4 DEF Calm, p

(* Serving takes the first request off a connection's list, and puts its   *)
(* answer on the connection if the app still holds it.                     *)
LEMMA ServeEffect ==
    ASSUME conns \in Seq(Conn), NEW c \in 1..Len(conns), Serve(c)
    PROVE  /\ conns' \in Seq(Conn) /\ Len(conns') = Len(conns)
           /\ conns[c].inbox # <<>> /\ Head(conns[c].inbox) \in Reqs
           /\ conns'[c].daemon = conns[c].daemon
           /\ conns'[c].inbox = Tail(conns[c].inbox)
           /\ \/ conns'[c].lines = conns[c].lines
              \/ \E k \in {"reply", "long"} :
                    conns'[c].lines = Append(conns[c].lines, [kind |-> k, r |-> Head(conns[c].inbox)])
           /\ \A d \in 1..Len(conns) : d # c => conns'[d] = conns[d]
  <1>1. conns[c] \in Conn
    OBVIOUS
  <1> DEFINE r == Head(conns[c].inbox)
  <1>0. conns[c].lines \in Seq(Lines) /\ conns[c].inbox \in Seq(Reqs) /\ conns[c].inbox # <<>>
    BY <1>1 DEF Conn, Serve
  <1>a. Tail(conns[c].inbox) \in Seq(Reqs) /\ r \in Reqs
    BY <1>0
  <1>b. PICK long \in BOOLEAN :
            conns' = [conns EXCEPT ![c].inbox = Tail(@),
                          ![c].lines = IF conns[c].kept
                                       THEN Append(@, [kind |-> IF long THEN "long" ELSE "reply", r |-> r]) ELSE @]
    BY DEF Serve
  <1> DEFINE k == IF long THEN "long" ELSE "reply"
             a == [kind |-> k, r |-> r]
             l == IF conns[c].kept THEN Append(conns[c].lines, a) ELSE conns[c].lines
  <1>c. a \in Lines
    BY <1>a DEF Lines
  <1>d. l \in Seq(Lines)
    BY <1>0, <1>c, AppendPlaces
  <1> DEFINE e == [[conns[c] EXCEPT !.inbox = Tail(@)] EXCEPT !.lines = l]
  <1>3. conns' = [conns EXCEPT ![c] = e]
    BY <1>b
  <1>e. l = conns[c].lines \/ \E kk \in {"reply", "long"} : l = Append(conns[c].lines, [kind |-> kk, r |-> r])
    OBVIOUS
  <1> HIDE DEF l
  <1>2. e \in Conn /\ e.daemon = conns[c].daemon /\ e.lines = l /\ e.inbox = Tail(conns[c].inbox)
    BY <1>1, <1>a, <1>d DEF Conn
  <1> HIDE DEF e
  <1>4. /\ conns' \in Seq(Conn) /\ Len(conns') = Len(conns) /\ conns'[c] = e
        /\ \A d \in 1..Len(conns) : d # c => conns'[d] = conns[d]
    BY <1>2, <1>3, OneConn
  <1> QED
    BY <1>2, <1>4, <1>a, <1>0, <1>e

(* A connection that was shut has its daemon and its lines still.          *)
LEMMA ShutConn ==
    ASSUME conns \in Seq(Conn), NEW c \in 1..Len(conns)
    PROVE  /\ Shut(c) \in Conn /\ Shut(c).daemon = conns[c].daemon
           /\ Shut(c).inbox = <<>> /\ Shut(c).lines = conns[c].lines
  <1>1. conns[c] \in Conn
    OBVIOUS
  <1> DEFINE e == conns[c]
             f == [e EXCEPT !.open = FALSE]
             n == <<>>
             g == [f EXCEPT !.inbox = n]
  <1>2. n \in Seq(Reqs)
    OBVIOUS
  <1>3. Shut(c) = g
    BY DEF Shut
  <1>4. e \in Conn
    BY <1>1
  <1> HIDE DEF e, n
  <1>5. f \in Conn /\ f.daemon = e.daemon /\ f.lines = e.lines
    BY <1>4 DEF Conn
  <1> HIDE DEF f
  <1>6. g \in Conn /\ g.daemon = f.daemon /\ g.lines = f.lines /\ g.inbox = n
    BY <1>5, <1>2 DEF Conn
  <1> QED
    BY <1>3, <1>5, <1>6 DEF e, n

(* Shutting connections loses their requests and leaves the lines to read. *)
LEMMA LoseCalm ==
    ASSUME conns \in Seq(Conn), NEW c \in 1..Len(conns), Lose(c)
    PROVE  conns' \in Seq(Conn) /\ Len(conns') = Len(conns) /\ Calm /\ LinesSame
  <1>1. conns[c] \in Conn
    OBVIOUS
  <1> DEFINE e == Shut(c)
  <1>2. e \in Conn /\ e.daemon = conns[c].daemon /\ e.inbox = <<>> /\ e.lines = conns[c].lines
    BY ShutConn
  <1>3. conns' = [conns EXCEPT ![c] = e]
    BY DEF Lose
  <1> HIDE DEF e
  <1>4. /\ conns' \in Seq(Conn) /\ Len(conns') = Len(conns) /\ conns'[c] = e
        /\ \A d \in 1..Len(conns) : d # c => conns'[d] = conns[d]
    BY <1>2, <1>3, OneConn
  <1> QED
    BY <1>2, <1>4 DEF Calm, LinesSame

(* So does shutting every connection of the daemon that is stopped.        *)
LEMMA AllShutCalm ==
    ASSUME conns \in Seq(Conn), conns' = AllShut
    PROVE  conns' \in Seq(Conn) /\ Len(conns') = Len(conns) /\ Calm /\ LinesSame
  <1>1. ASSUME NEW c \in 1..Len(conns)
        PROVE  /\ Shut(c) \in Conn /\ Shut(c).daemon = conns[c].daemon
               /\ Shut(c).inbox = <<>> /\ Shut(c).lines = conns[c].lines
    BY ShutConn
  <1>2. conns' = [c \in 1..Len(conns) |-> IF conns[c].daemon = Current THEN Shut(c) ELSE conns[c]]
    BY DEF AllShut
  <1>3. \A c \in 1..Len(conns) : conns[c] \in Conn
    OBVIOUS
  <1>4. conns' \in [1..Len(conns) -> Conn]
    BY <1>1, <1>2, <1>3
  <1>5. conns' \in Seq(Conn) /\ Len(conns') = Len(conns)
    BY <1>4
  <1>6. \A c \in 1..Len(conns) : conns'[c] = Shut(c) \/ conns'[c] = conns[c]
    BY <1>2
  <1> QED
    BY <1>1, <1>5, <1>6 DEF Calm, LinesSame

-----------------------------------------------------------------------------
(* Types.                                                                  *)

(* The two kinds of job are told apart, and each by what it carries.       *)
LEMMA JobKinds ==
    /\ \A r \in Reqs : Ask(r) \in Jobs /\ Ask(r).job = "ask" /\ Ask(r).r = r
    /\ \A c \in Nat, v \in Versions :
          Swap(c, v) \in Jobs /\ Swap(c, v).job = "swap" /\ Swap(c, v).conn = c /\ Swap(c, v).version = v
    /\ \A j \in Jobs : \/ j.job = "ask" /\ j.r \in Reqs /\ j = Ask(j.r)
                       \/ j.job = "swap" /\ j.conn \in Nat /\ j.version \in Versions
                          /\ j = Swap(j.conn, j.version)
  <1>1. ASSUME NEW j \in Jobs
        PROVE  \/ j.job = "ask" /\ j.r \in Reqs /\ j = Ask(j.r)
               \/ j.job = "swap" /\ j.conn \in Nat /\ j.version \in Versions
                  /\ j = Swap(j.conn, j.version)
    <2>1. CASE \E r \in Reqs : j = Ask(r)
      <3>1. PICK r \in Reqs : j = Ask(r)
        BY <2>1
      <3>2. j.r = r /\ j.job = "ask"
        BY <3>1 DEF Ask
      <3> QED
        BY <3>1, <3>2
    <2>2. CASE \E c \in Nat, v \in Versions : j = Swap(c, v)
      <3>1. PICK c \in Nat, v \in Versions : j = Swap(c, v)
        BY <2>2
      <3>2. j.conn = c /\ j.version = v /\ j.job = "swap"
        BY <3>1 DEF Swap
      <3> QED
        BY <3>1, <3>2
    <2> QED
      BY <2>1, <2>2 DEF Jobs
  <1>2. \A r \in Reqs : Ask(r) \in Jobs /\ Ask(r).job = "ask" /\ Ask(r).r = r
    BY DEF Ask, Jobs
  <1>3. \A c \in Nat, v \in Versions :
          Swap(c, v) \in Jobs /\ Swap(c, v).job = "swap" /\ Swap(c, v).conn = c /\ Swap(c, v).version = v
    BY DEF Swap, Jobs
  <1> QED
    BY <1>1, <1>2, <1>3

\* What telling a caller does, argument by argument.
ToldOne(r, what, reply) ==
    /\ \A s \in Reqs : s # r => caller'[s] = caller[s] /\ got'[s] = got[s]
    /\ caller[r] \in Left => caller'[r] = caller[r] /\ got'[r] = got[r]
    /\ caller[r] \notin Left => caller'[r] = what /\ got'[r] = reply
    /\ worker'.at = "take" /\ worker'.r = None

(* Telling one caller leaves the others, and the worker resting.           *)
LEMMA TellOne ==
    ASSUME LaneTypes, NEW r \in Reqs, NEW what \in Told, NEW reply \in Reqs \cup {None},
           Tell(r, what, reply)
    PROVE  /\ caller' \in [Reqs -> Stages] /\ got' \in [Reqs -> Reqs \cup {None}]
           /\ worker' \in WorkerStates
           /\ ToldOne(r, what, reply)
  <1>1. caller \in [Reqs -> Stages] /\ got \in [Reqs -> Reqs \cup {None}] /\ Told \subseteq Stages
    BY DEF LaneTypes, Stages
  <1>2. /\ worker' \in WorkerStates /\ worker'.at = "take" /\ worker'.r = None
    BY DEF Tell, Resting, WorkerStates
  <1>3. caller' = [caller EXCEPT ![r] = IF @ \in Left THEN @ ELSE what]
    BY DEF Tell
  <1>4. got' = [got EXCEPT ![r] = IF caller[r] \in Left THEN @ ELSE reply]
    BY DEF Tell
  <1>5. caller' \in [Reqs -> Stages]
    BY <1>1, <1>3
  <1>6. got' \in [Reqs -> Reqs \cup {None}]
    BY <1>1, <1>4
  <1>7. /\ \A s \in Reqs : s # r => caller'[s] = caller[s]
        /\ caller[r] \in Left => caller'[r] = caller[r]
        /\ caller[r] \notin Left => caller'[r] = what
    BY <1>1, <1>3
  <1>8. /\ \A s \in Reqs : s # r => got'[s] = got[s]
        /\ caller[r] \in Left => got'[r] = got[r]
        /\ caller[r] \notin Left => got'[r] = reply
    BY <1>1, <1>4
  <1> QED
    BY <1>2, <1>5, <1>6, <1>7, <1>8 DEF ToldOne

(* Going on keeps the request the worker has in hand.                      *)
LEMMA ProceedOn ==
    ASSUME LaneTypes, NEW at \in {"dial", "write", "read"}, worker' = [worker EXCEPT !.at = at]
    PROVE  worker' \in WorkerStates /\ worker'.at = at /\ worker'.r = worker.r /\ worker'.fresh = worker.fresh
  BY DEF LaneTypes, WorkerStates

\* The worker has a request in hand.
InHand == worker.at # "take" /\ worker.r \in Reqs

(* A worker that is not between two jobs has a request in hand.            *)
LEMMA HandHolds == ASSUME LaneTypes, worker.at # "take" PROVE worker.r \in Reqs
  BY DEF LaneTypes, WorkerStates

(* The head of the queue is its first job, of one of the two kinds.        *)
LEMMA HeadJob ==
    ASSUME LaneTypes, queue # <<>>
    PROVE  /\ Tail(queue) \in Seq(Jobs) /\ Len(queue) > 0 /\ Len(Tail(queue)) = Len(queue) - 1
           /\ \A i \in 1..Len(Tail(queue)) : Tail(queue)[i] = queue[i + 1]
           /\ Head(queue) = queue[1] /\ queue[1] \in Jobs
  <1>1. queue \in Seq(Jobs)
    BY DEF LaneTypes
  <1>2. Head(queue) = queue[1] /\ Len(queue) > 0
    BY <1>1, TailPlaces
  <1>3. queue[1] \in Jobs
    BY <1>1, <1>2
  <1> QED
    BY <1>1, <1>2, <1>3, TailPlaces

-----------------------------------------------------------------------------
(* What the steps do, grouped by what they leave alone.                    *)

\* Requests stay where they are and the daemons that ran stay known.
Aside ==
    /\ UNCHANGED <<queue, caller, gated, worker, conn, wversion, ran, got, line, overtaken, version>>
    /\ compat' \in Versions /\ owed' \in 0..1
    /\ conns' \in Seq(Conn) /\ Len(conns') = Len(conns) /\ Calm
    /\ daemons' \in Seq(Versions) \ {<<>>} /\ Len(daemons) <= Len(daemons')
    /\ \A g \in 1..Len(daemons) : daemons'[g] = daemons[g]

\* They do, and the lines on the connections as well.
Still == Aside /\ LinesSame /\ owed' = owed

\* The worker takes the next line off its connection.
ReadOff ==
    /\ conn \in 1..Len(conns) /\ conns[conn].lines # <<>>
    /\ conns'[conn].inbox = conns[conn].inbox
    /\ conns'[conn].lines = Tail(conns[conn].lines)
    /\ \A d \in 1..Len(conns) : d # conn => conns'[d] = conns[d]

\* It does, a push or an answer it was owed, and goes on waiting.
Skipped ==
    /\ Aside /\ ReadOff
    /\ \/ Line1.kind = "push" /\ owed' = owed
       \/ Line1.kind # "push" /\ worker.at = "settle" /\ owed' = 0

\* Nothing is queued, gated or acted on.
Same == UNCHANGED <<queue, gated, ran, line, overtaken, version, compat, wversion, daemons>>

\* The worker ends the request it has in hand with an error.
Failed(what) ==
    /\ InHand /\ Same
    /\ (what = "unsent" /\ worker.at # "read") \/ (what = "unknown" /\ worker.at = "read")
    /\ ToldOne(worker.r, what, None)
    /\ caller' \in [Reqs -> Stages] /\ got' \in [Reqs -> Reqs \cup {None}] /\ worker' \in WorkerStates
    /\ conns' \in Seq(Conn) /\ Len(conns') = Len(conns) /\ Calm
    /\ owed' \in 0..1
    /\ \/ conn' = None /\ LinesSame
       \/ conn' = conn /\ UNCHANGED conns /\ owed' = 1
       \/ conn' = conn /\ ReadOff /\ Line1.kind # "push" /\ owed' = owed /\ worker.at = "read"

\* The worker goes on with the request it has in hand, not written yet.
Onward ==
    /\ InHand /\ Same /\ UNCHANGED <<caller, got>>
    /\ worker.at # "read" /\ worker' \in WorkerStates
    /\ worker'.r = worker.r /\ worker'.at \in {"dial", "write"}
    /\ worker'.at = "dial" <=> conn' = None
    /\ conns' \in Seq(Conn) /\ Calm /\ LinesSame
    /\ owed' = 0
    /\ \/ conn' = conn /\ UNCHANGED conns /\ (owed = 0 \/ conn = None)
       \/ conn' = None /\ Len(conns') = Len(conns)
       \/ /\ conns' = Append(conns, Dialled(Len(daemons))) /\ conn' = Len(conns) + 1
          /\ daemons[Len(daemons)] = wversion

\* The worker writes the request it has in hand.
Wrote ==
    /\ InHand /\ Same /\ UNCHANGED <<caller, got, conn, owed>>
    /\ worker.at = "write" /\ worker' \in WorkerStates
    /\ worker'.r = worker.r /\ worker'.at = "read"
    /\ conn \in 1..Len(conns) /\ Written

\* The worker hands the next line on its connection to its caller.
Answered ==
    /\ InHand /\ Same /\ UNCHANGED <<conn, owed>>
    /\ worker.at = "read"
    /\ ReadOff /\ Line1.kind = "reply" /\ Line1.r \in Reqs
    /\ ToldOne(worker.r, "answered", Line1.r)
    /\ caller' \in [Reqs -> Stages] /\ got' \in [Reqs -> Reqs \cup {None}] /\ worker' \in WorkerStates
    /\ conns' \in Seq(Conn) /\ Len(conns') = Len(conns) /\ Calm

(* With nothing done to the connections, nothing happens to them.          *)
LEMMA SameCalm ==
    ASSUME conns \in Seq(Conn), UNCHANGED conns
    PROVE  conns' \in Seq(Conn) /\ Len(conns') = Len(conns) /\ Calm /\ LinesSame
  BY DEF Calm, LinesSame

(* A restart, but for its swap, a lost connection and a daemon that is     *)
(* replaced leave every request and every line where it is.                *)
LEMMA StillSteps ==
    ASSUME LaneInv,
           \/ BeginSwap \/ StopDaemon \/ Publish \/ EndSwap \/ AbortSwap \/ UNCHANGED vars
           \/ \E v \in Versions : SpawnDaemon(v) \/ ReplacedUnderneath(v)
           \/ \E c \in 1..Len(conns) : Lose(c)
    PROVE  Still
  <1>0. /\ conns \in Seq(Conn) /\ daemons \in Seq(Versions) /\ daemons # <<>> /\ owed \in 0..1
        /\ compat \in Versions /\ Len(daemons) \in Nat /\ daemons[Len(daemons)] \in Versions
    <2>1. conns \in Seq(Conn) /\ daemons \in Seq(Versions) /\ daemons # <<>> /\ owed \in 0..1 /\ compat \in Versions
      BY DEF LaneInv, LaneTypes
    <2> QED
      BY <2>1
  <1> USE DEF Still, Aside
  <1>1. ASSUME BeginSwap \/ EndSwap \/ AbortSwap \/ UNCHANGED vars PROVE Still
    <2>1. UNCHANGED conns
      BY <1>1 DEF BeginSwap, EndSwap, AbortSwap, vars
    <2>2. Calm /\ LinesSame
      BY <1>0, <2>1, SameCalm
    <2> QED
      BY <1>0, <1>1, <2>1, <2>2 DEF BeginSwap, EndSwap, AbortSwap, vars, callers, lane, far
  <1>2. ASSUME StopDaemon PROVE Still
    <2>1. conns' \in Seq(Conn) /\ Len(conns') = Len(conns) /\ Calm /\ LinesSame
      BY <1>0, <1>2, AllShutCalm DEF StopDaemon
    <2> QED
      BY <1>0, <1>2, <2>1 DEF StopDaemon, callers, lane
  <1>3. ASSUME Publish PROVE Still
    <2>1. UNCHANGED conns /\ compat' = daemons[Len(daemons)]
      BY <1>3 DEF Publish, Current
    <2>2. Calm /\ LinesSame
      BY <1>0, <2>1, SameCalm
    <2> QED
      BY <1>0, <1>3, <2>1, <2>2 DEF Publish, callers, lane, far
  <1>4. ASSUME NEW v \in Versions, SpawnDaemon(v) PROVE Still
    <2>1. UNCHANGED conns /\ daemons' = Append(daemons, v)
      BY <1>4 DEF SpawnDaemon
    <2>2. Calm /\ LinesSame
      BY <1>0, <2>1, SameCalm
    <2>3. /\ daemons' \in Seq(Versions) /\ Len(daemons') = Len(daemons) + 1
          /\ \A g \in 1..Len(daemons) : daemons'[g] = daemons[g]
      BY <1>0, <2>1, AppendPlaces
    <2>4. daemons' # <<>>
      BY <1>0, <2>3
    <2> QED
      BY <1>0, <1>4, <2>1, <2>2, <2>3, <2>4 DEF SpawnDaemon, callers, lane
  <1>5. ASSUME NEW v \in Versions, ReplacedUnderneath(v) PROVE Still
    <2>1. conns' \in Seq(Conn) /\ Len(conns') = Len(conns) /\ Calm /\ LinesSame
      BY <1>0, <1>5, AllShutCalm DEF ReplacedUnderneath
    <2>2. daemons' = Append(daemons, v)
      BY <1>5 DEF ReplacedUnderneath
    <2>3. /\ daemons' \in Seq(Versions) /\ Len(daemons') = Len(daemons) + 1
          /\ \A g \in 1..Len(daemons) : daemons'[g] = daemons[g]
      BY <1>0, <2>2, AppendPlaces
    <2>4. daemons' # <<>>
      BY <1>0, <2>3
    <2> QED
      BY <1>0, <1>5, <2>1, <2>3, <2>4 DEF ReplacedUnderneath, callers, lane, gate
  <1>6. ASSUME NEW c \in 1..Len(conns), Lose(c) PROVE Still
    <2>1. conns' \in Seq(Conn) /\ Len(conns') = Len(conns) /\ Calm /\ LinesSame
      BY <1>0, <1>6, LoseCalm
    <2> QED
      BY <1>0, <1>6, <2>1 DEF Lose, callers, lane, gate
  <1> QED
    BY <1>1, <1>2, <1>3, <1>4, <1>5, <1>6

(* A push leaves the requests where they are.                              *)
LEMMA PushAside ==
    ASSUME LaneInv, NEW c \in 1..Len(conns), Push(c)
    PROVE  Aside /\ owed' = owed
  <1>1. conns \in Seq(Conn) /\ daemons \in Seq(Versions) /\ daemons # <<>> /\ owed \in 0..1 /\ compat \in Versions
    BY DEF LaneInv, LaneTypes
  <1>2. conns' \in Seq(Conn) /\ Len(conns') = Len(conns) /\ Calm
    BY <1>1, PushCalm
  <1> QED
    BY <1>1, <1>2 DEF Push, Aside, callers, lane, gate

(* Passing over a push, or reading off an answer that was owed, does too.  *)
LEMMA SkipSteps ==
    ASSUME LaneInv,
           \/ SkipPush
           \/ /\ worker.at = "settle" /\ owed > 0 /\ HasLine("reply")
              /\ owed' = owed - 1 /\ conns' = NextLine
              /\ UNCHANGED <<caller, got, worker, conn, wversion, redials, gate, queue, gated, history, far>>
    PROVE  Skipped
  <1>1. /\ conns \in Seq(Conn) /\ daemons \in Seq(Versions) /\ daemons # <<>> /\ owed \in 0..1
        /\ compat \in Versions /\ conn \in 1..Len(conns) \cup {None}
    BY DEF LaneInv, LaneTypes
  <1>2. conn \in 1..Len(conns) /\ conns[conn].lines # <<>> /\ conns' = NextLine
    BY <1>1 DEF SkipPush, HasLine
  <1>3. conns' \in Seq(Conn) /\ Len(conns') = Len(conns) /\ Calm /\ ReadOff
    BY <1>1, <1>2, NextLineCalm DEF ReadOff
  <1>4. UNCHANGED <<queue, caller, gated, worker, conn, wversion, ran, got, line, overtaken, version, compat, daemons>>
    BY DEF SkipPush, callers, lane, gate, far, history
  <1>5. \/ Line1.kind = "push" /\ owed' = owed
        \/ Line1.kind # "push" /\ worker.at = "settle" /\ owed' = 0
    <2>1. CASE SkipPush
      BY <2>1 DEF SkipPush, HasLine, lane
    <2>2. CASE ~SkipPush
      BY <2>2, <1>1 DEF HasLine
    <2> QED
      BY <2>1, <2>2
  <1>6. owed' \in 0..1
    BY <1>1, <1>5
  <1> QED
    BY <1>1, <1>2, <1>3, <1>4, <1>5, <1>6 DEF Skipped, Aside

(* Dropping the connection leaves what is on it.                           *)
LEMMA DropCalm ==
    ASSUME LaneTypes, conn # None, Drop
    PROVE  /\ conns' \in Seq(Conn) /\ Len(conns') = Len(conns) /\ Calm /\ LinesSame
           /\ conn' = None /\ owed' = 0 /\ wversion' = wversion
  <1>1. conns \in Seq(Conn) /\ conn \in 1..Len(conns)
    BY DEF LaneTypes
  <1>2. conns' = Hangup(conn) /\ conn' = None /\ owed' = 0 /\ wversion' = wversion
    BY DEF Drop
  <1> QED
    BY <1>1, <1>2, HangupCalm

(* Settling reads off what is owed, goes on, or ends the request unsent.   *)
LEMMA SettleSteps ==
    ASSUME LaneInv, Settle
    PROVE  Skipped \/ Onward \/ Failed("unsent")
  <1>0. LaneTypes /\ worker.at = "settle" /\ worker.r \in Reqs /\ InHand
    BY HandHolds DEF LaneInv, Settle, InHand
  <1>1. /\ conns \in Seq(Conn) /\ owed \in 0..1 /\ conn \in 1..Len(conns) \cup {None}
        /\ None \notin 1..Len(conns)
    BY <1>0, LaneAssumption DEF LaneTypes
  <1>2. /\ UNCHANGED <<queue, gated, ran, line, overtaken, version, compat, daemons>>
        /\ wversion' = wversion => Same
    BY DEF Settle, gate, history, far, Same
  <1>3. CASE /\ owed = 0 \/ conn = None
             /\ Proceed(IF conn = None THEN "dial" ELSE "write")
             /\ owed' = 0 /\ UNCHANGED <<conns, conn, wversion>>
    <2>1. /\ worker' \in WorkerStates /\ worker'.r = worker.r
          /\ worker'.at = (IF conn = None THEN "dial" ELSE "write")
      BY <1>0, <1>3, ProceedOn DEF Proceed
    <2>2. conns' \in Seq(Conn) /\ Calm /\ LinesSame
      BY <1>1, <1>3, SameCalm
    <2>3. UNCHANGED <<caller, got>>
      BY <1>3 DEF Proceed
    <2> QED
      BY <1>0, <1>2, <1>3, <2>1, <2>2, <2>3 DEF Onward
  <1>4. CASE /\ owed > 0 /\ HasLine("reply")
             /\ owed' = owed - 1 /\ conns' = NextLine
             /\ UNCHANGED <<caller, got, worker, conn, wversion>>
    <2>1. UNCHANGED <<redials, gate, queue, gated, history, far>>
      BY DEF Settle
    <2> QED
      BY <1>0, <1>4, <2>1, SkipSteps
  <1>5. ASSUME Fail("unsent") PROVE
            /\ ToldOne(worker.r, "unsent", None) /\ worker' \in WorkerStates
            /\ caller' \in [Reqs -> Stages] /\ got' \in [Reqs -> Reqs \cup {None}]
    BY <1>0, <1>5, TellOne DEF Fail, Told
  <1>6. CASE owed > 0 /\ (AtEnd \/ HasLine("long")) /\ Fail("unsent") /\ Drop
    <2>1. conn # None
      BY <1>6 DEF AtEnd, HasLine
    <2>2. /\ conns' \in Seq(Conn) /\ Len(conns') = Len(conns) /\ Calm /\ LinesSame
          /\ conn' = None /\ owed' = 0 /\ wversion' = wversion
      BY <1>0, <1>6, <2>1, DropCalm
    <2> QED
      BY <1>0, <1>2, <1>5, <1>6, <2>2 DEF Failed
  <1>7. CASE owed > 0 /\ Silent /\ Fail("unsent") /\ UNCHANGED <<conns, lane>>
    <2>1. UNCHANGED <<conns, conn, owed, wversion>> /\ owed = 1
      BY <1>7, <1>1 DEF lane
    <2>2. conns' \in Seq(Conn) /\ Len(conns') = Len(conns) /\ Calm
      BY <1>1, <2>1, SameCalm
    <2> QED
      BY <1>0, <1>1, <1>2, <1>5, <1>7, <2>1, <2>2 DEF Failed
  <1> QED
    BY <1>3, <1>4, <1>6, <1>7 DEF Settle

(* Redialling opens an empty connection to a daemon of the right version,  *)
(* or ends the request unsent.                                             *)
LEMMA RedialSteps ==
    ASSUME LaneInv, Redial
    PROVE  Onward \/ Failed("unsent")
  <1>0. LaneTypes /\ worker.at = "dial" /\ worker.r \in Reqs /\ InHand /\ conn = None
    BY HandHolds DEF LaneInv, Redial, InHand, InStep
  <1>1. /\ conns \in Seq(Conn) /\ owed \in 0..1 /\ Len(daemons) \in Nat /\ worker \in WorkerStates
        /\ Len(conns) + 1 \in Nat /\ Len(conns) + 1 # None
    <2>1. conns \in Seq(Conn) /\ owed \in 0..1 /\ daemons \in Seq(Versions) /\ worker \in WorkerStates
      BY <1>0 DEF LaneTypes
    <2> QED
      BY <2>1, LaneAssumption
  <1>2. /\ UNCHANGED <<queue, gated, ran, line, overtaken, version, compat, daemons>>
        /\ wversion' = wversion => Same
    BY DEF Redial, gate, history, far, Same
  <1>3. CASE /\ redials /\ up /\ daemons[Current] = wversion /\ Len(conns) < MaxConns
             /\ conns' = Append(conns, Dialled(Current))
             /\ conn' = Len(conns) + 1 /\ owed' = 0
             /\ worker' = [worker EXCEPT !.at = "write", !.fresh = TRUE]
             /\ UNCHANGED <<caller, got, wversion>>
    <2>1. worker' \in WorkerStates /\ worker'.r = worker.r /\ worker'.at = "write"
      BY <1>1, <1>3 DEF WorkerStates
    <2>2. conns' = Append(conns, Dialled(Len(daemons))) /\ daemons[Len(daemons)] = wversion
      BY <1>3 DEF Current
    <2>3. conns' \in Seq(Conn) /\ Calm /\ LinesSame
      BY <1>1, <2>2, DialCalm
    <2> QED
      BY <1>0, <1>1, <1>2, <1>3, <2>1, <2>2, <2>3 DEF Onward
  <1>4. CASE Fail("unsent") /\ UNCHANGED <<conns, lane>>
    <2>1. /\ ToldOne(worker.r, "unsent", None) /\ worker' \in WorkerStates
          /\ caller' \in [Reqs -> Stages] /\ got' \in [Reqs -> Reqs \cup {None}]
      BY <1>0, <1>4, TellOne DEF Fail, Told
    <2>2. conns' \in Seq(Conn) /\ Len(conns') = Len(conns) /\ Calm /\ LinesSame
      BY <1>1, <1>4, SameCalm
    <2>3. conn' = None /\ owed' = owed /\ wversion' = wversion
      BY <1>0, <1>4 DEF lane
    <2> QED
      BY <1>0, <1>1, <1>2, <2>1, <2>2, <2>3 DEF Failed
  <1> QED
    BY <1>3, <1>4 DEF Redial

(* Writing succeeds, or fails whole and is tried once more.                *)
LEMMA WriteSteps ==
    ASSUME LaneInv, Write
    PROVE  Wrote \/ Onward \/ Failed("unsent")
  <1>0. LaneTypes /\ worker.at = "write" /\ worker.r \in Reqs /\ InHand /\ conn # None /\ owed = 0
    BY HandHolds DEF LaneInv, Write, InHand, InStep
  <1>1. conn \in 1..Len(conns)
    BY <1>0 DEF LaneTypes
  <1>2. /\ UNCHANGED <<queue, gated, ran, line, overtaken, version, compat, daemons>>
        /\ wversion' = wversion => Same
    BY DEF Write, gate, history, far, Same
  <1>3. CASE /\ conns[conn].open
             /\ conns' = [conns EXCEPT ![conn].inbox = Append(@, worker.r)]
             /\ Proceed("read") /\ UNCHANGED lane
    <2>1. worker' \in WorkerStates /\ worker'.r = worker.r /\ worker'.at = "read"
      BY <1>0, <1>3, ProceedOn DEF Proceed
    <2>2. UNCHANGED <<caller, got, conn, owed, wversion>> /\ Written
      BY <1>3 DEF Proceed, lane, Written
    <2> QED
      BY <1>0, <1>1, <1>2, <2>1, <2>2 DEF Wrote
  <1>4. CASE ~conns[conn].open /\ worker.fresh /\ Fail("unsent") /\ Drop
    <2>1. /\ ToldOne(worker.r, "unsent", None) /\ worker' \in WorkerStates
          /\ caller' \in [Reqs -> Stages] /\ got' \in [Reqs -> Reqs \cup {None}]
      BY <1>0, <1>4, TellOne DEF Fail, Told
    <2>2. /\ conns' \in Seq(Conn) /\ Len(conns') = Len(conns) /\ Calm /\ LinesSame
          /\ conn' = None /\ owed' = 0 /\ wversion' = wversion
      BY <1>0, <1>4, DropCalm
    <2> QED
      BY <1>0, <1>2, <2>1, <2>2 DEF Failed
  <1>5. CASE ~conns[conn].open /\ ~worker.fresh /\ Proceed("dial") /\ Drop
    <2>1. worker' \in WorkerStates /\ worker'.r = worker.r /\ worker'.at = "dial"
      BY <1>0, <1>5, ProceedOn DEF Proceed
    <2>2. /\ conns' \in Seq(Conn) /\ Len(conns') = Len(conns) /\ Calm /\ LinesSame
          /\ conn' = None /\ owed' = 0 /\ wversion' = wversion
      BY <1>0, <1>5, DropCalm
    <2>3. UNCHANGED <<caller, got>>
      BY <1>5 DEF Proceed
    <2> QED
      BY <1>0, <1>2, <2>1, <2>2, <2>3 DEF Onward
  <1> QED
    BY <1>3, <1>4, <1>5 DEF Write

(* Reading hands the answer over, or ends the request with its outcome     *)
(* unknown.                                                                *)
LEMMA ReadSteps ==
    ASSUME LaneInv, Read
    PROVE  Answered \/ Failed("unknown")
  <1>0. LaneTypes /\ worker.at = "read" /\ worker.r \in Reqs /\ InHand /\ conn # None /\ owed = 0
    BY HandHolds DEF LaneInv, Read, InHand, InStep
  <1>1. conn \in 1..Len(conns) /\ conns \in Seq(Conn)
    BY <1>0 DEF LaneTypes
  <1>2. /\ UNCHANGED <<queue, gated, ran, line, overtaken, version, compat, daemons>>
        /\ wversion' = wversion => Same
    BY DEF Read, gate, history, far, Same
  <1>3. CASE HasLine("reply") /\ Tell(worker.r, "answered", Line1.r) /\ conns' = NextLine /\ UNCHANGED lane
    <2>1. conns[conn].lines # <<>> /\ Line1.kind = "reply"
      BY <1>3 DEF HasLine
    <2>2. Line1.r \in Reqs
      <3>1. conns[conn] \in Conn
        BY <1>1
      <3>2. conns[conn].lines \in Seq(Lines)
        BY <3>1 DEF Conn
      <3>3. Line1 = conns[conn].lines[1] /\ Len(conns[conn].lines) > 0
        BY <3>2, <2>1, TailPlaces DEF Line1
      <3>4. 1 \in 1..Len(conns[conn].lines)
        BY <3>2, <3>3
      <3>5. Answer(conn, 1)
        BY <3>3, <3>4, <2>1 DEF Answer
      <3> QED
        BY <1>1, <3>3, <3>4, <3>5 DEF LaneInv, AnswersDone
    <2>3. /\ ToldOne(worker.r, "answered", Line1.r) /\ worker' \in WorkerStates
          /\ caller' \in [Reqs -> Stages] /\ got' \in [Reqs -> Reqs \cup {None}]
      BY <1>0, <1>3, <2>2, TellOne DEF Told
    <2>4. conns' \in Seq(Conn) /\ Len(conns') = Len(conns) /\ Calm /\ ReadOff
      BY <1>1, <1>3, <2>1, NextLineCalm DEF ReadOff
    <2>5. UNCHANGED <<conn, owed, wversion>>
      BY <1>3 DEF lane
    <2> QED
      BY <1>0, <1>2, <2>1, <2>2, <2>3, <2>4, <2>5 DEF Answered
  <1>4. ASSUME Fail("unknown") PROVE
            /\ ToldOne(worker.r, "unknown", None) /\ worker' \in WorkerStates
            /\ caller' \in [Reqs -> Stages] /\ got' \in [Reqs -> Reqs \cup {None}]
    BY <1>0, <1>4, TellOne DEF Fail, Told
  <1>5. CASE HasLine("long") /\ Fail("unknown") /\ conns' = NextLine /\ UNCHANGED lane
    <2>1. conns[conn].lines # <<>> /\ Line1.kind # "push"
      BY <1>5 DEF HasLine
    <2>2. conns' \in Seq(Conn) /\ Len(conns') = Len(conns) /\ Calm /\ ReadOff
      BY <1>1, <1>5, <2>1, NextLineCalm DEF ReadOff
    <2>3. UNCHANGED <<conn, owed, wversion>>
      BY <1>5 DEF lane
    <2> QED
      BY <1>0, <1>2, <1>4, <1>5, <2>1, <2>2, <2>3 DEF Failed
  <1>6. CASE /\ Silent /\ ~redials /\ Fail("unknown")
             /\ owed' = owed + 1 /\ UNCHANGED <<conns, conn, wversion>>
    <2>1. conns' \in Seq(Conn) /\ Len(conns') = Len(conns) /\ Calm
      BY <1>1, <1>6, SameCalm
    <2> QED
      BY <1>0, <1>2, <1>4, <1>6, <2>1 DEF Failed
  <1>7. CASE (AtEnd \/ (Silent /\ redials)) /\ Fail("unknown") /\ Drop
    <2>1. /\ conns' \in Seq(Conn) /\ Len(conns') = Len(conns) /\ Calm /\ LinesSame
          /\ conn' = None /\ owed' = 0 /\ wversion' = wversion
      BY <1>0, <1>7, DropCalm
    <2> QED
      BY <1>0, <1>2, <1>4, <1>7, <2>1 DEF Failed
  <1> QED
    BY <1>3, <1>5, <1>6, <1>7 DEF Read

\* The queue moves up by one place.
MovesUp ==
    /\ queue' \in Seq(Jobs) /\ Len(queue) > 0 /\ Len(queue') = Len(queue) - 1
    /\ \A i \in 1..Len(queue') : queue'[i] = queue[i + 1]

\* A job joins the end of the queue.
Joins(j) ==
    /\ queue' \in Seq(Jobs) /\ Len(queue') = Len(queue) + 1
    /\ \A i \in 1..Len(queue) : queue'[i] = queue[i]
    /\ queue'[Len(queue) + 1] = j

\* One caller moves on.
Moves(r, to) ==
    /\ caller' \in [Reqs -> Stages] /\ caller'[r] = to
    /\ \A s \in Reqs : s # r => caller'[s] = caller[s]

\* A command gates its request, has it admitted or refused, or gives up.
Turned(r) ==
    /\ UNCHANGED <<queue, worker, conn, owed, wversion, conns, daemons, ran, got, line, overtaken, compat, version>>
    /\ gated' \in [Reqs -> Versions \cup {None}] /\ \A s \in Reqs : s # r => gated'[s] = gated[s]
    /\ \/ caller[r] = "idle" /\ Moves(r, "gating")
       \/ caller[r] = "gating" /\ Moves(r, "unsent") /\ gated' = gated
       \/ caller[r] = "gating" /\ Moves(r, "admitted") /\ gated' = gated /\ gated[r] = version
       \/ caller[r] = "waiting" /\ Asked(r) /\ Moves(r, "withdrawn") /\ gated' = gated
       \/ caller[r] = "waiting" /\ ~Asked(r) /\ Moves(r, "gone") /\ gated' = gated

\* A command queues its request.
Enqueued(r) ==
    /\ UNCHANGED <<worker, conn, owed, wversion, conns, daemons, ran, got, gated, overtaken, compat, version>>
    /\ caller[r] = "admitted" /\ Moves(r, "waiting") /\ Joins(Ask(r))
    /\ line' \in Seq(Reqs) /\ Len(line') = Len(line) + 1
    /\ \A i \in 1..Len(line) : line'[i] = line[i]
    /\ line'[Len(line) + 1] = r

\* The worker takes a swap: it goes by the new connection and its version.
Swapped(c, v) ==
    /\ UNCHANGED <<caller, gated, worker, daemons, ran, got, line, overtaken, compat, version>>
    /\ worker.at = "take" /\ queue[1] = Swap(c, v) /\ MovesUp
    /\ conns' \in Seq(Conn) /\ Len(conns') = Len(conns) /\ Calm /\ LinesSame
    /\ conn' = c /\ owed' = 0 /\ wversion' = v

\* The worker takes a request: to drop it, to refuse it, or to send it.
Took(r) ==
    /\ UNCHANGED <<gated, conn, owed, wversion, conns, daemons, ran, line, overtaken, compat, version>>
    /\ worker.at = "take" /\ queue[1] = Ask(r) /\ MovesUp
    /\ \/ caller[r] \in Left /\ UNCHANGED <<caller, got, worker>>
       \/ /\ caller[r] \notin Left /\ ToldOne(r, "unsent", None)
          /\ caller' \in [Reqs -> Stages] /\ got' \in [Reqs -> Reqs \cup {None}] /\ worker' \in WorkerStates
       \/ /\ caller[r] \notin Left /\ UNCHANGED <<caller, got>>
          /\ worker' \in WorkerStates /\ worker'.at = "settle" /\ worker'.r = r

\* A connection's daemon acts on the first request on it.
Served(c, r) ==
    /\ UNCHANGED <<queue, caller, gated, worker, conn, owed, wversion, daemons, got, line, overtaken, compat, version>>
    /\ conns' \in Seq(Conn) /\ Len(conns') = Len(conns)
    /\ conns[c].inbox # <<>> /\ r = Head(conns[c].inbox)
    /\ conns'[c].daemon = conns[c].daemon
    /\ conns'[c].inbox = Tail(conns[c].inbox)
    /\ \/ conns'[c].lines = conns[c].lines
       \/ \E k \in {"reply", "long"} :
             conns'[c].lines = Append(conns[c].lines, [kind |-> k, r |-> r])
    /\ \A d \in 1..Len(conns) : d # c => conns'[d] = conns[d]
    /\ ran' \in Seq(Reqs \X Nat) /\ Len(ran') = Len(ran) + 1
    /\ \A i \in 1..Len(ran) : ran'[i] = ran[i]
    /\ ran'[Len(ran) + 1] = <<r, conns[c].daemon>>

\* The restart queues its swap.
Finished ==
    /\ UNCHANGED <<caller, gated, worker, conn, owed, wversion, daemons, ran, got, line, compat>>
    /\ version' = daemons[Len(daemons)] /\ version' \in Versions
    /\ conns' = Append(conns, Dialled(Len(daemons)))
    /\ Joins(Swap(Len(conns) + 1, version'))
    /\ overtaken' = overtaken \cup {r \in Reqs : caller[r] = "admitted"}

Step ==
    \/ Still \/ Skipped \/ Onward \/ Failed("unsent") \/ Failed("unknown") \/ Wrote \/ Answered \/ Finished
    \/ \E r \in Reqs : Turned(r) \/ Enqueued(r) \/ Took(r)
    \/ \E c \in Nat, v \in Versions : Swapped(c, v)
    \/ \E c \in 1..Len(conns) : Push(c) \/ \E r \in Reqs : Served(c, r)

(* A caller's stage is replaced, and no other's.                           *)
LEMMA OneMoves ==
    ASSUME LaneTypes, NEW r \in Reqs, NEW to \in Stages, caller' = [caller EXCEPT ![r] = to]
    PROVE  Moves(r, to)
  BY DEF LaneTypes, Moves

(* A caller that is gated, admitted or gives up moves one stage on, and    *)
(* no one else does (command_lane.rs: gate, admit, ask_each).              *)
LEMMA TurnSteps ==
    ASSUME LaneInv, NEW r \in Reqs, Gate(r) \/ Admit(r) \/ GiveUp(r)
    PROVE  Turned(r)
  <1>0. LaneTypes /\ compat \in Versions /\ gated \in [Reqs -> Versions \cup {None}] /\ queue \in Seq(Jobs)
    BY DEF LaneInv, LaneTypes
  <1>s. {"gating", "unsent", "admitted", "withdrawn", "gone"} \subseteq Stages
    BY DEF Stages, Told
  <1>1. CASE Gate(r)
    <2>1. caller[r] = "idle" /\ Moves(r, "gating")
      BY <1>0, <1>s, <1>1, OneMoves DEF Gate
    <2>2. gated' \in [Reqs -> Versions \cup {None}] /\ \A s \in Reqs : s # r => gated'[s] = gated[s]
      BY <1>0, <1>1 DEF Gate
    <2> QED
      BY <1>1, <2>1, <2>2 DEF Gate, Turned, gate, history, lane, far
  <1>2. CASE Admit(r)
    <2>1. /\ UNCHANGED <<queue, worker, conn, owed, wversion, conns, daemons, ran, got, line, overtaken, compat, version>>
          /\ gated' = gated /\ caller[r] = "gating"
      BY <1>2 DEF Admit, gate, history, lane, far
    <2>2. CASE swapping \/ gated[r] # version
      <3>1. Moves(r, "unsent")
        BY <1>0, <1>s, <1>2, <2>2, OneMoves DEF Admit
      <3> QED
        BY <1>0, <2>1, <3>1 DEF Turned
    <2>3. CASE ~(swapping \/ gated[r] # version)
      <3>1. Moves(r, "admitted")
        BY <1>0, <1>s, <1>2, <2>3, OneMoves DEF Admit
      <3> QED
        BY <1>0, <2>1, <2>3, <3>1 DEF Turned
    <2> QED
      BY <2>2, <2>3
  <1>3. CASE GiveUp(r)
    <2>1. /\ UNCHANGED <<queue, worker, conn, owed, wversion, conns, daemons, ran, got, line, overtaken, compat, version>>
          /\ gated' = gated /\ caller[r] = "waiting"
      BY <1>3 DEF GiveUp, gate, history, lane, far
    <2>2. Ask(r) \in Queued <=> Asked(r)
      BY DEF Queued, Asked
    <2>3. CASE Asked(r)
      <3>1. Moves(r, "withdrawn")
        BY <1>0, <1>s, <1>3, <2>2, <2>3, OneMoves DEF GiveUp
      <3> QED
        BY <1>0, <2>1, <2>3, <3>1 DEF Turned
    <2>4. CASE ~Asked(r)
      <3>1. Moves(r, "gone")
        BY <1>0, <1>s, <1>3, <2>2, <2>4, OneMoves DEF GiveUp
      <3> QED
        BY <1>0, <2>1, <2>4, <3>1 DEF Turned
    <2> QED
      BY <2>3, <2>4
  <1> QED
    BY <1>1, <1>2, <1>3

(* Queueing puts the request at the end of the queue and of the line.      *)
LEMMA EnqueueSteps ==
    ASSUME LaneInv, NEW r \in Reqs, Enqueue(r)
    PROVE  Enqueued(r)
  <1>0. LaneTypes /\ queue \in Seq(Jobs) /\ line \in Seq(Reqs)
    BY DEF LaneInv, LaneTypes
  <1>1. Moves(r, "waiting")
    BY <1>0, OneMoves DEF Enqueue, Stages
  <1>2. Joins(Ask(r))
    BY <1>0, JobKinds, AppendPlaces DEF Enqueue, Joins
  <1>3. /\ line' \in Seq(Reqs) /\ Len(line') = Len(line) + 1
        /\ \A i \in 1..Len(line) : line'[i] = line[i]
        /\ line'[Len(line) + 1] = r
    BY <1>0, AppendPlaces DEF Enqueue
  <1> QED
    BY <1>1, <1>2, <1>3 DEF Enqueue, Enqueued, gate, lane, far

(* Taking a swap makes its connection and its version the worker's.        *)
LEMMA TakeSwapSteps ==
    ASSUME LaneInv, TakeSwap
    PROVE  \E c \in Nat, v \in Versions : Swapped(c, v)
  <1>0. LaneTypes /\ queue # <<>> /\ worker.at = "take" /\ Head(queue).job = "swap" /\ conns \in Seq(Conn)
    BY DEF LaneInv, LaneTypes, TakeSwap
  <1>1. queue' = Tail(queue) /\ MovesUp /\ Head(queue) = queue[1] /\ queue[1] \in Jobs
    BY <1>0, HeadJob DEF TakeSwap, MovesUp
  <1>2. PICK c \in Nat, v \in Versions : queue[1] = Swap(c, v)
    BY <1>0, <1>1, JobKinds
  <1>3. conn' = c /\ wversion' = v /\ owed' = 0
    BY <1>1, <1>2, JobKinds DEF TakeSwap
  <1>4. conns' \in Seq(Conn) /\ Len(conns') = Len(conns) /\ Calm /\ LinesSame
    <2>1. CASE conn = None
      BY <1>0, <2>1, SameCalm DEF TakeSwap
    <2>2. CASE conn # None
      <3>1. conn \in 1..Len(conns)
        BY <1>0, <2>2 DEF LaneTypes
      <3> QED
        BY <1>0, <2>2, <3>1, HangupCalm DEF TakeSwap
    <2> QED
      BY <2>1, <2>2
  <1>5. UNCHANGED <<caller, gated, worker, daemons, ran, got, line, overtaken, compat, version>>
    BY DEF TakeSwap, gate, history, far
  <1> QED
    BY <1>0, <1>1, <1>2, <1>3, <1>4, <1>5 DEF Swapped

(* Taking a request puts it in the worker's hands, unless its caller left  *)
(* or a restart is under way (Worker::run).                                *)
LEMMA TakeAskSteps ==
    ASSUME LaneInv, TakeAsk
    PROVE  \E r \in Reqs : Took(r)
  <1>0. LaneTypes /\ queue # <<>> /\ worker.at = "take" /\ Head(queue).job = "ask"
    BY DEF LaneInv, LaneTypes, TakeAsk
  <1>1. queue' = Tail(queue) /\ MovesUp /\ Head(queue) = queue[1] /\ queue[1] \in Jobs
    BY <1>0, HeadJob DEF TakeAsk, MovesUp
  <1>2. PICK r \in Reqs : queue[1] = Ask(r)
    BY <1>0, <1>1, JobKinds
  <1>3. Head(queue).r = r
    BY <1>1, <1>2, JobKinds
  <1>5. UNCHANGED <<gated, conn, owed, wversion, conns, daemons, ran, line, overtaken, compat, version>>
    BY DEF TakeAsk, gate, history, far, lane
  <1>6. \/ caller[r] \in Left /\ UNCHANGED <<caller, got, worker>>
        \/ caller[r] \notin Left /\ swapping /\ Tell(r, "unsent", None)
        \/ /\ caller[r] \notin Left /\ ~swapping
           /\ worker' = [at |-> "settle", r |-> r, fresh |-> FALSE]
           /\ UNCHANGED <<caller, got>>
    BY <1>3 DEF TakeAsk
  <1>7. CASE caller[r] \notin Left /\ swapping /\ Tell(r, "unsent", None)
    <2>1. /\ ToldOne(r, "unsent", None) /\ worker' \in WorkerStates
          /\ caller' \in [Reqs -> Stages] /\ got' \in [Reqs -> Reqs \cup {None}]
      BY <1>0, <1>7, TellOne DEF Told
    <2> QED
      BY <1>0, <1>1, <1>2, <1>5, <1>7, <2>1 DEF Took
  <1>8. CASE caller[r] \in Left /\ UNCHANGED <<caller, got, worker>>
    BY <1>0, <1>1, <1>2, <1>5, <1>8 DEF Took
  <1>9. CASE /\ caller[r] \notin Left /\ ~swapping
             /\ worker' = [at |-> "settle", r |-> r, fresh |-> FALSE]
             /\ UNCHANGED <<caller, got>>
    <2>1. worker' \in WorkerStates /\ worker'.at = "settle" /\ worker'.r = r
      BY <1>9 DEF WorkerStates
    <2> QED
      BY <1>0, <1>1, <1>2, <1>5, <1>9, <2>1 DEF Took
  <1> QED
    BY <1>6, <1>7, <1>8, <1>9

(* The daemon acts on the first request of a connection, and may answer.   *)
LEMMA ServeSteps ==
    ASSUME LaneInv, NEW c \in 1..Len(conns), Serve(c)
    PROVE  \E r \in Reqs : Served(c, r)
  <1>0. conns \in Seq(Conn) /\ ran \in Seq(Reqs \X Nat)
    BY DEF LaneInv, LaneTypes
  <1>1. PICK r \in Reqs : r = Head(conns[c].inbox)
    BY <1>0, ServeEffect
  <1>2. /\ conns' \in Seq(Conn) /\ Len(conns') = Len(conns)
        /\ conns[c].inbox # <<>> /\ r = Head(conns[c].inbox)
        /\ conns'[c].daemon = conns[c].daemon
        /\ conns'[c].inbox = Tail(conns[c].inbox)
        /\ \/ conns'[c].lines = conns[c].lines
           \/ \E k \in {"reply", "long"} :
                 conns'[c].lines = Append(conns[c].lines, [kind |-> k, r |-> r])
        /\ \A d \in 1..Len(conns) : d # c => conns'[d] = conns[d]
    BY <1>0, <1>1, ServeEffect
  <1>3. conns[c].daemon \in Nat
    <2>1. conns[c] \in Conn
      BY <1>0
    <2> QED
      BY <2>1 DEF Conn
  <1>4. ran' = Append(ran, <<r, conns[c].daemon>>) /\ <<r, conns[c].daemon>> \in Reqs \X Nat
    BY <1>1, <1>3 DEF Serve
  <1>5. /\ ran' \in Seq(Reqs \X Nat) /\ Len(ran') = Len(ran) + 1
        /\ \A i \in 1..Len(ran) : ran'[i] = ran[i]
        /\ ran'[Len(ran) + 1] = <<r, conns[c].daemon>>
    BY <1>0, <1>4, AppendPlaces
  <1>6. UNCHANGED <<queue, caller, gated, worker, conn, owed, wversion, daemons, got, line, overtaken, compat, version>>
    BY DEF Serve, gate, callers, lane
  <1> QED
    BY <1>2, <1>5, <1>6 DEF Served

(* The end of a restart opens a connection and queues the swap to it       *)
(* (finish_swap).                                                          *)
LEMMA FinishSteps ==
    ASSUME LaneInv, FinishSwap
    PROVE  Finished
  <1>0. queue \in Seq(Jobs) /\ daemons \in Seq(Versions) /\ daemons # <<>> /\ conns \in Seq(Conn)
    BY DEF LaneInv, LaneTypes
  <1>1. daemons[Len(daemons)] \in Versions /\ Len(conns) + 1 \in Nat
    BY <1>0
  <1>2. version' = daemons[Len(daemons)] /\ conns' = Append(conns, Dialled(Len(daemons)))
    BY DEF FinishSwap, Current
  <1>3. queue' = Append(queue, Swap(Len(conns) + 1, version'))
    BY <1>2 DEF FinishSwap, Current
  <1>4. Joins(Swap(Len(conns) + 1, version'))
    BY <1>0, <1>1, <1>2, <1>3, JobKinds, AppendPlaces DEF Joins
  <1> QED
    BY <1>1, <1>2, <1>4 DEF FinishSwap, Finished, lane, far

(* Every step of the lane is one of these.                                 *)
LEMMA StepKinds ==
    ASSUME LaneInv, [Next]_vars
    PROVE  Step
  <1>1. ASSUME Work PROVE Step
    <2>1. CASE TakeSwap
      BY <2>1, TakeSwapSteps DEF Step
    <2>2. CASE TakeAsk
      BY <2>2, TakeAskSteps DEF Step
    <2>3. CASE SkipPush
      BY <2>3, SkipSteps DEF Step
    <2>4. CASE Settle
      BY <2>4, SettleSteps DEF Step
    <2>5. CASE Redial
      BY <2>5, RedialSteps DEF Step
    <2>6. CASE Write
      BY <2>6, WriteSteps DEF Step
    <2>7. CASE Read
      BY <2>7, ReadSteps DEF Step
    <2> QED
      BY <1>1, <2>1, <2>2, <2>3, <2>4, <2>5, <2>6, <2>7 DEF Work
  <1>2. ASSUME NEW r \in Reqs, Gate(r) \/ Admit(r) \/ Enqueue(r) \/ GiveUp(r) PROVE Step
    BY <1>2, TurnSteps, EnqueueSteps DEF Step
  <1>3. ASSUME NEW c \in 1..Len(conns), Serve(c) \/ Push(c) \/ Lose(c) PROVE Step
    <2>1. CASE Serve(c)
      BY <2>1, ServeSteps DEF Step
    <2>2. CASE Push(c)
      BY <2>2 DEF Step
    <2>3. CASE Lose(c)
      BY <2>3, StillSteps DEF Step
    <2> QED
      BY <1>3, <2>1, <2>2, <2>3
  <1>4. ASSUME Restart PROVE Step
    <2>1. CASE FinishSwap
      BY <2>1, FinishSteps DEF Step
    <2>2. CASE ~FinishSwap
      BY <1>4, <2>2, StillSteps DEF Step, Restart
    <2> QED
      BY <2>1, <2>2
  <1>5. ASSUME UNCHANGED vars PROVE Step
    BY <1>5, StillSteps DEF Step
  <1> QED
    BY <1>1, <1>2, <1>3, <1>4, <1>5 DEF Next

-----------------------------------------------------------------------------
(* The parts of the invariant, one by one.                                 *)

(* What daemon a connection is to is settled when it is opened.            *)
LEMMA DaemonsKnown ==
    ASSUME LaneTypes, Len(conns') = Len(conns),
           \A c \in 1..Len(conns) : conns'[c].daemon = conns[c].daemon,
           daemons' \in Seq(Versions), Len(daemons) <= Len(daemons')
    PROVE  \A c \in 1..Len(conns') : conns'[c].daemon \in 1..Len(daemons')
  BY DEF LaneTypes

(* Every step keeps the types.                                             *)
LEMMA TypesKept ==
    ASSUME LaneInv, Step
    PROVE  LaneTypes'
  <1>0. /\ LaneTypes /\ conns \in Seq(Conn) /\ daemons \in Seq(Versions) /\ Len(daemons) \in Nat
        /\ Len(daemons) <= Len(daemons) /\ daemons # <<>> /\ queue \in Seq(Jobs) /\ Len(conns) \in Nat
        /\ None \notin Nat /\ None \notin Reqs
    BY LaneAssumption DEF LaneInv, LaneTypes
  <1>a. ASSUME Aside PROVE LaneTypes'
    <2>1. \A c \in 1..Len(conns') : conns'[c].daemon \in 1..Len(daemons')
      BY <1>0, <1>a, DaemonsKnown DEF Aside, Calm
    <2> QED
      BY <1>0, <1>a, <2>1 DEF Aside, LaneTypes
  <1>1. CASE Still \/ Skipped
    BY <1>1, <1>a DEF Still, Skipped
  <1>2. CASE Onward
    <2>1. CASE Len(conns') = Len(conns)
      <3>1. \A c \in 1..Len(conns') : conns'[c].daemon \in 1..Len(daemons')
        BY <1>0, <1>2, <2>1, DaemonsKnown DEF Onward, Calm, Same
      <3>2. conn' \in 1..Len(conns') \cup {None}
        BY <1>0, <1>2, <2>1, DialCalm DEF Onward, LaneTypes
      <3> QED
        BY <1>0, <1>2, <3>1, <3>2 DEF Onward, Same, LaneTypes, InHand
    <2>2. CASE conns' = Append(conns, Dialled(Len(daemons))) /\ conn' = Len(conns) + 1
      <3>1. /\ conns' \in Seq(Conn) /\ Len(conns') = Len(conns) + 1
            /\ conns'[Len(conns) + 1] = Dialled(Len(daemons)) /\ \A d \in 1..Len(conns) : conns'[d] = conns[d]
        BY <1>0, <2>2, DialCalm
      <3>2. Dialled(Len(daemons)).daemon \in 1..Len(daemons)
        BY <1>0 DEF Dialled
      <3>3. \A c \in 1..Len(conns') : conns'[c].daemon \in 1..Len(daemons)
        <4> SUFFICES ASSUME NEW c \in 1..Len(conns') PROVE conns'[c].daemon \in 1..Len(daemons)
          OBVIOUS
        <4>1. CASE c = Len(conns) + 1
          BY <3>1, <3>2, <4>1
        <4>2. CASE c # Len(conns) + 1
          <5>1. c \in 1..Len(conns)
            BY <1>0, <3>1, <4>2
          <5> QED
            BY <1>0, <3>1, <5>1 DEF LaneTypes
        <4> QED
          BY <4>1, <4>2
      <3> QED
        BY <1>0, <1>2, <2>2, <3>1, <3>3 DEF Onward, Same, LaneTypes, InHand
    <2> QED
      BY <1>2, <2>1, <2>2 DEF Onward
  <1>3. ASSUME NEW what, Failed(what) PROVE LaneTypes'
    <2>1. \A c \in 1..Len(conns') : conns'[c].daemon \in 1..Len(daemons')
      BY <1>0, <1>3, DaemonsKnown DEF Failed, Calm, Same
    <2>2. conn' \in 1..Len(conns') \cup {None}
      BY <1>0, <1>3 DEF Failed, LaneTypes
    <2>3. UNCHANGED <<queue, gated, ran, line, overtaken, version, compat, wversion, daemons>>
      BY <1>3 DEF Failed, Same
    <2>4. worker' \in WorkerStates /\ (worker'.at = "take" <=> worker'.r = None)
      BY <1>3 DEF Failed, ToldOne
    <2> QED
      BY <1>0, <1>3, <2>1, <2>2, <2>3, <2>4 DEF Failed, LaneTypes
  <1>4. CASE Wrote
    <2>1. /\ conns' \in Seq(Conn) /\ Len(conns') = Len(conns)
          /\ \A c \in 1..Len(conns) : conns'[c].daemon = conns[c].daemon
      BY <1>0, <1>4, WriteEffect DEF Wrote, InHand
    <2>2. \A c \in 1..Len(conns') : conns'[c].daemon \in 1..Len(daemons')
      BY <1>0, <1>4, <2>1, DaemonsKnown DEF Wrote, Same
    <2> QED
      BY <1>0, <1>4, <2>1, <2>2 DEF Wrote, LaneTypes, Same, InHand
  <1>5. CASE Answered
    <2>1. \A c \in 1..Len(conns') : conns'[c].daemon \in 1..Len(daemons')
      BY <1>0, <1>5, DaemonsKnown DEF Answered, Calm, Same
    <2>2. worker' \in WorkerStates /\ (worker'.at = "take" <=> worker'.r = None)
      BY <1>5 DEF Answered, ToldOne
    <2>3. UNCHANGED <<queue, gated, ran, line, overtaken, version, compat, wversion, daemons>>
      BY <1>5 DEF Answered, Same
    <2> QED
      BY <1>0, <1>5, <2>1, <2>2, <2>3 DEF Answered, LaneTypes
  <1>6. CASE Finished
    <2>1. /\ conns' \in Seq(Conn) /\ Len(conns') = Len(conns) + 1
          /\ conns'[Len(conns) + 1] = Dialled(Len(daemons)) /\ \A d \in 1..Len(conns) : conns'[d] = conns[d]
      BY <1>0, <1>6, DialCalm DEF Finished
    <2>2. Dialled(Len(daemons)).daemon \in 1..Len(daemons)
      BY <1>0 DEF Dialled
    <2>3. \A c \in 1..Len(conns') : conns'[c].daemon \in 1..Len(daemons)
      <3> SUFFICES ASSUME NEW c \in 1..Len(conns') PROVE conns'[c].daemon \in 1..Len(daemons)
        OBVIOUS
      <3>1. CASE c = Len(conns) + 1
        BY <2>1, <2>2, <3>1
      <3>2. CASE c # Len(conns) + 1
        <4>1. c \in 1..Len(conns)
          BY <1>0, <2>1, <3>2
        <4> QED
          BY <1>0, <2>1, <4>1 DEF LaneTypes
      <3> QED
        BY <3>1, <3>2
    <2> QED
      BY <1>0, <1>6, <2>1, <2>3 DEF Finished, LaneTypes, Joins
  <1>7. ASSUME NEW r \in Reqs, Turned(r) PROVE LaneTypes'
    BY <1>0, <1>7 DEF Turned, LaneTypes, Moves
  <1>8. ASSUME NEW r \in Reqs, Enqueued(r) PROVE LaneTypes'
    BY <1>0, <1>8 DEF Enqueued, LaneTypes, Moves, Joins
  <1>9. ASSUME NEW r \in Reqs, Took(r) PROVE LaneTypes'
    <2>1. /\ caller' \in [Reqs -> Stages] /\ got' \in [Reqs -> Reqs \cup {None}] /\ worker' \in WorkerStates
          /\ worker'.at = "take" <=> worker'.r = None
      BY <1>0, <1>9 DEF Took, LaneTypes, ToldOne
    <2> QED
      BY <1>0, <1>9, <2>1 DEF Took, LaneTypes, MovesUp
  <1>10. ASSUME NEW c \in Nat, NEW v \in Versions, Swapped(c, v) PROVE LaneTypes'
    <2>1. \A d \in 1..Len(conns') : conns'[d].daemon \in 1..Len(daemons')
      BY <1>0, <1>10, DaemonsKnown DEF Swapped, Calm
    <2>2. 1 \in 1..Len(queue)
      BY <1>0, <1>10 DEF Swapped, MovesUp
    <2>3. c \in 1..Len(conns)
      BY <1>10, <2>2 DEF Swapped, LaneInv, SwapsFresh, Fresh
    <2> QED
      BY <1>0, <1>10, <2>1, <2>3 DEF Swapped, LaneTypes, MovesUp
  <1>11. ASSUME NEW c \in 1..Len(conns), Push(c) PROVE LaneTypes'
    BY <1>11, <1>a, PushAside
  <1>12. ASSUME NEW c \in 1..Len(conns), NEW r \in Reqs, Served(c, r) PROVE LaneTypes'
    <2>1. \A d \in 1..Len(conns') : conns'[d].daemon \in 1..Len(daemons')
      BY <1>0, <1>12, DaemonsKnown DEF Served
    <2> QED
      BY <1>0, <1>12, <2>1 DEF Served, LaneTypes
  <1> QED
    BY <1>1, <1>2, <1>3, <1>4, <1>5, <1>6, <1>7, <1>8, <1>9, <1>10, <1>11, <1>12 DEF Step

(* Where a request is depends on the queue, the connections, the history.  *)
LEMMA Unmoved ==
    /\ UNCHANGED queue => \A q \in Reqs : Asked(q)' <=> Asked(q)
    /\ UNCHANGED ran => \A q \in Reqs : Done(q)' <=> Done(q)
    /\ UNCHANGED line => \A q \in Reqs : Lined(q)' <=> Lined(q)
    /\ UNCHANGED conns => \A q \in Reqs : Sent(q)' <=> Sent(q)
  BY DEF Asked, Done, Lined, Sent

(* A step that writes nothing adds to no connection's requests.            *)
LEMMA SentLess ==
    ASSUME LaneTypes, Calm
    PROVE  \A q \in Reqs : Sent(q)' => Sent(q)
  <1> SUFFICES ASSUME NEW q \in Reqs, NEW c \in 1..Len(conns'),
                      NEW i \in 1..Len(conns'[c].inbox), conns'[c].inbox[i] = q
               PROVE  Sent(q)
    BY DEF Sent
  <1>1. conns'[c].inbox # <<>>
    OBVIOUS
  <1>2. Len(conns) \in Nat /\ Len(conns') \in Nat
    BY DEF Calm, LaneTypes
  <1>3. ~(c > Len(conns))
    BY <1>1 DEF Calm
  <1>4. c \in 1..Len(conns)
    BY <1>2, <1>3
  <1>5. conns'[c].inbox = conns[c].inbox
    BY <1>1, <1>4 DEF Calm
  <1> QED
    BY <1>4, <1>5 DEF Sent

(* Writing adds the request written, and no other.                         *)
LEMMA SentMore ==
    ASSUME LaneTypes, Wrote
    PROVE  \A q \in Reqs : Sent(q)' <=> Sent(q) \/ q = worker.r
  <1>0. conns \in Seq(Conn) /\ conn \in 1..Len(conns) /\ worker.r \in Reqs /\ Written
    BY DEF LaneTypes, Wrote, InHand
  <1>1. /\ Len(conns') = Len(conns)
        /\ conns'[conn].inbox = Append(conns[conn].inbox, worker.r)
        /\ \A d \in 1..Len(conns) : d # conn => conns'[d] = conns[d]
    BY <1>0, WriteEffect
  <1>2. conns[conn].inbox \in Seq(Reqs)
    <2>1. conns[conn] \in Conn
      BY <1>0
    <2> QED
      BY <2>1 DEF Conn
  <1>3. /\ Len(conns'[conn].inbox) = Len(conns[conn].inbox) + 1 /\ Len(conns[conn].inbox) \in Nat
        /\ \A i \in 1..Len(conns[conn].inbox) : conns'[conn].inbox[i] = conns[conn].inbox[i]
        /\ conns'[conn].inbox[Len(conns[conn].inbox) + 1] = worker.r
    BY <1>0, <1>1, <1>2, AppendPlaces
  <1> SUFFICES ASSUME NEW q \in Reqs PROVE Sent(q)' <=> Sent(q) \/ q = worker.r
    OBVIOUS
  <1>4. ASSUME Sent(q) PROVE Sent(q)'
    <2>a. PICK c \in 1..Len(conns) : \E i \in 1..Len(conns[c].inbox) : conns[c].inbox[i] = q
      BY <1>4 DEF Sent
    <2>1. PICK i \in 1..Len(conns[c].inbox) : conns[c].inbox[i] = q
      BY <2>a
    <2>2. c \in 1..Len(conns') /\ i \in 1..Len(conns'[c].inbox) /\ conns'[c].inbox[i] = q
      <3>1. CASE c = conn
        BY <1>1, <1>3, <2>1, <3>1
      <3>2. CASE c # conn
        BY <1>1, <2>1, <3>2
      <3> QED
        BY <3>1, <3>2
    <2> QED
      BY <2>2 DEF Sent
  <1>5. ASSUME q = worker.r PROVE Sent(q)'
    <2>1. Len(conns[conn].inbox) + 1 \in 1..Len(conns'[conn].inbox) /\ conn \in 1..Len(conns')
      BY <1>0, <1>1, <1>3
    <2> QED
      BY <1>3, <1>5, <2>1 DEF Sent
  <1>6. ASSUME Sent(q)' PROVE Sent(q) \/ q = worker.r
    <2>a. PICK c \in 1..Len(conns') : \E i \in 1..Len(conns'[c].inbox) : conns'[c].inbox[i] = q
      BY <1>6 DEF Sent
    <2>1. PICK i \in 1..Len(conns'[c].inbox) : conns'[c].inbox[i] = q
      BY <2>a
    <2>2. CASE c # conn
      BY <1>1, <2>1, <2>2 DEF Sent
    <2>3. CASE c = conn
      <3>1. CASE i = Len(conns[conn].inbox) + 1
        BY <1>3, <2>1, <2>3, <3>1
      <3>2. CASE i # Len(conns[conn].inbox) + 1
        <4>1. i \in 1..Len(conns[conn].inbox)
          BY <1>3, <2>1, <2>3, <3>2
        <4> QED
          BY <1>0, <1>3, <2>1, <2>3, <4>1 DEF Sent
      <3> QED
        BY <3>1, <3>2
    <2> QED
      BY <2>2, <2>3
  <1> QED
    BY <1>4, <1>5, <1>6

(* The requests on a connection, by place, once the first has been served. *)
LEMMA ServedInbox ==
    ASSUME LaneTypes, NEW c \in 1..Len(conns), NEW r \in Reqs, Served(c, r)
    PROVE  /\ Len(conns[c].inbox) \in Nat \ {0} /\ conns[c].inbox[1] = r
           /\ Len(conns'[c].inbox) = Len(conns[c].inbox) - 1
           /\ \A i \in 1..Len(conns'[c].inbox) : conns'[c].inbox[i] = conns[c].inbox[i + 1]
  <1>1. conns[c] \in Conn
    BY DEF LaneTypes
  <1>2. conns[c].inbox \in Seq(Reqs) /\ conns[c].inbox # <<>>
    BY <1>1 DEF Conn, Served
  <1>3. Len(conns[c].inbox) > 0 /\ Len(conns[c].inbox) \in Nat /\ Head(conns[c].inbox) = conns[c].inbox[1]
    BY <1>2, TailPlaces
  <1> QED
    BY <1>2, <1>3, TailPlaces DEF Served

(* Serving moves the request from the connection to the history.           *)
LEMMA SentOne ==
    ASSUME LaneTypes, Once, NEW c \in 1..Len(conns), NEW r \in Reqs, Served(c, r)
    PROVE  /\ Sent(r) /\ ~Sent(r)'
           /\ \A q \in Reqs : Sent(q)' => Sent(q)
           /\ \A q \in Reqs : Done(q)' <=> Done(q) \/ q = r
  <1>0. /\ Len(conns[c].inbox) \in Nat \ {0} /\ conns[c].inbox[1] = r
        /\ Len(conns'[c].inbox) = Len(conns[c].inbox) - 1
        /\ \A i \in 1..Len(conns'[c].inbox) : conns'[c].inbox[i] = conns[c].inbox[i + 1]
    BY ServedInbox
  <1>1. Len(conns') = Len(conns) /\ \A d \in 1..Len(conns) : d # c => conns'[d] = conns[d]
    BY DEF Served
  <1>2. 1 \in 1..Len(conns[c].inbox)
    BY <1>0
  <1>3. Sent(r)
    BY <1>0, <1>2 DEF Sent
  <1>4. ASSUME NEW q \in Reqs, Sent(q)' PROVE Sent(q) /\ q # r
    <2>a. PICK d \in 1..Len(conns') : \E i \in 1..Len(conns'[d].inbox) : conns'[d].inbox[i] = q
      BY <1>4 DEF Sent
    <2>1. PICK i \in 1..Len(conns'[d].inbox) : conns'[d].inbox[i] = q
      BY <2>a
    <2>2. CASE d = c
      <3>1. i + 1 \in 1..Len(conns[c].inbox) /\ conns[c].inbox[i + 1] = q /\ i + 1 # 1
        BY <1>0, <2>1, <2>2
      <3>2. q # r
        BY <1>0, <1>2, <3>1 DEF Once, AsksOnce, SentOnce
      <3> QED
        BY <3>1, <3>2 DEF Sent
    <2>3. CASE d # c
      <3>1. d \in 1..Len(conns) /\ i \in 1..Len(conns[d].inbox) /\ conns[d].inbox[i] = q
        BY <1>1, <2>1, <2>3
      <3>2. q # r
        BY <1>0, <1>2, <2>3, <3>1 DEF Once, AsksOnce, SentOnce
      <3> QED
        BY <3>1, <3>2 DEF Sent
    <2> QED
      BY <2>2, <2>3
  <1>5. ASSUME NEW q \in Reqs PROVE Done(q)' <=> Done(q) \/ q = r
    <2>0. /\ Len(ran) \in Nat /\ Len(ran') = Len(ran) + 1 /\ \A i \in 1..Len(ran) : ran'[i] = ran[i]
          /\ ran'[Len(ran) + 1][1] = r
      BY DEF Served, LaneTypes
    <2>1. ASSUME Done(q)' PROVE Done(q) \/ q = r
      <3>1. PICK i \in 1..Len(ran') : ran'[i][1] = q
        BY <2>1 DEF Done
      <3>2. CASE i = Len(ran) + 1
        BY <2>0, <3>1, <3>2
      <3>3. CASE i # Len(ran) + 1
        BY <2>0, <3>1, <3>3 DEF Done
      <3> QED
        BY <3>2, <3>3
    <2>2. ASSUME Done(q) PROVE Done(q)'
      BY <2>0, <2>2 DEF Done
    <2>3. ASSUME q = r PROVE Done(q)'
      <3>1. Len(ran) + 1 \in 1..Len(ran')
        BY <2>0
      <3> QED
        BY <2>0, <2>3, <3>1 DEF Done
    <2> QED
      BY <2>1, <2>2, <2>3
  <1> QED
    BY <1>3, <1>4, <1>5

(* Taking a job leaves the others queued.                                  *)
LEMMA AskedLess ==
    ASSUME LaneTypes, MovesUp
    PROVE  \A q \in Reqs : Asked(q)' => Asked(q)
  <1> SUFFICES ASSUME NEW q \in Reqs, NEW i \in 1..Len(queue'), queue'[i] = Ask(q) PROVE Asked(q)
    BY DEF Asked
  <1>1. i + 1 \in 1..Len(queue) /\ queue[i + 1] = Ask(q)
    BY DEF MovesUp, LaneTypes
  <1> QED
    BY <1>1 DEF Asked

(* A request that was taken is not queued any more.                        *)
LEMMA AskedOne ==
    ASSUME LaneTypes, Once, NEW r \in Reqs, MovesUp, queue[1] = Ask(r)
    PROVE  Asked(r) /\ ~Asked(r)'
  <1>1. 1 \in 1..Len(queue)
    BY DEF MovesUp, LaneTypes
  <1>2. ASSUME NEW i \in 1..Len(queue'), queue'[i] = Ask(r) PROVE FALSE
    <2>1. i + 1 \in 1..Len(queue) /\ queue[i + 1] = Ask(r) /\ i + 1 # 1
      BY <1>2 DEF MovesUp, LaneTypes
    <2> QED
      BY <1>1, <2>1 DEF Once, AsksOnce, SentOnce
  <1> QED
    BY <1>1, <1>2 DEF Asked

(* A job that joins adds itself.                                           *)
LEMMA AskedMore ==
    ASSUME LaneTypes, NEW j \in Jobs, Joins(j)
    PROVE  \A q \in Reqs : Asked(q)' <=> Asked(q) \/ Ask(q) = j
  <1>0. Len(queue) \in Nat
    BY DEF LaneTypes
  <1> SUFFICES ASSUME NEW q \in Reqs PROVE Asked(q)' <=> Asked(q) \/ Ask(q) = j
    OBVIOUS
  <1>1. ASSUME Asked(q)' PROVE Asked(q) \/ Ask(q) = j
    <2>1. PICK i \in 1..Len(queue') : queue'[i] = Ask(q)
      BY <1>1 DEF Asked
    <2>2. CASE i = Len(queue) + 1
      BY <2>1, <2>2 DEF Joins
    <2>3. CASE i # Len(queue) + 1
      <3>1. i \in 1..Len(queue) /\ queue[i] = Ask(q)
        BY <1>0, <2>1, <2>3 DEF Joins
      <3> QED
        BY <3>1 DEF Asked
    <2> QED
      BY <2>2, <2>3
  <1>2. ASSUME Asked(q) PROVE Asked(q)'
    <2>1. PICK i \in 1..Len(queue) : queue[i] = Ask(q)
      BY <1>2 DEF Asked
    <2>2. i \in 1..Len(queue') /\ queue'[i] = Ask(q)
      BY <1>0, <2>1 DEF Joins
    <2> QED
      BY <2>2 DEF Asked
  <1>3. ASSUME Ask(q) = j PROVE Asked(q)'
    <2>1. Len(queue) + 1 \in 1..Len(queue') /\ queue'[Len(queue) + 1] = Ask(q)
      BY <1>0, <1>3 DEF Joins
    <2> QED
      BY <2>1 DEF Asked
  <1> QED
    BY <1>1, <1>2, <1>3

(* A request that is queued joins the line.                                *)
LEMMA LinedMore ==
    ASSUME LaneTypes, NEW r \in Reqs, Enqueued(r)
    PROVE  \A q \in Reqs : Lined(q)' <=> Lined(q) \/ q = r
  <1>0. /\ Len(line) \in Nat /\ Len(line') = Len(line) + 1 /\ \A i \in 1..Len(line) : line'[i] = line[i]
        /\ line'[Len(line) + 1] = r
    BY DEF LaneTypes, Enqueued
  <1> SUFFICES ASSUME NEW q \in Reqs PROVE Lined(q)' <=> Lined(q) \/ q = r
    OBVIOUS
  <1>1. ASSUME Lined(q)' PROVE Lined(q) \/ q = r
    <2>1. PICK i \in 1..Len(line') : line'[i] = q
      BY <1>1 DEF Lined
    <2>2. CASE i = Len(line) + 1
      BY <1>0, <2>1, <2>2
    <2>3. CASE i # Len(line) + 1
      BY <1>0, <2>1, <2>3 DEF Lined
    <2> QED
      BY <2>2, <2>3
  <1>2. ASSUME Lined(q) PROVE Lined(q)'
    BY <1>0, <1>2 DEF Lined
  <1>3. ASSUME q = r PROVE Lined(q)'
    <2>1. Len(line) + 1 \in 1..Len(line')
      BY <1>0
    <2> QED
      BY <1>0, <1>3, <2>1 DEF Lined
  <1> QED
    BY <1>1, <1>2, <1>3

(* Every step keeps each request in one place.                             *)
LEMMA PlacesKept ==
    ASSUME LaneInv, Step
    PROVE  Places'
  <1>0. LaneTypes /\ Once /\ Places /\ None \notin Reqs /\ (worker.at = "take" => worker.r = None)
    BY LaneAssumption DEF LaneInv, LaneTypes
  <1> SUFFICES ASSUME NEW q \in Reqs PROVE InPlace(q)'
    BY DEF Places
  <1>p. InPlace(q)
    BY <1>0 DEF Places
  <1>a. ASSUME Aside PROVE InPlace(q)'
    <2>1. /\ (Asked(q)' <=> Asked(q)) /\ (Done(q)' <=> Done(q)) /\ (Lined(q)' <=> Lined(q))
          /\ Sent(q)' => Sent(q)
      BY <1>0, <1>a, Unmoved, SentLess DEF Aside
    <2>2. UNCHANGED <<caller, worker>>
      BY <1>a DEF Aside
    <2> QED
      BY <1>p, <2>1, <2>2 DEF InPlace
  <1>1. CASE Still \/ Skipped
    BY <1>1, <1>a DEF Still, Skipped
  <1>2. CASE Onward
    <2>1. /\ (Asked(q)' <=> Asked(q)) /\ (Done(q)' <=> Done(q)) /\ (Lined(q)' <=> Lined(q))
          /\ Sent(q)' => Sent(q)
      BY <1>0, <1>2, Unmoved, SentLess DEF Onward, Same
    <2>2. caller' = caller /\ worker'.r = worker.r /\ worker.at # "read"
      BY <1>2 DEF Onward
    <2> QED
      BY <1>p, <2>1, <2>2 DEF InPlace
  <1>3. ASSUME NEW what, Failed(what) PROVE InPlace(q)'
    <2>1. /\ (Asked(q)' <=> Asked(q)) /\ (Done(q)' <=> Done(q)) /\ (Lined(q)' <=> Lined(q))
          /\ Sent(q)' => Sent(q)
      BY <1>0, <1>3, Unmoved, SentLess DEF Failed, Same
    <2>2. /\ ToldOne(worker.r, what, None) /\ worker'.r # q /\ worker.r \in Reqs
          /\ (what = "unsent" /\ worker.at # "read") \/ (what = "unknown" /\ worker.at = "read")
      BY <1>0, <1>3 DEF Failed, ToldOne, InHand
    <2>3. CASE q # worker.r
      BY <1>p, <2>1, <2>2, <2>3 DEF InPlace, ToldOne
    <2>4. CASE q = worker.r
      <3>1. InPlace(worker.r) /\ (caller[q] \in Left => caller'[q] = caller[q]) /\ (caller[q] \notin Left => caller'[q] = what)
        BY <1>p, <2>2, <2>4 DEF ToldOne
      <3> QED
        BY <1>p, <2>1, <2>2, <2>4, <3>1 DEF InPlace, Left
    <2> QED
      BY <2>3, <2>4
  <1>4. CASE Wrote
    <2>1. /\ (Asked(q)' <=> Asked(q)) /\ (Done(q)' <=> Done(q)) /\ (Lined(q)' <=> Lined(q))
          /\ Sent(q)' <=> Sent(q) \/ q = worker.r
      BY <1>0, <1>4, Unmoved, SentMore DEF Wrote, Same
    <2>2. caller' = caller /\ worker'.r = worker.r /\ worker.at # "read" /\ worker'.at = "read"
      BY <1>4 DEF Wrote
    <2> QED
      BY <1>p, <2>1, <2>2 DEF InPlace
  <1>5. CASE Answered
    <2>1. /\ (Asked(q)' <=> Asked(q)) /\ (Done(q)' <=> Done(q)) /\ (Lined(q)' <=> Lined(q))
          /\ Sent(q)' => Sent(q)
      BY <1>0, <1>5, Unmoved, SentLess DEF Answered, Same
    <2>2. /\ ToldOne(worker.r, "answered", Line1.r) /\ worker'.r # q /\ worker.r \in Reqs
      BY <1>0, <1>5 DEF Answered, ToldOne, InHand
    <2>3. CASE q # worker.r
      BY <1>p, <2>1, <2>2, <2>3 DEF InPlace, ToldOne
    <2>4. CASE q = worker.r
      <3>1. (caller[q] \in Left => caller'[q] = caller[q]) /\ (caller[q] \notin Left => caller'[q] = "answered")
        BY <2>2, <2>4 DEF ToldOne
      <3>2. ~Sent(q)
        <4>1. conn \in 1..Len(conns) /\ conns[conn].lines # <<>> /\ Line1.kind = "reply" /\ worker.at = "read"
          BY <1>5 DEF Answered, ReadOff
        <4>2. 1 \in 1..Len(conns[conn].lines) /\ Line1 = conns[conn].lines[1]
          <5>1. conns[conn] \in Conn
            BY <1>0, <4>1 DEF LaneTypes
          <5>2. conns[conn].lines \in Seq(Lines)
            BY <5>1 DEF Conn
          <5> QED
            BY <4>1, <5>2 DEF Line1
        <4>3. conns[conn].lines[1].r \in Reqs /\ Done(conns[conn].lines[1].r) /\ conns[conn].lines[1].r = worker.r
          <5>1. Answer(conn, 1)
            BY <4>1, <4>2 DEF Answer
          <5>2. conn # None
            BY <1>0, <4>1, LaneAssumption DEF LaneTypes
          <5> QED
            BY <4>1, <4>2, <5>1, <5>2 DEF LaneInv, AnswersDone, InStep, Expects, Mine
        <4> QED
          BY <1>p, <2>4, <4>3 DEF InPlace
      <3> QED
        BY <1>p, <2>1, <2>2, <2>4, <3>1, <3>2 DEF InPlace, Left
    <2> QED
      BY <2>3, <2>4
  <1>6. CASE Finished
    <2>1. /\ (Done(q)' <=> Done(q)) /\ (Lined(q)' <=> Lined(q))
          /\ UNCHANGED <<caller, worker>>
      BY <1>0, <1>6, Unmoved DEF Finished
    <2>2. Sent(q)' => Sent(q)
      <3>1. conns \in Seq(Conn) /\ Len(daemons) \in Nat /\ conns' = Append(conns, Dialled(Len(daemons)))
        BY <1>0, <1>6 DEF LaneTypes, Finished
      <3> QED
        BY <1>0, <3>1, DialCalm, SentLess
    <2>3. Asked(q)' <=> Asked(q)
      <3>1. Len(conns) + 1 \in Nat /\ version' \in Versions
        BY <1>0, <1>6 DEF LaneTypes, Finished
      <3>2. PICK j \in Jobs : j = Swap(Len(conns) + 1, version') /\ j # Ask(q)
        BY <3>1, JobKinds
      <3> QED
        BY <1>0, <1>6, <3>2, AskedMore DEF Finished
    <2> QED
      BY <1>p, <2>1, <2>2, <2>3 DEF InPlace
  <1>7. ASSUME NEW r \in Reqs, Turned(r) PROVE InPlace(q)'
    <2>1. /\ (Asked(q)' <=> Asked(q)) /\ (Done(q)' <=> Done(q)) /\ (Lined(q)' <=> Lined(q))
          /\ (Sent(q)' <=> Sent(q)) /\ worker' = worker
      BY <1>7, Unmoved DEF Turned
    <2>2. CASE q # r
      <3>1. caller'[q] = caller[q]
        BY <1>7, <2>2 DEF Turned, Moves
      <3> QED
        BY <1>p, <2>1, <3>1 DEF InPlace
    <2>3. CASE q = r
      <3>1. \/ caller[q] = "idle" /\ caller'[q] = "gating"
            \/ caller[q] = "gating" /\ caller'[q] \in {"unsent", "admitted"}
            \/ caller[q] = "waiting" /\ Asked(q) /\ caller'[q] = "withdrawn"
            \/ caller[q] = "waiting" /\ ~Asked(q) /\ caller'[q] = "gone"
        BY <1>7, <2>3 DEF Turned, Moves
      <3> QED
        BY <1>p, <2>1, <3>1 DEF InPlace
    <2> QED
      BY <2>2, <2>3
  <1>8. ASSUME NEW r \in Reqs, Enqueued(r) PROVE InPlace(q)'
    <2>1. (Done(q)' <=> Done(q)) /\ (Sent(q)' <=> Sent(q)) /\ worker' = worker
      BY <1>8, Unmoved DEF Enqueued
    <2>2. Ask(r) \in Jobs /\ Joins(Ask(r)) /\ (Ask(q) = Ask(r) <=> q = r)
      BY <1>8, JobKinds DEF Enqueued
    <2>3. (Asked(q)' <=> Asked(q) \/ q = r) /\ (Lined(q)' <=> Lined(q) \/ q = r)
      BY <1>0, <1>8, <2>2, AskedMore, LinedMore
    <2>4. (q # r => caller'[q] = caller[q]) /\ (q = r => caller[q] = "admitted" /\ caller'[q] = "waiting")
      BY <1>8 DEF Enqueued, Moves
    <2> QED
      BY <1>p, <2>1, <2>3, <2>4 DEF InPlace
  <1>9. ASSUME NEW r \in Reqs, Took(r) PROVE InPlace(q)'
    <2>1. /\ (Done(q)' <=> Done(q)) /\ (Lined(q)' <=> Lined(q)) /\ (Sent(q)' <=> Sent(q))
          /\ Asked(q)' => Asked(q)
      BY <1>0, <1>9, Unmoved, AskedLess DEF Took
    <2>2. Asked(r) /\ ~Asked(r)' /\ worker.r = None /\ InPlace(r)
      BY <1>0, <1>9, AskedOne DEF Took, Places
    <2>3. CASE q # r
      <3>1. caller'[q] = caller[q] /\ worker'.r # q
        BY <1>0, <1>9, <2>2, <2>3 DEF Took, ToldOne
      <3> QED
        BY <1>0, <1>p, <2>1, <2>2, <3>1 DEF InPlace
    <2>4. CASE q = r
      <3>1. caller[q] \in {"waiting", "withdrawn"} /\ ~Sent(q) /\ ~Done(q)
        BY <2>2, <2>4 DEF InPlace
      <3>2. \/ caller[q] \in Left /\ caller'[q] = caller[q] /\ worker'.r # q
            \/ caller[q] \notin Left /\ caller'[q] = "unsent" /\ worker'.r # q
            \/ caller[q] \notin Left /\ caller'[q] = caller[q]
        BY <1>0, <1>9, <2>2, <2>4 DEF Took, ToldOne
      <3> QED
        BY <2>1, <2>2, <2>4, <3>1, <3>2 DEF InPlace, Left
    <2> QED
      BY <2>3, <2>4
  <1>10. ASSUME NEW c \in Nat, NEW v \in Versions, Swapped(c, v) PROVE InPlace(q)'
    <2>1. /\ (Done(q)' <=> Done(q)) /\ (Lined(q)' <=> Lined(q)) /\ (Sent(q)' => Sent(q))
          /\ (Asked(q)' => Asked(q)) /\ UNCHANGED <<caller, worker>>
      BY <1>0, <1>10, Unmoved, AskedLess, SentLess DEF Swapped
    <2> QED
      BY <1>p, <2>1 DEF InPlace
  <1>11. ASSUME NEW c \in 1..Len(conns), Push(c) PROVE InPlace(q)'
    BY <1>11, <1>a, PushAside
  <1>12. ASSUME NEW c \in 1..Len(conns), NEW r \in Reqs, Served(c, r) PROVE InPlace(q)'
    <2>1. (Asked(q)' <=> Asked(q)) /\ (Lined(q)' <=> Lined(q)) /\ UNCHANGED <<caller, worker>>
      BY <1>12, Unmoved DEF Served
    <2>2. Sent(r) /\ ~Sent(r)' /\ (Sent(q)' => Sent(q)) /\ (Done(q)' <=> Done(q) \/ q = r)
      BY <1>0, <1>12, SentOne
    <2>3. InPlace(r)
      BY <1>0 DEF Places
    <2> QED
      BY <1>p, <2>1, <2>2, <2>3 DEF InPlace
  <1> QED
    BY <1>1, <1>2, <1>3, <1>4, <1>5, <1>6, <1>7, <1>8, <1>9, <1>10, <1>11, <1>12 DEF Step

(* A step that writes nothing keeps the requests written apart.            *)
LEMMA SentOnceCalm ==
    ASSUME LaneTypes, SentOnce, Calm
    PROVE  SentOnce'
  <1>1. ASSUME NEW c \in 1..Len(conns'), NEW i \in 1..Len(conns'[c].inbox)
        PROVE  c \in 1..Len(conns) /\ conns'[c].inbox = conns[c].inbox
    <2>1. conns'[c].inbox # <<>>
      BY <1>1
    <2> QED
      BY <2>1 DEF Calm, LaneTypes
  <1>2. SUFFICES ASSUME NEW c \in 1..Len(conns'), NEW d \in 1..Len(conns'),
                        NEW i \in 1..Len(conns'[c].inbox), NEW j \in 1..Len(conns'[d].inbox),
                        conns'[c].inbox[i] = conns'[d].inbox[j]
                 PROVE  c = d /\ i = j
    BY DEF SentOnce
  <1>3. /\ c \in 1..Len(conns) /\ conns'[c].inbox = conns[c].inbox
        /\ d \in 1..Len(conns) /\ conns'[d].inbox = conns[d].inbox
    BY <1>1
  <1> QED
    BY <1>2, <1>3 DEF SentOnce

(* The request written was written nowhere before.                         *)
LEMMA SentOnceWrote ==
    ASSUME LaneInv, Wrote
    PROVE  SentOnce'
  <1>0. conns \in Seq(Conn) /\ conn \in 1..Len(conns) /\ worker.r \in Reqs /\ Written /\ SentOnce
    BY DEF LaneInv, LaneTypes, Wrote, InHand, Once
  <1>1. /\ Len(conns') = Len(conns)
        /\ conns'[conn].inbox = Append(conns[conn].inbox, worker.r)
        /\ \A d \in 1..Len(conns) : d # conn => conns'[d] = conns[d]
    BY <1>0, WriteEffect
  <1>2. conns[conn].inbox \in Seq(Reqs)
    <2>1. conns[conn] \in Conn
      BY <1>0
    <2> QED
      BY <2>1 DEF Conn
  <1>3. /\ Len(conns'[conn].inbox) = Len(conns[conn].inbox) + 1 /\ Len(conns[conn].inbox) \in Nat
        /\ \A i \in 1..Len(conns[conn].inbox) : conns'[conn].inbox[i] = conns[conn].inbox[i]
        /\ conns'[conn].inbox[Len(conns[conn].inbox) + 1] = worker.r
    BY <1>0, <1>1, <1>2, AppendPlaces
  <1>4. ~Sent(worker.r)
    BY <1>0 DEF LaneInv, Places, InPlace, Wrote
  <1>5. ASSUME NEW c \in 1..Len(conns'), NEW i \in 1..Len(conns'[c].inbox)
        PROVE  /\ c \in 1..Len(conns)
               /\ \/ i \in 1..Len(conns[c].inbox) /\ conns'[c].inbox[i] = conns[c].inbox[i]
                                                  /\ conns[c].inbox[i] # worker.r
                  \/ c = conn /\ i = Len(conns[conn].inbox) + 1 /\ conns'[c].inbox[i] = worker.r
    <2>1. c \in 1..Len(conns)
      BY <1>1
    <2>2. CASE c = conn
      BY <1>0, <1>3, <1>4, <2>2 DEF Sent
    <2>3. CASE c # conn
      BY <1>1, <1>4, <2>1, <2>3 DEF Sent
    <2> QED
      BY <2>1, <2>2, <2>3
  <1>6. SUFFICES ASSUME NEW c \in 1..Len(conns'), NEW d \in 1..Len(conns'),
                        NEW i \in 1..Len(conns'[c].inbox), NEW j \in 1..Len(conns'[d].inbox),
                        conns'[c].inbox[i] = conns'[d].inbox[j]
                 PROVE  c = d /\ i = j
    BY DEF SentOnce
  <1>7. /\ c \in 1..Len(conns)
        /\ \/ i \in 1..Len(conns[c].inbox) /\ conns'[c].inbox[i] = conns[c].inbox[i]
                                           /\ conns[c].inbox[i] # worker.r
           \/ c = conn /\ i = Len(conns[conn].inbox) + 1 /\ conns'[c].inbox[i] = worker.r
    BY <1>5
  <1>8. /\ d \in 1..Len(conns)
        /\ \/ j \in 1..Len(conns[d].inbox) /\ conns'[d].inbox[j] = conns[d].inbox[j]
                                           /\ conns[d].inbox[j] # worker.r
           \/ d = conn /\ j = Len(conns[conn].inbox) + 1 /\ conns'[d].inbox[j] = worker.r
    BY <1>5
  <1> QED
    BY <1>0, <1>6, <1>7, <1>8 DEF SentOnce

(* Serving moves the requests that are left up, still apart.               *)
LEMMA SentOnceServed ==
    ASSUME LaneTypes, SentOnce, NEW c \in 1..Len(conns), NEW r \in Reqs, Served(c, r)
    PROVE  SentOnce'
  <1>0. /\ Len(conns[c].inbox) \in Nat \ {0} /\ conns[c].inbox[1] = r
        /\ Len(conns'[c].inbox) = Len(conns[c].inbox) - 1
        /\ \A i \in 1..Len(conns'[c].inbox) : conns'[c].inbox[i] = conns[c].inbox[i + 1]
    BY ServedInbox
  <1>1. Len(conns') = Len(conns) /\ \A d \in 1..Len(conns) : d # c => conns'[d] = conns[d]
    BY DEF Served
  <1>2. ASSUME NEW d \in 1..Len(conns'), NEW i \in 1..Len(conns'[d].inbox)
        PROVE  /\ d \in 1..Len(conns)
               /\ d # c => i \in 1..Len(conns[d].inbox) /\ conns'[d].inbox[i] = conns[d].inbox[i]
               /\ d = c => i + 1 \in 1..Len(conns[d].inbox) /\ conns'[d].inbox[i] = conns[d].inbox[i + 1]
    <2>1. d \in 1..Len(conns)
      BY <1>1
    <2>2. CASE d # c
      BY <1>1, <2>1, <2>2
    <2>3. CASE d = c
      <3>1. i \in 1..Len(conns'[c].inbox)
        BY <2>3
      <3>2. i + 1 \in 1..Len(conns[c].inbox) /\ conns'[c].inbox[i] = conns[c].inbox[i + 1]
        BY <1>0, <3>1
      <3> QED
        BY <2>1, <2>3, <3>2
    <2> QED
      BY <2>2, <2>3
  <1>3. SUFFICES ASSUME NEW d \in 1..Len(conns'), NEW e \in 1..Len(conns'),
                        NEW i \in 1..Len(conns'[d].inbox), NEW j \in 1..Len(conns'[e].inbox),
                        conns'[d].inbox[i] = conns'[e].inbox[j]
                 PROVE  d = e /\ i = j
    BY DEF SentOnce
  <1>4. d \in 1..Len(conns) /\ e \in 1..Len(conns)
    BY <1>1
  <1>5. CASE d = c /\ e = c
    <2>1. /\ i + 1 \in 1..Len(conns[c].inbox) /\ conns'[c].inbox[i] = conns[c].inbox[i + 1]
          /\ j + 1 \in 1..Len(conns[c].inbox) /\ conns'[c].inbox[j] = conns[c].inbox[j + 1]
      BY <1>2, <1>5
    <2>2. i + 1 = j + 1
      BY <1>3, <1>5, <2>1 DEF SentOnce
    <2> QED
      BY <1>0, <1>5, <2>2
  <1>6. CASE d = c /\ e # c
    <2>1. /\ i + 1 \in 1..Len(conns[c].inbox) /\ conns'[c].inbox[i] = conns[c].inbox[i + 1]
          /\ j \in 1..Len(conns[e].inbox) /\ conns'[e].inbox[j] = conns[e].inbox[j]
      BY <1>2, <1>6
    <2> QED
      BY <1>3, <1>4, <1>6, <2>1 DEF SentOnce
  <1>7. CASE d # c /\ e = c
    <2>1. /\ j + 1 \in 1..Len(conns[c].inbox) /\ conns'[c].inbox[j] = conns[c].inbox[j + 1]
          /\ i \in 1..Len(conns[d].inbox) /\ conns'[d].inbox[i] = conns[d].inbox[i]
      BY <1>2, <1>7
    <2> QED
      BY <1>3, <1>4, <1>7, <2>1 DEF SentOnce
  <1>8. CASE d # c /\ e # c
    <2>1. /\ j \in 1..Len(conns[e].inbox) /\ conns'[e].inbox[j] = conns[e].inbox[j]
          /\ i \in 1..Len(conns[d].inbox) /\ conns'[d].inbox[i] = conns[d].inbox[i]
      BY <1>2, <1>8
    <2> QED
      BY <1>3, <1>4, <2>1 DEF SentOnce
  <1> QED
    BY <1>5, <1>6, <1>7, <1>8

(* Taking a job, and a swap that joins, keep the requests queued apart.    *)
LEMMA AsksOnceUp == ASSUME LaneTypes, AsksOnce, MovesUp PROVE AsksOnce'
  <1> SUFFICES ASSUME NEW i \in 1..Len(queue'), NEW j \in 1..Len(queue'), NEW q \in Reqs,
                      queue'[i] = Ask(q), queue'[j] = Ask(q)
               PROVE  i = j
    BY DEF AsksOnce
  <1>1. i + 1 \in 1..Len(queue) /\ j + 1 \in 1..Len(queue) /\ queue[i + 1] = Ask(q) /\ queue[j + 1] = Ask(q)
    BY DEF MovesUp, LaneTypes
  <1>2. i + 1 = j + 1
    BY <1>1 DEF AsksOnce
  <1> QED
    BY <1>2

(* So does a request that joins, if it was not queued.                     *)
LEMMA AsksOnceJoin ==
    ASSUME LaneTypes, AsksOnce, NEW j \in Jobs, Joins(j), \A q \in Reqs : Ask(q) = j => ~Asked(q)
    PROVE  AsksOnce'
  <1>1. ASSUME NEW i \in 1..Len(queue'), NEW q \in Reqs, queue'[i] = Ask(q)
        PROVE  \/ i \in 1..Len(queue) /\ queue[i] = Ask(q) /\ Ask(q) # j
               \/ i = Len(queue) + 1 /\ Ask(q) = j
    BY <1>1 DEF Joins, LaneTypes, Asked
  <1> QED
    BY <1>1 DEF AsksOnce

(* Every step keeps a request from being anywhere twice.                   *)
LEMMA OnceKept ==
    ASSUME LaneInv, Step
    PROVE  Once'
  <1>0. LaneTypes /\ AsksOnce /\ SentOnce /\ RanOnce /\ LinedOnce
    BY DEF LaneInv, Once
  <1>q. (UNCHANGED queue => AsksOnce') /\ (UNCHANGED ran => RanOnce') /\ (UNCHANGED line => LinedOnce')
        /\ (UNCHANGED conns => SentOnce')
    BY <1>0 DEF AsksOnce, RanOnce, LinedOnce, SentOnce
  <1>1. CASE Still \/ Skipped
    BY <1>0, <1>q, <1>1, SentOnceCalm DEF Still, Skipped, Aside, Once
  <1>2. CASE Onward
    BY <1>0, <1>q, <1>2, SentOnceCalm DEF Onward, Same, Once
  <1>3. ASSUME NEW what, Failed(what) PROVE Once'
    BY <1>0, <1>q, <1>3, SentOnceCalm DEF Failed, Same, Once
  <1>4. CASE Wrote
    BY <1>0, <1>q, <1>4, SentOnceWrote DEF Wrote, Same, Once
  <1>5. CASE Answered
    BY <1>0, <1>q, <1>5, SentOnceCalm DEF Answered, Same, Once
  <1>6. CASE Finished
    <2>1. SentOnce'
      <3>1. conns \in Seq(Conn) /\ Len(daemons) \in Nat /\ conns' = Append(conns, Dialled(Len(daemons)))
        BY <1>0, <1>6 DEF LaneTypes, Finished
      <3> QED
        BY <1>0, <3>1, DialCalm, SentOnceCalm
    <2>2. AsksOnce'
      <3>1. Len(conns) + 1 \in Nat /\ version' \in Versions
        BY <1>0, <1>6 DEF LaneTypes, Finished
      <3>2. PICK j \in Jobs : j = Swap(Len(conns) + 1, version') /\ \A q \in Reqs : j # Ask(q)
        BY <3>1, JobKinds
      <3> QED
        BY <1>0, <1>6, <3>2, AsksOnceJoin DEF Finished
    <2> QED
      BY <1>q, <1>6, <2>1, <2>2 DEF Finished, Once
  <1>7. ASSUME NEW r \in Reqs, Turned(r) PROVE Once'
    BY <1>q, <1>7 DEF Turned, Once
  <1>8. ASSUME NEW r \in Reqs, Enqueued(r) PROVE Once'
    <2>1. ~Asked(r) /\ ~Lined(r)
      BY <1>8 DEF Enqueued, LaneInv, Places, InPlace
    <2>2. AsksOnce'
      <3>1. Ask(r) \in Jobs /\ \A q \in Reqs : Ask(q) = Ask(r) => q = r
        BY JobKinds
      <3> QED
        BY <1>0, <1>8, <2>1, <3>1, AsksOnceJoin DEF Enqueued
    <2>3. LinedOnce'
      <3>1. ASSUME NEW i \in 1..Len(line')
            PROVE  \/ i \in 1..Len(line) /\ line'[i] = line[i] /\ line[i] # r
                   \/ i = Len(line) + 1 /\ line'[i] = r
        BY <1>0, <1>8, <2>1 DEF Enqueued, Lined, LaneTypes
      <3> QED
        BY <1>0, <3>1 DEF LinedOnce
    <2> QED
      BY <1>q, <1>8, <2>2, <2>3 DEF Enqueued, Once
  <1>9. ASSUME NEW r \in Reqs, Took(r) PROVE Once'
    BY <1>0, <1>q, <1>9, AsksOnceUp DEF Took, Once
  <1>10. ASSUME NEW c \in Nat, NEW v \in Versions, Swapped(c, v) PROVE Once'
    BY <1>0, <1>q, <1>10, AsksOnceUp, SentOnceCalm DEF Swapped, Once
  <1>11. ASSUME NEW c \in 1..Len(conns), Push(c) PROVE Once'
    BY <1>0, <1>q, <1>11, PushAside, SentOnceCalm DEF Aside, Once
  <1>12. ASSUME NEW c \in 1..Len(conns), NEW r \in Reqs, Served(c, r) PROVE Once'
    <2>1. SentOnce'
      BY <1>0, <1>12, SentOnceServed
    <2>2. ~Done(r)
      <3>1. Sent(r)
        BY <1>0, <1>12, SentOne DEF Once
      <3> QED
        BY <3>1 DEF LaneInv, Places, InPlace
    <2>3. RanOnce'
      <3>0. /\ Len(ran) \in Nat /\ Len(ran') = Len(ran) + 1 /\ \A i \in 1..Len(ran) : ran'[i] = ran[i]
            /\ ran'[Len(ran) + 1][1] = r
        BY <1>0, <1>12 DEF Served, LaneTypes
      <3>1. ASSUME NEW i \in 1..Len(ran')
            PROVE  \/ i \in 1..Len(ran) /\ ran'[i] = ran[i] /\ ran[i][1] # r
                   \/ i = Len(ran) + 1 /\ ran'[i][1] = r
        BY <2>2, <3>0 DEF Done
      <3> QED
        BY <1>0, <3>1 DEF RanOnce
    <2> QED
      BY <1>q, <1>12, <2>1, <2>3 DEF Served, Once
  <1> QED
    BY <1>1, <1>2, <1>3, <1>4, <1>5, <1>6, <1>7, <1>8, <1>9, <1>10, <1>11, <1>12 DEF Step

(* What a connection carries is what it carried, or less of it.            *)
LEMMA CarriesLess ==
    ASSUME LaneTypes, NEW c \in 1..Len(conns), NEW q,
           conns'[c].inbox = conns[c].inbox \/ conns'[c].inbox = <<>>, conns'[c].lines = conns[c].lines
    PROVE  (Single(c) => Single(c)') /\ (Quiet(c) => Quiet(c)') /\ (Mine(c, q) => Mine(c, q)')
  <1>1. Single(c) => Single(c)'
    BY DEF Single, Answer
  <1>2. Quiet(c) => Quiet(c)'
    BY DEF Quiet, Answer
  <1>3. Mine(c, q) => Mine(c, q)'
    BY DEF Mine, Answer
  <1> QED
    BY <1>1, <1>2, <1>3

(* The next line is the first, and the others move up.                     *)
LEMMA ReadOffLines ==
    ASSUME LaneTypes, ReadOff
    PROVE  /\ conn \in 1..Len(conns) /\ conn # None
           /\ Len(conns[conn].lines) \in Nat \ {0} /\ Line1 = conns[conn].lines[1]
           /\ Len(conns'[conn].lines) = Len(conns[conn].lines) - 1
           /\ \A i \in 1..Len(conns'[conn].lines) : conns'[conn].lines[i] = conns[conn].lines[i + 1]
  <1>1. conns[conn] \in Conn /\ conn \in 1..Len(conns) /\ conn # None
    BY LaneAssumption DEF LaneTypes, ReadOff
  <1>2. conns[conn].lines \in Seq(Lines) /\ conns[conn].lines # <<>>
    BY <1>1 DEF Conn, ReadOff
  <1> QED
    BY <1>1, <1>2, TailPlaces DEF ReadOff, Line1

(* Reading a line keeps a connection to its one request; reading an answer *)
(* leaves it quiet.                                                        *)
LEMMA CarriesRead ==
    ASSUME LaneTypes, ReadOff, NEW c, c = conn, NEW q
    PROVE  /\ (Single(c) => Single(c)') /\ (Quiet(c) => Quiet(c)') /\ (Mine(c, q) => Mine(c, q)')
           /\ (Single(c) /\ Line1.kind # "push" => Quiet(c)')
  <1>0. /\ Len(conns[c].lines) \in Nat \ {0} /\ Line1 = conns[c].lines[1]
        /\ Len(conns'[c].lines) = Len(conns[c].lines) - 1
        /\ \A i \in 1..Len(conns'[c].lines) : conns'[c].lines[i] = conns[c].lines[i + 1]
        /\ conns'[c].inbox = conns[c].inbox
    BY ReadOffLines DEF ReadOff
  <1>1. ASSUME NEW i \in 1..Len(conns'[c].lines)
        PROVE  i + 1 \in 1..Len(conns[c].lines) /\ (Answer(c, i)' <=> Answer(c, i + 1)) /\ i \in Nat
    <2>1. i + 1 \in 1..Len(conns[c].lines) /\ i \in Nat
      BY <1>0
    <2>2. conns'[c].lines[i] = conns[c].lines[i + 1]
      BY <1>0
    <2> QED
      BY <2>1, <2>2 DEF Answer
  <1>2. ASSUME Single(c) PROVE Single(c)'
    <2>1. ASSUME NEW i \in 1..Len(conns'[c].lines), NEW j \in 1..Len(conns'[c].lines), Answer(c, i)'
          PROVE  conns'[c].inbox = <<>> /\ (Answer(c, j)' => i = j)
      <3>1. i + 1 \in 1..Len(conns[c].lines) /\ j + 1 \in 1..Len(conns[c].lines) /\ Answer(c, i + 1)
        BY <1>1, <2>1
      <3>2. conns[c].inbox = <<>> /\ (Answer(c, j + 1) => i + 1 = j + 1)
        BY <1>2, <3>1 DEF Single
      <3> QED
        BY <1>0, <1>1, <3>2
    <2> QED
      BY <1>0, <1>2, <2>1 DEF Single
  <1>3. ASSUME Quiet(c) PROVE Quiet(c)'
    BY <1>0, <1>1, <1>3 DEF Quiet
  <1>4. ASSUME Mine(c, q) PROVE Mine(c, q)'
    BY <1>0, <1>1, <1>4 DEF Mine
  <1>5. ASSUME Single(c), Line1.kind # "push" PROVE Quiet(c)'
    <2>1. 1 \in 1..Len(conns[c].lines) /\ Answer(c, 1)
      BY <1>0, <1>5 DEF Answer
    <2>2. conns[c].inbox = <<>> /\ \A j \in 1..Len(conns[c].lines) : Answer(c, j) => j = 1
      BY <1>5, <2>1 DEF Single
    <2>3. ASSUME NEW i \in 1..Len(conns'[c].lines) PROVE ~Answer(c, i)'
      <3>1. i + 1 # 1
        BY <1>0, <2>3
      <3> QED
        BY <1>1, <2>2, <3>1
    <2> QED
      BY <1>0, <2>2, <2>3 DEF Quiet
  <1> QED
    BY <1>2, <1>3, <1>4, <1>5

(* A push is not an answer.                                                *)
LEMMA CarriesPush ==
    ASSUME LaneTypes, NEW c \in 1..Len(conns), Push(c), NEW q
    PROVE  (Single(c) => Single(c)') /\ (Quiet(c) => Quiet(c)') /\ (Mine(c, q) => Mine(c, q)')
  <1>1. conns \in Seq(Conn) /\ conns[c] \in Conn
    BY DEF LaneTypes
  <1>2. /\ conns'[c].inbox = conns[c].inbox
        /\ conns'[c].lines = Append(conns[c].lines, [kind |-> "push", r |-> None])
    BY <1>1, PushCalm
  <1>3. conns[c].lines \in Seq(Lines) /\ [kind |-> "push", r |-> None] \in Lines
    BY <1>1 DEF Conn, Lines
  <1>4. /\ Len(conns'[c].lines) = Len(conns[c].lines) + 1 /\ Len(conns[c].lines) \in Nat
        /\ \A i \in 1..Len(conns[c].lines) : conns'[c].lines[i] = conns[c].lines[i]
        /\ conns'[c].lines[Len(conns[c].lines) + 1].kind = "push"
    BY <1>2, <1>3, AppendPlaces
  <1>5. ASSUME NEW i \in 1..Len(conns'[c].lines), Answer(c, i)'
        PROVE  i \in 1..Len(conns[c].lines) /\ Answer(c, i) /\ conns'[c].lines[i] = conns[c].lines[i]
    <2>1. i # Len(conns[c].lines) + 1
      BY <1>4, <1>5 DEF Answer
    <2>2. i \in 1..Len(conns[c].lines)
      BY <1>4, <1>5, <2>1
    <2> QED
      BY <1>4, <1>5, <2>2 DEF Answer
  <1>6. Single(c) => Single(c)'
    BY <1>2, <1>5 DEF Single
  <1>7. Quiet(c) => Quiet(c)'
    BY <1>2, <1>5 DEF Quiet
  <1>8. Mine(c, q) => Mine(c, q)'
    BY <1>2, <1>5 DEF Mine
  <1> QED
    BY <1>6, <1>7, <1>8

(* The last but none is the last.                                          *)
LEMMA OneLeft == ASSUME NEW n \in Nat \ {0}, n <= 1 PROVE n - 1 = 0
  OBVIOUS

(* Serving the one request under way leaves its answer, if anything.       *)
LEMMA CarriesServed ==
    ASSUME LaneTypes, NEW c \in 1..Len(conns), NEW r \in Reqs, Served(c, r), NEW q
    PROVE  ~Quiet(c) /\ (Single(c) => Single(c)') /\ (Mine(c, q) => Mine(c, q)')
  <1>1. conns \in Seq(Conn) /\ conns[c] \in Conn /\ conns' \in Seq(Conn) /\ Len(conns') = Len(conns)
    BY DEF LaneTypes, Served
  <1>b. conns'[c] \in Conn
    BY <1>1
  <1>2. /\ Len(conns[c].inbox) \in Nat \ {0} /\ conns[c].inbox[1] = r
        /\ Len(conns'[c].inbox) = Len(conns[c].inbox) - 1
        /\ \A i \in 1..Len(conns'[c].inbox) : conns'[c].inbox[i] = conns[c].inbox[i + 1]
    BY ServedInbox
  <1>3. conns[c].lines \in Seq(Lines) /\ conns'[c].inbox \in Seq(Reqs) /\ conns[c].inbox # <<>>
    BY <1>1, <1>b DEF Conn, Served
  <1>4. ASSUME NEW i \in 1..Len(conns'[c].lines), Answer(c, i)'
        PROVE  \/ i \in 1..Len(conns[c].lines) /\ Answer(c, i) /\ conns'[c].lines[i] = conns[c].lines[i]
               \/ i = Len(conns[c].lines) + 1 /\ conns'[c].lines[i].r = r
    <2>1. CASE conns'[c].lines = conns[c].lines
      BY <1>4, <2>1 DEF Answer
    <2>2. CASE \E k \in {"reply", "long"} : conns'[c].lines = Append(conns[c].lines, [kind |-> k, r |-> r])
      <3>1. PICK k \in {"reply", "long"} : conns'[c].lines = Append(conns[c].lines, [kind |-> k, r |-> r])
        BY <2>2
      <3>2. [kind |-> k, r |-> r] \in Lines
        BY DEF Lines
      <3>3. /\ Len(conns'[c].lines) = Len(conns[c].lines) + 1 /\ Len(conns[c].lines) \in Nat
            /\ \A n \in 1..Len(conns[c].lines) : conns'[c].lines[n] = conns[c].lines[n]
            /\ conns'[c].lines[Len(conns[c].lines) + 1].r = r
        BY <1>3, <3>1, <3>2, AppendPlaces
      <3>4. CASE i = Len(conns[c].lines) + 1
        BY <3>3, <3>4
      <3>5. CASE i # Len(conns[c].lines) + 1
        <4>1. i \in 1..Len(conns[c].lines)
          BY <1>4, <3>3, <3>5
        <4> QED
          BY <1>4, <3>3, <4>1 DEF Answer
      <3> QED
        BY <3>4, <3>5
    <2> QED
      BY <2>1, <2>2 DEF Served
  <1>5. ~Quiet(c)
    BY <1>3 DEF Quiet
  <1>6. ASSUME Single(c) PROVE Single(c)'
    <2>1. /\ Len(conns[c].inbox) <= 1 /\ \A i \in 1..Len(conns[c].lines) : ~Answer(c, i)
      BY <1>3, <1>6 DEF Single
    <2>a. Len(conns[c].inbox) \in Nat \ {0} /\ Len(conns[c].inbox) <= 1
      BY <1>2, <2>1
    <2>b. Len(conns[c].inbox) - 1 = 0
      BY <2>a, OneLeft
    <2>2. Len(conns'[c].inbox) = 0
      BY <1>2, <2>b
    <2>3. conns'[c].inbox = <<>>
      BY <1>3, <2>2
    <2> QED
      BY <1>4, <2>1, <2>2, <2>3 DEF Single
  <1>7. ASSUME Mine(c, q) PROVE Mine(c, q)'
    <2>1. 1 \in 1..Len(conns[c].inbox)
      BY <1>2
    <2>2. r = q
      BY <1>2, <1>7, <2>1 DEF Mine
    <2>3. \A i \in 1..Len(conns'[c].inbox) : conns'[c].inbox[i] = q
      <3> SUFFICES ASSUME NEW i \in 1..Len(conns'[c].inbox) PROVE conns'[c].inbox[i] = q
        OBVIOUS
      <3>1. i + 1 \in 1..Len(conns[c].inbox) /\ conns'[c].inbox[i] = conns[c].inbox[i + 1]
        BY <1>2
      <3> QED
        BY <1>7, <3>1 DEF Mine
    <2>4. \A i \in 1..Len(conns'[c].lines) : Answer(c, i)' => conns'[c].lines[i].r = q
      BY <1>4, <1>7, <2>2 DEF Mine
    <2> QED
      BY <2>3, <2>4 DEF Mine
  <1> QED
    BY <1>5, <1>6, <1>7

(* Writing on a quiet connection puts the one request under way.           *)
LEMMA CarriesWrote ==
    ASSUME LaneTypes, Wrote, NEW c, c = conn, NEW q, q = worker.r, Quiet(c)
    PROVE  Single(c)' /\ Mine(c, q)'
  <1>0. conns \in Seq(Conn) /\ conn \in 1..Len(conns) /\ worker.r \in Reqs /\ Written /\ conns[c].inbox = <<>>
    BY DEF LaneTypes, Wrote, InHand, Quiet
  <1>1. conns'[c].inbox = Append(conns[c].inbox, q) /\ conns'[c].lines = conns[c].lines
    BY <1>0, WriteEffect DEF LinesSame
  <1>2. Len(conns'[c].inbox) = 1 /\ conns'[c].inbox[1] = q
    BY <1>0, <1>1
  <1>3. \A i \in 1..Len(conns'[c].lines) : ~Answer(c, i)'
    BY <1>1 DEF Quiet, Answer
  <1> QED
    BY <1>2, <1>3 DEF Single, Mine

(* A new connection is quiet.                                              *)
LEMMA CarriesNothing ==
    ASSUME NEW c, conns'[c].inbox = <<>>, conns'[c].lines = <<>>
    PROVE  Quiet(c)' /\ Single(c)'
  BY DEF Quiet, Single, Answer

(* A quiet connection has no two requests under way.                       *)
LEMMA QuietSingle == ASSUME NEW c, Quiet(c) PROVE Single(c)
  BY DEF Quiet, Single

(* What the worker expects after a step, said of fixed values.             *)
LEMMA ExpectsThen ==
    ASSUME NEW c, NEW q, c = conn', q = worker'.r, Single(c)',
           worker'.at # "read" /\ owed' = 0 => Quiet(c)', worker'.at = "read" => Mine(c, q)'
    PROVE  Expects(conn, worker.at, worker.r, owed)'
  BY DEF Expects, Single, Quiet, Mine, Answer

(* Every step keeps the worker in step with its connection.                *)
LEMMA InStepKept ==
    ASSUME LaneInv, Step
    PROVE  InStep'
  <1>0. /\ LaneTypes /\ InStep /\ conns \in Seq(Conn) /\ Len(conns) \in Nat
        /\ (conn # None => conn \in 1..Len(conns))
        /\ (worker.at = "take" <=> worker.r = None)
    BY DEF LaneInv, LaneTypes
  <1>c. PICK d, q : d = conn /\ q = worker.r
    OBVIOUS
  <1>d. conn # None =>
           /\ d \in 1..Len(conns) /\ Single(d)
           /\ (worker.at # "read" /\ owed = 0 => Quiet(d)) /\ (worker.at = "read" => Mine(d, q))
    BY <1>0, <1>c DEF InStep, Expects
  <1>t. (worker.at = "dial" => conn = None) /\ (worker.at \in {"write", "read"} => conn # None /\ owed = 0)
    BY <1>0 DEF InStep
  <1>s. ASSUME UNCHANGED <<worker, conn, owed>>,
               conn # None => /\ conns'[d].inbox = conns[d].inbox \/ conns'[d].inbox = <<>>
                              /\ conns'[d].lines = conns[d].lines
        PROVE  InStep'
    <2>1. ASSUME conn # None PROVE Expects(conn, worker.at, worker.r, owed)'
      <3>1. (Single(d) => Single(d)') /\ (Quiet(d) => Quiet(d)') /\ (Mine(d, q) => Mine(d, q)')
        BY <1>0, <1>d, <1>s, <2>1, CarriesLess
      <3> QED
        BY <1>c, <1>d, <1>s, <2>1, <3>1, ExpectsThen
    <2> QED
      BY <1>s, <1>t, <2>1 DEF InStep
  <1>1. CASE Still
    BY <1>1, <1>s, <1>d DEF Still, Aside, Calm, LinesSame
  <1>2. CASE Skipped
    <2>0. ReadOff /\ conn # None /\ worker' = worker /\ conn' = conn
      BY <1>0, <1>2, ReadOffLines DEF Skipped, Aside
    <2>1. /\ (Single(d) => Single(d)') /\ (Quiet(d) => Quiet(d)') /\ (Mine(d, q) => Mine(d, q)')
          /\ (Single(d) /\ Line1.kind # "push" => Quiet(d)')
      BY <1>0, <1>c, <2>0, CarriesRead
    <2>2. (worker.at # "read" /\ owed' = 0 => Quiet(d)') /\ (worker.at = "read" => Mine(d, q)') /\ Single(d)'
      BY <1>2, <1>d, <2>0, <2>1 DEF Skipped
    <2>3. Expects(conn, worker.at, worker.r, owed)'
      BY <1>c, <2>0, <2>2, ExpectsThen
    <2>4. worker'.at \in {"write", "read"} => owed' = 0
      BY <1>2, <1>t, <2>0 DEF Skipped
    <2> QED
      BY <1>t, <2>0, <2>3, <2>4 DEF InStep
  <1>3. CASE Onward
    <2>0. /\ worker'.at \in {"dial", "write"} /\ (worker'.at = "dial" <=> conn' = None) /\ owed' = 0
          /\ worker.at # "read"
      BY <1>3 DEF Onward
    <2>1. ASSUME conn' # None PROVE Expects(conn, worker.at, worker.r, owed)'
      <3>1. PICK e, p : e = conn' /\ p = worker'.r
        OBVIOUS
      <3>2. CASE conn' = conn /\ UNCHANGED conns /\ (owed = 0 \/ conn = None)
        <4>1. Quiet(e) /\ e \in 1..Len(conns)
          BY <1>c, <1>d, <2>0, <2>1, <3>1, <3>2
        <4>2. Quiet(e)' /\ Single(e)'
          BY <1>0, <3>2, <4>1, CarriesLess, QuietSingle
        <4> QED
          BY <2>0, <3>1, <4>2, ExpectsThen
      <3>3. CASE conns' = Append(conns, Dialled(Len(daemons))) /\ conn' = Len(conns) + 1
        <4>0. Len(daemons) \in Nat
          BY <1>0 DEF LaneTypes
        <4>1. conns'[e] = Dialled(Len(daemons))
          BY <1>0, <3>1, <3>3, <4>0, DialCalm
        <4>2. Quiet(e)' /\ Single(e)'
          BY <4>1, CarriesNothing DEF Dialled
        <4> QED
          BY <2>0, <3>1, <4>2, ExpectsThen
      <3> QED
        BY <1>3, <2>1, <3>2, <3>3 DEF Onward
    <2> QED
      BY <2>0, <2>1 DEF InStep
  <1>4. ASSUME NEW what, Failed(what) PROVE InStep'
    <2>0. worker'.at = "take" /\ worker'.r = None
      BY <1>4 DEF Failed, ToldOne
    <2>1. ASSUME conn' # None PROVE Expects(conn, worker.at, worker.r, owed)'
      <3>1. conn' = conn
        BY <1>4, <2>1 DEF Failed
      <3>2. CASE UNCHANGED conns /\ owed' = 1
        <4>1. Single(d)'
          BY <1>0, <1>d, <2>1, <3>1, <3>2, CarriesLess
        <4>2. PICK p : p = worker'.r
          OBVIOUS
        <4> QED
          BY <1>c, <2>0, <3>1, <3>2, <4>1, <4>2, ExpectsThen
      <3>3. CASE ReadOff /\ Line1.kind # "push"
        <4>1. Single(d)' /\ Quiet(d)'
          BY <1>0, <1>c, <1>d, <2>1, <3>1, <3>3, CarriesRead
        <4>2. PICK p : p = worker'.r
          OBVIOUS
        <4> QED
          BY <1>c, <2>0, <3>1, <4>1, <4>2, ExpectsThen
      <3> QED
        BY <1>4, <2>1, <3>2, <3>3 DEF Failed
    <2> QED
      BY <2>0, <2>1 DEF InStep
  <1>5. CASE Wrote
    <2>1. /\ worker'.at = "read" /\ worker'.r = worker.r /\ conn' = conn /\ owed' = owed /\ worker.at = "write"
      BY <1>5 DEF Wrote
    <2>2. Quiet(d)
      BY <1>d, <1>t, <2>1
    <2>3. Single(d)' /\ Mine(d, q)'
      BY <1>0, <1>c, <1>5, <2>2, CarriesWrote
    <2>4. Expects(conn, worker.at, worker.r, owed)'
      BY <1>c, <2>1, <2>3, ExpectsThen
    <2> QED
      BY <1>t, <2>1, <2>4 DEF InStep
  <1>6. CASE Answered
    <2>0. /\ worker'.at = "take" /\ worker'.r = None /\ conn' = conn /\ owed' = owed /\ ReadOff /\ Line1.kind # "push"
      BY <1>6 DEF Answered, ToldOne
    <2>1. conn # None
      BY <1>0, <2>0, ReadOffLines
    <2>2. Single(d)' /\ Quiet(d)'
      BY <1>0, <1>c, <1>d, <2>0, <2>1, CarriesRead
    <2>3. PICK p : p = worker'.r
      OBVIOUS
    <2>4. Expects(conn, worker.at, worker.r, owed)'
      BY <1>c, <2>0, <2>2, <2>3, ExpectsThen
    <2> QED
      BY <2>0, <2>4 DEF InStep
  <1>7. CASE Finished
    <2>1. UNCHANGED <<worker, conn, owed>> /\ conns' = Append(conns, Dialled(Len(daemons))) /\ Len(daemons) \in Nat
      BY <1>0, <1>7 DEF Finished, LaneTypes
    <2>2. \A e \in 1..Len(conns) : conns'[e] = conns[e]
      BY <1>0, <2>1, DialCalm
    <2> QED
      BY <1>d, <1>s, <2>1, <2>2
  <1>8. ASSUME NEW r \in Reqs, Turned(r) \/ Enqueued(r) PROVE InStep'
    BY <1>8, <1>s DEF Turned, Enqueued
  <1>9. ASSUME NEW r \in Reqs, Took(r) PROVE InStep'
    <2>0. worker'.at \in {"take", "settle"} /\ worker.at = "take" /\ UNCHANGED <<conn, owed, conns>>
      BY <1>9 DEF Took, ToldOne
    <2>1. ASSUME conn # None PROVE Expects(conn, worker.at, worker.r, owed)'
      <3>1. PICK p : p = worker'.r
        OBVIOUS
      <3>2. (Single(d) => Single(d)') /\ (Quiet(d) => Quiet(d)')
        BY <1>0, <1>d, <2>0, <2>1, CarriesLess
      <3> QED
        BY <1>c, <1>d, <2>0, <2>1, <3>1, <3>2, ExpectsThen
    <2> QED
      BY <2>0, <2>1 DEF InStep
  <1>10. ASSUME NEW e \in Nat, NEW v \in Versions, Swapped(e, v) PROVE InStep'
    <2>0. worker' = worker /\ worker.at = "take" /\ conn' = e /\ owed' = 0 /\ Calm /\ LinesSame
      BY <1>10 DEF Swapped
    <2>1. 1 \in 1..Len(queue) /\ queue[1] = Swap(e, v)
      BY <1>0, <1>10 DEF Swapped, MovesUp, LaneTypes
    <2>2. e \in 1..Len(conns) /\ Quiet(e)
      BY <2>1 DEF LaneInv, SwapsFresh, Fresh
    <2>3. Quiet(e)' /\ Single(e)'
      BY <1>0, <2>0, <2>2, CarriesLess, QuietSingle DEF Calm, LinesSame
    <2>4. PICK p : p = worker'.r
      OBVIOUS
    <2>5. Expects(conn, worker.at, worker.r, owed)'
      BY <2>0, <2>3, <2>4, ExpectsThen
    <2> QED
      BY <2>0, <2>5 DEF InStep
  <1>11. ASSUME NEW e \in 1..Len(conns), Push(e) PROVE InStep'
    <2>0. UNCHANGED <<worker, conn, owed>> /\ \A f \in 1..Len(conns) : f # e => conns'[f] = conns[f]
      BY <1>0, <1>11, PushAside, PushCalm DEF Aside
    <2>1. CASE e # d \/ conn = None
      BY <1>d, <1>s, <2>0, <2>1
    <2>2. CASE e = d /\ conn # None
      <3>1. (Single(d) => Single(d)') /\ (Quiet(d) => Quiet(d)') /\ (Mine(d, q) => Mine(d, q)')
        BY <1>0, <1>11, <2>2, CarriesPush
      <3>2. Expects(conn, worker.at, worker.r, owed)'
        BY <1>c, <1>d, <2>0, <2>2, <3>1, ExpectsThen
      <3> QED
        BY <1>t, <2>0, <3>2 DEF InStep
    <2> QED
      BY <2>1, <2>2
  <1>12. ASSUME NEW e \in 1..Len(conns), NEW r \in Reqs, Served(e, r) PROVE InStep'
    <2>0. UNCHANGED <<worker, conn, owed>> /\ \A f \in 1..Len(conns) : f # e => conns'[f] = conns[f]
      BY <1>12 DEF Served
    <2>1. CASE e # d \/ conn = None
      BY <1>d, <1>s, <2>0, <2>1
    <2>2. CASE e = d /\ conn # None
      <3>1. ~Quiet(d) /\ (Single(d) => Single(d)') /\ (Mine(d, q) => Mine(d, q)')
        BY <1>0, <1>12, <2>2, CarriesServed
      <3>2. Expects(conn, worker.at, worker.r, owed)'
        BY <1>c, <1>d, <2>0, <2>2, <3>1, ExpectsThen
      <3> QED
        BY <1>t, <2>0, <3>2 DEF InStep
    <2> QED
      BY <2>1, <2>2
  <1> QED
    BY <1>1, <1>2, <1>3, <1>4, <1>5, <1>6, <1>7, <1>8, <1>9, <1>10, <1>11, <1>12 DEF Step

(* A connection on its way to the worker stays untouched until it is       *)
(* there.                                                                  *)
LEMMA FreshKept ==
    ASSUME LaneInv, Step, NEW d \in Nat, Fresh(d), ~\E v \in Versions : Swapped(d, v)
    PROVE  Fresh(d)'
  <1>0. /\ LaneTypes /\ conns \in Seq(Conn) /\ Len(conns) \in Nat /\ Len(daemons) \in Nat
        /\ d \in 1..Len(conns) /\ d # conn /\ Quiet(d) /\ d # None
    BY LaneAssumption DEF LaneInv, LaneTypes, Fresh
  <1>s. ASSUME d \in 1..Len(conns'), d # conn',
               conns'[d].inbox = conns[d].inbox \/ conns'[d].inbox = <<>>, conns'[d].lines = conns[d].lines
        PROVE  Fresh(d)'
    <2>1. Quiet(d)'
      BY <1>0, <1>s, CarriesLess
    <2> QED
      BY <1>s, <2>1 DEF Fresh
  <1>1. CASE Still
    BY <1>0, <1>1, <1>s DEF Still, Aside, Calm, LinesSame
  <1>2. CASE Skipped
    BY <1>0, <1>2, <1>s DEF Skipped, Aside, ReadOff
  <1>3. CASE Onward
    <2>1. d \in 1..Len(conns') /\ d # conn'
      BY <1>0, <1>3, DialCalm DEF Onward
    <2> QED
      BY <1>0, <1>3, <1>s, <2>1 DEF Onward, Calm, LinesSame
  <1>4. ASSUME NEW what, Failed(what) PROVE Fresh(d)'
    <2>1. d \in 1..Len(conns') /\ d # conn'
      BY <1>0, <1>4 DEF Failed
    <2>2. conns'[d].lines = conns[d].lines
      BY <1>0, <1>4 DEF Failed, LinesSame, ReadOff
    <2> QED
      BY <1>0, <1>4, <1>s, <2>1, <2>2 DEF Failed, Calm
  <1>5. CASE Wrote
    <2>1. Len(conns') = Len(conns) /\ conns'[d] = conns[d] /\ conn' = conn
      BY <1>0, <1>5, WriteEffect DEF Wrote, InHand
    <2> QED
      BY <1>0, <1>s, <2>1
  <1>6. CASE Answered
    BY <1>0, <1>6, <1>s DEF Answered, ReadOff
  <1>7. CASE Finished
    <2>1. Len(conns') = Len(conns) + 1 /\ conns'[d] = conns[d] /\ conn' = conn
      BY <1>0, <1>7, DialCalm DEF Finished
    <2> QED
      BY <1>0, <1>s, <2>1
  <1>8. ASSUME NEW r \in Reqs, Turned(r) \/ Enqueued(r) \/ Took(r) PROVE Fresh(d)'
    BY <1>0, <1>8, <1>s DEF Turned, Enqueued, Took
  <1>9. ASSUME NEW e \in Nat, NEW v \in Versions, Swapped(e, v) PROVE Fresh(d)'
    <2>1. d # conn'
      BY <1>9 DEF Swapped
    <2> QED
      BY <1>0, <1>9, <1>s, <2>1 DEF Swapped, Calm, LinesSame
  <1>10. ASSUME NEW e \in 1..Len(conns), Push(e) PROVE Fresh(d)'
    <2>0. conn' = conn /\ Len(conns') = Len(conns) /\ \A f \in 1..Len(conns) : f # e => conns'[f] = conns[f]
      BY <1>0, <1>10, PushAside, PushCalm DEF Aside
    <2>1. CASE e # d
      BY <1>0, <1>s, <2>0, <2>1
    <2>2. CASE e = d
      <3>1. Quiet(d)'
        BY <1>0, <1>10, <2>2, CarriesPush
      <3> QED
        BY <1>0, <2>0, <3>1 DEF Fresh
    <2> QED
      BY <2>1, <2>2
  <1>11. ASSUME NEW e \in 1..Len(conns), NEW r \in Reqs, Served(e, r) PROVE Fresh(d)'
    <2>0. conn' = conn /\ Len(conns') = Len(conns) /\ \A f \in 1..Len(conns) : f # e => conns'[f] = conns[f]
      BY <1>11 DEF Served
    <2>1. e # d
      BY <1>0, <1>11, CarriesServed
    <2> QED
      BY <1>0, <1>s, <2>0, <2>1
  <1> QED
    BY <1>1, <1>2, <1>3, <1>4, <1>5, <1>6, <1>7, <1>8, <1>9, <1>10, <1>11 DEF Step

(* What a step does to the queue.                                          *)
LEMMA QueueSteps ==
    ASSUME Step
    PROVE  \/ UNCHANGED queue
           \/ MovesUp
           \/ \E r \in Reqs : Enqueued(r)
           \/ Finished
  BY DEF Step, Still, Skipped, Aside, Onward, Failed, Same, Wrote, Answered, Turned, Took, Swapped, Served,
         Push, callers

(* Every step keeps the connections of the queued swaps untouched.         *)
LEMMA SwapsFreshKept ==
    ASSUME LaneInv, Step
    PROVE  SwapsFresh'
  <1>0. LaneTypes /\ SwapsFresh /\ queue \in Seq(Jobs) /\ Len(queue) \in Nat
    BY DEF LaneInv, LaneTypes
  <1>1. SUFFICES ASSUME NEW i \in 1..Len(queue'), NEW d \in Nat, NEW v \in Versions, queue'[i] = Swap(d, v)
                 PROVE  Fresh(d)' /\ \A j \in 1..Len(queue'), w \in Versions : queue'[j] = Swap(d, w) => i = j
    BY DEF SwapsFresh
  <1>2. CASE UNCHANGED queue
    <2>1. Fresh(d) /\ \A j \in 1..Len(queue), w \in Versions : queue[j] = Swap(d, w) => i = j
      BY <1>0, <1>1, <1>2 DEF SwapsFresh
    <2>2. ~\E w \in Versions : Swapped(d, w)
      BY <1>0, <1>2 DEF Swapped, MovesUp
    <2> QED
      BY <1>2, <2>1, <2>2, FreshKept
  <1>3. CASE MovesUp
    <2>0. i + 1 \in 1..Len(queue) /\ queue[i + 1] = Swap(d, v) /\ 1 \in 1..Len(queue) /\ i + 1 # 1
      BY <1>0, <1>1, <1>3 DEF MovesUp
    <2>1. Fresh(d) /\ \A j \in 1..Len(queue), w \in Versions : queue[j] = Swap(d, w) => i + 1 = j
      BY <1>0, <2>0 DEF SwapsFresh
    <2>2. ~\E w \in Versions : Swapped(d, w)
      BY <2>0, <2>1 DEF Swapped
    <2>3. Fresh(d)'
      BY <2>1, <2>2, FreshKept
    <2>4. ASSUME NEW j \in 1..Len(queue'), NEW w \in Versions, queue'[j] = Swap(d, w) PROVE i = j
      <3>1. j + 1 \in 1..Len(queue) /\ queue[j + 1] = Swap(d, w)
        BY <1>0, <1>3, <2>4 DEF MovesUp
      <3>2. i + 1 = j + 1
        BY <2>1, <3>1
      <3> QED
        BY <1>0, <1>3, <3>2 DEF MovesUp
    <2> QED
      BY <2>3, <2>4
  <1>4. ASSUME NEW r \in Reqs, Enqueued(r)
        PROVE  Fresh(d)' /\ \A j \in 1..Len(queue'), w \in Versions : queue'[j] = Swap(d, w) => i = j
    <2>0. Joins(Ask(r)) /\ \A w \in Versions : Ask(r) # Swap(d, w)
      BY <1>4, JobKinds DEF Enqueued
    <2>1. ASSUME NEW j \in 1..Len(queue'), NEW w \in Versions, queue'[j] = Swap(d, w)
          PROVE  j \in 1..Len(queue) /\ queue[j] = Swap(d, w)
      BY <1>0, <2>0, <2>1 DEF Joins
    <2>2. i \in 1..Len(queue) /\ queue[i] = Swap(d, v)
      BY <1>1, <2>1
    <2>3. Fresh(d) /\ \A j \in 1..Len(queue), w \in Versions : queue[j] = Swap(d, w) => i = j
      BY <1>0, <2>2 DEF SwapsFresh
    <2>4. ~\E w \in Versions : Swapped(d, w)
      BY <1>0, <2>0 DEF Swapped, MovesUp, Joins
    <2> QED
      BY <2>1, <2>3, <2>4, FreshKept
  <1>5. CASE Finished
    <2>0. /\ Joins(Swap(Len(conns) + 1, version')) /\ version' \in Versions /\ Len(conns) \in Nat
          /\ conns' = Append(conns, Dialled(Len(daemons))) /\ Len(daemons) \in Nat /\ conns \in Seq(Conn)
          /\ conn' = conn /\ conn \in 1..Len(conns) \cup {None} /\ None \notin Nat
      BY <1>0, <1>5, LaneAssumption DEF Finished, LaneTypes
    <2>1. ASSUME NEW j \in 1..Len(queue'), NEW w \in Versions, queue'[j] = Swap(d, w)
          PROVE  \/ j \in 1..Len(queue) /\ queue[j] = Swap(d, w)
                 \/ j = Len(queue) + 1 /\ d = Len(conns) + 1
      <3>1. CASE j = Len(queue) + 1
        <4>1. Swap(d, w) = Swap(Len(conns) + 1, version')
          BY <2>0, <2>1, <3>1 DEF Joins
        <4>2. PICK f \in Nat, x \in Versions : f = Len(conns) + 1 /\ x = version'
          BY <2>0
        <4>3. d = f
          BY <4>1, <4>2, JobKinds
        <4> QED
          BY <3>1, <4>2, <4>3
      <3>2. CASE j # Len(queue) + 1
        BY <1>0, <2>0, <2>1, <3>2 DEF Joins
      <3> QED
        BY <3>1, <3>2
    <2>2. ASSUME NEW j \in 1..Len(queue), NEW w \in Versions, queue[j] = Swap(d, w)
          PROVE  /\ d # Len(conns) + 1 /\ Fresh(d)
                 /\ \A k \in 1..Len(queue), x \in Versions : queue[k] = Swap(d, x) => j = k
      <3>1. /\ Fresh(d)
            /\ \A k \in 1..Len(queue), x \in Versions : queue[k] = Swap(d, x) => j = k
        BY <1>0, <2>2 DEF SwapsFresh
      <3>2. d # Len(conns) + 1
        BY <2>0, <3>1 DEF Fresh
      <3> QED
        BY <3>1, <3>2
    <2>3. CASE d = Len(conns) + 1
      <3>1. conns'[d] = Dialled(Len(daemons)) /\ Len(conns') = Len(conns) + 1
        BY <2>0, <2>3, DialCalm
      <3>2. Quiet(d)'
        BY <3>1, CarriesNothing DEF Dialled
      <3>3. Fresh(d)'
        BY <2>0, <2>3, <3>1, <3>2 DEF Fresh
      <3>4. \A j \in 1..Len(queue'), w \in Versions : queue'[j] = Swap(d, w) => j = Len(queue) + 1
        BY <2>1, <2>2, <2>3
      <3> QED
        BY <1>1, <3>3, <3>4
    <2>4. CASE d # Len(conns) + 1
      <3>1. i \in 1..Len(queue) /\ queue[i] = Swap(d, v)
        BY <1>1, <2>1, <2>4
      <3>2. Fresh(d)
        BY <2>2, <3>1
      <3>3. ~\E w \in Versions : Swapped(d, w)
        BY <1>0, <2>0 DEF Swapped, MovesUp, Joins
      <3>4. Fresh(d)'
        BY <3>2, <3>3, FreshKept
      <3>5. ASSUME NEW j \in 1..Len(queue'), NEW w \in Versions, queue'[j] = Swap(d, w) PROVE i = j
        BY <2>1, <2>2, <2>4, <3>1, <3>5
      <3> QED
        BY <3>4, <3>5
    <2> QED
      BY <2>3, <2>4
  <1> QED
    BY <1>2, <1>3, <1>4, <1>5, QueueSteps

(* A line that is read was on the connection, and a push is no answer: no  *)
(* step but serving puts an answer on a connection.                        *)
LEMMA AnswersDoneKept ==
    ASSUME LaneInv, Step
    PROVE  AnswersDone'
  <1>0. LaneTypes /\ Once /\ AnswersDone /\ conns \in Seq(Conn) /\ Len(conns) \in Nat /\ Len(daemons) \in Nat
    BY DEF LaneInv, LaneTypes
  <1>1. SUFFICES ASSUME NEW d \in 1..Len(conns'), NEW i \in 1..Len(conns'[d].lines), Answer(d, i)'
                 PROVE  conns'[d].lines[i].r \in Reqs /\ Done(conns[d].lines[i].r)'
    BY DEF AnswersDone
  <1>2. PICK x : x = conns'[d].lines[i].r
    OBVIOUS
  <1>3. SUFFICES x \in Reqs /\ Done(x)'
    BY <1>2 DEF Done
  <1>k. conns'[d].lines[i].kind # "push" /\ conns'[d].lines # <<>>
    BY <1>1 DEF Answer
  <1>m. \A y \in Reqs : Done(y) => Done(y)'
    <2>1. CASE UNCHANGED ran
      BY <2>1, Unmoved
    <2>2. CASE \E e \in 1..Len(conns), r \in Reqs : Served(e, r)
      BY <1>0, <2>2, SentOne
    <2> QED
      BY <2>1, <2>2 DEF Step, Still, Skipped, Aside, Onward, Failed, Same, Wrote, Answered, Finished,
                        Turned, Enqueued, Took, Swapped, Push
  <1>4. ASSUME d \in 1..Len(conns), NEW j \in 1..Len(conns[d].lines), conns'[d].lines[i] = conns[d].lines[j]
        PROVE  x \in Reqs /\ Done(x)'
    <2>1. Answer(d, j)
      BY <1>4, <1>k DEF Answer
    <2>2. x \in Reqs /\ Done(x)
      BY <1>0, <1>2, <1>4, <2>1 DEF AnswersDone
    <2> QED
      BY <1>m, <2>2
  <1>5. ASSUME Calm, LinesSame PROVE x \in Reqs /\ Done(x)'
    <2>1. d \in 1..Len(conns)
      BY <1>0, <1>k, <1>5 DEF Calm
    <2> QED
      BY <1>1, <1>4, <1>5, <2>1 DEF LinesSame
  <1>6. ASSUME ReadOff, Len(conns') = Len(conns) PROVE x \in Reqs /\ Done(x)'
    <2>1. CASE d = conn
      <3>1. i + 1 \in 1..Len(conns[d].lines) /\ conns'[d].lines[i] = conns[d].lines[i + 1]
        BY <1>0, <1>6, <2>1, ReadOffLines
      <3> QED
        BY <1>4, <1>6, <3>1
    <2>2. CASE d # conn
      BY <1>4, <1>6, <2>2 DEF ReadOff
    <2> QED
      BY <2>1, <2>2
  <1>7. CASE Still \/ Onward
    BY <1>5, <1>7 DEF Still, Aside, Onward
  <1>8. CASE Skipped \/ Answered
    BY <1>6, <1>8 DEF Skipped, Aside, Answered
  <1>9. ASSUME NEW what, Failed(what) PROVE x \in Reqs /\ Done(x)'
    <2>1. CASE UNCHANGED conns
      BY <1>0, <1>5, <2>1, SameCalm
    <2> QED
      BY <1>5, <1>6, <1>9, <2>1 DEF Failed
  <1>10. CASE Wrote
    <2>1. Len(conns') = Len(conns) /\ LinesSame
      BY <1>0, <1>10, WriteEffect DEF Wrote, InHand
    <2> QED
      BY <1>1, <1>4, <2>1 DEF LinesSame
  <1>11. CASE Finished
    BY <1>0, <1>5, <1>11, DialCalm DEF Finished
  <1>12. ASSUME NEW r \in Reqs, Turned(r) \/ Enqueued(r) \/ Took(r) PROVE x \in Reqs /\ Done(x)'
    BY <1>0, <1>5, <1>12, SameCalm DEF Turned, Enqueued, Took
  <1>13. ASSUME NEW e \in Nat, NEW v \in Versions, Swapped(e, v) PROVE x \in Reqs /\ Done(x)'
    BY <1>5, <1>13 DEF Swapped
  <1>14. ASSUME NEW e \in 1..Len(conns), Push(e) PROVE x \in Reqs /\ Done(x)'
    <2>1. /\ Len(conns') = Len(conns) /\ conns[e] \in Conn
          /\ conns'[e].lines = Append(conns[e].lines, [kind |-> "push", r |-> None])
          /\ \A f \in 1..Len(conns) : f # e => conns'[f] = conns[f]
      BY <1>0, <1>14, PushCalm
    <2>2. CASE d # e
      BY <1>4, <2>1, <2>2
    <2>3. CASE d = e
      <3>1. conns[d].lines \in Seq(Lines) /\ [kind |-> "push", r |-> None] \in Lines
        BY <2>1, <2>3 DEF Conn, Lines
      <3>2. /\ Len(conns'[d].lines) = Len(conns[d].lines) + 1 /\ Len(conns[d].lines) \in Nat
            /\ \A n \in 1..Len(conns[d].lines) : conns'[d].lines[n] = conns[d].lines[n]
            /\ conns'[d].lines[Len(conns[d].lines) + 1].kind = "push"
        <4>1. conns'[d].lines = Append(conns[d].lines, [kind |-> "push", r |-> None])
          BY <2>1, <2>3
        <4> QED
          BY <3>1, <4>1, AppendPlaces
      <3>3. i # Len(conns[d].lines) + 1
        BY <1>k, <3>2
      <3>4. i \in 1..Len(conns[d].lines)
        BY <1>1, <3>2, <3>3
      <3> QED
        BY <1>4, <2>1, <3>2, <3>4
    <2> QED
      BY <2>2, <2>3
  <1>15. ASSUME NEW e \in 1..Len(conns), NEW r \in Reqs, Served(e, r) PROVE x \in Reqs /\ Done(x)'
    <2>1. Len(conns') = Len(conns) /\ conns[e] \in Conn /\ \A f \in 1..Len(conns) : f # e => conns'[f] = conns[f]
      BY <1>0, <1>15 DEF Served
    <2>2. CASE d # e \/ conns'[e].lines = conns[e].lines
      BY <1>1, <1>4, <2>1, <2>2
    <2>3. CASE d = e /\ conns'[e].lines # conns[e].lines
      <3>1. PICK k \in {"reply", "long"} : conns'[d].lines = Append(conns[d].lines, [kind |-> k, r |-> r])
        BY <1>15, <2>3 DEF Served
      <3>2. conns[d].lines \in Seq(Lines) /\ [kind |-> k, r |-> r] \in Lines
        BY <2>1, <2>3 DEF Conn, Lines
      <3>3. /\ Len(conns'[d].lines) = Len(conns[d].lines) + 1 /\ Len(conns[d].lines) \in Nat
            /\ \A n \in 1..Len(conns[d].lines) : conns'[d].lines[n] = conns[d].lines[n]
            /\ conns'[d].lines[Len(conns[d].lines) + 1].r = r
        BY <3>1, <3>2, AppendPlaces
      <3>4. CASE i = Len(conns[d].lines) + 1
        BY <1>0, <1>2, <1>15, <3>3, <3>4, SentOne
      <3>5. CASE i # Len(conns[d].lines) + 1
        <4>1. i \in 1..Len(conns[d].lines)
          BY <1>1, <3>3, <3>5
        <4> QED
          BY <1>4, <2>1, <3>3, <4>1
      <3> QED
        BY <3>4, <3>5
    <2> QED
      BY <2>2, <2>3
  <1> QED
    BY <1>7, <1>8, <1>9, <1>10, <1>11, <1>12, <1>13, <1>14, <1>15 DEF Step

(* Every step gives a caller its own reply or none: the line the worker    *)
(* hands over is the answer to the request it has in hand.                 *)
LEMMA MatchKept ==
    ASSUME LaneInv, Step
    PROVE  AnswersMatch'
  <1>0. LaneTypes /\ AnswersMatch /\ InStep
    BY DEF LaneInv
  <1>1. CASE UNCHANGED got
    BY <1>0, <1>1 DEF AnswersMatch
  <1>2. ASSUME NEW r \in Reqs, NEW what, ToldOne(r, what, None) PROVE AnswersMatch'
    BY <1>0, <1>2 DEF AnswersMatch, ToldOne
  <1>3. CASE Answered
    <2>1. ReadOff /\ Line1.kind = "reply" /\ worker.at = "read" /\ ToldOne(worker.r, "answered", Line1.r)
      BY <1>3 DEF Answered
    <2>2. conn # None /\ 1 \in 1..Len(conns[conn].lines) /\ Line1 = conns[conn].lines[1]
      BY <1>0, <2>1, ReadOffLines
    <2>3. Answer(conn, 1)
      BY <2>1, <2>2 DEF Answer
    <2>4. Line1.r = worker.r
      BY <1>0, <2>1, <2>2, <2>3 DEF InStep, Expects, Mine
    <2> QED
      BY <1>0, <2>1, <2>4 DEF AnswersMatch, ToldOne
  <1>4. ASSUME NEW what, Failed(what) PROVE AnswersMatch'
    BY <1>2, <1>4 DEF Failed, InHand
  <1>5. ASSUME NEW r \in Reqs, Took(r) PROVE AnswersMatch'
    BY <1>1, <1>2, <1>5 DEF Took
  <1> QED
    BY <1>1, <1>3, <1>4, <1>5 DEF Step, Still, Skipped, Aside, Onward, Wrote, Finished, Turned, Enqueued,
                                  Swapped, Push, Served

-----------------------------------------------------------------------------
(* The version a request was gated for stays with it.                      *)

(* With the queue as it was, the version at each place is what it was.     *)
LEMMA VersionSame ==
    ASSUME NEW i, NEW v, UNCHANGED <<queue, wversion>>, VersionAt(i, v)
    PROVE  VersionAt(i, v)'
  BY DEF VersionAt

(* When the queue moves up, so do the versions at its places; taking a     *)
(* swap makes its version the worker's.                                    *)
LEMMA VersionUp ==
    ASSUME LaneTypes, MovesUp, NEW i \in 1..(Len(queue') + 1), NEW v, VersionAt(i + 1, v),
           \/ queue[1].job = "ask" /\ UNCHANGED wversion
           \/ queue[1].job = "swap" /\ wversion' = queue[1].version
    PROVE  VersionAt(i, v)'
  <1>0. Len(queue) \in Nat /\ Len(queue') = Len(queue) - 1 /\ Len(queue) > 0 /\ i \in Nat
        /\ \A k \in 1..Len(queue') : queue'[k] = queue[k + 1]
    BY DEF LaneTypes, MovesUp
  <1>1. \A k \in 1..(i - 1) : k \in 1..Len(queue') /\ k + 1 \in 1..i /\ queue'[k] = queue[k + 1]
    BY <1>0
  <1>2. 1 \in 1..i
    BY <1>0
  <1>3. CASE v = wversion /\ \A k \in 1..i : queue[k].job = "ask"
    <2>1. \A k \in 1..(i - 1) : queue'[k].job = "ask"
      BY <1>1, <1>3
    <2>2. queue[1].job = "ask"
      BY <1>2, <1>3
    <2> QED
      BY <1>3, <2>1, <2>2 DEF VersionAt
  <1>4. ASSUME NEW k \in 1..i, queue[k].job = "swap", queue[k].version = v,
               \A m \in (k + 1)..i : queue[m].job = "ask"
        PROVE  VersionAt(i, v)'
    <2>1. CASE k = 1
      <3>1. \A m \in 1..(i - 1) : queue'[m].job = "ask"
        <4> SUFFICES ASSUME NEW m \in 1..(i - 1) PROVE queue'[m].job = "ask"
          OBVIOUS
        <4>1. m + 1 \in (k + 1)..i /\ queue'[m] = queue[m + 1]
          BY <1>0, <1>1, <2>1
        <4> QED
          BY <1>4, <4>1
      <3>2. v = wversion'
        BY <1>4, <2>1
      <3> QED
        BY <3>1, <3>2 DEF VersionAt
    <2>2. CASE k # 1
      <3>1. k - 1 \in 1..(i - 1) /\ queue'[k - 1] = queue[k]
        <4>1. k - 1 \in 1..(i - 1) /\ (k - 1) + 1 = k
          BY <1>0, <1>4, <2>2
        <4> QED
          BY <1>1, <4>1
      <3>2. \A m \in ((k - 1) + 1)..(i - 1) : queue'[m].job = "ask"
        <4> SUFFICES ASSUME NEW m \in ((k - 1) + 1)..(i - 1) PROVE queue'[m].job = "ask"
          OBVIOUS
        <4>1. m \in 1..(i - 1) /\ m + 1 \in (k + 1)..i
          BY <1>0, <1>4
        <4>2. queue'[m] = queue[m + 1]
          BY <1>1, <4>1
        <4> QED
          BY <1>4, <4>1, <4>2
      <3> QED
        BY <1>4, <3>1, <3>2 DEF VersionAt
    <2> QED
      BY <2>1, <2>2
  <1>5. (i + 1) - 1 = i
    BY <1>0
  <1> QED
    BY <1>3, <1>4, <1>5 DEF VersionAt

(* A job that joins changes no version before it.                          *)
LEMMA VersionJoin ==
    ASSUME LaneTypes, NEW j, Joins(j), UNCHANGED wversion,
           NEW i \in 1..(Len(queue) + 1), NEW v, VersionAt(i, v)
    PROVE  VersionAt(i, v)'
  <1>0. Len(queue) \in Nat /\ \A k \in 1..Len(queue) : queue'[k] = queue[k]
    BY DEF LaneTypes, Joins
  <1>1. \A k \in 1..(i - 1) : queue'[k] = queue[k]
    BY <1>0
  <1>2. \A k \in 1..(i - 1) : \A m \in (k + 1)..(i - 1) : queue'[m] = queue[m]
    BY <1>0
  <1> QED
    BY <1>1, <1>2 DEF VersionAt

(* A request that joins leaves the version at the end.                     *)
LEMMA VersionJoinAsk ==
    ASSUME LaneTypes, NEW r \in Reqs, Joins(Ask(r)), UNCHANGED wversion,
           NEW v, VersionAt(Len(queue) + 1, v)
    PROVE  VersionAt(Len(queue) + 1, v)'
  <1>0. /\ Len(queue) \in Nat /\ (\A k \in 1..Len(queue) : queue'[k] = queue[k])
        /\ Len(queue') = Len(queue) + 1 /\ queue'[Len(queue) + 1].job = "ask"
    <2>1. Ask(r).job = "ask"
      BY JobKinds
    <2>2. Len(queue) \in Nat
      BY DEF LaneTypes
    <2>3. Len(queue') = Len(queue) + 1 /\ \A k \in 1..Len(queue) : queue'[k] = queue[k]
      BY DEF Joins
    <2>4. queue'[Len(queue) + 1] = Ask(r)
      BY DEF Joins
    <2> QED
      BY <2>1, <2>2, <2>3, <2>4
  <1>1. CASE v = wversion /\ \A k \in 1..((Len(queue) + 1) - 1) : queue[k].job = "ask"
    <2>1. \A k \in 1..((Len(queue') + 1) - 1) : queue'[k].job = "ask"
      BY <1>0, <1>1
    <2> QED
      BY <1>1, <2>1 DEF VersionAt
  <1>2. ASSUME NEW k \in 1..((Len(queue) + 1) - 1), queue[k].job = "swap", queue[k].version = v,
               \A m \in (k + 1)..((Len(queue) + 1) - 1) : queue[m].job = "ask"
        PROVE  VersionAt(Len(queue) + 1, v)'
    <2>1. k \in 1..((Len(queue') + 1) - 1) /\ queue'[k] = queue[k]
      BY <1>0, <1>2
    <2>2. \A m \in (k + 1)..((Len(queue') + 1) - 1) : queue'[m].job = "ask"
      <3> SUFFICES ASSUME NEW m \in (k + 1)..((Len(queue') + 1) - 1) PROVE queue'[m].job = "ask"
        OBVIOUS
      <3>1. CASE m = Len(queue) + 1
        BY <1>0, <3>1
      <3>2. CASE m # Len(queue) + 1
        <4>1. m \in (k + 1)..((Len(queue) + 1) - 1) /\ m \in 1..Len(queue)
          BY <1>0, <1>2, <3>2
        <4> QED
          BY <1>0, <1>2, <4>1
      <3> QED
        BY <3>1, <3>2
    <2> QED
      BY <1>2, <2>1, <2>2 DEF VersionAt
  <1> QED
    BY <1>1, <1>2 DEF VersionAt

(* A swap that joins brings its version.                                   *)
LEMMA VersionJoinSwap ==
    ASSUME LaneTypes, NEW c \in Nat, NEW v \in Versions, Joins(Swap(c, v))
    PROVE  VersionAt(Len(queue) + 1, v)'
  <1>0. /\ Len(queue) \in Nat /\ Len(queue') = Len(queue) + 1
        /\ queue'[Len(queue) + 1].job = "swap" /\ queue'[Len(queue) + 1].version = v
    BY JobKinds DEF LaneTypes, Joins
  <1>1. PICK k : k = Len(queue) + 1
    OBVIOUS
  <1>2. k \in 1..((Len(queue') + 1) - 1) /\ \A m \in (k + 1)..((Len(queue') + 1) - 1) : FALSE
    BY <1>0, <1>1
  <1> QED
    BY <1>0, <1>1, <1>2 DEF VersionAt

(* The daemons started, and the daemon of each connection, stay known.     *)
LEMMA DaemonsStay ==
    ASSUME LaneInv, Step
    PROVE  /\ Len(daemons) <= Len(daemons') /\ \A g \in 1..Len(daemons) : daemons'[g] = daemons[g]
           /\ \A d \in 1..Len(conns) : d \in 1..Len(conns') /\ conns'[d].daemon = conns[d].daemon
  <1>0. LaneTypes /\ conns \in Seq(Conn) /\ Len(daemons) \in Nat /\ Len(conns) \in Nat
    BY DEF LaneInv, LaneTypes
  <1>1. Len(daemons) <= Len(daemons') /\ \A g \in 1..Len(daemons) : daemons'[g] = daemons[g]
    <2>1. UNCHANGED daemons \/ Aside
      BY DEF Step, Still, Skipped, Onward, Failed, Same, Wrote, Answered, Finished,
             Turned, Enqueued, Took, Swapped, Push, Served
    <2>2. CASE UNCHANGED daemons
      BY <1>0, <2>2
    <2> QED
      BY <2>1, <2>2 DEF Aside
  <1>2. ASSUME Calm PROVE \A d \in 1..Len(conns) : d \in 1..Len(conns') /\ conns'[d].daemon = conns[d].daemon
    BY <1>0, <1>2 DEF Calm
  <1>3. ASSUME Wrote PROVE \A d \in 1..Len(conns) : d \in 1..Len(conns') /\ conns'[d].daemon = conns[d].daemon
    BY <1>0, <1>3, WriteEffect DEF Wrote, InHand
  <1>4. ASSUME Finished PROVE \A d \in 1..Len(conns) : d \in 1..Len(conns') /\ conns'[d].daemon = conns[d].daemon
    BY <1>0, <1>2, <1>4, DialCalm DEF Finished
  <1>5. ASSUME UNCHANGED conns PROVE \A d \in 1..Len(conns) : d \in 1..Len(conns') /\ conns'[d].daemon = conns[d].daemon
    BY <1>5
  <1>6. ASSUME NEW e \in 1..Len(conns), Push(e)
        PROVE \A d \in 1..Len(conns) : d \in 1..Len(conns') /\ conns'[d].daemon = conns[d].daemon
    BY <1>2, <1>6, PushAside DEF Aside
  <1>7. ASSUME NEW e \in 1..Len(conns), NEW r \in Reqs, Served(e, r)
        PROVE \A d \in 1..Len(conns) : d \in 1..Len(conns') /\ conns'[d].daemon = conns[d].daemon
    BY <1>7 DEF Served
  <1>8. \A d \in 1..Len(conns) : d \in 1..Len(conns') /\ conns'[d].daemon = conns[d].daemon
    BY <1>2, <1>3, <1>4, <1>5, <1>6, <1>7
       DEF Step, Still, Skipped, Aside, Onward, Failed, Answered, Turned, Enqueued, Took, Swapped
  <1> QED
    BY <1>1, <1>8

(* A request that was gated stays gated for its version.                   *)
LEMMA FitsKept ==
    ASSUME LaneInv, Step, NEW q \in Reqs, caller[q] # "idle"
    PROVE  gated'[q] = gated[q] /\ overtaken \subseteq overtaken' /\ \A v : Fits(q, v) => Fits(q, v)'
  <1>1. gated'[q] = gated[q]
    BY DEF Step, Still, Skipped, Aside, Onward, Failed, Same, Wrote, Answered, Finished,
                Turned, Enqueued, Took, Swapped, Push, Served, callers
  <1>2. overtaken \subseteq overtaken'
    BY DEF Step, Still, Skipped, Aside, Onward, Failed, Same, Wrote, Answered, Finished,
                Turned, Enqueued, Took, Swapped, Push, Served, callers
  <1>3. ASSUME NEW v, Fits(q, v) PROVE Fits(q, v)'
    BY <1>1, <1>2, <1>3 DEF Fits
  <1> QED
    BY <1>1, <1>2, <1>3

(* Said of fixed values: the version at a place after a step.              *)
LEMMA VersionThen ==
    ASSUME NEW n, NEW v, VersionAt(n, v)'
    PROVE  /\ n = Len(queue') + 1 /\ v = version' => LastFit'
           /\ \A r \in Reqs : v = gated'[r] => VersionAt(n, gated[r])'
  <1>1. n = Len(queue') + 1 /\ v = version' => LastFit'
    BY DEF LastFit, VersionAt
  <1>2. \A r \in Reqs : v = gated'[r] => VersionAt(n, gated[r])'
    BY DEF VersionAt
  <1> QED
    BY <1>1, <1>2

(* The head of the queue decides what the worker goes by next.             *)
LEMMA HeadKind ==
    ASSUME LaneInv, Step, MovesUp
    PROVE  /\ \/ queue[1].job = "ask" /\ UNCHANGED wversion
              \/ queue[1].job = "swap" /\ wversion' = queue[1].version
           /\ UNCHANGED version
  <1>0. LaneTypes /\ Len(queue) \in Nat /\ Len(queue') = Len(queue) - 1
    BY DEF LaneInv, LaneTypes, MovesUp
  <1>1. ASSUME NEW r \in Reqs, Took(r) PROVE queue[1].job = "ask" /\ UNCHANGED <<wversion, version>>
    BY <1>1, JobKinds DEF Took
  <1>2. ASSUME NEW c \in Nat, NEW v \in Versions, Swapped(c, v)
        PROVE  queue[1].job = "swap" /\ wversion' = queue[1].version /\ UNCHANGED version
    <2>1. Swap(c, v).job = "swap" /\ Swap(c, v).version = v
      BY JobKinds
    <2> QED
      BY <1>2, <2>1 DEF Swapped
  <1>3. queue' # queue
    BY <1>0
  <1>4. ASSUME NEW j, Joins(j) PROVE FALSE
    BY <1>0, <1>4 DEF Joins
  <1>5. ~Finished /\ \A r \in Reqs : ~Enqueued(r)
    BY <1>4 DEF Finished, Enqueued
  <1>6. (\E r \in Reqs : Took(r)) \/ (\E c \in Nat, v \in Versions : Swapped(c, v))
    BY <1>3, <1>5 DEF Step, Still, Skipped, Aside, Onward, Failed, Same, Wrote, Answered, Turned, Push, Served, callers
  <1> QED
    BY <1>1, <1>2, <1>6

(* Unless a job is taken or a swap joins, the versions stay.               *)
LEMMA VersionsStay ==
    ASSUME LaneInv, Step, ~MovesUp
    PROVE  UNCHANGED wversion /\ (UNCHANGED version \/ Finished)
  BY DEF Step, Still, Skipped, Aside, Onward, Failed, Same, Wrote, Answered, Finished, Turned, Enqueued, Took,
         Swapped, Push, Served, gate, lane

(* The version the worker will end on is the one requests are admitted     *)
(* for.                                                                    *)
LEMMA LastFitKept ==
    ASSUME LaneInv, Step
    PROVE  LastFit'
  <1>0. LaneTypes /\ Len(queue) \in Nat /\ VersionAt(Len(queue) + 1, version)
    BY DEF LaneInv, LaneTypes, VersionsKept, LastFit
  <1>1. PICK v : v = version
    OBVIOUS
  <1>2. CASE MovesUp
    <2>1. PICK n : n = Len(queue') + 1
      OBVIOUS
    <2>2. n \in 1..(Len(queue') + 1) /\ n + 1 = Len(queue) + 1
      BY <1>0, <1>2, <2>1 DEF MovesUp
    <2>3. VersionAt(n, v)'
      BY <1>0, <1>1, <1>2, <2>2, HeadKind, VersionUp
    <2> QED
      BY <1>1, <1>2, <2>1, <2>3, HeadKind, VersionThen
  <1>3. CASE ~MovesUp /\ UNCHANGED queue
    <2>1. PICK n : n = Len(queue) + 1
      OBVIOUS
    <2>2. UNCHANGED <<wversion, version>>
      BY <1>0, <1>3, VersionsStay DEF Finished, Joins
    <2>3. VersionAt(n, v)'
      BY <1>0, <1>1, <1>3, <2>1, <2>2, VersionSame
    <2> QED
      BY <1>1, <1>3, <2>1, <2>2, <2>3, VersionThen
  <1>4. ASSUME NEW r \in Reqs, Enqueued(r) PROVE LastFit'
    <2>1. Joins(Ask(r)) /\ UNCHANGED <<wversion, version>>
      BY <1>4 DEF Enqueued
    <2>2. VersionAt(Len(queue) + 1, v)'
      BY <1>0, <1>1, <2>1, VersionJoinAsk
    <2> QED
      BY <1>1, <2>1, <2>2 DEF LastFit, VersionAt
  <1>5. CASE Finished
    <2>1. PICK c \in Nat, w \in Versions : c = Len(conns) + 1 /\ w = version'
      <3>1. Len(conns) + 1 \in Nat
        BY <1>0 DEF LaneTypes
      <3> QED
        BY <1>5, <3>1 DEF Finished
    <2>2. Joins(Swap(c, w))
      BY <1>5, <2>1 DEF Finished
    <2>3. VersionAt(Len(queue) + 1, w)'
      BY <1>0, <2>2, VersionJoinSwap
    <2> QED
      BY <2>1, <2>3 DEF LastFit, VersionAt
  <1> QED
    BY <1>2, <1>3, <1>4, <1>5, QueueSteps

(* Every request queued stays at its version's place.                      *)
LEMMA QueueFitKept ==
    ASSUME LaneInv, Step
    PROVE  QueueFit'
  <1>0. LaneTypes /\ Len(queue) \in Nat /\ QueueFit /\ Places
    BY DEF LaneInv, LaneTypes, VersionsKept
  <1>1. SUFFICES ASSUME NEW i \in 1..Len(queue'), NEW q \in Reqs, queue'[i] = Ask(q)
                 PROVE  q \in overtaken' \/ VersionAt(i, gated[q])'
    BY DEF QueueFit
  <1>2. PICK v : v = gated[q]
    OBVIOUS
  <1>3. ASSUME NEW n \in 1..Len(queue), queue[n] = Ask(q)
        PROVE  /\ q \in overtaken \/ VersionAt(n, v)
               /\ gated'[q] = v /\ overtaken \subseteq overtaken'
    <2>1. q \in overtaken \/ VersionAt(n, v)
      BY <1>0, <1>2, <1>3 DEF QueueFit
    <2>2. caller[q] # "idle"
      <3>1. Asked(q) /\ InPlace(q)
        BY <1>0, <1>3 DEF Asked, Places
      <3> QED
        BY <3>1 DEF InPlace
    <2> QED
      BY <1>2, <2>1, <2>2, FitsKept
  <1>4. CASE MovesUp
    <2>1. i + 1 \in 1..Len(queue) /\ queue[i + 1] = Ask(q) /\ i \in 1..(Len(queue') + 1)
      BY <1>0, <1>1, <1>4 DEF MovesUp
    <2>2. (q \in overtaken \/ VersionAt(i + 1, v)) /\ gated'[q] = v /\ overtaken \subseteq overtaken'
      BY <1>3, <2>1
    <2>3. CASE VersionAt(i + 1, v)
      <3>1. VersionAt(i, v)'
        BY <1>0, <1>4, <2>1, <2>3, HeadKind, VersionUp
      <3> QED
        BY <2>2, <3>1, VersionThen
    <2> QED
      BY <2>2, <2>3
  <1>5. CASE ~MovesUp /\ UNCHANGED queue
    <2>1. UNCHANGED wversion
      BY <1>5, VersionsStay
    <2>2. (q \in overtaken \/ VersionAt(i, v)) /\ gated'[q] = v /\ overtaken \subseteq overtaken'
      BY <1>1, <1>3, <1>5
    <2>3. CASE VersionAt(i, v)
      <3>1. VersionAt(i, v)'
        BY <1>5, <2>1, <2>3, VersionSame
      <3> QED
        BY <2>2, <3>1, VersionThen
    <2> QED
      BY <2>2, <2>3
  <1>6. ASSUME NEW j, Joins(j), UNCHANGED wversion, i \in 1..Len(queue)
        PROVE  q \in overtaken' \/ VersionAt(i, gated[q])'
    <2>1. queue[i] = Ask(q) /\ i \in 1..(Len(queue) + 1)
      BY <1>0, <1>1, <1>6 DEF Joins
    <2>2. (q \in overtaken \/ VersionAt(i, v)) /\ gated'[q] = v /\ overtaken \subseteq overtaken'
      BY <1>3, <1>6, <2>1
    <2>3. CASE VersionAt(i, v)
      <3>1. VersionAt(i, v)'
        BY <1>0, <1>6, <2>1, <2>3, VersionJoin
      <3> QED
        BY <2>2, <3>1, VersionThen
    <2> QED
      BY <2>2, <2>3
  <1>7. ASSUME NEW r \in Reqs, Enqueued(r) PROVE q \in overtaken' \/ VersionAt(i, gated[q])'
    <2>0. Joins(Ask(r)) /\ UNCHANGED <<wversion, version, gated, overtaken>> /\ caller[r] = "admitted"
      BY <1>7 DEF Enqueued
    <2>1. CASE i \in 1..Len(queue)
      BY <1>6, <2>0, <2>1
    <2>2. CASE i \notin 1..Len(queue)
      <3>1. i = Len(queue) + 1 /\ Ask(q) = Ask(r)
        BY <1>0, <1>1, <2>0, <2>2 DEF Joins
      <3>2. q = r
        BY <3>1, JobKinds
      <3>3. q \in overtaken \/ v = version
        BY <1>2, <2>0, <3>2 DEF LaneInv, VersionsKept, AdmittedFit, Fits
      <3>4. CASE v = version
        <4>1. VersionAt(i, v) /\ i \in 1..(Len(queue) + 1)
          BY <1>0, <3>1, <3>4 DEF LaneInv, VersionsKept, LastFit
        <4>2. VersionAt(i, v)'
          BY <1>0, <2>0, <4>1, VersionJoin
        <4> QED
          BY <1>2, <2>0, <4>2, VersionThen
      <3> QED
        BY <2>0, <3>3, <3>4
    <2> QED
      BY <2>1, <2>2
  <1>8. CASE Finished
    <2>1. PICK c \in Nat, w \in Versions : c = Len(conns) + 1 /\ w = version'
      <3>1. Len(conns) + 1 \in Nat
        BY <1>0 DEF LaneTypes
      <3> QED
        BY <1>8, <3>1 DEF Finished
    <2>2. Joins(Swap(c, w)) /\ UNCHANGED wversion
      BY <1>8, <2>1 DEF Finished
    <2>3. Ask(q) # Swap(c, w)
      BY JobKinds
    <2>4. i \in 1..Len(queue)
      BY <1>0, <1>1, <2>2, <2>3 DEF Joins
    <2> QED
      BY <1>6, <2>2, <2>4
  <1> QED
    BY <1>4, <1>5, <1>7, <1>8, QueueSteps

(* A request that waits to be queued is gated for the version in force, or *)
(* was overtaken by the swap that changed it.                              *)
LEMMA AdmittedFitKept ==
    ASSUME LaneInv, Step
    PROVE  AdmittedFit'
  <1>0. LaneTypes /\ AdmittedFit
    BY DEF LaneInv, VersionsKept
  <1>1. SUFFICES ASSUME NEW q \in Reqs, caller'[q] = "admitted" PROVE Fits(q, version)'
    BY DEF AdmittedFit
  <1>2. CASE Finished
    <2>1. q \in overtaken'
      BY <1>1, <1>2 DEF Finished
    <2> QED
      BY <2>1 DEF Fits
  <1>3. ASSUME caller[q] = "admitted", UNCHANGED version PROVE Fits(q, version)'
    BY <1>0, <1>3, FitsKept DEF AdmittedFit, Fits
  <1>4. ASSUME NEW r \in Reqs, Turned(r) PROVE Fits(q, version)'
    <2>1. CASE q # r \/ caller[q] = "admitted"
      BY <1>1, <1>3, <1>4, <2>1 DEF Turned, Moves
    <2>2. CASE q = r /\ caller[q] # "admitted"
      BY <1>1, <1>4, <2>2 DEF Turned, Moves, Fits
    <2> QED
      BY <2>1, <2>2
  <1>5. ASSUME NEW r \in Reqs, Enqueued(r) PROVE Fits(q, version)'
    BY <1>1, <1>3, <1>5 DEF Enqueued, Moves
  <1>6. ASSUME NEW r \in Reqs, Took(r) PROVE Fits(q, version)'
    <2>1. caller[q] = "admitted"
      BY <1>1, <1>6 DEF Took, ToldOne
    <2> QED
      BY <1>3, <1>6, <2>1 DEF Took
  <1>7. ASSUME NEW what, Failed(what) PROVE Fits(q, version)'
    <2>1. caller[q] = "admitted"
      BY <1>1, <1>7 DEF Failed, ToldOne
    <2> QED
      BY <1>3, <1>7, <2>1 DEF Failed, Same
  <1>8. CASE Answered
    <2>1. caller[q] = "admitted"
      BY <1>1, <1>8 DEF Answered, ToldOne
    <2> QED
      BY <1>3, <1>8, <2>1 DEF Answered, Same
  <1>9. CASE UNCHANGED <<caller, version>>
    BY <1>1, <1>3, <1>9
  <1> QED
    BY <1>2, <1>4, <1>5, <1>6, <1>7, <1>8, <1>9
       DEF Step, Still, Skipped, Aside, Onward, Same, Wrote, Swapped, Push, Served, callers, gate

(* The request in hand is gated for the version the worker goes by.        *)
LEMMA HandFitKept ==
    ASSUME LaneInv, Step
    PROVE  HandFit'
  <1>0. LaneTypes /\ HandFit /\ Places /\ QueueFit /\ (worker.at = "take" <=> worker.r = None)
        /\ worker.r \in Reqs \cup {None}
    BY DEF LaneInv, VersionsKept, LaneTypes, WorkerStates
  <1>1. CASE worker'.r = None
    BY <1>1 DEF HandFit
  <1>2. ASSUME worker'.r = worker.r, UNCHANGED wversion PROVE HandFit'
    <2>1. ASSUME worker.r # None PROVE Fits(worker.r, wversion)'
      <3>1. PICK q \in Reqs : q = worker.r
        BY <1>0, <2>1
      <3>2. caller[q] # "idle"
        BY <1>0, <3>1 DEF Places, InPlace
      <3>3. PICK v : v = wversion
        OBVIOUS
      <3>4. Fits(q, v)'
        BY <1>0, <2>1, <3>1, <3>2, <3>3, FitsKept DEF HandFit
      <3> QED
        BY <1>2, <3>1, <3>3, <3>4 DEF Fits
    <2> QED
      BY <1>2, <2>1 DEF HandFit
  <1>3. ASSUME NEW r \in Reqs, Took(r) PROVE HandFit'
    <2>1. worker'.r \in {r, None}
      BY <1>0, <1>3 DEF Took, ToldOne
    <2>2. 1 \in 1..Len(queue) /\ queue[1] = Ask(r) /\ UNCHANGED <<wversion, gated, overtaken>>
      BY <1>0, <1>3 DEF Took, MovesUp, LaneTypes
    <2>3. r \in overtaken \/ VersionAt(1, gated[r])
      BY <1>0, <2>2 DEF QueueFit
    <2>4. Fits(r, wversion)
      BY <2>3 DEF Fits, VersionAt
    <2> QED
      BY <2>1, <2>2, <2>4 DEF HandFit, Fits
  <1>4. ASSUME NEW c \in Nat, NEW v \in Versions, Swapped(c, v) PROVE HandFit'
    BY <1>0, <1>4 DEF Swapped, HandFit
  <1> QED
    BY <1>1, <1>2, <1>3, <1>4 DEF Step, Still, Skipped, Aside, Onward, Failed, ToldOne, Same, Wrote, Answered,
                                  Finished, Turned, Enqueued, Push, Served, lane

(* The worker's connection is to a daemon of the version it goes by.       *)
LEMMA ConnFitKept ==
    ASSUME LaneInv, Step
    PROVE  ConnFit'
  <1>0. /\ LaneTypes /\ ConnFit /\ SwapsFit /\ conns \in Seq(Conn) /\ Len(conns) \in Nat /\ Len(daemons) \in Nat
        /\ (conn # None => conn \in 1..Len(conns))
    BY DEF LaneInv, VersionsKept, LaneTypes
  <1>1. CASE conn' = None
    BY <1>1 DEF ConnFit
  <1>2. ASSUME NEW d \in 1..Len(conns)
        PROVE  conns[d].daemon \in 1..Len(daemons) /\ daemons'[conns'[d].daemon] = daemons[conns[d].daemon]
    BY <1>0, DaemonsStay DEF LaneTypes
  <1>3. ASSUME conn' = conn, UNCHANGED wversion PROVE ConnFit'
    BY <1>0, <1>2, <1>3 DEF ConnFit
  <1>4. CASE Onward
    <2>1. CASE conns' = Append(conns, Dialled(Len(daemons))) /\ conn' = Len(conns) + 1
      <3>1. conns'[conn'] = Dialled(Len(daemons))
        BY <1>0, <2>1, DialCalm
      <3>2. conns'[conn'].daemon = Len(daemons)
        BY <3>1 DEF Dialled
      <3> QED
        BY <1>4, <2>1, <3>2, <1>1, <1>3 DEF Onward, Same, ConnFit
    <2> QED
      BY <1>1, <1>3, <1>4, <2>1 DEF Onward, Same
  <1>5. ASSUME NEW c \in Nat, NEW v \in Versions, Swapped(c, v) PROVE ConnFit'
    <2>1. 1 \in 1..Len(queue) /\ queue[1] = Swap(c, v)
      BY <1>0, <1>5 DEF Swapped, MovesUp, LaneTypes
    <2>2. c \in 1..Len(conns) /\ daemons[conns[c].daemon] = v
      BY <1>0, <2>1 DEF LaneInv, SwapsFresh, Fresh, SwapsFit
    <2> QED
      BY <1>2, <1>5, <2>2 DEF Swapped, ConnFit
  <1>6. ASSUME NEW what, Failed(what) PROVE ConnFit'
    BY <1>1, <1>3, <1>6 DEF Failed, Same
  <1> QED
    BY <1>1, <1>3, <1>4, <1>5, <1>6 DEF Step, Still, Skipped, Aside, Same, Wrote, Answered,
                                  Finished, Turned, Enqueued, Took, Push, Served, lane

(* A swap in the queue names the version of its connection's daemon.       *)
LEMMA SwapsFitKept ==
    ASSUME LaneInv, Step
    PROVE  SwapsFit'
  <1>0. /\ LaneTypes /\ SwapsFit /\ SwapsFresh /\ conns \in Seq(Conn) /\ Len(conns) \in Nat
        /\ Len(daemons) \in Nat /\ Len(queue) \in Nat
    BY DEF LaneInv, VersionsKept, LaneTypes
  <1>1. SUFFICES ASSUME NEW i \in 1..Len(queue'), NEW d \in Nat, NEW v \in Versions, queue'[i] = Swap(d, v)
                 PROVE  daemons'[conns'[d].daemon] = v
    BY DEF SwapsFit
  <1>2. ASSUME NEW n \in 1..Len(queue), queue[n] = Swap(d, v) PROVE daemons'[conns'[d].daemon] = v
    <2>1. d \in 1..Len(conns) /\ daemons[conns[d].daemon] = v
      BY <1>0, <1>2 DEF SwapsFresh, Fresh, SwapsFit
    <2>2. conns[d].daemon \in 1..Len(daemons)
      BY <1>0, <2>1 DEF LaneTypes
    <2> QED
      BY <2>1, <2>2, DaemonsStay
  <1>3. CASE UNCHANGED queue
    BY <1>1, <1>2, <1>3
  <1>4. CASE MovesUp
    <2>1. i + 1 \in 1..Len(queue) /\ queue[i + 1] = Swap(d, v)
      BY <1>0, <1>1, <1>4 DEF MovesUp
    <2> QED
      BY <1>2, <2>1
  <1>5. ASSUME NEW r \in Reqs, Enqueued(r) PROVE daemons'[conns'[d].daemon] = v
    <2>0. Joins(Ask(r)) /\ Ask(r) # Swap(d, v)
      BY <1>5, JobKinds DEF Enqueued
    <2>1. i \in 1..Len(queue) /\ queue[i] = Swap(d, v)
      BY <1>0, <1>1, <2>0 DEF Joins
    <2> QED
      BY <1>2, <2>1
  <1>6. CASE Finished
    <2>1. CASE i \in 1..Len(queue)
      <3>1. queue[i] = Swap(d, v)
        BY <1>1, <1>6, <2>1 DEF Finished, Joins
      <3> QED
        BY <1>2, <2>1, <3>1
    <2>2. CASE i \notin 1..Len(queue)
      <3>0. Len(conns) + 1 \in Nat /\ version' = daemons[Len(daemons)] /\ version' \in Versions
            /\ conns' = Append(conns, Dialled(Len(daemons))) /\ UNCHANGED daemons
        BY <1>0, <1>6 DEF Finished
      <3>1. Swap(d, v) = Swap(Len(conns) + 1, version')
        BY <1>0, <1>1, <1>6, <2>2 DEF Finished, Joins
      <3>2. PICK e \in Nat, w \in Versions : e = Len(conns) + 1 /\ w = version'
        BY <3>0
      <3>3. d = e /\ v = w
        BY <3>1, <3>2, JobKinds
      <3>4. conns'[d] = Dialled(Len(daemons))
        BY <1>0, <3>0, <3>2, <3>3, DialCalm
      <3>5. conns'[d].daemon = Len(daemons)
        BY <3>4 DEF Dialled
      <3> QED
        BY <3>0, <3>2, <3>3, <3>5
    <2> QED
      BY <2>1, <2>2
  <1> QED
    BY <1>3, <1>4, <1>5, <1>6, QueueSteps

(* A request on a connection was there before, or has just been written.   *)
LEMMA InboxFrom ==
    ASSUME LaneInv, Step, NEW d \in 1..Len(conns'), NEW i \in 1..Len(conns'[d].inbox)
    PROVE  /\ d \in 1..Len(conns)
           /\ \/ \E j \in 1..Len(conns[d].inbox) : conns[d].inbox[j] = conns'[d].inbox[i]
              \/ Wrote /\ d = conn /\ conns'[d].inbox[i] = worker.r
  <1>0. LaneTypes /\ conns \in Seq(Conn) /\ Len(conns) \in Nat /\ Len(daemons) \in Nat /\ conns'[d].inbox # <<>>
    BY DEF LaneInv, LaneTypes
  <1> DEFINE G == /\ d \in 1..Len(conns)
                  /\ \/ \E j \in 1..Len(conns[d].inbox) : conns[d].inbox[j] = conns'[d].inbox[i]
                     \/ Wrote /\ d = conn /\ conns'[d].inbox[i] = worker.r
  <1> SUFFICES G
    OBVIOUS
  <1>1. ASSUME Calm PROVE G
    BY <1>0, <1>1 DEF Calm
  <1>2. CASE Wrote
    <2>0. conn \in 1..Len(conns) /\ worker.r \in Reqs /\ Written
      BY <1>2 DEF Wrote, InHand
    <2>1. /\ Len(conns') = Len(conns)
          /\ conns'[conn].inbox = Append(conns[conn].inbox, worker.r)
          /\ \A e \in 1..Len(conns) : e # conn => conns'[e] = conns[e]
      BY <1>0, <2>0, WriteEffect
    <2>2. CASE d # conn
      BY <2>1, <2>2
    <2>3. CASE d = conn
      <3>1. conns[d] \in Conn
        BY <1>0, <2>0, <2>3
      <3>2. conns[d].inbox \in Seq(Reqs) /\ conns'[d].inbox = Append(conns[d].inbox, worker.r)
        BY <2>1, <2>3, <3>1 DEF Conn
      <3>3. /\ Len(conns'[d].inbox) = Len(conns[d].inbox) + 1 /\ Len(conns[d].inbox) \in Nat
            /\ \A n \in 1..Len(conns[d].inbox) : conns'[d].inbox[n] = conns[d].inbox[n]
            /\ conns'[d].inbox[Len(conns[d].inbox) + 1] = worker.r
        BY <2>0, <3>2, AppendPlaces
      <3>4. CASE i = Len(conns[d].inbox) + 1
        BY <1>2, <2>0, <2>3, <3>3, <3>4
      <3>5. CASE i # Len(conns[d].inbox) + 1
        <4>1. i \in 1..Len(conns[d].inbox)
          BY <3>3, <3>5
        <4> QED
          BY <2>0, <2>3, <3>3, <4>1
      <3> QED
        BY <3>4, <3>5
    <2> QED
      BY <2>2, <2>3
  <1>3. CASE Finished
    BY <1>0, <1>1, <1>3, DialCalm DEF Finished
  <1>4. CASE UNCHANGED conns
    BY <1>4
  <1>5. ASSUME NEW e \in 1..Len(conns), Push(e) PROVE G
    BY <1>1, <1>5, PushAside DEF Aside
  <1>6. ASSUME NEW e \in 1..Len(conns), NEW r \in Reqs, Served(e, r) PROVE G
    <2>1. Len(conns') = Len(conns) /\ \A f \in 1..Len(conns) : f # e => conns'[f] = conns[f]
      BY <1>6 DEF Served
    <2>2. CASE d # e
      BY <2>1, <2>2
    <2>3. CASE d = e
      <3>1. i + 1 \in 1..Len(conns[d].inbox) /\ conns'[d].inbox[i] = conns[d].inbox[i + 1]
        BY <1>0, <1>6, <2>3, ServedInbox
      <3> QED
        BY <2>3, <3>1
    <2> QED
      BY <2>2, <2>3
  <1> HIDE DEF G
  <1> QED
    BY <1>1, <1>2, <1>3, <1>4, <1>5, <1>6
       DEF Step, Still, Skipped, Aside, Onward, Failed, Answered, Turned, Enqueued, Took, Swapped

(* A request on a connection is gated for the version of its daemon.       *)
LEMMA SentFitKept ==
    ASSUME LaneInv, Step
    PROVE  SentFit'
  <1>0. LaneTypes /\ conns \in Seq(Conn) /\ Places /\ VersionsKept
    BY DEF LaneInv, LaneTypes
  <1>1. SUFFICES ASSUME NEW d \in 1..Len(conns'), NEW i \in 1..Len(conns'[d].inbox)
                 PROVE  Fits(conns[d].inbox[i], daemons[conns[d].daemon])'
    BY DEF SentFit
  <1>2. PICK q, v : q = conns'[d].inbox[i] /\ v = daemons'[conns'[d].daemon]
    OBVIOUS
  <1>3. SUFFICES Fits(q, v)'
    BY <1>2 DEF Fits
  <1>4. d \in 1..Len(conns)
    BY InboxFrom
  <1>5. conns[d].daemon \in 1..Len(daemons) /\ v = daemons[conns[d].daemon]
    <2>1. conns[d].daemon \in 1..Len(daemons)
      BY <1>0, <1>4 DEF LaneTypes
    <2> QED
      BY <1>2, <1>4, <2>1, DaemonsStay
  <1>6. q \in Reqs /\ caller[q] # "idle" /\ Fits(q, v)
    <2>1. CASE \E j \in 1..Len(conns[d].inbox) : conns[d].inbox[j] = conns'[d].inbox[i]
      <3>1. PICK j \in 1..Len(conns[d].inbox) : conns[d].inbox[j] = q
        BY <1>2, <2>1
      <3>2. conns[d] \in Conn
        BY <1>0, <1>4
      <3>3. q \in Reqs
        <4>1. conns[d].inbox \in Seq(Reqs)
          BY <3>2 DEF Conn
        <4> QED
          BY <3>1, <4>1
      <3>4. Sent(q)
        BY <1>4, <3>1 DEF Sent
      <3>5. caller[q] # "idle"
        BY <1>0, <3>3, <3>4 DEF Places, InPlace
      <3>6. Fits(q, v)
        BY <1>0, <1>4, <1>5, <3>1 DEF VersionsKept, SentFit
      <3> QED
        BY <3>3, <3>5, <3>6
    <2>2. CASE Wrote /\ d = conn /\ conns'[d].inbox[i] = worker.r
      <3>1. q = worker.r /\ q \in Reqs /\ conn # None /\ q # None
        BY <1>2, <1>4, <2>2, LaneAssumption DEF Wrote, InHand
      <3>2. caller[q] # "idle"
        BY <1>0, <3>1 DEF Places, InPlace
      <3>3. Fits(q, v)
        BY <1>0, <1>5, <2>2, <3>1 DEF VersionsKept, HandFit, ConnFit
      <3> QED
        BY <3>1, <3>2, <3>3
    <2> QED
      BY <2>1, <2>2, InboxFrom
  <1> QED
    BY <1>6, FitsKept

(* So is a request that was acted on, for its daemon then and later.       *)
LEMMA RanFitKept ==
    ASSUME LaneInv, Step
    PROVE  RanFit'
  <1>0. /\ LaneTypes /\ Places /\ VersionsKept /\ ran \in Seq(Reqs \X Nat) /\ Len(ran) \in Nat
        /\ Len(daemons) \in Nat /\ Len(daemons) <= Len(daemons')
        /\ \A g \in 1..Len(daemons) : daemons'[g] = daemons[g]
    BY DaemonsStay DEF LaneInv, LaneTypes
  <1>d. Len(daemons') \in Nat
    BY TypesKept DEF LaneTypes
  <1>1. ASSUME NEW q \in Reqs, NEW g \in 1..Len(daemons), caller[q] # "idle", Fits(q, daemons[g])
        PROVE  g \in 1..Len(daemons') /\ Fits(q, daemons[g])'
    <2>1. PICK v : v = daemons[g]
      OBVIOUS
    <2>2. Fits(q, v)'
      BY <1>1, <2>1, FitsKept
    <2> QED
      BY <1>0, <1>d, <1>1, <2>1, <2>2 DEF Fits
  <1>2. ASSUME NEW i \in 1..Len(ran), ran'[i] = ran[i]
        PROVE  ran'[i][2] \in 1..Len(daemons') /\ Fits(ran[i][1], daemons[ran[i][2]])'
    <2>1. PICK q, g : q = ran[i][1] /\ g = ran[i][2]
      OBVIOUS
    <2>2. q \in Reqs
      <3>1. ran[i] \in Reqs \X Nat
        BY <1>0
      <3> QED
        BY <2>1, <3>1
    <2>3. g \in 1..Len(daemons) /\ Fits(q, daemons[g])
      BY <1>0, <2>1 DEF VersionsKept, RanFit
    <2>4. Done(q)
      BY <2>1 DEF Done
    <2>5. caller[q] # "idle"
      BY <1>0, <2>2, <2>4 DEF Places, InPlace
    <2>6. g \in 1..Len(daemons') /\ Fits(q, daemons[g])'
      BY <1>1, <2>2, <2>3, <2>5
    <2> QED
      BY <1>2, <2>1, <2>6 DEF Fits
  <1>3. CASE UNCHANGED ran
    BY <1>2, <1>3 DEF RanFit
  <1>4. ASSUME NEW c \in 1..Len(conns), NEW r \in Reqs, Served(c, r) PROVE RanFit'
    <2>0. /\ Len(ran') = Len(ran) + 1 /\ \A i \in 1..Len(ran) : ran'[i] = ran[i]
          /\ ran'[Len(ran) + 1] = <<r, conns[c].daemon>>
      BY <1>4 DEF Served
    <2>1. PICK g : g = conns[c].daemon
      OBVIOUS
    <2>2. 1 \in 1..Len(conns[c].inbox) /\ conns[c].inbox[1] = r
      BY <1>0, <1>4, ServedInbox
    <2>3. g \in 1..Len(daemons) /\ Fits(r, daemons[g])
      <3>1. conns[c].daemon \in 1..Len(daemons)
        BY <1>0 DEF LaneTypes
      <3> QED
        BY <1>0, <2>1, <2>2, <3>1 DEF VersionsKept, SentFit
    <2>4. Sent(r)
      BY <2>2 DEF Sent
    <2>5. caller[r] # "idle"
      BY <1>0, <2>4 DEF Places, InPlace
    <2>6. g \in 1..Len(daemons') /\ Fits(r, daemons[g])'
      BY <1>1, <2>3, <2>5
    <2>7. SUFFICES ASSUME NEW i \in 1..Len(ran')
                   PROVE  ran'[i][2] \in 1..Len(daemons') /\ Fits(ran[i][1], daemons[ran[i][2]])'
      BY DEF RanFit
    <2>8. CASE i = Len(ran) + 1
      <3>1. ran'[i][1] = r /\ ran'[i][2] = g
        BY <2>0, <2>1, <2>8
      <3> QED
        BY <2>6, <3>1 DEF Fits
    <2>9. CASE i # Len(ran) + 1
      <3>1. i \in 1..Len(ran)
        BY <1>0, <2>0, <2>9
      <3> QED
        BY <1>2, <2>0, <3>1
    <2> QED
      BY <2>8, <2>9
  <1> QED
    BY <1>3, <1>4 DEF Step, Still, Skipped, Aside, Onward, Failed, Same, Wrote, Answered, Finished, Turned,
                      Enqueued, Took, Swapped, Push

(* Every step keeps the versions.                                          *)
LEMMA VersionsStepKept ==
    ASSUME LaneInv, Step
    PROVE  VersionsKept'
  BY LastFitKept, AdmittedFitKept, QueueFitKept, HandFitKept, ConnFitKept, SwapsFitKept, SentFitKept, RanFitKept
     DEF VersionsKept

-----------------------------------------------------------------------------
(* The order requests were queued in stays the order they are taken in.    *)

(* The line only grows at its end.                                         *)
LEMMA LineGrows ==
    ASSUME LaneInv, Step
    PROVE  /\ \A q \in Reqs : Lined(q) => Lined(q)'
           /\ \A q, s \in Reqs : Before(q, s) => Before(q, s)'
           /\ \A q, s \in Reqs : Before(q, s)' /\ Lined(q) /\ Lined(s) => Before(q, s)
  <1>0. LaneTypes /\ Len(line) \in Nat /\ LinedOnce
    BY DEF LaneInv, LaneTypes, Once
  <1>1. CASE UNCHANGED line
    BY <1>1 DEF Lined, Before
  <1>2. ASSUME NEW r \in Reqs, Enqueued(r)
        PROVE  /\ \A q \in Reqs : Lined(q) => Lined(q)'
               /\ \A q, s \in Reqs : Before(q, s) => Before(q, s)'
               /\ \A q, s \in Reqs : Before(q, s)' /\ Lined(q) /\ Lined(s) => Before(q, s)
    <2>0. /\ Len(line') = Len(line) + 1 /\ \A i \in 1..Len(line) : line'[i] = line[i]
          /\ line'[Len(line) + 1] = r
      BY <1>2 DEF Enqueued
    <2>1. \A i \in 1..Len(line) : i \in 1..Len(line')
      BY <1>0, <2>0
    <2>2. ~Lined(r)
      BY <1>2 DEF Enqueued, LaneInv, Places, InPlace
    <2>3. ASSUME NEW q \in Reqs, NEW s \in Reqs, Before(q, s) PROVE Before(q, s)'
      BY <2>0, <2>1, <2>3 DEF Before
    <2>4. ASSUME NEW q \in Reqs, NEW s \in Reqs, Before(q, s)', Lined(q), Lined(s) PROVE Before(q, s)
      <3>1. PICK i \in 1..Len(line'), j \in 1..Len(line') : i < j /\ line'[i] = q /\ line'[j] = s
        BY <2>4 DEF Before
      <3>2. q # r /\ s # r
        BY <2>2, <2>4
      <3>3. i \in 1..Len(line) /\ j \in 1..Len(line)
        BY <1>0, <2>0, <3>1, <3>2
      <3> QED
        BY <2>0, <3>1, <3>3 DEF Before
    <2>5. \A q \in Reqs : Lined(q) => Lined(q)'
      BY <1>0, <1>2, LinedMore
    <2> QED
      BY <2>3, <2>4, <2>5
  <1> QED
    BY <1>1, <1>2 DEF Step, Still, Skipped, Aside, Onward, Failed, Same, Wrote, Answered, Finished, Turned,
                      Took, Swapped, Push, Served, callers

(* The request that is queued comes after all that were.                   *)
LEMMA LineEnd ==
    ASSUME LaneTypes, NEW r \in Reqs, Enqueued(r), NEW q \in Reqs, Lined(q)
    PROVE  Before(q, r)'
  <1>0. /\ Len(line) \in Nat /\ Len(line') = Len(line) + 1 /\ \A i \in 1..Len(line) : line'[i] = line[i]
        /\ line'[Len(line) + 1] = r
    BY DEF Enqueued, LaneTypes
  <1>1. PICK i \in 1..Len(line) : line[i] = q
    BY DEF Lined
  <1>2. i \in 1..Len(line') /\ Len(line) + 1 \in 1..Len(line') /\ i < Len(line) + 1 /\ line'[i] = q
    BY <1>0, <1>1
  <1> QED
    BY <1>0, <1>2 DEF Before

(* Of two requests one was queued first.                                   *)
LEMMA OneWay ==
    ASSUME LaneTypes, LinedOnce, NEW q, NEW s, Before(q, s)
    PROVE  ~Before(s, q)
  <1>0. Len(line) \in Nat
    BY DEF LaneTypes
  <1>1. PICK i \in 1..Len(line), j \in 1..Len(line) : i < j /\ line[i] = q /\ line[j] = s
    BY DEF Before
  <1>2. ASSUME NEW k \in 1..Len(line), NEW m \in 1..Len(line), k < m, line[k] = s, line[m] = q PROVE FALSE
    <2>1. k = j /\ m = i
      BY <1>1, <1>2 DEF LinedOnce
    <2> QED
      BY <1>0, <1>1, <1>2, <2>1
  <1> QED
    BY <1>2 DEF Before

(* What was written or acted on was so before, or has just been written.   *)
LEMMA OutFrom ==
    ASSUME LaneInv, Step, NEW q \in Reqs, Sent(q)' \/ Done(q)'
    PROVE  Sent(q) \/ Done(q) \/ (Wrote /\ q = worker.r)
  <1>0. LaneTypes /\ Once
    BY DEF LaneInv
  <1>1. CASE Sent(q)'
    <2>1. PICK d \in 1..Len(conns') : \E i \in 1..Len(conns'[d].inbox) : conns'[d].inbox[i] = q
      BY <1>1 DEF Sent
    <2>2. PICK i \in 1..Len(conns'[d].inbox) : conns'[d].inbox[i] = q
      BY <2>1
    <2>3. /\ d \in 1..Len(conns)
          /\ \/ \E j \in 1..Len(conns[d].inbox) : conns[d].inbox[j] = conns'[d].inbox[i]
             \/ Wrote /\ d = conn /\ conns'[d].inbox[i] = worker.r
      BY InboxFrom
    <2> QED
      BY <2>2, <2>3 DEF Sent
  <1>2. CASE Done(q)'
    <2>1. CASE UNCHANGED ran
      BY <1>2, <2>1, Unmoved
    <2>2. ASSUME NEW c \in 1..Len(conns), NEW r \in Reqs, Served(c, r) PROVE Sent(q) \/ Done(q)
      BY <1>0, <1>2, <2>2, SentOne
    <2> QED
      BY <2>1, <2>2 DEF Step, Still, Skipped, Aside, Onward, Failed, Same, Wrote, Answered, Finished, Turned,
                      Enqueued, Took, Swapped, Push
  <1> QED
    BY <1>1, <1>2

(* What is in hand was so before, or has just been taken.                  *)
LEMMA HandFrom ==
    ASSUME LaneInv, Step
    PROVE  worker'.r = worker.r \/ worker'.r = None \/ \E r \in Reqs : Took(r) /\ worker'.r = r
  <1>1. ASSUME NEW r \in Reqs, Took(r) PROVE worker'.r = worker.r \/ worker'.r = None \/ worker'.r = r
    BY <1>1 DEF Took, ToldOne
  <1> QED
    BY <1>1 DEF Step, Still, Skipped, Aside, Onward, Failed, ToldOne, Same, Wrote, Answered, Finished, Turned,
                      Enqueued, Swapped, Push, Served

(* What is queued was so before, or has just been queued.                  *)
LEMMA AskedFrom ==
    ASSUME LaneInv, Step, NEW q \in Reqs, Asked(q)'
    PROVE  Asked(q) \/ Enqueued(q)
  <1>0. LaneTypes
    BY DEF LaneInv
  <1>1. CASE UNCHANGED queue
    BY <1>1, Unmoved
  <1>2. CASE MovesUp
    BY <1>0, <1>2, AskedLess
  <1>3. ASSUME NEW r \in Reqs, Enqueued(r) PROVE Asked(q) \/ Enqueued(q)
    <2>1. Joins(Ask(r)) /\ Ask(r) \in Jobs /\ (Ask(q) = Ask(r) => q = r)
      BY <1>3, JobKinds DEF Enqueued
    <2> QED
      BY <1>0, <1>3, <2>1, AskedMore
  <1>4. CASE Finished
    <2>1. Len(conns) + 1 \in Nat /\ version' \in Versions
      BY <1>0, <1>4 DEF LaneTypes, Finished
    <2>2. PICK j \in Jobs : j = Swap(Len(conns) + 1, version') /\ j # Ask(q)
      BY <2>1, JobKinds
    <2> QED
      BY <1>0, <1>4, <2>2, AskedMore DEF Finished
  <1> QED
    BY <1>1, <1>2, <1>3, <1>4, QueueSteps

(* Taken requests were taken before, or have just been.                    *)
LEMMA TakenFrom ==
    ASSUME LaneInv, Step, NEW q \in Reqs, Taken(q)'
    PROVE  Taken(q) \/ Took(q)
  <1>1. CASE Sent(q)' \/ Done(q)'
    BY <1>1, OutFrom DEF Taken
  <1>2. CASE worker'.r = q
    <2>1. q # None
      BY LaneAssumption
    <2> QED
      BY <1>2, <2>1, HandFrom DEF Taken
  <1> QED
    BY <1>1, <1>2 DEF Taken

(* Who was told that the outcome is unknown, or left, is told no more.     *)
LEMMA LostStays ==
    ASSUME LaneInv, Step, NEW q \in Reqs, caller[q] \in {"unknown", "gone"}
    PROVE  caller'[q] = caller[q]
  <1>0. InPlace(q) /\ LaneTypes /\ Once
    BY DEF LaneInv, Places
  <1>1. CASE UNCHANGED caller
    BY <1>1
  <1>2. ASSUME NEW r, NEW what, NEW reply, ToldOne(r, what, reply), caller[q] = "unknown" => q # r PROVE caller'[q] = caller[q]
    BY <1>2 DEF ToldOne, Left
  <1>3. ASSUME NEW what, Failed(what) PROVE caller'[q] = caller[q]
    BY <1>0, <1>2, <1>3 DEF Failed, InPlace
  <1>4. CASE Answered
    BY <1>0, <1>2, <1>4 DEF Answered, InPlace
  <1>5. ASSUME NEW r \in Reqs, Took(r) PROVE caller'[q] = caller[q]
    <2>1. Asked(r)
      BY <1>0, <1>5, AskedOne DEF Took
    <2>2. q # r
      BY <1>0, <2>1 DEF InPlace
    <2> QED
      BY <1>1, <1>2, <1>5, <2>2 DEF Took
  <1>6. ASSUME NEW r \in Reqs, Turned(r) \/ Enqueued(r) PROVE caller'[q] = caller[q]
    BY <1>6 DEF Turned, Enqueued, Moves
  <1> QED
    BY <1>1, <1>3, <1>4, <1>5, <1>6 DEF Step, Still, Skipped, Aside, Onward, Wrote, Finished, Swapped, Push, Served, callers

(* Every step keeps the order.                                             *)
LEMMA OrderStepKept ==
    ASSUME LaneInv, Step
    PROVE  InOrder'
  <1>0. /\ LaneTypes /\ Once /\ Places /\ AllLined /\ QueueOrder /\ TakenFirst /\ HandLast /\ RanOrder
        /\ Len(queue) \in Nat /\ Len(ran) \in Nat
    BY DEF LaneInv, LaneTypes, InOrder
  <1>1. AllLined'
    <2>1. SUFFICES ASSUME NEW q \in Reqs, Asked(q)' \/ Taken(q)' PROVE Lined(q)'
      BY DEF AllLined
    <2>2. CASE Asked(q) \/ Taken(q)
      BY <1>0, <2>2, LineGrows DEF AllLined
    <2>3. CASE Enqueued(q)
      BY <1>0, <2>3, LinedMore
    <2>4. CASE Took(q)
      <3>1. Asked(q)
        BY <1>0, <2>4, AskedOne DEF Took
      <3> QED
        BY <2>2, <3>1
    <2> QED
      BY <2>1, <2>2, <2>3, <2>4, AskedFrom, TakenFrom
  <1>2. QueueOrder'
    <2>1. SUFFICES ASSUME NEW i \in 1..Len(queue'), NEW j \in 1..Len(queue'), NEW q \in Reqs, NEW s \in Reqs,
                          i < j, queue'[i] = Ask(q), queue'[j] = Ask(s)
                   PROVE  Before(q, s)'
      BY DEF QueueOrder
    <2>2. ASSUME NEW m \in 1..Len(queue), NEW n \in 1..Len(queue), m < n, queue[m] = Ask(q), queue[n] = Ask(s)
          PROVE  Before(q, s)'
      BY <1>0, <2>2, LineGrows DEF QueueOrder
    <2>3. CASE UNCHANGED queue
      BY <2>1, <2>2, <2>3
    <2>4. CASE MovesUp
      <3>1. /\ i + 1 \in 1..Len(queue) /\ queue[i + 1] = Ask(q) /\ j + 1 \in 1..Len(queue)
            /\ queue[j + 1] = Ask(s) /\ i + 1 < j + 1
        BY <1>0, <2>1, <2>4 DEF MovesUp
      <3> QED
        BY <2>2, <3>1
    <2>5. ASSUME NEW r \in Reqs, Enqueued(r) PROVE Before(q, s)'
      <3>0. Joins(Ask(r))
        BY <2>5 DEF Enqueued
      <3>1. i \in 1..Len(queue) /\ queue[i] = Ask(q)
        BY <1>0, <2>1, <3>0 DEF Joins
      <3>2. CASE j \in 1..Len(queue)
        BY <2>1, <2>2, <3>0, <3>1, <3>2 DEF Joins
      <3>3. CASE j \notin 1..Len(queue)
        <4>1. Ask(s) = Ask(r)
          BY <1>0, <2>1, <3>0, <3>3 DEF Joins
        <4>2. s = r
          BY <4>1, JobKinds
        <4>3. Lined(q)
          BY <1>0, <3>1 DEF AllLined, Asked
        <4> QED
          BY <1>0, <2>5, <4>2, <4>3, LineEnd
      <3> QED
        BY <3>2, <3>3
    <2>6. CASE Finished
      <3>1. Len(conns) + 1 \in Nat /\ version' \in Versions
        BY <1>0, <2>6 DEF LaneTypes, Finished
      <3>2. PICK z \in Jobs : z = Swap(Len(conns) + 1, version') /\ \A r \in Reqs : z # Ask(r)
        BY <3>1, JobKinds
      <3>a. Joins(z)
        BY <2>6, <3>2 DEF Finished
      <3>b. i # Len(queue) + 1 /\ j # Len(queue) + 1
        BY <2>1, <3>2, <3>a DEF Joins
      <3>c. i \in 1..Len(queue) /\ j \in 1..Len(queue)
        BY <1>0, <3>a, <3>b DEF Joins
      <3>3. i \in 1..Len(queue) /\ j \in 1..Len(queue) /\ queue[i] = Ask(q) /\ queue[j] = Ask(s)
        BY <2>1, <3>a, <3>c DEF Joins
      <3> QED
        BY <2>1, <2>2, <3>3
    <2> QED
      BY <2>3, <2>4, <2>5, <2>6, QueueSteps
  <1>3. TakenFirst'
    <2>1. SUFFICES ASSUME NEW q \in Reqs, NEW s \in Reqs, Taken(q)', Asked(s)' PROVE Before(q, s)'
      BY DEF TakenFirst
    <2>2. CASE Taken(q) /\ Asked(s)
      BY <1>0, <2>2, LineGrows DEF TakenFirst
    <2>3. CASE Enqueued(s) /\ Taken(q)
      <3>1. Lined(q)
        BY <1>0, <2>3 DEF AllLined
      <3> QED
        BY <1>0, <2>3, <3>1, LineEnd
    <2>4. CASE Took(q)
      <3>0. queue[1] = Ask(q) /\ MovesUp
        BY <2>4 DEF Took
      <3>1. PICK n \in 1..Len(queue') : queue'[n] = Ask(s)
        BY <2>1 DEF Asked
      <3>2. n + 1 \in 1..Len(queue) /\ queue[n + 1] = Ask(s) /\ 1 \in 1..Len(queue) /\ 1 < n + 1
        BY <1>0, <3>0, <3>1 DEF MovesUp
      <3>3. Before(q, s)
        BY <1>0, <3>0, <3>2 DEF QueueOrder
      <3> QED
        BY <3>3, LineGrows
    <2> QED
      BY <2>1, <2>2, <2>3, <2>4, TakenFrom, AskedFrom
  <1>4. HandLast'
    <2>1. SUFFICES ASSUME NEW q \in Reqs, NEW s \in Reqs, Sent(q)' \/ Done(q)', worker'.r = s, q # s
                   PROVE  Before(q, s)'
      BY DEF HandLast
    <2>2. s # None
      BY LaneAssumption
    <2>3. Sent(q) \/ Done(q)
      <3>1. ASSUME Wrote PROVE q # worker.r
        BY <2>1, <3>1 DEF Wrote
      <3> QED
        BY <2>1, <3>1, OutFrom
    <2>4. CASE worker.r = s
      BY <1>0, <2>1, <2>3, <2>4, LineGrows DEF HandLast
    <2>5. CASE Took(s)
      <3>1. Asked(s)
        BY <1>0, <2>5, AskedOne DEF Took
      <3>2. Before(q, s)
        BY <1>0, <2>3, <3>1 DEF TakenFirst, Taken
      <3> QED
        BY <3>2, LineGrows
    <2> QED
      BY <2>1, <2>2, <2>4, <2>5, HandFrom
  <1>5. RanOrder'
    <2>r. \A i \in 1..Len(ran) : ran[i][1] \in Reqs /\ Done(ran[i][1])
      <3>1. \A i \in 1..Len(ran) : ran[i] \in Reqs \X Nat
        BY <1>0 DEF LaneTypes
      <3> QED
        BY <3>1 DEF Done
    <2>l. \A q \in Reqs : Done(q) => Lined(q)
      BY <1>0 DEF AllLined, Taken
    <2>1. SUFFICES ASSUME NEW i \in 1..Len(ran'), NEW j \in 1..Len(ran'), i < j,
                          NEW q, NEW s, s = ran'[i][1], q = ran'[j][1], Before(q, s)'
                   PROVE  caller'[q] \in {"unknown", "gone"}
      BY DEF RanOrder, Before
    <2>2. ASSUME i \in 1..Len(ran), j \in 1..Len(ran), ran'[i] = ran[i], ran'[j] = ran[j]
          PROVE  caller'[q] \in {"unknown", "gone"}
      <3>1. q \in Reqs /\ s \in Reqs /\ Done(q) /\ Done(s)
        BY <2>r, <2>1, <2>2
      <3>2. Before(q, s)
        BY <2>l, <2>1, <3>1, LineGrows
      <3>3. caller[q] \in {"unknown", "gone"}
        BY <1>0, <2>1, <2>2, <3>2 DEF RanOrder
      <3> QED
        BY <3>1, <3>3, LostStays
    <2>3. CASE UNCHANGED ran
      BY <2>1, <2>2, <2>3
    <2>4. ASSUME NEW c \in 1..Len(conns), NEW r \in Reqs, Served(c, r) PROVE caller'[q] \in {"unknown", "gone"}
      <3>0. /\ Len(ran') = Len(ran) + 1 /\ \A k \in 1..Len(ran) : ran'[k] = ran[k]
            /\ ran'[Len(ran) + 1][1] = r
        BY <2>4 DEF Served
      <3>1. i \in 1..Len(ran)
        BY <1>0, <2>1, <3>0
      <3>2. CASE j \in 1..Len(ran)
        BY <2>2, <3>0, <3>1, <3>2
      <3>3. CASE j \notin 1..Len(ran)
        <4>1. q = r
          BY <1>0, <2>1, <3>0, <3>3
        <4>2. s \in Reqs /\ Done(s)
          BY <2>r, <2>1, <3>0, <3>1
        <4>3. Sent(r) /\ ~Done(r)
          BY <1>0, <2>4, SentOne DEF Places, InPlace
        <4>4. Lined(r)
          BY <1>0, <4>3 DEF AllLined, Taken
        <4>5. Before(q, s)
          BY <2>l, <2>1, <4>1, <4>2, <4>4, LineGrows
        <4>6. worker.r # r
          <5>1. ASSUME worker.r = r PROVE Before(s, q)
            BY <1>0, <4>1, <4>2, <4>3, <5>1 DEF HandLast
          <5> QED
            BY <1>0, <4>5, <5>1, OneWay DEF Once
        <4>7. caller[r] \in {"unknown", "gone"}
          BY <1>0, <4>3, <4>6 DEF Places, InPlace
        <4> QED
          BY <4>1, <4>7, LostStays
      <3> QED
        BY <3>2, <3>3
    <2> QED
      BY <2>3, <2>4 DEF Step, Still, Skipped, Aside, Onward, Failed, Same, Wrote, Answered, Finished, Turned,
                        Enqueued, Took, Swapped, Push
  <1> QED
    BY <1>1, <1>2, <1>3, <1>4, <1>5 DEF InOrder

-----------------------------------------------------------------------------
(* The theorems.                                                           *)

(* Before anything is asked every place is empty.                          *)
LEMMA LaneInit == Init => LaneInv
  <1> SUFFICES ASSUME Init PROVE LaneInv
    OBVIOUS
  <1>0. PICK v \in Versions :
            /\ compat = v /\ version = v /\ wversion = v
            /\ queue = <<>> /\ line = <<>> /\ overtaken = {} /\ ran = <<>>
            /\ caller = [r \in Reqs |-> "idle"] /\ gated = [r \in Reqs |-> None] /\ got = [r \in Reqs |-> None]
            /\ worker = Resting /\ conn = 1 /\ owed = 0 /\ conns = <<Dialled(1)>> /\ daemons = <<v>>
    BY DEF Init
  <1>w. worker \in WorkerStates /\ worker.at = "take" /\ worker.r = None
    BY <1>0 DEF Resting, WorkerStates
  <1>e. None \notin Reqs /\ None \notin Nat
    BY LaneAssumption
  <1>c. /\ conns \in Seq(Conn) /\ Len(conns) = 1 /\ conns[1].daemon = 1
        /\ conns[1].inbox = <<>> /\ conns[1].lines = <<>>
    <2>1. Dialled(1) \in Conn
      BY DEF Dialled, Conn
    <2>2. conns = <<Dialled(1)>>
      BY <1>0
    <2>3. conns \in Seq(Conn) /\ Len(conns) = 1 /\ conns[1] = Dialled(1)
      BY <2>1, <2>2
    <2> QED
      BY <2>3 DEF Dialled
  <1>d. daemons \in Seq(Versions) /\ Len(daemons) = 1 /\ daemons[1] = v /\ daemons # <<>>
    BY <1>0
  <1>s. Len(queue) = 0 /\ Len(line) = 0 /\ Len(ran) = 0
    BY <1>0
  <1>1. LaneTypes
    BY <1>0, <1>w, <1>e, <1>c, <1>d DEF LaneTypes, Stages
  <1>p. \A r \in Reqs : ~Asked(r) /\ ~Sent(r) /\ ~Done(r) /\ ~Lined(r)
    BY <1>s, <1>c DEF Asked, Sent, Done, Lined
  <1>2. Places
    BY <1>p, <1>0, <1>w, <1>e DEF Places, InPlace
  <1>3. Once
    BY <1>s, <1>c DEF Once, AsksOnce, SentOnce, RanOnce, LinedOnce
  <1>4. AnswersDone
    BY <1>c DEF AnswersDone
  <1>5. InStep
    BY <1>w, <1>0, <1>c DEF InStep, Expects, Single, Quiet, Answer
  <1>6. SwapsFresh
    BY <1>s DEF SwapsFresh
  <1>7. VersionsKept
    <2>1. LastFit
      BY <1>0, <1>s DEF LastFit, VersionAt
    <2>2. ConnFit
      BY <1>0, <1>c, <1>d DEF ConnFit
    <2> QED
      BY <2>1, <2>2, <1>0, <1>s, <1>c, <1>w
         DEF VersionsKept, AdmittedFit, QueueFit, HandFit, SwapsFit, SentFit, RanFit
  <1>8. InOrder
    BY <1>p, <1>s, <1>w, <1>e DEF InOrder, AllLined, QueueOrder, TakenFirst, HandLast, RanOrder, Taken
  <1>9. AnswersMatch
    BY <1>0 DEF AnswersMatch
  <1> QED
    BY <1>1, <1>2, <1>3, <1>4, <1>5, <1>6, <1>7, <1>8, <1>9 DEF LaneInv

(* The lane stays in step: wherever gating, queueing, giving up, redials,  *)
(* lost connections, late answers and restarts take it, each request is in *)
(* one place, the worker's connection carries only what it waits for, and  *)
(* versions and order travel with the queue (command_lane.rs).             *)
THEOREM LaneSafe == Spec => []LaneInv
  <1>1. ASSUME LaneInv, [Next]_vars PROVE LaneInv'
    <2>1. Step
      BY <1>1, StepKinds
    <2> QED
      BY <1>1, <2>1, TypesKept, PlacesKept, OnceKept, AnswersDoneKept, InStepKept, SwapsFreshKept,
         VersionsStepKept, OrderStepKept, MatchKept DEF LaneInv
  <1> QED
    BY <1>1, LaneInit, PTL DEF Spec

(* A caller is only ever given the reply to its own request, although a    *)
(* reply names none (round_trip, settle).                                  *)
THEOREM RepliesMatch == Spec => []AnswersMatch
  <1>1. LaneInv => AnswersMatch
    BY DEF LaneInv
  <1> QED
    BY <1>1, LaneSafe, PTL

(* What a caller is told of its request holds: no daemon acts on a request *)
(* twice, or ever on one that was refused as unsent or withdrawn (send,    *)
(* admit, ask_each).                                                       *)
THEOREM ToldOutcomesHold == Spec => []RunsAsTold
  <1>1. ASSUME LaneInv PROVE RunsAsTold
    <2>0. LaneTypes /\ Places /\ RanOnce
      BY <1>1 DEF LaneInv, Once
    <2>1. ASSUME NEW r \in Reqs, caller[r] \in {"unsent", "withdrawn"} PROVE ~Done(r) /\ ~Sent(r)
      BY <2>0, <2>1 DEF Places, InPlace
    <2>2. ASSUME NEW r \in Reqs, caller[r] \in {"unsent", "withdrawn"}
          PROVE  /\ r \notin Ran
                 /\ \A c \in 1..Len(conns) : \A i \in 1..Len(conns[c].inbox) : conns[c].inbox[i] # r
      BY <2>1, <2>2 DEF Ran, Done, Sent
    <2> QED
      BY <2>0, <2>2 DEF RunsAsTold, RanOnce
  <1> QED
    BY <1>1, LaneSafe, PTL

(* Daemons act on requests in the order they were queued; one acted on     *)
(* after a later one is one whose caller was told that the outcome is      *)
(* unknown, or had left (Worker::run, read_reply).                         *)
THEOREM RequestsInOrder == Spec => []OrderKept
  <1>1. ASSUME LaneInv PROVE OrderKept
    <2>0. LaneTypes /\ Once /\ InOrder /\ Len(line) \in Nat
      BY <1>1 DEF LaneInv, LaneTypes
    <2>1. ASSUME NEW q \in Reqs, Lined(q) PROVE Place(q) \in 1..Len(line) /\ line[Place(q)] = q
      BY <2>1 DEF Lined, Place
    <2>2. \A i \in 1..Len(ran) : ran[i][1] \in Reqs /\ Lined(ran[i][1])
      <3>1. \A i \in 1..Len(ran) : ran[i] \in Reqs \X Nat
        BY <2>0 DEF LaneTypes
      <3>2. \A i \in 1..Len(ran) : ran[i][1] \in Reqs /\ Done(ran[i][1])
        BY <3>1 DEF Done
      <3> QED
        BY <2>0, <3>2 DEF InOrder, AllLined, Taken
    <2>3. SUFFICES ASSUME NEW i \in 1..Len(ran), NEW j \in 1..Len(ran), i < j,
                          Place(ran[i][1]) > Place(ran[j][1])
                   PROVE  caller[ran[j][1]] \in {"unknown", "gone"}
      BY DEF OrderKept
    <2>4. PICK q \in Reqs, s \in Reqs : q = ran[j][1] /\ s = ran[i][1] /\ Lined(q) /\ Lined(s)
      BY <2>2
    <2>5. PICK m \in 1..Len(line), n \in 1..Len(line) : m = Place(q) /\ n = Place(s) /\ line[m] = q /\ line[n] = s
      BY <2>1, <2>4
    <2>6. m < n
      BY <2>0, <2>3, <2>4, <2>5
    <2>7. Before(q, s)
      BY <2>5, <2>6 DEF Before
    <2> QED
      BY <2>0, <2>3, <2>4, <2>7 DEF InOrder, RanOrder
  <1> QED
    BY <1>1, LaneSafe, PTL

(* A request reaches only a daemon of the version it was gated for, unless *)
(* a whole restart overtook its submit between admit and the queue         *)
(* (admit, finish_swap, redial).                                           *)
THEOREM VersionsGated == Spec => []GatedForItsDaemon
  <1>1. ASSUME LaneInv PROVE GatedForItsDaemon
    <2>1. RanFit
      BY <1>1 DEF LaneInv, VersionsKept
    <2> QED
      BY <2>1 DEF RanFit, Fits, GatedForItsDaemon
  <1> QED
    BY <1>1, LaneSafe, PTL

Flags ==
    /\ redials \in BOOLEAN /\ swapping \in BOOLEAN /\ up \in BOOLEAN
    /\ restart \in {"none", "begun", "killed", "spawned", "published", "swapped"}

(* A restart's flags stay flags.                                           *)
LEMMA FlagsKept == ASSUME Flags, [Next]_vars PROVE Flags'
  <1> USE DEF Flags
  <1>1. CASE Restart
    BY <1>1 DEF Restart, BeginSwap, StopDaemon, Publish, FinishSwap, EndSwap, AbortSwap, SpawnDaemon,
                ReplacedUnderneath, far, gate
  <1>2. ASSUME UNCHANGED <<redials, swapping, restart, up>> PROVE Flags'
    BY <1>2
  <1>3. CASE Work
    BY <1>2, <1>3 DEF Work, TakeSwap, TakeAsk, SkipPush, Settle, Redial, Write, Read, gate, far
  <1>4. CASE UNCHANGED vars
    BY <1>2, <1>4 DEF vars
  <1>5. ASSUME NEW r \in Reqs, Gate(r) \/ Admit(r) \/ Enqueue(r) \/ GiveUp(r) PROVE Flags'
    BY <1>2, <1>5 DEF Gate, Admit, Enqueue, GiveUp, gate, far
  <1>6. ASSUME NEW c \in 1..Len(conns), Serve(c) \/ Push(c) \/ Lose(c) PROVE Flags'
    BY <1>2, <1>6 DEF Serve, Push, Lose, gate
  <1> QED
    BY <1>1, <1>3, <1>4, <1>5, <1>6 DEF Next

(* Every variable of the lane keeps its type; what is on a connection is   *)
(* lines, and the worker's connection is one that was opened.              *)
THEOREM LaneTypesHold == Spec => []TypeOK
  <1>1. Init => Flags
    BY DEF Init, Flags
  <1>2. ASSUME LaneInv, Flags PROVE TypeOK
    <2>0. LaneTypes
      BY <1>2 DEF LaneInv
    <2>1. \A i \in 1..Len(queue) : queue[i].job \in {"ask", "swap"}
      <3>1. \A i \in 1..Len(queue) : queue[i] \in Jobs
        BY <2>0 DEF LaneTypes
      <3> QED
        BY <3>1, JobKinds
    <2>2. \A c \in 1..Len(conns) : \A i \in 1..Len(conns[c].lines) : conns[c].lines[i] \in Lines
      <3> SUFFICES ASSUME NEW c \in 1..Len(conns), NEW i \in 1..Len(conns[c].lines)
                   PROVE  conns[c].lines[i] \in Lines
        OBVIOUS
      <3>1. conns[c] \in Conn
        BY <2>0 DEF LaneTypes
      <3>2. conns[c].lines \in Seq(Lines)
        BY <3>1 DEF Conn
      <3> QED
        BY <3>2
    <2> QED
      BY <1>2, <2>0, <2>1, <2>2 DEF LaneTypes, Flags, TypeOK, Stages, WorkerStates
  <1> QED
    BY <1>1, <1>2, FlagsKept, LaneSafe, PTL DEF Spec
=============================================================================
