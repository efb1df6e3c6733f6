---------------------------- MODULE CommandLane ----------------------------
(***************************************************************************)
(* One of the desktop host's request/reply connections to a daemon         *)
(* (command_lane.rs), and the restart that swaps the daemon underneath it  *)
(* (reconnect_swapping in session.rs).  A command gates its request,       *)
(* queues it, and waits; one worker thread writes a request, reads its one *)
(* reply and only then takes the next job.  Replies carry no id: which     *)
(* caller an answer belongs to is a matter of order alone.                 *)
(*                                                                         *)
(* A lane to the local daemon redials a connection it had to give up; an   *)
(* ssh link's cannot, and counts the replies it is still owed instead.     *)
(* The daemon is modelled by what the lane relies on: it serves each       *)
(* connection on a thread of its own, in order, and answers once.          *)
(***************************************************************************)
EXTENDS Naturals, Sequences

CONSTANTS Reqs,         \* requests, each submitted at most once
          Versions,     \* protocol versions a daemon may speak
          None,
          MaxRestarts,  \* bound: daemons after the first
          MaxConns,     \* bound: connections opened
          MaxNoise      \* bound: unsolicited pushes, oversized replies, lost connections

ASSUME LaneAssumption == /\ None \notin Reqs \cup Nat
                         /\ MaxRestarts \in Nat /\ MaxConns \in Nat \ {0} /\ MaxNoise \in Nat

VARIABLES
    redials,    \* Shared.redial: TRUE for the local daemon, FALSE over ssh
    compat,     \* DaemonCompatState: the version the app goes by
    version,    \* Shared.version
    swapping,   \* Shared.swapping
    restart,    \* how far a restart of the daemon has come
    queue,      \* the worker's jobs
    caller,     \* where the command that sends each request is
    gated,      \* the version each request was gated against
    worker,     \* [at, r, fresh]: what the worker does, for which request
    conn,       \* Worker.conn: a connection, or None
    owed,       \* Worker.owed
    wversion,   \* Worker.version
    conns,      \* every connection: its daemon, whether it is open at each
                \* end, the requests not yet served and the lines not read
    daemons,    \* the version of every daemon started, in order
    up,         \* the latest daemon accepts connections
    noise,      \* pushes, oversized replies and lost connections so far
    ran,        \* history: the requests daemons acted on, in order
    got,        \* history: the request whose reply each caller was given
    line,       \* history: requests in the order they were queued
    overtaken   \* history: requests admitted before a swap and not queued by then

vars == <<redials, compat, version, swapping, restart, queue, caller, gated, worker,
          conn, owed, wversion, conns, daemons, up, noise, ran, got, line, overtaken>>

gate    == <<compat, version, swapping, restart>>
lane    == <<conn, owed, wversion>>
callers == <<queue, caller, gated, line, overtaken>>
history == <<line, overtaken>>
far     == <<daemons, up, noise, ran>>

Resting  == [at |-> "take", r |-> None, fresh |-> FALSE]
Dialled(g) == [daemon |-> g, open |-> TRUE, kept |-> TRUE, inbox |-> <<>>, lines |-> <<>>]
Current  == Len(daemons)

\* What the caller of a request was told: its reply, that it was never
\* written, or an error that leaves open whether the daemon acted on it.
Told == {"answered", "unsent", "unknown"}
Ask(r) == [job |-> "ask", r |-> r, conn |-> None, version |-> None]
Swap(c, v) == [job |-> "swap", r |-> None, conn |-> c, version |-> v]

Lines == [kind : {"reply", "long", "push"}, r : Reqs \cup {None}]

TypeOK ==
    /\ redials \in BOOLEAN /\ swapping \in BOOLEAN /\ up \in BOOLEAN
    /\ compat \in Versions /\ version \in Versions /\ wversion \in Versions
    /\ restart \in {"none", "begun", "killed", "spawned", "published", "swapped"}
    /\ \A i \in 1..Len(queue) : queue[i].job \in {"ask", "swap"}
    /\ caller \in [Reqs -> {"idle", "gating", "admitted", "waiting", "withdrawn", "gone"} \cup Told]
    /\ gated \in [Reqs -> Versions \cup {None}]
    /\ worker \in [at : {"take", "settle", "dial", "write", "read"},
                   r : Reqs \cup {None}, fresh : BOOLEAN]
    /\ conn \in 1..Len(conns) \cup {None}
    /\ owed \in 0..1
    /\ \A c \in 1..Len(conns) : \A i \in 1..Len(conns[c].lines) : conns[c].lines[i] \in Lines
    /\ got \in [Reqs -> Reqs \cup {None}]

Init ==
    \E v \in Versions :
    /\ redials \in BOOLEAN
    /\ compat = v /\ version = v /\ wversion = v
    /\ swapping = FALSE /\ restart = "none"
    /\ queue = <<>> /\ line = <<>> /\ overtaken = {}
    /\ caller = [r \in Reqs |-> "idle"]
    /\ gated = [r \in Reqs |-> None]
    /\ worker = Resting
    /\ conn = 1 /\ owed = 0
    /\ conns = <<Dialled(1)>>
    /\ daemons = <<v>> /\ up = TRUE /\ noise = 0
    /\ ran = <<>>
    /\ got = [r \in Reqs |-> None]

-----------------------------------------------------------------------------
(* A command.                                                              *)

\* lanes_for reads the verdict the request is gated against.
Gate(r) ==
    /\ caller[r] = "idle"
    /\ gated' = [gated EXCEPT ![r] = compat]
    /\ caller' = [caller EXCEPT ![r] = "gating"]
    /\ UNCHANGED <<redials, gate, queue, history, worker, lane, conns, far, got>>

\* Mutant: a request is admitted whatever version its verdict describes.
AdmitAny(r) ==
    /\ caller[r] = "gating"
    /\ caller' = [caller EXCEPT ![r] = IF swapping THEN "unsent" ELSE "admitted"]
    /\ UNCHANGED <<redials, gate, queue, history, gated, worker, lane, conns, far, got>>

\* admit refuses it while a restart swaps the daemon, or once it has.
Admit(r) ==
    /\ caller[r] = "gating"
    /\ caller' = [caller EXCEPT ![r] =
           IF swapping \/ gated[r] # version THEN "unsent" ELSE "admitted"]
    /\ UNCHANGED <<redials, gate, queue, history, gated, worker, lane, conns, far, got>>

\* submit_within queues it.
Enqueue(r) ==
    /\ caller[r] = "admitted"
    /\ queue' = Append(queue, Ask(r))
    /\ line' = Append(line, r)
    /\ UNCHANGED overtaken
    /\ caller' = [caller EXCEPT ![r] = "waiting"]
    /\ UNCHANGED <<redials, gate, gated, worker, lane, conns, far, got>>

Queued == {queue[i] : i \in 1..Len(queue)}
Left == {"withdrawn", "gone"}

\* ask_each drops an ask that missed its budget, and its reply with it.
GiveUp(r) ==
    /\ caller[r] = "waiting"
    /\ caller' = [caller EXCEPT ![r] = IF Ask(r) \in Queued THEN "withdrawn" ELSE "gone"]
    /\ UNCHANGED <<redials, gate, queue, history, gated, worker, lane, conns, far, got>>

-----------------------------------------------------------------------------
(* The worker.                                                             *)

\* reply.send: nobody hears it if the caller gave up.
Tell(r, what, reply) ==
    /\ caller' = [caller EXCEPT ![r] = IF @ \in Left THEN @ ELSE what]
    /\ got' = [got EXCEPT ![r] = IF caller[r] \in Left THEN @ ELSE reply]
    /\ worker' = Resting

Fail(what) == Tell(worker.r, what, None)

\* The worker closes its end; a daemon may still read what was written.
Hangup(c) == [conns EXCEPT ![c].kept = FALSE]

Drop == /\ conns' = Hangup(conn)
        /\ conn' = None /\ owed' = 0 /\ UNCHANGED wversion

TakeSwap ==
    LET j == Head(queue) IN
    /\ worker.at = "take" /\ queue # <<>> /\ j.job = "swap"
    /\ conns' = IF conn = None THEN conns ELSE Hangup(conn)
    /\ conn' = j.conn /\ owed' = 0 /\ wversion' = j.version
    /\ queue' = Tail(queue)
    /\ UNCHANGED <<redials, gate, caller, gated, history, worker, far, got>>

\* Mutant: the job queued last is taken first.
TakeAskNewest ==
    LET j == queue[Len(queue)] IN
    /\ worker.at = "take" /\ queue # <<>> /\ j.job = "ask"
    /\ queue' = SubSeq(queue, 1, Len(queue) - 1)
    /\ \/ caller[j.r] \in Left /\ UNCHANGED <<caller, got, worker>>
       \/ caller[j.r] \notin Left /\ swapping /\ Tell(j.r, "unsent", None)
       \/ /\ caller[j.r] \notin Left /\ ~swapping
          /\ worker' = [at |-> "settle", r |-> j.r, fresh |-> FALSE]
          /\ UNCHANGED <<caller, got>>
    /\ UNCHANGED <<redials, gate, gated, history, lane, conns, far>>

\* A request nobody waits for is dropped, and one that was queued before a
\* restart is refused while it lasts.
TakeAsk ==
    LET r == Head(queue).r IN
    /\ worker.at = "take" /\ queue # <<>> /\ Head(queue).job = "ask"
    /\ queue' = Tail(queue)
    /\ \/ caller[r] \in Left /\ UNCHANGED <<caller, got, worker>>
       \/ caller[r] \notin Left /\ swapping /\ Tell(r, "unsent", None)
       \/ /\ caller[r] \notin Left /\ ~swapping
          /\ worker' = [at |-> "settle", r |-> r, fresh |-> FALSE]
          /\ UNCHANGED <<caller, got>>
    /\ UNCHANGED <<redials, gate, gated, history, lane, conns, far>>


\* The next line on the worker's connection: a push is passed over.
Line1 == Head(conns[conn].lines)
NextLine == [conns EXCEPT ![conn].lines = Tail(@)]
HasLine(kind) == conn # None /\ conns[conn].lines # <<>> /\ Line1.kind = kind
AtEnd == conn # None /\ conns[conn].lines = <<>> /\ ~conns[conn].open
Silent == conn # None /\ conns[conn].lines = <<>> /\ conns[conn].open

SkipPush ==
    /\ worker.at \in {"settle", "read"}
    /\ worker.at = "settle" => owed > 0
    /\ HasLine("push")
    /\ conns' = NextLine
    /\ UNCHANGED <<redials, gate, callers, worker, lane, far, got>>

Proceed(at) == worker' = [worker EXCEPT !.at = at] /\ UNCHANGED <<caller, got>>

\* Mutant: a late answer is left on the connection of an ssh link.
SettleNothing ==
    /\ worker.at = "settle"
    /\ Proceed(IF conn = None THEN "dial" ELSE "write")
    /\ UNCHANGED <<redials, gate, queue, gated, history, conns, lane, far>>

\* Mutant: a link waits for the answers it is owed however long they take.
SettleForEver ==
    /\ worker.at = "settle"
    /\ \/ /\ owed = 0 \/ conn = None
          /\ Proceed(IF conn = None THEN "dial" ELSE "write")
          /\ owed' = 0 /\ UNCHANGED <<conns, conn, wversion>>
       \/ /\ owed > 0 /\ HasLine("reply")
          /\ owed' = owed - 1 /\ conns' = NextLine
          /\ UNCHANGED <<caller, got, worker, conn, wversion>>
       \/ /\ owed > 0 /\ (AtEnd \/ HasLine("long"))
          /\ Fail("unsent") /\ Drop
    /\ UNCHANGED <<redials, gate, queue, gated, history, far>>

\* settle reads off the answers that are still owed before anything is
\* written, and refuses the request when they do not come.
Settle ==
    /\ worker.at = "settle"
    /\ \/ /\ owed = 0 \/ conn = None
          /\ Proceed(IF conn = None THEN "dial" ELSE "write")
          /\ owed' = 0 /\ UNCHANGED <<conns, conn, wversion>>
       \/ /\ owed > 0 /\ HasLine("reply")
          /\ owed' = owed - 1 /\ conns' = NextLine
          /\ UNCHANGED <<caller, got, worker, conn, wversion>>
       \/ /\ owed > 0 /\ (AtEnd \/ HasLine("long"))
          /\ Fail("unsent") /\ Drop
       \/ /\ owed > 0 /\ Silent
          /\ Fail("unsent") /\ UNCHANGED <<conns, lane>>
    /\ UNCHANGED <<redials, gate, queue, gated, history, far>>

\* redial: version probe, challenge and Hello on a new connection.  It may
\* fail at any of them; a daemon of another version is never written to.
Redial ==
    /\ worker.at = "dial"
    /\ \/ /\ redials /\ up /\ daemons[Current] = wversion /\ Len(conns) < MaxConns
          /\ conns' = Append(conns, Dialled(Current))
          /\ conn' = Len(conns) + 1 /\ owed' = 0
          /\ worker' = [worker EXCEPT !.at = "write", !.fresh = TRUE]
          /\ UNCHANGED <<caller, got, wversion>>
       \/ Fail("unsent") /\ UNCHANGED <<conns, lane>>
    /\ UNCHANGED <<redials, gate, queue, gated, history, far>>

\* send: a write to a closed connection fails whole, and is tried once more
\* on a fresh one.
Write ==
    /\ worker.at = "write"
    /\ \/ /\ conns[conn].open
          /\ conns' = [conns EXCEPT ![conn].inbox = Append(@, worker.r)]
          /\ Proceed("read") /\ UNCHANGED lane
       \/ ~conns[conn].open /\ worker.fresh /\ Fail("unsent") /\ Drop
       \/ ~conns[conn].open /\ ~worker.fresh /\ Proceed("dial") /\ Drop
    /\ UNCHANGED <<redials, gate, queue, gated, history, far>>

\* Mutant: a request is sent again when its reply could not be read.
ReadRetrying ==
    /\ worker.at = "read"
    /\ \/ /\ HasLine("reply")
          /\ Tell(worker.r, "answered", Line1.r)
          /\ conns' = NextLine /\ UNCHANGED lane
       \/ /\ AtEnd \/ Silent
          /\ Drop /\ Proceed("dial")
    /\ UNCHANGED <<redials, gate, queue, gated, history, far>>

\* read_reply: an oversized line is an error that leaves the connection in
\* step; a deadline costs a local lane its connection and an ssh link a
\* reply it is owed; anything else costs the connection.
Read ==
    /\ worker.at = "read"
    /\ \/ /\ HasLine("reply")
          /\ Tell(worker.r, "answered", Line1.r)
          /\ conns' = NextLine /\ UNCHANGED lane
       \/ /\ HasLine("long")
          /\ Fail("unknown")
          /\ conns' = NextLine /\ UNCHANGED lane
       \/ /\ Silent /\ ~redials /\ Fail("unknown")
          /\ owed' = owed + 1 /\ UNCHANGED <<conns, conn, wversion>>
       \/ AtEnd /\ Fail("unknown") /\ Drop
       \/ Silent /\ redials /\ Fail("unknown") /\ Drop
    /\ UNCHANGED <<redials, gate, queue, gated, history, far>>

Work == TakeSwap \/ TakeAsk \/ SkipPush \/ Settle \/ Redial \/ Write \/ Read

-----------------------------------------------------------------------------
(* The daemon, external to the lane.                                       *)

\* A connection's thread acts on its next request and answers it, even when
\* the app has hung up meanwhile: then nobody reads the answer.
Serve(c) ==
    LET r == Head(conns[c].inbox) IN
    /\ conns[c].open /\ conns[c].inbox # <<>>
    /\ ran' = Append(ran, <<r, conns[c].daemon>>)
    /\ \E long \in BOOLEAN :
          /\ long => noise < MaxNoise
          /\ noise' = noise + (IF long THEN 1 ELSE 0)
          /\ conns' = [conns EXCEPT ![c].inbox = Tail(@),
                          ![c].lines = IF conns[c].kept
                                       THEN Append(@, [kind |-> IF long THEN "long" ELSE "reply", r |-> r]) ELSE @]
    /\ UNCHANGED <<redials, gate, callers, worker, lane, daemons, up, got>>

\* A daemon from before v51 pushes to command connections too.
Push(c) ==
    /\ noise < MaxNoise /\ conns[c].open /\ conns[c].kept
    /\ conns' = [conns EXCEPT ![c].lines = Append(@, [kind |-> "push", r |-> None])]
    /\ noise' = noise + 1
    /\ UNCHANGED <<redials, gate, callers, worker, lane, daemons, up, ran, got>>

Shut(c) == [conns[c] EXCEPT !.open = FALSE, !.inbox = <<>>]

\* A connection is lost: an ssh bridge ends, a socket is closed.
Lose(c) ==
    /\ noise < MaxNoise /\ conns[c].open
    /\ conns' = [conns EXCEPT ![c] = Shut(c)]
    /\ noise' = noise + 1
    /\ UNCHANGED <<redials, gate, callers, worker, lane, daemons, up, ran, got>>

AllShut == [c \in 1..Len(conns) |-> IF conns[c].daemon = Current THEN Shut(c) ELSE conns[c]]

\* The local daemon is replaced by somebody else, with no swap of the lane.
ReplacedUnderneath(v) ==
    /\ redials /\ up /\ restart = "none" /\ Current <= MaxRestarts
    /\ daemons' = Append(daemons, v)
    /\ conns' = AllShut
    /\ UNCHANGED <<redials, gate, callers, worker, lane, up, noise, ran, got>>

-----------------------------------------------------------------------------
(* reconnect: the human restarts the local daemon.                         *)

BeginSwap ==
    /\ redials /\ restart = "none" /\ Current <= MaxRestarts
    /\ swapping' = TRUE /\ restart' = "begun"
    /\ UNCHANGED <<redials, compat, version, callers, worker, lane, conns, far, got>>

StopDaemon ==
    /\ restart = "begun"
    /\ up' = FALSE /\ conns' = AllShut /\ restart' = "killed"
    /\ UNCHANGED <<redials, compat, version, swapping, callers, worker, lane, daemons, noise, ran, got>>

SpawnDaemon(v) ==
    /\ restart = "killed"
    /\ daemons' = Append(daemons, v) /\ up' = TRUE /\ restart' = "spawned"
    /\ UNCHANGED <<redials, compat, version, swapping, callers, worker, lane, conns, noise, ran, got>>

\* The verdict is refreshed before a connection is repointed.
Publish ==
    /\ restart = "spawned"
    /\ compat' = daemons[Current] /\ restart' = "published"
    /\ UNCHANGED <<redials, version, swapping, callers, worker, lane, conns, far, got>>

\* finish_swap: the new connection rides the queue, behind what is in it.
FinishSwap ==
    /\ restart = "published" /\ Len(conns) < MaxConns
    /\ version' = daemons[Current]
    /\ conns' = Append(conns, Dialled(Current))
    /\ queue' = Append(queue, Swap(Len(conns) + 1, daemons[Current]))
    /\ restart' = "swapped"
    /\ overtaken' = overtaken \cup {r \in Reqs : caller[r] = "admitted"}
    /\ UNCHANGED <<redials, compat, swapping, caller, gated, line, worker, lane, far, got>>

EndSwap ==
    /\ restart = "swapped"
    /\ swapping' = FALSE /\ restart' = "none"
    /\ UNCHANGED <<redials, compat, version, callers, worker, lane, conns, far, got>>

\* abort_swap: the restart failed at a step on the way.
AbortSwap ==
    /\ restart \in {"begun", "killed", "spawned", "published"}
    /\ swapping' = FALSE /\ restart' = "none"
    /\ UNCHANGED <<redials, compat, version, callers, worker, lane, conns, far, got>>

Restart == \/ BeginSwap \/ StopDaemon \/ Publish \/ FinishSwap \/ EndSwap \/ AbortSwap
           \/ \E v \in Versions : SpawnDaemon(v) \/ ReplacedUnderneath(v)

Next ==
    \/ \E r \in Reqs : Gate(r) \/ Admit(r) \/ Enqueue(r) \/ GiveUp(r)
    \/ Work
    \/ \E c \in 1..Len(conns) : Serve(c) \/ Push(c) \/ Lose(c)
    \/ Restart

Spec == Init /\ [][Next]_vars

\* The worker is a thread, and every read of its has a deadline.
FairSpec == Spec /\ WF_vars(Work)

-----------------------------------------------------------------------------
(* A caller is only ever given the reply to its own request, although a    *)
(* reply names none: late, oversized and unsolicited lines, deadlines,     *)
(* redials and restarts never put the lane out of step (round_trip,        *)
(* settle).                                                                *)
AnswersMatch == \A r \in Reqs : got[r] \in {None, r}

Ran == {ran[i][1] : i \in 1..Len(ran)}

(* What a caller is told of its request holds: no request is acted on      *)
(* twice, since only a write that failed is tried again (send), and one    *)
(* that was refused as unsent, or withdrawn while it was queued, no daemon *)
(* acts on, then or later.                                                 *)
RunsAsTold ==
    /\ \A i, j \in 1..Len(ran) : ran[i][1] = ran[j][1] => i = j
    /\ \A r \in Reqs : caller[r] \in {"unsent", "withdrawn"} =>
        /\ r \notin Ran
        /\ \A c \in 1..Len(conns) : \A i \in 1..Len(conns[c].inbox) : conns[c].inbox[i] # r

Place(r) == CHOOSE i \in 1..Len(line) : line[i] = r

(* Requests are acted on in the order they were queued.  One that is acted *)
(* on after a later one is one the lane gave up on: its caller was told    *)
(* that the outcome is not known, or had left.                             *)
OrderKept ==
    \A i, j \in 1..Len(ran) :
        i < j /\ Place(ran[i][1]) > Place(ran[j][1]) => caller[ran[j][1]] \in {"unknown", "gone"}

(* A request reaches only a daemon of the version it was gated for, unless *)
(* a whole restart overtook its submit between admit and the queue, and    *)
(* put its swap ahead of it: the two are not one step.                     *)
GatedForItsDaemon ==
    \A i \in 1..Len(ran) :
        LET r == ran[i][1] IN daemons[ran[i][2]] = gated[r] \/ r \in overtaken

(* Every request that was queued ends: whatever the daemon does, its       *)
(* caller is told something, or has left.                                  *)
EveryRequestEnds == \A r \in Reqs : caller[r] = "waiting" ~> caller[r] \in Told \cup Left
=============================================================================
