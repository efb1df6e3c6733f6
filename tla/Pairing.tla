------------------------------ MODULE Pairing ------------------------------
(***************************************************************************)
(* Pairing a Device: the one-time secret of the QR on the desk's screen    *)
(* (begin_pairing), the handshakes that Devices run on it (pair_over), the *)
(* wait of each for the human (await_decision, give_up) and the requests   *)
(* that end it: Confirm, Reject, a new pairing, Revoke all.  Each request  *)
(* is served by a thread of the daemon and takes its locks (the offer, the *)
(* handshakes that wait, the trust store) one after another, never two at  *)
(* once, so threads interleave between them.                               *)
(*                                                                         *)
(* Cryptography is its outcome: a handshake runs through only on the secret*)
(* and the key of the QR the Device scanned.                               *)
(***************************************************************************)
EXTENDS Naturals, FiniteSets

CONSTANTS Attempts,   \* streams on which a Device asks to be paired
          Phones,     \* Devices, by their key
          Paired,     \* those that were paired before
          Desks,      \* daemon threads that serve the desk's requests
          Cap,        \* TrustStore::device_cap
          Turns,      \* give_up's turns
          MaxPresses, \* bound: presses of "Pair a device" and "Revoke all", together
          None

ASSUME PairingAssumption ==
    /\ Cap \in Nat /\ Turns \in Nat \ {0} /\ MaxPresses \in Nat
    /\ Paired \subseteq Phones /\ Attempts \cap Phones = {} /\ None \notin Attempts \cup Phones

VARIABLES
    key,      \* the daemon's static key, by how often it was rotated
    rows,     \* the trust store's row of each Device
    offer,    \* pending_offer
    minted,   \* offers minted so far
    waiting,  \* pending_pairings: by device id, the handshake that waits
    pc, from, secret, under, id, mail, turn, \* of each handshake
    verdict,  \* what its Device is told
    desk,     \* what each thread of the desk's is about
    wrote,    \* history: handshakes a row was written for
    late,     \* history: handshakes that ran out of give_up's turns
    crossed   \* history: handshakes on their way while Revoke all was served

handVars == <<pc, from, secret, under, id, mail, turn, verdict>>
vars == <<key, rows, offer, minted, waiting, handVars, desk, wrote, late, crossed>>

Ids == Attempts \cup Phones
NoOffer == [n |-> 0, key |-> 0, expired |-> FALSE]
Idle == [do |-> "idle", id |-> None, who |-> None, n |-> 0, key |-> 0]
Ended == {"done", "failed"}

TypeOK ==
    /\ key \in 0..MaxPresses /\ minted \in 0..MaxPresses
    /\ rows \in [Phones -> [id : Ids \cup {None}, trusted : BOOLEAN, by : Attempts \cup {None}]]
    /\ offer \in [n : 0..MaxPresses, key : 0..MaxPresses, expired : BOOLEAN]
    /\ waiting \in [Ids -> Attempts \cup {None}]
    /\ pc \in [Attempts -> {"new", "shaking", "spent", "named", "waiting", "leaving", "asking"} \cup Ended]
    /\ from \in [Attempts -> Phones \cup {None}]
    /\ secret \in [Attempts -> 0..MaxPresses] /\ under \in [Attempts -> 0..MaxPresses]
    /\ id \in [Attempts -> Ids \cup {None}]
    /\ mail \in [Attempts -> {"none", "confirmed", "rejected"}]
    /\ turn \in [Attempts -> 0..(Turns - 1)]
    /\ verdict \in [Attempts -> {"none", "paired", "rejected", "expired"}]
    /\ desk \in [Desks -> [do : {"idle", "mint", "clear", "unoffer", "clearAll", "write", "putBack", "tell", "refuse"},
                           id : Ids \cup {None}, who : Attempts \cup {None}, n : 0..MaxPresses, key : 0..MaxPresses]]
    /\ wrote \subseteq Attempts /\ late \subseteq Attempts /\ crossed \subseteq Attempts
    /\ \A i \in Ids : waiting[i] # None => id[waiting[i]] = i

Init ==
    /\ key = 0 /\ minted = 0 /\ offer = NoOffer
    /\ rows = [p \in Phones |-> [id |-> IF p \in Paired THEN p ELSE None, trusted |-> p \in Paired, by |-> None]]
    /\ waiting = [i \in Ids |-> None]
    /\ pc = [a \in Attempts |-> "new"]
    /\ from = [a \in Attempts |-> None]
    /\ secret = [a \in Attempts |-> 0] /\ under = [a \in Attempts |-> 0]
    /\ id = [a \in Attempts |-> None]
    /\ mail = [a \in Attempts |-> "none"]
    /\ turn = [a \in Attempts |-> 0]
    /\ verdict = [a \in Attempts |-> "none"]
    /\ desk = [t \in Desks |-> Idle]
    /\ wrote = {} /\ late = {} /\ crossed = {}

-----------------------------------------------------------------------------
(* A handshake, on the thread that holds the Device's stream.              *)

Go(a, place) == pc' = [pc EXCEPT ![a] = place]

\* Told: the verdict is sealed and sent, and the stream closed.
Say(a, what) ==
    /\ Go(a, "done")
    /\ verdict' = [verdict EXCEPT ![a] = what]
    /\ turn' = [turn EXCEPT ![a] = 0]

\* The stream is closed, and nothing of the handshake is kept.
Close(a) ==
    /\ Go(a, "failed")
    /\ from' = [from EXCEPT ![a] = None]
    /\ secret' = [secret EXCEPT ![a] = 0]
    /\ under' = [under EXCEPT ![a] = 0]

deskVars == <<desk, wrote, crossed>>

\* The stream is taken while an offer stands and an app is connected; the
\* offer and the keys are copied out, and the handshake runs on the copies.
Open(a, p) ==
    /\ pc[a] = "new" /\ offer.n # 0 /\ ~offer.expired
    /\ \/ /\ offer.key = key
          /\ Go(a, "shaking")
          /\ from' = [from EXCEPT ![a] = p]
          /\ secret' = [secret EXCEPT ![a] = offer.n]
          /\ under' = [under EXCEPT ![a] = key]
       \/ offer.key # key /\ Close(a)
    /\ UNCHANGED <<key, rows, offer, minted, waiting, id, mail, turn, verdict, deskVars, late>>

\* The handshake, the acknowledgement or the trust store fails, or takes too
\* long; what was spent stays spent.
Fail(a) ==
    /\ pc[a] \in {"shaking", "spent"}
    /\ Close(a)
    /\ UNCHANGED <<key, rows, offer, minted, waiting, id, mail, turn, verdict, deskVars, late>>

\* Mutant: the secret was there when the handshake began.
SpendAsRead(a) ==
    /\ pc[a] = "shaking"
    /\ Go(a, "spent")
    /\ offer' = IF offer.n = secret[a] THEN NoOffer ELSE offer
    /\ UNCHANGED <<key, rows, minted, waiting, from, secret, under, id, mail, turn, verdict, deskVars, late>>

\* The handshake completed: the secret is spent if it is still the one on
\* offer, and the handshake goes on if it is in time.
Spend(a) ==
    /\ pc[a] = "shaking"
    /\ offer' = IF offer.n = secret[a] THEN NoOffer ELSE offer
    /\ IF offer.n = secret[a] /\ ~offer.expired
       THEN Go(a, "spent") /\ UNCHANGED <<from, secret, under>>
       ELSE Close(a)
    /\ UNCHANGED <<key, rows, minted, waiting, id, mail, turn, verdict, deskVars, late>>

\* device_id_for: the id of the Device's row, a new one if it has none.
Name(a) ==
    /\ pc[a] = "spent"
    /\ id' = [id EXCEPT ![a] = IF rows[from[a]].id = None THEN a ELSE rows[from[a]].id]
    /\ Go(a, "named")
    /\ UNCHANGED <<key, rows, offer, minted, waiting, from, secret, under, mail, turn, verdict, deskVars, late>>

\* The handshake waits for the human, in the place of an earlier one of the
\* same Device's, and the desk is told.
Ask(a) ==
    /\ pc[a] = "named"
    /\ waiting' = [waiting EXCEPT ![id[a]] = a]
    /\ Go(a, "waiting")
    /\ UNCHANGED <<key, rows, offer, minted, from, secret, under, id, mail, turn, verdict, deskVars, late>>

\* The channel's other end: with the entry, or in a request's hands.
Held(a) == (\E i \in Ids : waiting[i] = a) \/ (\E t \in Desks : desk[t].who = a)

\* await_decision, or a turn of give_up: the answer, or that none can come.
Hear(a) ==
    /\ pc[a] \in {"waiting", "asking"}
    /\ \/ mail[a] = "confirmed" /\ Say(a, "paired")
       \/ mail[a] = "rejected" /\ Say(a, "rejected")
       \/ mail[a] = "none" /\ ~Held(a) /\ Say(a, "expired")
    /\ UNCHANGED <<key, rows, offer, minted, waiting, from, secret, under, id, mail, deskVars, late>>

\* Two minutes are up, remote access went, or the Device hung up.
GiveUp(a) ==
    /\ pc[a] = "waiting" /\ mail[a] = "none" /\ Held(a)
    /\ Go(a, "leaving")
    /\ UNCHANGED <<key, rows, offer, minted, waiting, from, secret, under, id, mail, turn, verdict, deskVars, late>>

\* Mutant: whatever waits under the Device's id is withdrawn.
WithdrawById(a) ==
    /\ pc[a] = "leaving"
    /\ IF waiting[id[a]] # None
       THEN waiting' = [waiting EXCEPT ![id[a]] = None] /\ Say(a, "expired")
       ELSE Go(a, "asking") /\ UNCHANGED <<waiting, verdict, turn>>
    /\ UNCHANGED <<key, rows, offer, minted, from, secret, under, id, mail, deskVars, late>>

\* withdraw_pairing, by ticket; not found, the desk has it.
Withdraw(a) ==
    /\ pc[a] = "leaving"
    /\ IF waiting[id[a]] = a
       THEN waiting' = [waiting EXCEPT ![id[a]] = None] /\ Say(a, "expired")
       ELSE Go(a, "asking") /\ UNCHANGED <<waiting, verdict, turn>>
    /\ UNCHANGED <<key, rows, offer, minted, from, secret, under, id, mail, deskVars, late>>

\* Mutant: the desk's answer is waited for as long as it takes.
NotYetForEver(a) ==
    /\ pc[a] = "asking" /\ mail[a] = "none" /\ Held(a)
    /\ Go(a, "leaving")
    /\ UNCHANGED <<key, rows, offer, minted, waiting, from, secret, under, id, mail, turn, verdict, deskVars, late>>

\* No answer within the turn: another, or the Device is told all the same.
NotYet(a) ==
    /\ pc[a] = "asking" /\ mail[a] = "none" /\ Held(a)
    /\ \/ /\ turn[a] + 1 < Turns
          /\ turn' = [turn EXCEPT ![a] = @ + 1]
          /\ Go(a, "leaving") /\ UNCHANGED <<verdict, late>>
       \/ /\ turn[a] + 1 = Turns
          /\ Say(a, "expired")
          /\ late' = late \cup {a}
    /\ UNCHANGED <<key, rows, offer, minted, waiting, from, secret, under, id, mail, deskVars>>

Handshake(a) == \/ Fail(a) \/ Spend(a) \/ Name(a) \/ Ask(a)
                \/ Hear(a) \/ GiveUp(a) \/ Withdraw(a) \/ NotYet(a)

-----------------------------------------------------------------------------
(* The desk's requests.                                                    *)

To(t, d) == desk' = [desk EXCEPT ![t] = d]
Cleared == [i \in Ids |-> None]

\* BeginPairing: the key for the QR is read ...
Begin(t) ==
    /\ desk[t] = Idle /\ minted + key < MaxPresses
    /\ To(t, [Idle EXCEPT !.do = "mint", !.n = minted + 1, !.key = key])
    /\ minted' = minted + 1
    /\ UNCHANGED <<key, rows, offer, waiting, handVars, wrote, late, crossed>>

\* ... the offer put in any other's place ...
Mint(t) ==
    /\ desk[t].do = "mint"
    /\ offer' = [n |-> desk[t].n, key |-> desk[t].key, expired |-> FALSE]
    /\ To(t, [Idle EXCEPT !.do = "clear"])
    /\ UNCHANGED <<key, rows, minted, waiting, handVars, wrote, late, crossed>>

\* ... and the handshakes the human never answered forgotten.
ClearOld(t) ==
    /\ desk[t].do = "clear"
    /\ waiting' = Cleared
    /\ To(t, Idle)
    /\ UNCHANGED <<key, rows, offer, minted, handVars, wrote, late, crossed>>

\* Two minutes after it was drawn.
Expire ==
    /\ offer.n # 0 /\ ~offer.expired
    /\ offer' = [offer EXCEPT !.expired = TRUE]
    /\ UNCHANGED <<key, rows, minted, waiting, handVars, deskVars, late>>

\* ConfirmPairing and RejectPairing take what waits under an id, whichever
\* handshake that is by then; with nothing there they answer and change
\* nothing.
Take(t, i, next) ==
    /\ desk[t] = Idle /\ waiting[i] # None
    /\ To(t, [do |-> next, id |-> i, who |-> waiting[i], n |-> 0, key |-> 0])
    /\ waiting' = [waiting EXCEPT ![i] = None]
    /\ UNCHANGED <<key, rows, offer, minted, handVars, wrote, late, crossed>>

Confirm(t, i) == Take(t, i, "write")
Reject(t, i) == Take(t, i, "refuse")

Trusted == {p \in Phones : rows[p].trusted}

\* confirm_device: a trusted Device keeps its slot, any other needs one.
Room(p) == rows[p].trusted \/ Cardinality(Trusted) < Cap

Revoking(t) == desk[t].do \in {"unoffer", "clearAll"}

\* confirm_device: one row for a key, revived or inserted under the id the
\* human was shown; or the store refuses, for want of a slot or any other
\* reason.
Write(t) ==
    LET a == desk[t].who
        p == from[a]
    IN  /\ desk[t].do = "write"
        /\ \/ /\ Room(p)
              /\ rows' = [rows EXCEPT ![p] =
                    [id |-> IF @.id = None THEN desk[t].id ELSE @.id, trusted |-> TRUE, by |-> a]]
              /\ wrote' = wrote \cup {a}
              /\ crossed' = IF \E u \in Desks : Revoking(u) THEN crossed \cup {a} ELSE crossed
              /\ To(t, [desk[t] EXCEPT !.do = "tell"])
           \/ /\ To(t, [desk[t] EXCEPT !.do = "putBack"])
              /\ UNCHANGED <<rows, wrote, crossed>>
        /\ UNCHANGED <<key, offer, minted, waiting, handVars, late>>

\* The handshake waits again: revoke one, press Confirm again.
PutBack(t) ==
    /\ desk[t].do = "putBack"
    /\ waiting' = [waiting EXCEPT ![desk[t].id] = desk[t].who]
    /\ To(t, Idle)
    /\ UNCHANGED <<key, rows, offer, minted, handVars, wrote, late, crossed>>

\* The connections of the Device's row from before are shut, and the waiting
\* Device's thread is told; or the human said no.
Tell(t) ==
    /\ \/ desk[t].do = "tell" /\ mail' = [mail EXCEPT ![desk[t].who] = "confirmed"]
       \/ desk[t].do = "refuse" /\ mail' = [mail EXCEPT ![desk[t].who] = "rejected"]
    /\ To(t, Idle)
    /\ UNCHANGED <<key, rows, offer, minted, waiting, pc, from, secret, under, id, turn, verdict, wrote, late, crossed>>

\* RevokeDevice, as far as the row goes.
Revoke(t, p) ==
    /\ desk[t] = Idle /\ rows[p].trusted
    /\ rows' = [rows EXCEPT ![p].trusted = FALSE]
    /\ UNCHANGED <<key, offer, minted, waiting, handVars, deskVars, late>>

\* RevokeAllDevices: the rows and the key ...
RevokeAll(t) ==
    /\ desk[t] = Idle /\ minted + key < MaxPresses
    /\ key' = key + 1
    /\ rows' = [p \in Phones |-> [rows[p] EXCEPT !.trusted = FALSE]]
    /\ To(t, [Idle EXCEPT !.do = "unoffer"])
    /\ UNCHANGED <<offer, minted, waiting, handVars, wrote, late, crossed>>

\* ... the offer ...
Unoffer(t) ==
    /\ desk[t].do = "unoffer"
    /\ offer' = NoOffer
    /\ To(t, [Idle EXCEPT !.do = "clearAll"])
    /\ UNCHANGED <<key, rows, minted, waiting, handVars, wrote, late, crossed>>

\* Mutant: the handshakes that wait for the human are left waiting.
ClearAllNot(t) ==
    /\ desk[t].do = "clearAll"
    /\ To(t, Idle)
    /\ crossed' = crossed \cup {a \in Attempts : pc[a] \in {"spent", "named"}}
    /\ UNCHANGED <<key, rows, offer, minted, waiting, handVars, wrote, late>>

\* ... and the handshakes that wait.  Those between their secret and their
\* entry, and those in a request's hands, are not found.
ClearAll(t) ==
    /\ desk[t].do = "clearAll"
    /\ waiting' = Cleared
    /\ To(t, Idle)
    /\ crossed' = crossed \cup {a \in Attempts : pc[a] \in {"spent", "named"}}
                          \cup {desk[u].who : u \in {v \in Desks : desk[v].do \in {"write", "putBack"}}}
    /\ UNCHANGED <<key, rows, offer, minted, handVars, wrote, late>>

Desk(t) ==
    \/ Begin(t) \/ Mint(t) \/ ClearOld(t) \/ Write(t) \/ PutBack(t) \/ Tell(t)
    \/ RevokeAll(t) \/ Unoffer(t) \/ ClearAll(t)
    \/ \E i \in Ids : Confirm(t, i) \/ Reject(t, i)
    \/ \E p \in Phones : Revoke(t, p)

Next == \/ \E a \in Attempts : Handshake(a) \/ \E p \in Phones : Open(a, p)
        \/ \E t \in Desks : Desk(t)
        \/ Expire

Spec == Init /\ [][Next]_vars

\* The thread that holds a Device's stream runs; every read and wait of its
\* has a deadline.  Nobody has to press anything, and a request may take as
\* long as it likes.
FairSpec == Spec /\ \A a \in Attempts : WF_vars(Handshake(a))

-----------------------------------------------------------------------------
(* What the Device is told is what is true (await_decision): paired means  *)
(* its row was written, rejected that the human said no to this handshake, *)
(* and expired that no Confirm has written, or can still write, a row for  *)
(* it.  A Device that was told after give_up's turns ran out is excepted.  *)
ToldWhatIsTrue ==
    \A a \in Attempts :
        /\ verdict[a] = "paired" => a \in wrote
        /\ verdict[a] = "rejected" => a \notin wrote
        /\ verdict[a] = "expired" /\ a \notin late => a \notin wrote /\ ~Held(a)

(* One secret brings one handshake before the human: of all that run on    *)
(* the same QR, whichever way they overlap with each other, with a new QR  *)
(* and with its expiry, one at most is ever asked about.                   *)
OneAskPerSecret ==
    \A a, b \in Attempts :
        pc[a] \notin {"new", "shaking", "failed"} /\ pc[b] \notin {"new", "shaking", "failed"}
            /\ secret[a] = secret[b] => a = b

(* After Revoke all no handshake from before it makes a Device trusted:    *)
(* its key is gone, and no connection could match the row.  Only those it  *)
(* crossed can: between secret and entry, or in the hands of a Confirm.    *)
RevokeAllReaches ==
    (\A t \in Desks : ~Revoking(t)) =>
        \A p \in Trusted : rows[p].by # None =>
            under[rows[p].by] = key \/ rows[p].by \in crossed

(* Every Device that asks is told, or has its stream closed, whatever the  *)
(* desk does or leaves undone.                                             *)
EveryAttemptEnds == \A a \in Attempts : pc[a] # "new" ~> pc[a] \in Ended
=============================================================================
