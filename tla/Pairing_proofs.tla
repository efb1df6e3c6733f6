--------------------------- MODULE Pairing_proofs ---------------------------
(***************************************************************************)
(* Pairing is safe for any number of handshakes, Devices, requests in      *)
(* flight, turns and slots.  The inductive invariant follows three things  *)
(* from hand to hand: the other end of a handshake's channel (with its     *)
(* entry, in one request's hands, or used), the number of a secret (with   *)
(* the thread that mints it, on offer, or spent) and the key a handshake   *)
(* ran under, which Revoke all makes stale.                                *)
(***************************************************************************)
EXTENDS Pairing, TLAPS

\* Where a handshake has been put before the human.
Past == {"waiting", "leaving", "asking", "done"}

\* What a thread of the desk's may be about.
Requests ==
    [do : {"idle", "mint", "clear", "unoffer", "clearAll", "write", "putBack", "tell", "refuse"},
     id : Ids \cup {None}, who : Attempts \cup {None}, n : 0..MaxPresses, key : 0..MaxPresses]

\* What the trust store may keep of a Device.
Rows == [id : Ids \cup {None}, trusted : BOOLEAN, by : Attempts \cup {None}]

\* A handshake that runs has a Device and a secret, one that was named an
\* id, and a Device is told at the end only.
HandsKnown ==
    \A a \in Attempts :
        /\ pc[a] \notin {"new", "failed"} => from[a] \in Phones /\ secret[a] # 0
        /\ pc[a] \in {"named"} \cup Past => id[a] \in Ids
        /\ verdict[a] # "none" => pc[a] = "done"

\* A request that took a handshake holds it, under the id it was shown by.
DesksKnown ==
    \A t \in Desks :
        /\ desk[t].do \in {"idle", "mint", "clear", "unoffer", "clearAll"} => desk[t].who = None
        /\ desk[t].do \in {"write", "putBack", "tell", "refuse"} =>
              desk[t].who \in Attempts /\ desk[t].id \in Ids /\ id[desk[t].who] = desk[t].id

\* Before it is put before the human a handshake is in nobody's hands.
EarlyFree ==
    \A a \in Attempts : pc[a] \notin Past =>
        /\ ~Held(a) /\ mail[a] = "none" /\ a \notin wrote

\* What waits under an id has not been answered, nor taken.
EntriesOpen ==
    \A i \in Ids : waiting[i] # None =>
        /\ mail[waiting[i]] = "none" /\ waiting[i] \notin wrote
        /\ \A t \in Desks : desk[t].who # waiting[i]

\* A handshake is in one request's hands, unanswered, and has a row just
\* when the request is about to say so.
HandsOne ==
    \A t \in Desks : desk[t].who # None =>
        /\ mail[desk[t].who] = "none"
        /\ desk[t].who \in wrote <=> desk[t].do = "tell"
        /\ \A u \in Desks : desk[u].who = desk[t].who => u = t

\* An answer is the truth, and a row is answered for or about to be.
MailTrue ==
    \A a \in Attempts :
        /\ mail[a] = "confirmed" => a \in wrote
        /\ mail[a] = "rejected" => a \notin wrote
        /\ verdict[a] = "rejected" => mail[a] = "rejected"
        /\ a \in wrote => mail[a] = "confirmed" \/ \E t \in Desks : desk[t].who = a

\* The secret that is minted is on no QR and in no handshake yet, and the
\* one on offer in no handshake that has spent one.
SecretsFresh ==
    /\ offer.n <= minted
    /\ \A a \in Attempts : secret[a] <= minted
    /\ \A a \in Attempts : pc[a] \in {"spent", "named"} \cup Past => secret[a] # offer.n
    /\ \A t \in Desks : desk[t].do = "mint" =>
          /\ desk[t].n \in 1..minted /\ desk[t].n # offer.n
          /\ \A a \in Attempts : secret[a] # desk[t].n
          /\ \A u \in Desks : desk[u].do = "mint" /\ desk[u].n = desk[t].n => u = t

\* A trusted row a handshake wrote is of the key there is, or crossed.
RowsFresh ==
    \A p \in Phones : rows[p].by # None =>
        /\ rows[p].by \in wrote
        /\ rows[p].trusted => under[rows[p].by] = key \/ rows[p].by \in crossed

\* The offer a handshake can still spend is of the key it ran under, unless
\* Revoke all is about to take the offer back.
OfferFresh ==
    \A a \in Attempts : pc[a] = "shaking" /\ secret[a] = offer.n =>
        under[a] = key \/ \E t \in Desks : desk[t].do = "unoffer"

\* On its way to a row: to be asked about, waiting, or being confirmed.
OnItsWay(a) ==
    \/ pc[a] \in {"spent", "named"}
    \/ \E i \in Ids : waiting[i] = a
    \/ \E t \in Desks : desk[t].who = a /\ desk[t].do \in {"write", "putBack"}

\* With no Revoke all under way, what is on its way to a row is of the key
\* there is, or was crossed by one.
WayFresh ==
    (\A t \in Desks : ~Revoking(t)) =>
        \A a \in Attempts : OnItsWay(a) => under[a] = key \/ a \in crossed

HoldInv == HandsKnown /\ DesksKnown /\ EarlyFree /\ EntriesOpen /\ HandsOne /\ MailTrue
KeyInv == RowsFresh /\ OfferFresh /\ WayFresh

PairingInv ==
    /\ TypeOK /\ HoldInv /\ ToldWhatIsTrue
    /\ SecretsFresh /\ OneAskPerSecret
    /\ KeyInv

-----------------------------------------------------------------------------
\* What Confirm and Reject do: the entry moves into the request's hands.
Taken(t, i) ==
    /\ desk[t].do = "idle" /\ desk[t].who = None
    /\ waiting[i] \in Attempts /\ id[waiting[i]] = i
    /\ desk' \in [Desks -> Requests]
    /\ desk'[t].do \in {"write", "refuse"} /\ desk'[t].id = i /\ desk'[t].who = waiting[i]
    /\ \A u \in Desks : u # t => desk'[u] = desk[u]
    /\ waiting' \in [Ids -> Attempts \cup {None}]
    /\ waiting'[i] = None /\ \A j \in Ids : j # i => waiting'[j] = waiting[j]
    /\ UNCHANGED <<key, rows, offer, minted, pc, from, secret, under, id, mail, turn, verdict,
                   wrote, late, crossed>>

\* What the trust store's answer does: a row and news of it, or neither.
Answered(t) ==
    /\ desk[t].do = "write" /\ desk[t].who \in Attempts /\ desk[t].id \in Ids
    /\ id[desk[t].who] = desk[t].id
    /\ desk' \in [Desks -> Requests]
    /\ desk'[t].id = desk[t].id /\ desk'[t].who = desk[t].who
    /\ \A u \in Desks : u # t => desk'[u] = desk[u]
    /\ \/ /\ desk'[t].do = "tell" /\ wrote' = wrote \cup {desk[t].who}
          /\ crossed' = IF \E u \in Desks : Revoking(u) THEN crossed \cup {desk[t].who} ELSE crossed
       \/ desk'[t].do = "putBack" /\ UNCHANGED <<rows, wrote, crossed>>
    /\ UNCHANGED <<key, offer, minted, waiting, pc, from, secret, under, id, mail, turn, verdict, late>>

(* Confirm and Reject take the entry out under the lock of                 *)
(* pending_pairings.                                                       *)
LEMMA TakenFacts ==
    ASSUME TypeOK, NEW t \in Desks, NEW i \in Ids, Confirm(t, i) \/ Reject(t, i)
    PROVE  Taken(t, i)
<1>1. PICK next \in {"write", "refuse"} : Take(t, i, next)
  BY DEF Confirm, Reject
<1>2. waiting[i] \in Attempts /\ id[waiting[i]] = i /\ desk[t] = Idle
  BY <1>1 DEF Take, TypeOK
<1>3. waiting' \in [Ids -> Attempts \cup {None}] /\ waiting'[i] = None /\ \A j \in Ids : j # i => waiting'[j] = waiting[j]
  BY <1>1 DEF Take, TypeOK
<1> DEFINE d == [do |-> next, id |-> i, who |-> waiting[i], n |-> 0, key |-> 0]
<1>4. d \in Requests /\ d.do = next /\ d.id = i /\ d.who = waiting[i]
  BY <1>2, PairingAssumption DEF Requests
<1>5. desk' = [desk EXCEPT ![t] = d]
  BY <1>1 DEF Take, To
<1> HIDE DEF d
<1>6. /\ desk' \in [Desks -> Requests]
      /\ desk'[t] = d /\ \A u \in Desks : u # t => desk'[u] = desk[u]
  BY <1>4, <1>5 DEF TypeOK, Requests
<1>7. desk'[t].do \in {"write", "refuse"} /\ desk'[t].id = i /\ desk'[t].who = waiting[i]
  BY <1>4, <1>6
<1>8. desk[t].do = "idle" /\ desk[t].who = None
  BY <1>2 DEF Idle
<1> QED
  BY <1>1, <1>2, <1>3, <1>6, <1>7, <1>8 DEF Take, Taken, handVars

(* confirm_device writes a row for the handshake taken, or refuses.        *)
LEMMA AnsweredFacts ==
    ASSUME TypeOK, DesksKnown, NEW t \in Desks, Write(t)
    PROVE  Answered(t)
<1>1. /\ desk[t].do = "write" /\ desk[t].who \in Attempts /\ desk[t].id \in Ids
      /\ id[desk[t].who] = desk[t].id
  BY DEF Write, DesksKnown
<1>2. PICK next \in {"tell", "putBack"} : desk' = [desk EXCEPT ![t] = [desk[t] EXCEPT !.do = next]]
  BY DEF Write, To
<1>3. /\ desk' \in [Desks -> Requests]
      /\ desk'[t].id = desk[t].id /\ desk'[t].who = desk[t].who /\ desk'[t].do = next
      /\ \A u \in Desks : u # t => desk'[u] = desk[u]
  BY <1>2 DEF TypeOK, Requests
<1>4. CASE /\ desk' = [desk EXCEPT ![t] = [desk[t] EXCEPT !.do = "tell"]]
           /\ wrote' = wrote \cup {desk[t].who}
           /\ crossed' = IF \E u \in Desks : Revoking(u) THEN crossed \cup {desk[t].who} ELSE crossed
  <2>1. desk'[t].do = "tell"
    BY <1>4 DEF TypeOK
  <2> QED
    BY <1>1, <1>3, <1>4, <2>1 DEF Write, Answered, handVars
<1>5. CASE /\ desk' = [desk EXCEPT ![t] = [desk[t] EXCEPT !.do = "putBack"]]
           /\ UNCHANGED <<rows, wrote, crossed>>
  <2>1. desk'[t].do = "putBack"
    BY <1>5 DEF TypeOK
  <2> QED
    BY <1>1, <1>3, <1>5, <2>1 DEF Write, Answered, handVars
<1> QED
  BY <1>4, <1>5 DEF Write, To

(* The types are kept: what a handshake, an offer or a request holds is    *)
(* what the code's locks and channels can hold.                            *)
LEMMA TypeOKKept ==
    ASSUME PairingInv, Next PROVE TypeOK'
<1> USE PairingAssumption DEF PairingInv, TypeOK, HoldInv, HandsKnown, DesksKnown, EarlyFree,
     Held, Past, Ids, Ended
<1>1. ASSUME NEW a \in Attempts, NEW p \in Phones, Open(a, p) PROVE TypeOK'
  BY <1>1 DEF Open, Go, Close, deskVars
<1>2. ASSUME NEW a \in Attempts, Fail(a) PROVE TypeOK'
  BY <1>2 DEF Fail, Go, Close, deskVars
<1>3. ASSUME NEW a \in Attempts, Spend(a) PROVE TypeOK'
  <2>1. offer' \in [n : 0..MaxPresses, key : 0..MaxPresses, expired : BOOLEAN]
    BY <1>3 DEF Spend, NoOffer
  <2>2. CASE pc' = [pc EXCEPT ![a] = "spent"] /\ UNCHANGED <<from, secret, under>>
    BY <1>3, <2>1, <2>2 DEF Spend, deskVars
  <2>3. CASE Close(a)
    <3>1. /\ secret' \in [Attempts -> 0..MaxPresses] /\ under' \in [Attempts -> 0..MaxPresses]
          /\ from' \in [Attempts -> Phones \cup {None}]
      BY <2>3 DEF Close
    <3> QED
      BY <1>3, <2>1, <2>3, <3>1 DEF Spend, Close, Go, deskVars
  <2> QED
    BY <1>3, <2>2, <2>3 DEF Spend, Go
<1>4. ASSUME NEW a \in Attempts, Name(a) PROVE TypeOK'
  BY <1>4 DEF Name, Go, deskVars
<1>5. ASSUME NEW a \in Attempts, Ask(a) PROVE TypeOK'
  BY <1>5 DEF Ask, Go, deskVars
<1>6. ASSUME NEW a \in Attempts, Hear(a) PROVE TypeOK'
  <2>1. turn' \in [Attempts -> 0..(Turns - 1)]
    BY <1>6 DEF Hear, Say
  <2>2. verdict' \in [Attempts -> {"none", "paired", "rejected", "expired"}]
    BY <1>6 DEF Hear, Say
  <2> QED
    BY <1>6, <2>1, <2>2 DEF Hear, Say, Go, deskVars
<1>7. ASSUME NEW a \in Attempts, GiveUp(a) PROVE TypeOK'
  BY <1>7 DEF GiveUp, Go, deskVars
<1>8. ASSUME NEW a \in Attempts, Withdraw(a) PROVE TypeOK'
  BY <1>8 DEF Withdraw, Say, Go, deskVars
<1>9. ASSUME NEW a \in Attempts, NotYet(a) PROVE TypeOK'
  <2>1. turn' \in [Attempts -> 0..(Turns - 1)]
    BY <1>9 DEF NotYet, Say
  <2>2. verdict' \in [Attempts -> {"none", "paired", "rejected", "expired"}] /\ late' \subseteq Attempts
    BY <1>9 DEF NotYet, Say
  <2> QED
    BY <1>9, <2>1, <2>2 DEF NotYet, Say, Go, deskVars
<1>10. ASSUME NEW t \in Desks, Begin(t) PROVE TypeOK'
  <2>1. minted + 1 \in 0..MaxPresses
    BY <1>10 DEF Begin
  <2>2. [Idle EXCEPT !.do = "mint", !.n = minted + 1, !.key = key] \in Requests
    BY <2>1 DEF Idle, Requests
  <2>3. desk' \in [Desks -> Requests]
    BY <1>10, <2>2 DEF Begin, To, Requests
  <2> QED
    BY <1>10, <2>1, <2>3 DEF Begin, Requests, handVars
<1>11. ASSUME NEW t \in Desks, Mint(t) PROVE TypeOK'
  BY <1>11 DEF Mint, To, Idle, handVars
<1>12. ASSUME NEW t \in Desks, ClearOld(t) PROVE TypeOK'
  BY <1>12 DEF ClearOld, To, Idle, Cleared, handVars
<1>13. ASSUME NEW t \in Desks, Write(t) PROVE TypeOK'
  <2>1. Answered(t)
    BY <1>13, AnsweredFacts
  <2>2. /\ rows' \in [Phones -> Rows]
        /\ wrote' \subseteq Attempts /\ crossed' \subseteq Attempts
    <3>1. desk[t].who \in Attempts /\ desk[t].id \in Ids
      BY <2>1 DEF Answered
    <3>2. wrote' \subseteq Attempts /\ crossed' \subseteq Attempts
      BY <2>1, <3>1 DEF Answered
    <3>3. rows' \in [Phones -> Rows]
      <4> DEFINE r(p) == [id |-> IF rows[p].id = None THEN desk[t].id ELSE rows[p].id,
                          trusted |-> TRUE, by |-> desk[t].who]
      <4>1. rows \in [Phones -> Rows]
        BY DEF Rows
      <4>2. \A p \in Phones : r(p) \in Rows
        BY <3>1 DEF Rows
      <4>3. rows' = rows \/ rows' = [rows EXCEPT ![from[desk[t].who]] = r(from[desk[t].who])]
        BY <1>13 DEF Write
      <4> HIDE DEF r
      <4> QED
        BY <4>1, <4>2, <4>3
    <3> QED
      BY <3>2, <3>3
  <2> QED
    BY <2>1, <2>2 DEF Answered, Requests, Rows
<1>14. ASSUME NEW t \in Desks, PutBack(t) PROVE TypeOK'
  BY <1>14 DEF PutBack, To, Idle, handVars
<1>15. ASSUME NEW t \in Desks, Tell(t) PROVE TypeOK'
  <2>1. mail' \in [Attempts -> {"none", "confirmed", "rejected"}]
    BY <1>15 DEF Tell
  <2>2. desk' \in [Desks -> Requests]
    BY <1>15 DEF Tell, To, Idle, Requests
  <2> QED
    BY <1>15, <2>1, <2>2 DEF Tell, Requests
<1>16. ASSUME NEW t \in Desks, RevokeAll(t) PROVE TypeOK'
  <2>1. key' \in 0..MaxPresses
    BY <1>16 DEF RevokeAll
  <2>2. rows' \in [Phones -> Rows]
    <3>1. \A r \in Rows : [r EXCEPT !.trusted = FALSE] \in Rows
      BY DEF Rows
    <3>2. rows \in [Phones -> Rows]
      BY DEF Rows
    <3> QED
      BY <1>16, <3>1, <3>2 DEF RevokeAll
  <2>3. desk' \in [Desks -> Requests]
    BY <1>16 DEF RevokeAll, To, Idle, Requests
  <2> QED
    BY <1>16, <2>1, <2>2, <2>3 DEF RevokeAll, Requests, Rows, handVars
<1>17. ASSUME NEW t \in Desks, Unoffer(t) PROVE TypeOK'
  BY <1>17 DEF Unoffer, To, Idle, NoOffer, handVars
<1>18. ASSUME NEW t \in Desks, ClearAll(t) PROVE TypeOK'
  BY <1>18 DEF ClearAll, To, Idle, Cleared, handVars
<1>19. ASSUME NEW t \in Desks, NEW i \in Ids, Confirm(t, i) \/ Reject(t, i) PROVE TypeOK'
  <2>1. Taken(t, i)
    BY <1>19, TakenFacts
  <2>2. \A j \in Ids : waiting'[j] # None => id'[waiting'[j]] = j
    BY <2>1 DEF Taken
  <2> QED
    BY <2>1, <2>2 DEF Taken, Requests
<1>20. ASSUME NEW t \in Desks, NEW p \in Phones, Revoke(t, p) PROVE TypeOK'
  <2>1. rows' \in [Phones -> Rows]
    <3>1. \A r \in Rows : [r EXCEPT !.trusted = FALSE] \in Rows
      BY DEF Rows
    <3>2. rows \in [Phones -> Rows]
      BY DEF Rows
    <3> QED
      BY <1>20, <3>1, <3>2 DEF Revoke
  <2> QED
    BY <1>20, <2>1 DEF Revoke, Rows, handVars, deskVars
<1>21. ASSUME Expire PROVE TypeOK'
  BY <1>21 DEF Expire, handVars, deskVars
<1> QED
  BY <1>1, <1>2, <1>3, <1>4, <1>5, <1>6, <1>7, <1>8, <1>9, <1>10, <1>11, <1>12, <1>13, <1>14,
       <1>15, <1>16, <1>17, <1>18, <1>19, <1>20, <1>21 DEF Next, Handshake, Desk

(* A handshake that runs has a Device, a secret and, once named, an id.    *)
LEMMA HandsKnownKept ==
    ASSUME PairingInv, Next PROVE HandsKnown'
<1> USE PairingAssumption DEF PairingInv, TypeOK, HoldInv, HandsKnown, Past, Ids
<1>1. ASSUME NEW a \in Attempts, NEW p \in Phones, Open(a, p) PROVE HandsKnown'
  BY <1>1 DEF Open, Go, Close, deskVars
<1>2. ASSUME NEW a \in Attempts, Fail(a) PROVE HandsKnown'
  BY <1>2 DEF Fail, Go, Close, deskVars
<1>3. ASSUME NEW a \in Attempts, Spend(a) PROVE HandsKnown'
  BY <1>3 DEF Spend, Go, Close, NoOffer, deskVars
<1>4. ASSUME NEW a \in Attempts, Name(a) PROVE HandsKnown'
  BY <1>4 DEF Name, Go, deskVars
<1>5. ASSUME NEW a \in Attempts, Ask(a) PROVE HandsKnown'
  BY <1>5 DEF Ask, Go, deskVars
<1>6. ASSUME NEW a \in Attempts, Hear(a) PROVE HandsKnown'
  BY <1>6 DEF Hear, Say, Go, deskVars
<1>7. ASSUME NEW a \in Attempts, GiveUp(a) PROVE HandsKnown'
  BY <1>7 DEF GiveUp, Go, deskVars
<1>8. ASSUME NEW a \in Attempts, Withdraw(a) PROVE HandsKnown'
  BY <1>8 DEF Withdraw, Say, Go, deskVars
<1>9. ASSUME NEW a \in Attempts, NotYet(a) PROVE HandsKnown'
  BY <1>9 DEF NotYet, Say, Go, deskVars
<1>10. ASSUME Expire PROVE HandsKnown'
  BY <1>10 DEF Expire, handVars, deskVars
<1>11. ASSUME NEW t \in Desks,
          \/ Begin(t) \/ Mint(t) \/ ClearOld(t) \/ Write(t) \/ PutBack(t) \/ Tell(t)
          \/ RevokeAll(t) \/ Unoffer(t) \/ ClearAll(t)
          \/ (\E i \in Ids : Confirm(t, i) \/ Reject(t, i))
          \/ (\E p \in Phones : Revoke(t, p))
   PROVE  HandsKnown'
  <2>1. UNCHANGED <<pc, from, secret, id, verdict>>
    BY <1>11 DEF Begin, To, handVars, Mint, ClearOld, Write, PutBack, Tell, RevokeAll, Unoffer,
         ClearAll, Confirm, Reject, Take, Revoke, deskVars
  <2> QED
    BY <2>1
<1> QED
  BY <1>1, <1>2, <1>3, <1>4, <1>5, <1>6, <1>7, <1>8, <1>9, <1>10, <1>11 DEF Next, Handshake, Desk

(* A request that took a handshake holds it under the id it was shown by.  *)
LEMMA DesksKnownKept ==
    ASSUME PairingInv, Next PROVE DesksKnown'
<1> USE PairingAssumption DEF PairingInv, TypeOK, HoldInv, HandsKnown, DesksKnown, EarlyFree,
     Held, Past, Ids
<1>1. ASSUME NEW a \in Attempts, Name(a) PROVE DesksKnown'
  BY <1>1 DEF Name, Go, deskVars
<1>2. ASSUME NEW t \in Desks, Begin(t) PROVE DesksKnown'
  BY <1>2 DEF Begin, To, Idle, handVars
<1>3. ASSUME NEW t \in Desks, Mint(t) PROVE DesksKnown'
  BY <1>3 DEF Mint, To, Idle, handVars
<1>4. ASSUME NEW t \in Desks, ClearOld(t) PROVE DesksKnown'
  BY <1>4 DEF ClearOld, To, Idle, Cleared, handVars
<1>5. ASSUME NEW t \in Desks, Write(t) PROVE DesksKnown'
  <2>1. Answered(t)
    BY <1>5, AnsweredFacts
  <2> QED
    BY <2>1 DEF Answered
<1>6. ASSUME NEW t \in Desks, PutBack(t) PROVE DesksKnown'
  BY <1>6 DEF PutBack, To, Idle, handVars
<1>7. ASSUME NEW t \in Desks, Tell(t) PROVE DesksKnown'
  BY <1>7 DEF Tell, To, Idle
<1>8. ASSUME NEW t \in Desks, RevokeAll(t) PROVE DesksKnown'
  BY <1>8 DEF RevokeAll, To, Idle, handVars
<1>9. ASSUME NEW t \in Desks, Unoffer(t) PROVE DesksKnown'
  BY <1>9 DEF Unoffer, To, Idle, NoOffer, handVars
<1>10. ASSUME NEW t \in Desks, ClearAll(t) PROVE DesksKnown'
  BY <1>10 DEF ClearAll, To, Idle, Cleared, handVars
<1>11. ASSUME NEW t \in Desks, NEW i \in Ids, Confirm(t, i) \/ Reject(t, i) PROVE DesksKnown'
  <2>1. Taken(t, i)
    BY <1>11, TakenFacts
  <2> QED
    BY <2>1 DEF Taken
<1>12. ASSUME Expire PROVE DesksKnown'
  BY <1>12 DEF Expire, handVars, deskVars
<1>13. ASSUME NEW a \in Attempts,
          \/ (\E p \in Phones : Open(a, p)) \/ Fail(a) \/ Spend(a) \/ Ask(a) \/ Hear(a)
          \/ GiveUp(a) \/ Withdraw(a) \/ NotYet(a)
   PROVE  DesksKnown'
  <2>1. UNCHANGED <<id, desk>>
    BY <1>13 DEF Open, Go, Close, deskVars, Fail, Spend, Ask, Hear, Say, GiveUp, Withdraw, NotYet
  <2> QED
    BY <2>1
<1>14. ASSUME NEW t \in Desks,
          \/ (\E p \in Phones : Revoke(t, p))
   PROVE  DesksKnown'
  <2>1. UNCHANGED <<id, desk>>
    BY <1>14 DEF Revoke, handVars, deskVars
  <2> QED
    BY <2>1
<1> QED
  BY <1>1, <1>2, <1>3, <1>4, <1>5, <1>6, <1>7, <1>8, <1>9, <1>10, <1>11, <1>12, <1>13,
       <1>14 DEF Next, Handshake, Desk

(* pair_over puts a handshake where Confirm can find it in Ask alone.      *)
LEMMA EarlyFreeKept ==
    ASSUME PairingInv, Next PROVE EarlyFree'
<1> USE PairingAssumption DEF PairingInv, TypeOK, HoldInv, HandsKnown, DesksKnown, EarlyFree,
     Held, Past, Ids
<1>1. ASSUME NEW a \in Attempts, NEW p \in Phones, Open(a, p) PROVE EarlyFree'
  BY <1>1 DEF Open, Go, Close, deskVars
<1>2. ASSUME NEW a \in Attempts, Fail(a) PROVE EarlyFree'
  BY <1>2 DEF Fail, Go, Close, deskVars
<1>3. ASSUME NEW a \in Attempts, Spend(a) PROVE EarlyFree'
  BY <1>3 DEF Spend, Go, Close, NoOffer, deskVars
<1>4. ASSUME NEW a \in Attempts, Name(a) PROVE EarlyFree'
  BY <1>4 DEF Name, Go, deskVars
<1>5. ASSUME NEW a \in Attempts, Ask(a) PROVE EarlyFree'
  BY <1>5 DEF Ask, Go, deskVars
<1>6. ASSUME NEW a \in Attempts, Hear(a) PROVE EarlyFree'
  BY <1>6 DEF Hear, Say, Go, deskVars
<1>7. ASSUME NEW a \in Attempts, GiveUp(a) PROVE EarlyFree'
  BY <1>7 DEF GiveUp, Go, deskVars
<1>8. ASSUME NEW a \in Attempts, Withdraw(a) PROVE EarlyFree'
  BY <1>8 DEF Withdraw, Say, Go, deskVars
<1>9. ASSUME NEW a \in Attempts, NotYet(a) PROVE EarlyFree'
  BY <1>9 DEF NotYet, Say, Go, deskVars
<1>10. ASSUME NEW t \in Desks, Begin(t) PROVE EarlyFree'
  BY <1>10 DEF Begin, To, Idle, handVars
<1>11. ASSUME NEW t \in Desks, Mint(t) PROVE EarlyFree'
  BY <1>11 DEF Mint, To, Idle, handVars
<1>12. ASSUME NEW t \in Desks, ClearOld(t) PROVE EarlyFree'
  BY <1>12 DEF ClearOld, To, Idle, Cleared, handVars
<1>13. ASSUME NEW t \in Desks, Write(t) PROVE EarlyFree'
  <2>1. Answered(t)
    BY <1>13, AnsweredFacts
  <2> QED
    BY <2>1 DEF Answered
<1>14. ASSUME NEW t \in Desks, PutBack(t) PROVE EarlyFree'
  BY <1>14 DEF PutBack, To, Idle, handVars
<1>15. ASSUME NEW t \in Desks, Tell(t) PROVE EarlyFree'
  BY <1>15 DEF Tell, To, Idle
<1>16. ASSUME NEW t \in Desks, RevokeAll(t) PROVE EarlyFree'
  BY <1>16 DEF RevokeAll, To, Idle, handVars
<1>17. ASSUME NEW t \in Desks, Unoffer(t) PROVE EarlyFree'
  BY <1>17 DEF Unoffer, To, Idle, NoOffer, handVars
<1>18. ASSUME NEW t \in Desks, ClearAll(t) PROVE EarlyFree'
  BY <1>18 DEF ClearAll, To, Idle, Cleared, handVars
<1>19. ASSUME NEW t \in Desks, NEW i \in Ids, Confirm(t, i) \/ Reject(t, i) PROVE EarlyFree'
  <2>1. Taken(t, i)
    BY <1>19, TakenFacts
  <2> QED
    BY <2>1 DEF Taken
<1>20. ASSUME Expire PROVE EarlyFree'
  BY <1>20 DEF Expire, handVars, deskVars
<1>21. ASSUME NEW t \in Desks,
          \/ (\E p \in Phones : Revoke(t, p))
   PROVE  EarlyFree'
  <2>1. UNCHANGED <<waiting, pc, mail, desk, wrote>>
    BY <1>21 DEF Revoke, handVars, deskVars
  <2> QED
    BY <2>1
<1> QED
  BY <1>1, <1>2, <1>3, <1>4, <1>5, <1>6, <1>7, <1>8, <1>9, <1>10, <1>11, <1>12, <1>13, <1>14,
       <1>15, <1>16, <1>17, <1>18, <1>19, <1>20, <1>21 DEF Next, Handshake, Desk

(* What waits is unanswered: Confirm and Reject take the entry out before  *)
(* they write or answer, and put it back only when nothing was written.    *)
LEMMA EntriesOpenKept ==
    ASSUME PairingInv, Next PROVE EntriesOpen'
<1> USE PairingAssumption DEF PairingInv, TypeOK, HoldInv, EarlyFree, DesksKnown, EntriesOpen,
     HandsOne, Held, Past, Ids
<1>1. ASSUME NEW a \in Attempts, Ask(a) PROVE EntriesOpen'
  BY <1>1 DEF Ask, Go, deskVars
<1>2. ASSUME NEW a \in Attempts, Withdraw(a) PROVE EntriesOpen'
  BY <1>2 DEF Withdraw, Say, Go, deskVars
<1>3. ASSUME NEW t \in Desks, Begin(t) PROVE EntriesOpen'
  BY <1>3 DEF Begin, To, Idle, handVars
<1>4. ASSUME NEW t \in Desks, Mint(t) PROVE EntriesOpen'
  BY <1>4 DEF Mint, To, Idle, handVars
<1>5. ASSUME NEW t \in Desks, ClearOld(t) PROVE EntriesOpen'
  BY <1>5 DEF ClearOld, To, Idle, Cleared, handVars
<1>6. ASSUME NEW t \in Desks, Write(t) PROVE EntriesOpen'
  <2>1. Answered(t)
    BY <1>6, AnsweredFacts
  <2>2. ASSUME NEW j \in Ids, waiting'[j] # None
        PROVE  /\ mail'[waiting'[j]] = "none" /\ waiting'[j] \notin wrote'
               /\ \A u \in Desks : desk'[u].who # waiting'[j]
    <3>1. waiting[j] # None /\ waiting'[j] = waiting[j] /\ mail' = mail /\ waiting[j] # desk[t].who
      BY <2>1, <2>2 DEF Answered
    <3>2. waiting[j] \notin wrote'
      BY <2>1, <3>1 DEF Answered
    <3>3. \A u \in Desks : desk'[u].who # waiting[j]
      BY <2>1, <3>1 DEF Answered
    <3> QED
      BY <3>1, <3>2, <3>3
  <2> QED
    BY <2>2
<1>7. ASSUME NEW t \in Desks, PutBack(t) PROVE EntriesOpen'
  BY <1>7 DEF PutBack, To, Idle, handVars
<1>8. ASSUME NEW t \in Desks, Tell(t) PROVE EntriesOpen'
  BY <1>8 DEF Tell, To, Idle
<1>9. ASSUME NEW t \in Desks, RevokeAll(t) PROVE EntriesOpen'
  BY <1>9 DEF RevokeAll, To, Idle, handVars
<1>10. ASSUME NEW t \in Desks, Unoffer(t) PROVE EntriesOpen'
  BY <1>10 DEF Unoffer, To, Idle, NoOffer, handVars
<1>11. ASSUME NEW t \in Desks, ClearAll(t) PROVE EntriesOpen'
  BY <1>11 DEF ClearAll, To, Idle, Cleared, handVars
<1>12. ASSUME NEW t \in Desks, NEW i \in Ids, Confirm(t, i) \/ Reject(t, i) PROVE EntriesOpen'
  <2>1. Taken(t, i)
    BY <1>12, TakenFacts
  <2>2. ASSUME NEW j \in Ids, waiting'[j] # None
        PROVE  /\ mail'[waiting'[j]] = "none" /\ waiting'[j] \notin wrote'
               /\ \A u \in Desks : desk'[u].who # waiting'[j]
    <3>1. j # i /\ waiting[j] # None /\ waiting'[j] = waiting[j] /\ UNCHANGED <<mail, wrote>>
      BY <2>1, <2>2 DEF Taken
    <3>2. waiting[j] # waiting[i]
      BY <2>1, <3>1 DEF Taken
    <3>3. \A u \in Desks : desk'[u].who # waiting[j]
      BY <2>1, <3>1, <3>2 DEF Taken
    <3> QED
      BY <3>1, <3>3
  <2> QED
    BY <2>2
<1>13. ASSUME Expire PROVE EntriesOpen'
  BY <1>13 DEF Expire, handVars, deskVars
<1>14. ASSUME NEW a \in Attempts,
          \/ (\E p \in Phones : Open(a, p)) \/ Fail(a) \/ Spend(a) \/ Name(a) \/ Hear(a)
          \/ GiveUp(a) \/ NotYet(a)
   PROVE  EntriesOpen'
  <2>1. UNCHANGED <<waiting, mail, desk, wrote>>
    BY <1>14 DEF Open, Go, Close, deskVars, Fail, Spend, Name, Hear, Say, GiveUp, NotYet
  <2> QED
    BY <2>1
<1>15. ASSUME NEW t \in Desks,
          \/ (\E p \in Phones : Revoke(t, p))
   PROVE  EntriesOpen'
  <2>1. UNCHANGED <<waiting, mail, desk, wrote>>
    BY <1>15 DEF Revoke, handVars, deskVars
  <2> QED
    BY <2>1
<1> QED
  BY <1>1, <1>2, <1>3, <1>4, <1>5, <1>6, <1>7, <1>8, <1>9, <1>10, <1>11, <1>12, <1>13, <1>14,
       <1>15 DEF Next, Handshake, Desk

(* Two requests never hold the same handshake, as the entry is taken under *)
(* the lock.                                                               *)
LEMMA HandsOneKept ==
    ASSUME PairingInv, Next PROVE HandsOne'
<1> USE PairingAssumption DEF PairingInv, TypeOK, HoldInv, DesksKnown, EntriesOpen, HandsOne, Ids
<1>1. ASSUME NEW t \in Desks, Begin(t) PROVE HandsOne'
  BY <1>1 DEF Begin, To, Idle, handVars
<1>2. ASSUME NEW t \in Desks, Mint(t) PROVE HandsOne'
  BY <1>2 DEF Mint, To, Idle, handVars
<1>3. ASSUME NEW t \in Desks, ClearOld(t) PROVE HandsOne'
  BY <1>3 DEF ClearOld, To, Idle, Cleared, handVars
<1>4. ASSUME NEW t \in Desks, Write(t) PROVE HandsOne'
  <2>1. Answered(t)
    BY <1>4, AnsweredFacts
  <2>2. \A u \in Desks : desk'[u].who = desk[u].who /\ (u # t => desk'[u].do = desk[u].do)
    BY <2>1 DEF Answered
  <2>3. \A u \in Desks : desk'[u].who # None =>
            mail'[desk'[u].who] = "none" /\ \A v \in Desks : desk'[v].who = desk'[u].who => v = u
    BY <2>1, <2>2 DEF Answered
  <2>4. desk'[t].who \in wrote' <=> desk'[t].do = "tell"
    BY <2>1 DEF Answered
  <2>5. ASSUME NEW u \in Desks, u # t, desk'[u].who # None
        PROVE  desk'[u].who \in wrote' <=> desk'[u].do = "tell"
    <3>1. desk[u].who # desk[t].who
      BY <2>1, <2>2, <2>5 DEF Answered
    <3> QED
      BY <2>1, <2>2, <2>5, <3>1 DEF Answered
  <2> QED
    BY <2>3, <2>4, <2>5
<1>5. ASSUME NEW t \in Desks, PutBack(t) PROVE HandsOne'
  BY <1>5 DEF PutBack, To, Idle, handVars
<1>6. ASSUME NEW t \in Desks, Tell(t) PROVE HandsOne'
  BY <1>6 DEF Tell, To, Idle
<1>7. ASSUME NEW t \in Desks, RevokeAll(t) PROVE HandsOne'
  BY <1>7 DEF RevokeAll, To, Idle, handVars
<1>8. ASSUME NEW t \in Desks, Unoffer(t) PROVE HandsOne'
  BY <1>8 DEF Unoffer, To, Idle, NoOffer, handVars
<1>9. ASSUME NEW t \in Desks, ClearAll(t) PROVE HandsOne'
  BY <1>9 DEF ClearAll, To, Idle, Cleared, handVars
<1>10. ASSUME NEW t \in Desks, NEW i \in Ids, Confirm(t, i) \/ Reject(t, i) PROVE HandsOne'
  <2>1. Taken(t, i)
    BY <1>10, TakenFacts
  <2> QED
    BY <2>1 DEF Taken
<1>11. ASSUME Expire PROVE HandsOne'
  BY <1>11 DEF Expire, handVars, deskVars
<1>12. ASSUME NEW a \in Attempts,
          \/ (\E p \in Phones : Open(a, p)) \/ Fail(a) \/ Spend(a) \/ Name(a) \/ Ask(a)
          \/ Hear(a) \/ GiveUp(a) \/ Withdraw(a) \/ NotYet(a)
   PROVE  HandsOne'
  <2>1. UNCHANGED <<mail, desk, wrote>>
    BY <1>12 DEF Open, Go, Close, deskVars, Fail, Spend, Name, Ask, Hear, Say, GiveUp, Withdraw,
         NotYet
  <2> QED
    BY <2>1
<1>13. ASSUME NEW t \in Desks,
          \/ (\E p \in Phones : Revoke(t, p))
   PROVE  HandsOne'
  <2>1. UNCHANGED <<mail, desk, wrote>>
    BY <1>13 DEF Revoke, handVars, deskVars
  <2> QED
    BY <2>1
<1> QED
  BY <1>1, <1>2, <1>3, <1>4, <1>5, <1>6, <1>7, <1>8, <1>9, <1>10, <1>11, <1>12, <1>13 DEF Next,
       Handshake, Desk

(* Confirm and Reject answer what happened.                                *)
LEMMA MailTrueKept ==
    ASSUME PairingInv, Next PROVE MailTrue'
<1> USE PairingAssumption DEF PairingInv, TypeOK, HoldInv, DesksKnown, HandsOne, MailTrue, Ids
<1>1. ASSUME NEW a \in Attempts, Hear(a) PROVE MailTrue'
  BY <1>1 DEF Hear, Say, Go, deskVars
<1>2. ASSUME NEW a \in Attempts, Withdraw(a) PROVE MailTrue'
  BY <1>2 DEF Withdraw, Say, Go, deskVars
<1>3. ASSUME NEW a \in Attempts, NotYet(a) PROVE MailTrue'
  BY <1>3 DEF NotYet, Say, Go, deskVars
<1>4. ASSUME NEW t \in Desks, Begin(t) PROVE MailTrue'
  BY <1>4 DEF Begin, To, Idle, handVars
<1>5. ASSUME NEW t \in Desks, Mint(t) PROVE MailTrue'
  BY <1>5 DEF Mint, To, Idle, handVars
<1>6. ASSUME NEW t \in Desks, ClearOld(t) PROVE MailTrue'
  BY <1>6 DEF ClearOld, To, Idle, Cleared, handVars
<1>7. ASSUME NEW t \in Desks, Write(t) PROVE MailTrue'
  <2>1. Answered(t)
    BY <1>7, AnsweredFacts
  <2> QED
    BY <2>1 DEF Answered
<1>8. ASSUME NEW t \in Desks, PutBack(t) PROVE MailTrue'
  BY <1>8 DEF PutBack, To, Idle, handVars
<1>9. ASSUME NEW t \in Desks, Tell(t) PROVE MailTrue'
  BY <1>9 DEF Tell, To, Idle
<1>10. ASSUME NEW t \in Desks, RevokeAll(t) PROVE MailTrue'
  BY <1>10 DEF RevokeAll, To, Idle, handVars
<1>11. ASSUME NEW t \in Desks, Unoffer(t) PROVE MailTrue'
  BY <1>11 DEF Unoffer, To, Idle, NoOffer, handVars
<1>12. ASSUME NEW t \in Desks, ClearAll(t) PROVE MailTrue'
  BY <1>12 DEF ClearAll, To, Idle, Cleared, handVars
<1>13. ASSUME NEW t \in Desks, NEW i \in Ids, Confirm(t, i) \/ Reject(t, i) PROVE MailTrue'
  <2>1. Taken(t, i)
    BY <1>13, TakenFacts
  <2>2. ASSUME NEW a \in Attempts, NEW u \in Desks, desk[u].who = a PROVE desk'[u].who = a
    BY <2>1, <2>2 DEF Taken
  <2> QED
    BY <2>1, <2>2 DEF Taken
<1>14. ASSUME Expire PROVE MailTrue'
  BY <1>14 DEF Expire, handVars, deskVars
<1>15. ASSUME NEW a \in Attempts,
          \/ (\E p \in Phones : Open(a, p)) \/ Fail(a) \/ Spend(a) \/ Name(a) \/ Ask(a)
          \/ GiveUp(a)
   PROVE  MailTrue'
  <2>1. UNCHANGED <<mail, verdict, desk, wrote>>
    BY <1>15 DEF Open, Go, Close, deskVars, Fail, Spend, Name, Ask, GiveUp
  <2> QED
    BY <2>1
<1>16. ASSUME NEW t \in Desks,
          \/ (\E p \in Phones : Revoke(t, p))
   PROVE  MailTrue'
  <2>1. UNCHANGED <<mail, verdict, desk, wrote>>
    BY <1>16 DEF Revoke, handVars, deskVars
  <2> QED
    BY <2>1
<1> QED
  BY <1>1, <1>2, <1>3, <1>4, <1>5, <1>6, <1>7, <1>8, <1>9, <1>10, <1>11, <1>12, <1>13, <1>14,
       <1>15, <1>16 DEF Next, Handshake, Desk

(* What a Device is told stays true: the steps of await_decision and of    *)
(* give_up against those of Confirm, Reject and a new pairing.             *)
LEMMA ToldWhatIsTrueKept ==
    ASSUME PairingInv, Next PROVE ToldWhatIsTrue'
<1> USE PairingAssumption DEF PairingInv, TypeOK, HoldInv, HandsKnown, DesksKnown, EarlyFree,
     EntriesOpen, HandsOne, MailTrue, ToldWhatIsTrue, Held, Past, Ids
<1>1. ASSUME NEW a \in Attempts, Ask(a) PROVE ToldWhatIsTrue'
  BY <1>1 DEF Ask, Go, deskVars
<1>2. ASSUME NEW a \in Attempts, Hear(a) PROVE ToldWhatIsTrue'
  BY <1>2 DEF Hear, Say, Go, deskVars
<1>3. ASSUME NEW a \in Attempts, Withdraw(a) PROVE ToldWhatIsTrue'
  <2>1. CASE waiting[id[a]] = a
    <3>1. id[a] \in Ids /\ a \notin wrote /\ \A t \in Desks : desk[t].who # a
      BY <1>3, <2>1 DEF Withdraw
    <3>2. /\ waiting' = [waiting EXCEPT ![id[a]] = None]
          /\ verdict' = [verdict EXCEPT ![a] = "expired"] /\ UNCHANGED <<desk, wrote, late>>
      BY <1>3, <2>1 DEF Withdraw, Say, deskVars
    <3>3. ~Held(a)'
      BY <3>1, <3>2
    <3>4. \A b \in Attempts : Held(b)' => Held(b)
      BY <3>1, <3>2
    <3> HIDE DEF Held
    <3> QED
      BY <3>1, <3>2, <3>3, <3>4
  <2>2. CASE waiting[id[a]] # a
    BY <1>3, <2>2 DEF Withdraw, deskVars
  <2> QED
    BY <2>1, <2>2
<1>4. ASSUME NEW a \in Attempts, NotYet(a) PROVE ToldWhatIsTrue'
  BY <1>4 DEF NotYet, Say, Go, deskVars
<1>5. ASSUME NEW t \in Desks, Begin(t) PROVE ToldWhatIsTrue'
  BY <1>5 DEF Begin, To, Idle, handVars
<1>6. ASSUME NEW t \in Desks, Mint(t) PROVE ToldWhatIsTrue'
  BY <1>6 DEF Mint, To, Idle, handVars
<1>7. ASSUME NEW t \in Desks, ClearOld(t) PROVE ToldWhatIsTrue'
  BY <1>7 DEF ClearOld, To, Idle, Cleared, handVars
<1>8. ASSUME NEW t \in Desks, Write(t) PROVE ToldWhatIsTrue'
  <2>1. Answered(t)
    BY <1>8, AnsweredFacts
  <2>2. \A u \in Desks : desk'[u].who = desk[u].who
    BY <2>1 DEF Answered
  <2>3. UNCHANGED <<verdict, waiting, late>> /\ wrote' \subseteq wrote \cup {desk[t].who} /\ wrote \subseteq wrote'
    BY <2>1 DEF Answered
  <2>4. desk[t].who \in Attempts /\ desk[t].who \notin wrote /\ mail[desk[t].who] = "none"
    BY <2>1 DEF Answered
  <2>5. verdict[desk[t].who] # "rejected"
    BY <2>4
  <2> QED
    BY <2>2, <2>3, <2>4, <2>5
<1>9. ASSUME NEW t \in Desks, PutBack(t) PROVE ToldWhatIsTrue'
  BY <1>9 DEF PutBack, To, Idle, handVars
<1>10. ASSUME NEW t \in Desks, Tell(t) PROVE ToldWhatIsTrue'
  BY <1>10 DEF Tell, To, Idle
<1>11. ASSUME NEW t \in Desks, RevokeAll(t) PROVE ToldWhatIsTrue'
  BY <1>11 DEF RevokeAll, To, Idle, handVars
<1>12. ASSUME NEW t \in Desks, Unoffer(t) PROVE ToldWhatIsTrue'
  BY <1>12 DEF Unoffer, To, Idle, NoOffer, handVars
<1>13. ASSUME NEW t \in Desks, ClearAll(t) PROVE ToldWhatIsTrue'
  BY <1>13 DEF ClearAll, To, Idle, Cleared, handVars
<1>14. ASSUME NEW t \in Desks, NEW i \in Ids, Confirm(t, i) \/ Reject(t, i) PROVE ToldWhatIsTrue'
  <2>1. Taken(t, i)
    BY <1>14, TakenFacts
  <2>2. ASSUME NEW a \in Attempts, Held(a)' PROVE Held(a)
    <3>1. CASE \E j \in Ids : waiting'[j] = a
      BY <2>1, <3>1 DEF Taken
    <3>2. CASE \E u \in Desks : desk'[u].who = a
      BY <2>1, <3>2 DEF Taken
    <3> QED
      BY <2>2, <3>1, <3>2
  <2>3. UNCHANGED <<verdict, wrote, late>>
    BY <2>1 DEF Taken
  <2> HIDE DEF Held
  <2> QED
    BY <2>2, <2>3
<1>15. ASSUME Expire PROVE ToldWhatIsTrue'
  BY <1>15 DEF Expire, handVars, deskVars
<1>16. ASSUME NEW a \in Attempts,
          \/ (\E p \in Phones : Open(a, p)) \/ Fail(a) \/ Spend(a) \/ Name(a)
          \/ GiveUp(a)
   PROVE  ToldWhatIsTrue'
  <2>1. UNCHANGED <<waiting, verdict, desk, wrote, late>>
    BY <1>16 DEF Open, Go, Close, deskVars, Fail, Spend, Name, GiveUp
  <2> QED
    BY <2>1
<1>17. ASSUME NEW t \in Desks,
          \/ (\E p \in Phones : Revoke(t, p))
   PROVE  ToldWhatIsTrue'
  <2>1. UNCHANGED <<waiting, verdict, desk, wrote, late>>
    BY <1>17 DEF Revoke, handVars, deskVars
  <2> QED
    BY <2>1
<1> QED
  BY <1>1, <1>2, <1>3, <1>4, <1>5, <1>6, <1>7, <1>8, <1>9, <1>10, <1>11, <1>12, <1>13, <1>14,
       <1>15, <1>16, <1>17 DEF Next, Handshake, Desk

(* A secret is on one QR and is spent once: begin_pairing against the      *)
(* handshakes that copied the offer before.                                *)
LEMMA SecretsFreshKept ==
    ASSUME PairingInv, Next PROVE SecretsFresh'
<1> USE PairingAssumption DEF PairingInv, TypeOK, HoldInv, HandsKnown, SecretsFresh, Past
<1>1. ASSUME NEW a \in Attempts, NEW p \in Phones, Open(a, p) PROVE SecretsFresh'
  BY <1>1 DEF Open, Go, Close, deskVars
<1>2. ASSUME NEW a \in Attempts, Fail(a) PROVE SecretsFresh'
  BY <1>2 DEF Fail, Go, Close, deskVars
<1>3. ASSUME NEW a \in Attempts, Spend(a) PROVE SecretsFresh'
  <2>1. CASE offer.n = secret[a] /\ ~offer.expired
    BY <1>3, <2>1 DEF Spend, Go, NoOffer, deskVars
  <2>2. CASE ~(offer.n = secret[a] /\ ~offer.expired)
    BY <1>3, <2>2 DEF Spend, Go, Close, NoOffer, deskVars
  <2> QED
    BY <2>1, <2>2
<1>4. ASSUME NEW a \in Attempts, Name(a) PROVE SecretsFresh'
  BY <1>4 DEF Name, Go, deskVars
<1>5. ASSUME NEW a \in Attempts, Ask(a) PROVE SecretsFresh'
  BY <1>5 DEF Ask, Go, deskVars
<1>6. ASSUME NEW a \in Attempts, Hear(a) PROVE SecretsFresh'
  BY <1>6 DEF Hear, Say, Go, deskVars
<1>7. ASSUME NEW a \in Attempts, GiveUp(a) PROVE SecretsFresh'
  BY <1>7 DEF GiveUp, Go, deskVars
<1>8. ASSUME NEW a \in Attempts, Withdraw(a) PROVE SecretsFresh'
  BY <1>8 DEF Withdraw, Say, Go, deskVars
<1>9. ASSUME NEW a \in Attempts, NotYet(a) PROVE SecretsFresh'
  BY <1>9 DEF NotYet, Say, Go, deskVars
<1>10. ASSUME NEW t \in Desks, Begin(t) PROVE SecretsFresh'
  BY <1>10 DEF Begin, To, Idle, handVars
<1>11. ASSUME NEW t \in Desks, Mint(t) PROVE SecretsFresh'
  BY <1>11 DEF Mint, To, Idle, handVars
<1>12. ASSUME NEW t \in Desks, ClearOld(t) PROVE SecretsFresh'
  BY <1>12 DEF ClearOld, To, Idle, Cleared, handVars
<1>13. ASSUME NEW t \in Desks, Write(t) PROVE SecretsFresh'
  <2>1. Answered(t)
    BY <1>13, AnsweredFacts
  <2>2. UNCHANGED <<offer, minted, pc, secret>> /\ \A u \in Desks : u # t => desk'[u] = desk[u]
    BY <2>1 DEF Answered
  <2>3. \A u \in Desks : desk'[u].do = "mint" => u # t
    BY <2>1 DEF Answered
  <2> HIDE DEF Answered
  <2>4. ASSUME NEW u \in Desks, desk'[u].do = "mint" PROVE desk[u].do = "mint" /\ desk'[u] = desk[u]
    BY <2>2, <2>3, <2>4
  <2> QED
    BY <2>2, <2>4
<1>14. ASSUME NEW t \in Desks, PutBack(t) PROVE SecretsFresh'
  BY <1>14 DEF PutBack, To, Idle, handVars
<1>15. ASSUME NEW t \in Desks, Tell(t) PROVE SecretsFresh'
  BY <1>15 DEF Tell, To, Idle
<1>16. ASSUME NEW t \in Desks, RevokeAll(t) PROVE SecretsFresh'
  BY <1>16 DEF RevokeAll, To, Idle, handVars
<1>17. ASSUME NEW t \in Desks, Unoffer(t) PROVE SecretsFresh'
  <2>1. offer'.n = 0 /\ UNCHANGED <<minted, pc, secret>> /\ desk'[t].do = "clearAll"
    BY <1>17 DEF Unoffer, To, Idle, NoOffer, handVars
  <2>2. \A u \in Desks : u # t => desk'[u] = desk[u]
    BY <1>17 DEF Unoffer, To
  <2>3. \A u \in Desks : desk'[u].do = "mint" => u # t
    BY <2>1
  <2>4. ASSUME NEW u \in Desks, desk'[u].do = "mint"
        PROVE  desk[u].do = "mint" /\ desk'[u] = desk[u] /\ desk[u].n # 0
    BY <2>2, <2>3, <2>4
  <2>5. minted \in Nat /\ \A a \in Attempts : pc[a] \in {"spent", "named"} \cup Past => secret[a] # 0
    OBVIOUS
  <2> QED
    BY <2>1, <2>4, <2>5
<1>18. ASSUME NEW t \in Desks, ClearAll(t) PROVE SecretsFresh'
  BY <1>18 DEF ClearAll, To, Idle, Cleared, handVars
<1>19. ASSUME NEW t \in Desks, NEW i \in Ids, Confirm(t, i) \/ Reject(t, i) PROVE SecretsFresh'
  <2>1. Taken(t, i)
    BY <1>19, TakenFacts
  <2>2. UNCHANGED <<offer, minted, pc, secret>> /\ \A u \in Desks : u # t => desk'[u] = desk[u]
    BY <2>1 DEF Taken
  <2>3. \A u \in Desks : desk'[u].do = "mint" => u # t
    BY <2>1 DEF Taken
  <2> HIDE DEF Taken
  <2>4. ASSUME NEW u \in Desks, desk'[u].do = "mint" PROVE desk[u].do = "mint" /\ desk'[u] = desk[u]
    BY <2>2, <2>3, <2>4
  <2> QED
    BY <2>2, <2>4
<1>20. ASSUME Expire PROVE SecretsFresh'
  BY <1>20 DEF Expire, handVars, deskVars
<1>21. ASSUME NEW t \in Desks,
          \/ (\E p \in Phones : Revoke(t, p))
   PROVE  SecretsFresh'
  <2>1. UNCHANGED <<offer, minted, pc, secret, desk>>
    BY <1>21 DEF Revoke, handVars, deskVars
  <2> QED
    BY <2>1
<1> QED
  BY <1>1, <1>2, <1>3, <1>4, <1>5, <1>6, <1>7, <1>8, <1>9, <1>10, <1>11, <1>12, <1>13, <1>14,
       <1>15, <1>16, <1>17, <1>18, <1>19, <1>20, <1>21 DEF Next, Handshake, Desk

(* No two handshakes get past the same secret.                             *)
LEMMA OneAskPerSecretKept ==
    ASSUME PairingInv, Next PROVE OneAskPerSecret'
<1> USE PairingAssumption DEF PairingInv, TypeOK, HoldInv, HandsKnown, SecretsFresh,
     OneAskPerSecret, Past, Ended
<1>1. ASSUME NEW a \in Attempts, NEW p \in Phones, Open(a, p) PROVE OneAskPerSecret'
  <2>1. /\ pc'[a] \in {"shaking", "failed"}
        /\ \A b \in Attempts : b # a => pc'[b] = pc[b] /\ secret'[b] = secret[b]
    BY <1>1 DEF Open, Go, Close
  <2> QED
    BY <2>1
<1>2. ASSUME NEW a \in Attempts, Fail(a) PROVE OneAskPerSecret'
  BY <1>2 DEF Fail, Go, Close, deskVars
<1>3. ASSUME NEW a \in Attempts, Spend(a) PROVE OneAskPerSecret'
  <2>1. CASE offer.n = secret[a] /\ ~offer.expired
    <3>1. secret' = secret /\ \A b \in Attempts : b # a => pc'[b] = pc[b]
      BY <1>3, <2>1 DEF Spend, Go
    <3>2. \A b \in Attempts : b # a /\ pc'[b] \notin {"new", "shaking", "failed"} => secret[b] # secret[a]
      BY <2>1, <3>1
    <3> QED
      BY <3>1, <3>2
  <2>2. CASE ~(offer.n = secret[a] /\ ~offer.expired)
    BY <1>3, <2>2 DEF Spend, Go, Close
  <2> QED
    BY <2>1, <2>2
<1>4. ASSUME NEW a \in Attempts, Name(a) PROVE OneAskPerSecret'
  BY <1>4 DEF Name, Go, deskVars
<1>5. ASSUME NEW a \in Attempts, Ask(a) PROVE OneAskPerSecret'
  BY <1>5 DEF Ask, Go, deskVars
<1>6. ASSUME NEW a \in Attempts, Hear(a) PROVE OneAskPerSecret'
  BY <1>6 DEF Hear, Say, Go, deskVars
<1>7. ASSUME NEW a \in Attempts, GiveUp(a) PROVE OneAskPerSecret'
  BY <1>7 DEF GiveUp, Go, deskVars
<1>8. ASSUME NEW a \in Attempts, Withdraw(a) PROVE OneAskPerSecret'
  BY <1>8 DEF Withdraw, Say, Go, deskVars
<1>9. ASSUME NEW a \in Attempts, NotYet(a) PROVE OneAskPerSecret'
  BY <1>9 DEF NotYet, Say, Go, deskVars
<1>10. ASSUME Expire PROVE OneAskPerSecret'
  BY <1>10 DEF Expire, handVars, deskVars
<1>11. ASSUME NEW t \in Desks,
          \/ Begin(t) \/ Mint(t) \/ ClearOld(t) \/ Write(t) \/ PutBack(t) \/ Tell(t)
          \/ RevokeAll(t) \/ Unoffer(t) \/ ClearAll(t)
          \/ (\E i \in Ids : Confirm(t, i) \/ Reject(t, i))
          \/ (\E p \in Phones : Revoke(t, p))
   PROVE  OneAskPerSecret'
  <2>1. UNCHANGED <<pc, secret>>
    BY <1>11 DEF Begin, To, handVars, Mint, ClearOld, Write, PutBack, Tell, RevokeAll, Unoffer,
         ClearAll, Confirm, Reject, Take, Revoke, deskVars
  <2> QED
    BY <2>1
<1> QED
  BY <1>1, <1>2, <1>3, <1>4, <1>5, <1>6, <1>7, <1>8, <1>9, <1>10, <1>11 DEF Next, Handshake, Desk

(* A row that confirm_device wrote is of the daemon's key, or was crossed. *)
LEMMA RowsFreshKept ==
    ASSUME PairingInv, Next PROVE RowsFresh'
<1> USE PairingAssumption DEF PairingInv, TypeOK, HoldInv, HandsKnown, DesksKnown, EarlyFree,
     KeyInv, RowsFresh, WayFresh, OnItsWay, Revoking, Past, Ids
<1>1. ASSUME NEW a \in Attempts, NEW p \in Phones, Open(a, p) PROVE RowsFresh'
  BY <1>1 DEF Open, Go, Close, deskVars
<1>2. ASSUME NEW a \in Attempts, Fail(a) PROVE RowsFresh'
  BY <1>2 DEF Fail, Go, Close, deskVars
<1>3. ASSUME NEW a \in Attempts, Spend(a) PROVE RowsFresh'
  BY <1>3 DEF Spend, Go, Close, NoOffer, deskVars
<1>4. ASSUME NEW t \in Desks, Write(t) PROVE RowsFresh'
  <2>1. Answered(t)
    BY <1>4, AnsweredFacts
  <2>2. CASE UNCHANGED <<rows, wrote, crossed>>
    BY <2>1, <2>2 DEF Answered
  <2>3. CASE ~UNCHANGED <<rows, wrote, crossed>>
    <3> DEFINE a == desk[t].who
    <3>1. /\ a \in Attempts /\ from[a] \in Phones /\ wrote' = wrote \cup {a}
          /\ crossed' = IF \E u \in Desks : Revoking(u) THEN crossed \cup {a} ELSE crossed
          /\ UNCHANGED <<under, key>>
      BY <2>1, <2>3 DEF Answered, Held
    <3>2. rows' = [rows EXCEPT ![from[a]] =
                     [id |-> IF @.id = None THEN desk[t].id ELSE @.id, trusted |-> TRUE, by |-> a]]
      BY <1>4, <2>3 DEF Write
    <3>3. under[a] = key \/ a \in crossed'
      BY <2>1, <3>1 DEF Answered
    <3>4. rows'[from[a]].by = a /\ \A p \in Phones : p # from[a] => rows'[p] = rows[p]
      BY <3>1, <3>2
    <3>5. crossed \subseteq crossed'
      BY <3>1
    <3> HIDE DEF a
    <3>6. ASSUME NEW p \in Phones, rows'[p].by # None
          PROVE  /\ rows'[p].by \in wrote'
                 /\ rows'[p].trusted => under'[rows'[p].by] = key' \/ rows'[p].by \in crossed'
      BY <3>1, <3>3, <3>4, <3>5, <3>6
    <3> QED
      BY <3>6
  <2> QED
    BY <2>2, <2>3
<1>5. ASSUME NEW t \in Desks, RevokeAll(t) PROVE RowsFresh'
  BY <1>5 DEF RevokeAll, To, Idle, handVars
<1>6. ASSUME NEW t \in Desks, ClearAll(t) PROVE RowsFresh'
  BY <1>6 DEF ClearAll, To, Idle, Cleared, handVars
<1>7. ASSUME NEW t \in Desks, NEW p \in Phones, Revoke(t, p) PROVE RowsFresh'
  BY <1>7 DEF Revoke, handVars, deskVars
<1>8. ASSUME Expire PROVE RowsFresh'
  BY <1>8 DEF Expire, handVars, deskVars
<1>9. ASSUME NEW a \in Attempts,
          \/ Name(a) \/ Ask(a) \/ Hear(a) \/ GiveUp(a) \/ Withdraw(a) \/ NotYet(a)
   PROVE  RowsFresh'
  <2>1. UNCHANGED <<key, rows, under, wrote, crossed>>
    BY <1>9 DEF Name, Go, deskVars, Ask, Hear, Say, GiveUp, Withdraw, NotYet
  <2> QED
    BY <2>1
<1>10. ASSUME NEW t \in Desks,
          \/ Begin(t) \/ Mint(t) \/ ClearOld(t) \/ PutBack(t) \/ Tell(t) \/ Unoffer(t)
          \/ (\E i \in Ids : Confirm(t, i) \/ Reject(t, i))
   PROVE  RowsFresh'
  <2>1. UNCHANGED <<key, rows, under, wrote, crossed>>
    BY <1>10 DEF Begin, To, handVars, Mint, ClearOld, PutBack, Tell, Unoffer, Confirm, Reject, Take
  <2> QED
    BY <2>1
<1> QED
  BY <1>1, <1>2, <1>3, <1>4, <1>5, <1>6, <1>7, <1>8, <1>9, <1>10 DEF Next, Handshake, Desk

(* No offer of a key that is gone can be spent, but for the moment in which*)
(* revoke_all has yet to take it back.                                     *)
LEMMA OfferFreshKept ==
    ASSUME PairingInv, Next PROVE OfferFresh'
<1> USE PairingAssumption DEF PairingInv, TypeOK, HoldInv, HandsKnown, SecretsFresh, KeyInv,
     OfferFresh, Past
<1>1. ASSUME NEW a \in Attempts, NEW p \in Phones, Open(a, p) PROVE OfferFresh'
  BY <1>1 DEF Open, Go, Close, deskVars
<1>2. ASSUME NEW a \in Attempts, Fail(a) PROVE OfferFresh'
  BY <1>2 DEF Fail, Go, Close, deskVars
<1>3. ASSUME NEW a \in Attempts, Spend(a) PROVE OfferFresh'
  <2>1. CASE offer.n = secret[a] /\ ~offer.expired
    BY <1>3, <2>1 DEF Spend, Go, NoOffer, deskVars
  <2>2. CASE ~(offer.n = secret[a] /\ ~offer.expired)
    BY <1>3, <2>2 DEF Spend, Go, Close, NoOffer, deskVars
  <2> QED
    BY <2>1, <2>2
<1>4. ASSUME NEW a \in Attempts, Name(a) PROVE OfferFresh'
  BY <1>4 DEF Name, Go, deskVars
<1>5. ASSUME NEW a \in Attempts, Ask(a) PROVE OfferFresh'
  BY <1>5 DEF Ask, Go, deskVars
<1>6. ASSUME NEW a \in Attempts, Hear(a) PROVE OfferFresh'
  BY <1>6 DEF Hear, Say, Go, deskVars
<1>7. ASSUME NEW a \in Attempts, GiveUp(a) PROVE OfferFresh'
  BY <1>7 DEF GiveUp, Go, deskVars
<1>8. ASSUME NEW a \in Attempts, Withdraw(a) PROVE OfferFresh'
  BY <1>8 DEF Withdraw, Say, Go, deskVars
<1>9. ASSUME NEW a \in Attempts, NotYet(a) PROVE OfferFresh'
  BY <1>9 DEF NotYet, Say, Go, deskVars
<1>10. ASSUME NEW t \in Desks, Begin(t) PROVE OfferFresh'
  BY <1>10 DEF Begin, To, Idle, handVars
<1>11. ASSUME NEW t \in Desks, Mint(t) PROVE OfferFresh'
  BY <1>11 DEF Mint, To, Idle, handVars
<1>12. ASSUME NEW t \in Desks, ClearOld(t) PROVE OfferFresh'
  BY <1>12 DEF ClearOld, To, Idle, Cleared, handVars
<1>13. ASSUME NEW t \in Desks, Write(t) PROVE OfferFresh'
  <2>1. Answered(t)
    BY <1>13, AnsweredFacts
  <2> QED
    BY <2>1 DEF Answered
<1>14. ASSUME NEW t \in Desks, PutBack(t) PROVE OfferFresh'
  BY <1>14 DEF PutBack, To, Idle, handVars
<1>15. ASSUME NEW t \in Desks, Tell(t) PROVE OfferFresh'
  BY <1>15 DEF Tell, To, Idle
<1>16. ASSUME NEW t \in Desks, RevokeAll(t) PROVE OfferFresh'
  BY <1>16 DEF RevokeAll, To, Idle, handVars
<1>17. ASSUME NEW t \in Desks, Unoffer(t) PROVE OfferFresh'
  BY <1>17 DEF Unoffer, To, Idle, NoOffer, handVars
<1>18. ASSUME NEW t \in Desks, ClearAll(t) PROVE OfferFresh'
  BY <1>18 DEF ClearAll, To, Idle, Cleared, handVars
<1>19. ASSUME NEW t \in Desks, NEW i \in Ids, Confirm(t, i) \/ Reject(t, i) PROVE OfferFresh'
  <2>1. Taken(t, i)
    BY <1>19, TakenFacts
  <2> QED
    BY <2>1 DEF Taken
<1>20. ASSUME Expire PROVE OfferFresh'
  BY <1>20 DEF Expire, handVars, deskVars
<1>21. ASSUME NEW t \in Desks,
          \/ (\E p \in Phones : Revoke(t, p))
   PROVE  OfferFresh'
  <2>1. UNCHANGED <<key, offer, pc, secret, under, desk>>
    BY <1>21 DEF Revoke, handVars, deskVars
  <2> QED
    BY <2>1
<1> QED
  BY <1>1, <1>2, <1>3, <1>4, <1>5, <1>6, <1>7, <1>8, <1>9, <1>10, <1>11, <1>12, <1>13, <1>14,
       <1>15, <1>16, <1>17, <1>18, <1>19, <1>20, <1>21 DEF Next, Handshake, Desk

(* Revoke all finds every handshake on its way to a row, or crosses it.    *)
LEMMA WayFreshKept ==
    ASSUME PairingInv, Next PROVE WayFresh'
<1> USE PairingAssumption DEF PairingInv, TypeOK, HoldInv, HandsKnown, DesksKnown, EarlyFree,
     Held, KeyInv, OfferFresh, WayFresh, OnItsWay, Revoking, Past, Ids
<1>1. ASSUME NEW a \in Attempts, NEW p \in Phones, Open(a, p) PROVE WayFresh'
  BY <1>1 DEF Open, Go, Close, deskVars
<1>2. ASSUME NEW a \in Attempts, Fail(a) PROVE WayFresh'
  BY <1>2 DEF Fail, Go, Close, deskVars
<1>3. ASSUME NEW a \in Attempts, Spend(a) PROVE WayFresh'
  BY <1>3 DEF Spend, Go, Close, NoOffer, deskVars
<1>4. ASSUME NEW a \in Attempts, Name(a) PROVE WayFresh'
  BY <1>4 DEF Name, Go, deskVars
<1>5. ASSUME NEW a \in Attempts, Ask(a) PROVE WayFresh'
  BY <1>5 DEF Ask, Go, deskVars
<1>6. ASSUME NEW a \in Attempts, Hear(a) PROVE WayFresh'
  BY <1>6 DEF Hear, Say, Go, deskVars
<1>7. ASSUME NEW a \in Attempts, GiveUp(a) PROVE WayFresh'
  BY <1>7 DEF GiveUp, Go, deskVars
<1>8. ASSUME NEW a \in Attempts, Withdraw(a) PROVE WayFresh'
  BY <1>8 DEF Withdraw, Say, Go, deskVars
<1>9. ASSUME NEW a \in Attempts, NotYet(a) PROVE WayFresh'
  BY <1>9 DEF NotYet, Say, Go, deskVars
<1>10. ASSUME NEW t \in Desks, Begin(t) PROVE WayFresh'
  BY <1>10 DEF Begin, To, Idle, handVars
<1>11. ASSUME NEW t \in Desks, Mint(t) PROVE WayFresh'
  BY <1>11 DEF Mint, To, Idle, handVars
<1>12. ASSUME NEW t \in Desks, ClearOld(t) PROVE WayFresh'
  BY <1>12 DEF ClearOld, To, Idle, Cleared, handVars
<1>13. ASSUME NEW t \in Desks, Write(t) PROVE WayFresh'
  <2>1. Answered(t)
    BY <1>13, AnsweredFacts
  <2>2. ASSUME NEW a \in Attempts, OnItsWay(a)' PROVE OnItsWay(a)
    BY <2>1, <2>2 DEF Answered
  <2>3. ASSUME NEW u \in Desks, ~Revoking(u)' PROVE ~Revoking(u)
    BY <2>1, <2>3 DEF Answered
  <2>4. UNCHANGED <<under, key>> /\ crossed \subseteq crossed'
    BY <2>1 DEF Answered
  <2> HIDE DEF OnItsWay, Revoking
  <2> QED
    BY <2>2, <2>3, <2>4
<1>14. ASSUME NEW t \in Desks, PutBack(t) PROVE WayFresh'
  BY <1>14 DEF PutBack, To, Idle, handVars
<1>15. ASSUME NEW t \in Desks, Tell(t) PROVE WayFresh'
  BY <1>15 DEF Tell, To, Idle
<1>16. ASSUME NEW t \in Desks, RevokeAll(t) PROVE WayFresh'
  BY <1>16 DEF RevokeAll, To, Idle, handVars
<1>17. ASSUME NEW t \in Desks, Unoffer(t) PROVE WayFresh'
  BY <1>17 DEF Unoffer, To, Idle, NoOffer, handVars
<1>18. ASSUME NEW t \in Desks, ClearAll(t) PROVE WayFresh'
  BY <1>18 DEF ClearAll, To, Idle, Cleared, handVars
<1>19. ASSUME NEW t \in Desks, NEW i \in Ids, Confirm(t, i) \/ Reject(t, i) PROVE WayFresh'
  <2>1. Taken(t, i)
    BY <1>19, TakenFacts
  <2>2. ASSUME NEW a \in Attempts, OnItsWay(a)' PROVE OnItsWay(a)
    <3>1. CASE \E j \in Ids : waiting'[j] = a
      BY <2>1, <3>1 DEF Taken
    <3>2. CASE \E u \in Desks : desk'[u].who = a /\ desk'[u].do \in {"write", "putBack"}
      BY <2>1, <3>2 DEF Taken
    <3>3. CASE pc'[a] \in {"spent", "named"}
      BY <2>1, <3>3 DEF Taken
    <3> QED
      BY <2>2, <3>1, <3>2, <3>3
  <2>3. ASSUME NEW u \in Desks, ~Revoking(u)' PROVE ~Revoking(u)
    BY <2>1, <2>3 DEF Taken
  <2>4. UNCHANGED <<under, key, crossed>>
    BY <2>1 DEF Taken
  <2> HIDE DEF OnItsWay, Revoking
  <2> QED
    BY <2>2, <2>3, <2>4
<1>20. ASSUME Expire PROVE WayFresh'
  BY <1>20 DEF Expire, handVars, deskVars
<1>21. ASSUME NEW t \in Desks,
          \/ (\E p \in Phones : Revoke(t, p))
   PROVE  WayFresh'
  <2>1. UNCHANGED <<key, waiting, pc, under, desk, crossed>>
    BY <1>21 DEF Revoke, handVars, deskVars
  <2> QED
    BY <2>1
<1> QED
  BY <1>1, <1>2, <1>3, <1>4, <1>5, <1>6, <1>7, <1>8, <1>9, <1>10, <1>11, <1>12, <1>13, <1>14,
       <1>15, <1>16, <1>17, <1>18, <1>19, <1>20, <1>21 DEF Next, Handshake, Desk

-----------------------------------------------------------------------------
(* A daemon that starts keeps no pairing in flight.                        *)
LEMMA PairingInvInit == Init => PairingInv
<1> SUFFICES ASSUME Init PROVE PairingInv
  OBVIOUS
<1> USE PairingAssumption DEF Init
<1>1. TypeOK
  BY DEF TypeOK, Ids, Ended, NoOffer, Idle
<1>2. \A a \in Attempts : ~Held(a)
  BY DEF Held, Idle
<1>3. HandsKnown /\ DesksKnown /\ EarlyFree /\ EntriesOpen /\ HandsOne /\ MailTrue
  BY <1>2 DEF HandsKnown, DesksKnown, EarlyFree, EntriesOpen, HandsOne, MailTrue, Past, Idle
<1>4. ToldWhatIsTrue /\ OneAskPerSecret
  BY DEF ToldWhatIsTrue, OneAskPerSecret
<1>5. SecretsFresh
  BY DEF SecretsFresh, Past, NoOffer, Idle
<1>6. RowsFresh /\ OfferFresh /\ WayFresh
  BY DEF RowsFresh, OfferFresh, WayFresh, OnItsWay, Idle
<1> QED
  BY <1>1, <1>3, <1>4, <1>5, <1>6 DEF PairingInv, HoldInv, KeyInv

(* Every step of a handshake's thread, of a request of the desk's and of   *)
(* the clock keeps the invariant.                                          *)
LEMMA PairingInvKept == PairingInv /\ [Next]_vars => PairingInv'
<1>1. ASSUME PairingInv, Next PROVE PairingInv'
  BY <1>1, TypeOKKept, HandsKnownKept, DesksKnownKept, EarlyFreeKept, EntriesOpenKept,
     HandsOneKept, MailTrueKept, ToldWhatIsTrueKept, SecretsFreshKept, OneAskPerSecretKept,
     RowsFreshKept, OfferFreshKept, WayFreshKept
     DEF PairingInv, HoldInv, KeyInv
<1>2. ASSUME PairingInv, UNCHANGED vars PROVE PairingInv'
  <2> USE <1>2 DEF vars, handVars
  <2>1. TypeOK' /\ SecretsFresh' /\ OneAskPerSecret'
    BY DEF PairingInv, TypeOK, SecretsFresh, OneAskPerSecret
  <2>2. HoldInv' /\ ToldWhatIsTrue'
    BY DEF PairingInv, HoldInv, HandsKnown, DesksKnown, EarlyFree, EntriesOpen, HandsOne,
           MailTrue, ToldWhatIsTrue, Held
  <2>3. KeyInv'
    BY DEF PairingInv, KeyInv, RowsFresh, OfferFresh, WayFresh, OnItsWay, Revoking
  <2> QED
    BY <2>1, <2>2, <2>3 DEF PairingInv
<1> QED
  BY <1>1, <1>2

(* The invariant holds in every state of every run of the daemon.          *)
THEOREM PairingSafe == Spec => []PairingInv
  BY PairingInvInit, PairingInvKept, PTL DEF Spec

(* Types: the offer, the entries, the handshakes, the requests and the     *)
(* rows are always what the code's locks and channels can hold, and an     *)
(* entry waits under its own Device's id.                                  *)
THEOREM PairingTypes == Spec => []TypeOK
<1>1. PairingInv => TypeOK
  BY DEF PairingInv
<1> QED
  BY PairingSafe, <1>1, PTL

(* Whatever crosses whatever, a Device is told paired only with its row    *)
(* written, rejected or (in time) expired only with none written and none  *)
(* to come: await_decision, give_up and confirm_pairing.                   *)
THEOREM DevicesToldTrue == Spec => []ToldWhatIsTrue
<1>1. PairingInv => ToldWhatIsTrue
  BY DEF PairingInv
<1> QED
  BY PairingSafe, <1>1, PTL

(* However many handshakes run on one QR, pair_over lets one at most past  *)
(* its secret.                                                             *)
THEOREM SecretsSpentOnce == Spec => []OneAskPerSecret
<1>1. PairingInv => OneAskPerSecret
  BY DEF PairingInv
<1> QED
  BY PairingSafe, <1>1, PTL

(* Once revoke_all_devices has run, no handshake on the key it rotated     *)
(* away has left a trusted row, but for those it crossed.                  *)
THEOREM RevokeAllIsFinal == Spec => []RevokeAllReaches
<1>1. PairingInv => RevokeAllReaches
  BY DEF PairingInv, KeyInv, RowsFresh, RevokeAllReaches, Trusted
<1> QED
  BY PairingSafe, <1>1, PTL
=============================================================================
