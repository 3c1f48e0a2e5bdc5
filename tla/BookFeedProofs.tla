--------------------------- MODULE BookFeedProofs ---------------------------
(***************************************************************************)
(* Theorems about BookFeed, for any prices, clocks and faults.             *)
(***************************************************************************)
EXTENDS BookFeed, SequenceTheorems, TLAPS

Deltas == [side : Sides, price : Prices, there : BOOLEAN, ts : Nat]

(***************************************************************************)
(* Types                                                                   *)
(***************************************************************************)
LEMMA StampTypes ==
    ASSUME TypeOK, NEW ts \in Stamps
    PROVE  ts \in Nat
BY DEF TypeOK, Stamps

LEMMA SnapshotTypes ==
    ASSUME TypeOK, NEW levels \in Levels, NEW ts \in Int, NEW refreshed \in BOOLEAN,
           ApplySnapshot(levels, ts, refreshed)
    PROVE  book' \in Levels /\ last' \in Int /\ overwritten' \in BOOLEAN
BY DEF TypeOK, ApplySnapshot, local

LEMMA DeltaTypes ==
    ASSUME TypeOK, NEW delta \in Deltas, ApplyDelta(delta)
    PROVE  book' \in Levels /\ last' \in Int /\ overwritten' \in BOOLEAN
BY DEF TypeOK, ApplyDelta, Deltas, Levels

LEMMA TypesKept == TypeOK /\ [Next]_vars => TypeOK'
<1> SUFFICES ASSUME TypeOK, [Next]_vars PROVE TypeOK'
  OBVIOUS
<1> USE DEF exchange, channel, local, quoter
<1>0. MaxTime \in Nat /\ Skews \subseteq Int
  BY FeedAssumption DEF FeedAssumption
<1>1. ASSUME NEW side \in Sides, NEW price \in Prices, Change(side, price)
      PROVE  TypeOK'
  <2>1. truth' \in Levels /\ Uncrossed(truth')
    BY <1>1 DEF Change, TypeOK, Levels
  <2>2. clock' \in 1 .. MaxTime + 1
    BY <1>0, <1>1 DEF Change, TypeOK
  <2>3. \A ts \in {clock'} \cup (Stamps \ {clock}) :
           [side |-> side, price |-> price, there |-> price \notin truth[side], ts |-> ts] \in Deltas
    BY <2>2, StampTypes DEF Deltas
  <2>4. feed' \in Seq(Deltas)
    <3>1. feed \in Seq(Deltas)
      BY DEF TypeOK, Deltas
    <3>2. ASSUME NEW ts \in {clock'} \cup (Stamps \ {clock}),
                 feed' = Append(feed, [side |-> side, price |-> price,
                                       there |-> price \notin truth[side], ts |-> ts])
          PROVE  feed' \in Seq(Deltas)
      BY <2>3, <3>1, <3>2
    <3>3. CASE feed' = feed
      BY <3>1, <3>3
    <3> QED BY <1>1, <3>2, <3>3 DEF Change
  <2> QED BY <1>1, <2>1, <2>2, <2>4 DEF Change, TypeOK, Deltas, Uncrossed
<1>2. CASE TimePasses
  BY <1>0, <1>2 DEF TimePasses, TypeOK, Uncrossed
<1>3. CASE Subscribe
  <2>1. snap' \in [levels : Levels, ts : Nat]
    BY <1>3, StampTypes DEF Subscribe, TypeOK
  <2>2. feed' \in Seq(Deltas)
    BY <1>3 DEF Subscribe
  <2>3. exact' \in BOOLEAN
    BY <1>3 DEF Subscribe
  <2> QED BY <1>3, <2>1, <2>2, <2>3 DEF Subscribe, TypeOK, Deltas, Uncrossed
<1>4. CASE LinkDrops
  <2>1. feed' \in Seq(Deltas)
    BY <1>4 DEF LinkDrops
  <2> QED BY <1>4, <2>1 DEF LinkDrops, TypeOK, Deltas, Uncrossed
<1>5. CASE LinkStale
  BY <1>5 DEF LinkStale, TypeOK, Uncrossed
<1>6. CASE OnBook
  <2>1. snap.levels \in Levels /\ snap.ts \in Int
    BY <1>6 DEF OnBook, TypeOK
  <2>2. book' \in Levels /\ last' \in Int /\ overwritten' \in BOOLEAN
    BY <1>6, <2>1, SnapshotTypes DEF OnBook
  <2> QED BY <1>6, <2>2 DEF OnBook, TypeOK, Uncrossed
<1>7. CASE OnPriceChange
  <2>0. feed \in Seq(Deltas) /\ feed # <<>>
    BY <1>7 DEF OnPriceChange, TypeOK, Deltas
  <2>1. Head(feed) \in Deltas /\ Tail(feed) \in Seq(Deltas)
    BY <2>0, HeadTailProperties
  <2>2. book' \in Levels /\ last' \in Int /\ overwritten' \in BOOLEAN
    BY <1>7, <2>1, DeltaTypes DEF OnPriceChange
  <2> QED BY <1>7, <2>1, <2>2 DEF OnPriceChange, TypeOK, Deltas, Uncrossed
<1>8. CASE FirstRefresh
  BY <1>8 DEF FirstRefresh, TypeOK, Uncrossed
<1>9. CASE ServeBook
  BY <1>9 DEF ServeBook, TypeOK, Uncrossed
<1>10. CASE RefreshBook
  <2>1. rest \in Levels /\ clock + skew \in Int
    BY <1>0, <1>10 DEF RefreshBook, TypeOK
  <2>2. book' \in Levels /\ last' \in Int /\ overwritten' \in BOOLEAN
    BY <1>10, <2>1, SnapshotTypes DEF RefreshBook, TypeOK
  <2> QED BY <1>10, <2>2 DEF RefreshBook, TypeOK, Uncrossed
<1>11. CASE RefreshFails
  BY <1>11 DEF RefreshFails, TypeOK, Uncrossed
<1>12. CASE QuoterTick
  <2>1. quoting' \in BOOLEAN
    BY <1>12 DEF QuoterTick, MarkUnusable, Blind, TypeOK
  <2>2. unusable' \in {"no", "new", "old"}
    BY <1>12 DEF QuoterTick, MarkUnusable, TypeOK
  <2> QED BY <1>12, <2>1, <2>2 DEF QuoterTick, TypeOK, Uncrossed
<1>13. CASE GraceEnds
  BY <1>13 DEF GraceEnds, TypeOK, Uncrossed
<1>14. CASE UNCHANGED vars
  BY <1>14 DEF vars, TypeOK, Uncrossed
<1> QED BY <1>1, <1>2, <1>3, <1>4, <1>5, <1>6, <1>7, <1>8, <1>9, <1>10, <1>11,
           <1>12, <1>13, <1>14 DEF Next

LEMMA TypesAtFirst == Init => TypeOK
<1> SUFFICES ASSUME Init PROVE TypeOK
  OBVIOUS
<1>1. truth \in Levels /\ Uncrossed(truth) /\ skew \in Skews /\ 1 \in 1 .. MaxTime + 1
  BY FeedAssumption DEF Init, FeedAssumption, Levels, Uncrossed
<1>2. book \in Levels
  BY DEF Init, Levels
<1>3. feed \in Seq(Deltas)
  BY DEF Init
<1>4. snap = None /\ rest \in {Off, None} \cup Levels /\ last \in Int
  BY DEF Init
<1>5. link \in {"down", "stale", "up"} /\ exact \in BOOLEAN /\ overwritten \in BOOLEAN /\ quoting \in BOOLEAN
  BY DEF Init
<1>6. clock \in 1 .. MaxTime + 1 /\ unusable \in {"no", "new", "old"}
  BY <1>1 DEF Init
<1> QED BY <1>1, <1>2, <1>3, <1>4, <1>5, <1>6 DEF TypeOK, Deltas

\* The exchange's book is never crossed, and everything else has its type,
\* under every fault.
THEOREM TypeCorrect == Spec => []TypeOK
BY TypesAtFirst, TypesKept, PTL DEF Spec

(***************************************************************************)
(* The book of a connection that keeps its order                           *)
(***************************************************************************)
\* What the deltas on their way will be applied to.
Basis == IF snap = None THEN book ELSE snap.levels

\* Only the exchange's time is on what no refresh wrote, so that no snapshot
\* comes too late to be applied to it.
InTime ==
    /\ \A i \in DOMAIN feed : feed[i].ts <= clock
    /\ snap # None => snap.ts <= clock
    /\ ~overwritten => last <= clock
    /\ ~overwritten /\ exact /\ link = "up" /\ snap # None => snap.ts = 0 \/ last <= snap.ts

\* A snapshot under way will be right whatever the book is.
Follows ==
    link = "up" /\ exact /\ (snap = None => ~overwritten) => ArrivesAs(Basis)

FeedInv == InTime /\ Follows

Told(deltas, side, price) ==
    {i \in DOMAIN deltas : deltas[i].side = side /\ deltas[i].price = price}

\* Arriving, as a function of the deltas.
Comes(deltas, levels, side, price) ==
    \/ Told(deltas, side, price) = {} /\ price \in levels[side]
    \/ \E i \in Told(deltas, side, price) :
          (\A j \in Told(deltas, side, price) : j <= i) /\ deltas[i].there

\* What is told last decides.
LEMMA LastDecides ==
    ASSUME NEW deltas \in Seq(Deltas), NEW delta \in Deltas, NEW levels \in Levels,
           NEW side \in Sides, NEW price \in Prices
    PROVE  Comes(Append(deltas, delta), levels, side, price)
             <=> IF delta.side = side /\ delta.price = price
                 THEN delta.there ELSE Comes(deltas, levels, side, price)
<1> DEFINE more == Append(deltas, delta)
           n == Len(deltas) + 1
<1>1. /\ DOMAIN deltas = 1 .. Len(deltas) /\ Len(deltas) \in Nat
      /\ DOMAIN more = 1 .. n
      /\ more[n] = delta
      /\ \A i \in DOMAIN deltas : more[i] = deltas[i]
  BY AppendProperties
<1>2. CASE delta.side = side /\ delta.price = price
  <2>1. n \in Told(more, side, price)
    BY <1>1, <1>2 DEF Told
  <2>2. \A j \in Told(more, side, price) : j <= n /\ j \in Int
    BY <1>1 DEF Told
  <2> HIDE DEF more, n
  <2>3. \A i \in Told(more, side, price) :
           (\A j \in Told(more, side, price) : j <= i) => i = n
    BY <1>1, <2>1, <2>2
  <2> QED BY <1>1, <1>2, <2>1, <2>2, <2>3 DEF Comes, more
<1>3. CASE ~(delta.side = side /\ delta.price = price)
  <2>1. Told(more, side, price) = Told(deltas, side, price)
    BY <1>1, <1>3 DEF Told
  <2>2. \A i \in Told(deltas, side, price) : more[i].there = deltas[i].there
    BY <1>1 DEF Told
  <2> HIDE DEF more
  <2> QED BY <1>3, <2>1, <2>2 DEF Comes, more
<1> QED BY <1>2, <1>3

\* Applying the first delta changes nothing of what arrives.
LEMMA FirstApplied ==
    ASSUME NEW deltas \in Seq(Deltas), deltas # <<>>, NEW levels \in Levels,
           NEW next \in Levels,
           next = [levels EXCEPT ![Head(deltas).side] =
                     IF Head(deltas).there THEN @ \cup {Head(deltas).price}
                                           ELSE @ \ {Head(deltas).price}],
           NEW side \in Sides, NEW price \in Prices
    PROVE  Comes(Tail(deltas), next, side, price) <=> Comes(deltas, levels, side, price)
<1> DEFINE first == deltas[1]
           less == Tail(deltas)
           all == Told(deltas, side, price)
           rem == Told(less, side, price)
<1>1. /\ Len(deltas) \in Nat /\ Len(deltas) >= 1 /\ DOMAIN deltas = 1 .. Len(deltas)
      /\ DOMAIN less = 1 .. (Len(deltas) - 1)
      /\ \A i \in DOMAIN less : less[i] = deltas[i + 1]
      /\ Head(deltas) = first /\ first \in Deltas
  BY HeadTailProperties
<1>2. \A i \in rem : i \in Nat /\ i >= 1 /\ i + 1 \in all /\ less[i] = deltas[i + 1]
  BY <1>1 DEF Told
<1>3. \A i \in all : i \in Nat /\ (i = 1 \/ (i - 1 \in rem /\ less[i - 1] = deltas[i]))
  BY <1>1 DEF Told
<1>4. 1 \in all <=> first.side = side /\ first.price = price
  BY <1>1 DEF Told
<1>5. first.side # side \/ first.price # price => (price \in next[side] <=> price \in levels[side])
  BY <1>1 DEF Levels, Deltas
<1>6. first.side = side /\ first.price = price => (price \in next[side] <=> first.there)
  BY <1>1 DEF Levels, Deltas
<1>7. CASE rem = {}
  <2>1. Comes(less, next, side, price) <=> price \in next[side]
    BY <1>7 DEF Comes
  <2>2. all = IF first.side = side /\ first.price = price THEN {1} ELSE {}
    BY <1>3, <1>4, <1>7
  <2>3. CASE first.side = side /\ first.price = price
    <3>1. all = {1}
      BY <2>2, <2>3
    <3>2. Comes(deltas, levels, side, price) <=> first.there
      <4> HIDE DEF all
      <4>1. \A j \in all : j <= 1
        BY <3>1
      <4> QED BY <3>1, <4>1 DEF Comes, all
    <3> QED BY <1>6, <2>1, <2>3, <3>2
  <2>4. CASE ~(first.side = side /\ first.price = price)
    <3>1. Comes(deltas, levels, side, price) <=> price \in levels[side]
      BY <2>2, <2>4 DEF Comes
    <3> QED BY <1>5, <2>1, <2>4, <3>1
  <2> QED BY <2>3, <2>4
<1>8. CASE rem # {}
  <2>1. all # {}
    BY <1>2, <1>8
  <2>2. ASSUME NEW i \in rem, \A j \in rem : j <= i
        PROVE  i + 1 \in all /\ \A j \in all : j <= i + 1
    BY <1>2, <1>3, <2>2
  <2>3. ASSUME NEW i \in all, \A j \in all : j <= i
        PROVE  i - 1 \in rem /\ \A j \in rem : j <= i - 1
    <3>1. PICK k \in rem : TRUE
      BY <1>8
    <3>2. i # 1
      BY <1>2, <2>3, <3>1
    <3>3. i - 1 \in rem
      BY <1>3, <3>2
    <3>4. ASSUME NEW j \in rem PROVE j <= i - 1
      BY <1>2, <1>3, <2>3
    <3> QED BY <3>3, <3>4
  <2>4. Comes(less, next, side, price) => Comes(deltas, levels, side, price)
    BY <1>2, <1>8, <2>2 DEF Comes
  <2>5. Comes(deltas, levels, side, price) => Comes(less, next, side, price)
    <3> SUFFICES ASSUME Comes(deltas, levels, side, price)
                 PROVE  Comes(less, next, side, price)
      OBVIOUS
    <3>1. PICK i \in all : (\A j \in all : j <= i) /\ deltas[i].there
      BY <2>1 DEF Comes
    <3>2. i - 1 \in rem /\ \A j \in rem : j <= i - 1
      BY <2>3, <3>1
    <3>3. less[i - 1] = deltas[i]
      <4>1. i - 1 >= 1 /\ less[i - 1] = deltas[(i - 1) + 1]
        BY <1>2, <3>2
      <4>2. (i - 1) + 1 = i
        BY <1>3, <3>1
      <4> QED BY <4>1, <4>2
    <3> QED BY <3>1, <3>2, <3>3 DEF Comes
  <2> QED BY <2>4, <2>5
<1> QED BY <1>7, <1>8

LEMMA ArrivingComes ==
    ASSUME NEW levels, NEW side, NEW price
    PROVE  Arriving(levels, side, price) <=> Comes(feed, levels, side, price)
BY DEF Arriving, Comes, Told

LEMMA FeedKept == TypeOK /\ FeedInv /\ [Next]_vars => FeedInv'
<1> SUFFICES ASSUME TypeOK, FeedInv, [Next]_vars PROVE FeedInv'
  OBVIOUS
<1> USE DEF exchange, channel, local, quoter
<1>0. /\ feed \in Seq(Deltas) /\ truth \in Levels /\ book \in Levels
      /\ clock \in Nat /\ clock >= 1 /\ last \in Int
      /\ snap # None => snap \in [levels : Levels, ts : Nat]
      /\ Basis \in Levels
  BY DEF TypeOK, Deltas, Basis
<1>ts. \A i \in DOMAIN feed : feed[i] \in Deltas /\ feed[i].ts \in Nat
  <2>1. ASSUME NEW i \in DOMAIN feed PROVE feed[i] \in Deltas
    BY <1>0, LenProperties, ElementOfSeq
  <2> QED BY <2>1 DEF Deltas
<1>1. ASSUME UNCHANGED <<clock, link, exact, feed, snap, local, truth>>
      PROVE  FeedInv'
  <2>1. \A side, price, levels : Arriving(levels, side, price)' <=> Arriving(levels, side, price)
    BY <1>1 DEF Arriving
  <2>2. Basis' = Basis
    BY <1>1 DEF Basis
  <2> QED BY <1>1, <2>1, <2>2 DEF FeedInv, InTime, Follows, ArrivesAs
<1>3. ASSUME NEW side \in Sides, NEW price \in Prices, Change(side, price)
      PROVE  FeedInv'
  <2> DEFINE there == price \notin truth[side]
             delta(ts) == [side |-> side, price |-> price, there |-> there, ts |-> ts]
  <2>0. /\ clock' = clock + 1 /\ last' = last /\ overwritten' = overwritten
        /\ snap' = snap /\ link' = link /\ exact' = exact
    BY <1>3 DEF Change
  <2>1. ASSUME \A i \in DOMAIN feed' : feed'[i].ts <= clock' PROVE InTime'
    <3>1. snap # None => snap.ts \in Nat
      BY <1>0
    <3> QED BY <1>0, <2>0, <2>1, <3>1 DEF FeedInv, InTime
  <2>2. CASE feed' = feed /\ ~(link = "up" /\ exact)
    <3>1. InTime'
      BY <1>0, <1>ts, <2>0, <2>1, <2>2 DEF FeedInv, InTime
    <3> QED BY <2>0, <2>2, <3>1 DEF FeedInv, Follows
  <2>3. ASSUME NEW ts \in {clock'} \cup (Stamps \ {clock}), feed' = Append(feed, delta(ts))
        PROVE  FeedInv'
    <3>1. ts \in Nat /\ ts <= clock'
      BY <1>0, <2>0 DEF Stamps
    <3>2. delta(ts) \in Deltas
      BY <3>1 DEF Deltas
    <3>3. InTime'
      <4>1. \A i \in DOMAIN feed' :
               \/ i \in DOMAIN feed /\ feed'[i] = feed[i]
               \/ feed'[i].ts = ts
        BY <1>0, <2>3, <3>2, AppendProperties, LenProperties
      <4> QED BY <1>0, <1>ts, <2>0, <2>1, <3>1, <4>1 DEF FeedInv, InTime
    <3>4. ASSUME link' = "up" /\ exact' /\ (snap' = None => ~overwritten')
          PROVE  ArrivesAs(Basis)'
      <4>1. Basis' = Basis /\ ArrivesAs(Basis)
        BY <1>3, <2>0, <3>4 DEF Basis, Change, FeedInv, Follows
      <4>2. ASSUME NEW s \in Sides, NEW p \in Prices
            PROVE  Arriving(Basis, s, p)' <=> p \in truth'[s]
        <5>1. Arriving(Basis, s, p)' <=> Comes(feed', Basis, s, p)
          BY <4>1 DEF Arriving, Comes, Told
        <5>2. Comes(feed', Basis, s, p)
                <=> IF side = s /\ price = p THEN there ELSE Comes(feed, Basis, s, p)
          <6>1. delta(ts).side = side /\ delta(ts).price = price /\ delta(ts).there = there
            OBVIOUS
          <6> HIDE DEF delta
          <6> QED BY <1>0, <2>3, <3>2, <6>1, LastDecides
        <5>3. Comes(feed, Basis, s, p) <=> p \in truth[s]
          BY <4>1, ArrivingComes DEF ArrivesAs
        <5>4. p \in truth'[s] <=> IF side = s /\ price = p THEN there ELSE p \in truth[s]
          BY <1>0, <1>3 DEF Change, Levels
        <5> QED BY <5>1, <5>2, <5>3, <5>4
      <4> QED BY <4>2 DEF ArrivesAs
    <3> QED BY <3>3, <3>4 DEF FeedInv, Follows
  <2> QED BY <1>3, <2>2, <2>3 DEF Change
<1>4. CASE TimePasses
  <2>1. Follows'
    BY <1>4 DEF TimePasses, FeedInv, Follows, ArrivesAs, Arriving, Basis
  <2> QED BY <1>0, <1>ts, <1>4, <2>1 DEF TimePasses, FeedInv, InTime
<1>5. CASE Subscribe
  <2>1. PICK ts \in Stamps : snap' = [levels |-> truth, ts |-> ts]
    BY <1>5 DEF Subscribe
  <2>2. snap' # None /\ snap'.levels = truth /\ snap'.ts = ts /\ feed' = <<>>
    BY <1>0, <1>5, <2>1, StampTypes, NoBookAssumption DEF Subscribe, NoBookAssumption
  <2>3. InTime'
    BY <1>0, <1>5, <2>2 DEF Subscribe, FeedInv, InTime, Stamps
  <2>4. Follows'
    BY <1>5, <2>2 DEF Subscribe, Follows, ArrivesAs, Arriving, Basis
  <2> QED BY <2>3, <2>4 DEF FeedInv
<1>6. CASE LinkDrops
  BY <1>6 DEF LinkDrops, FeedInv, InTime, Follows
<1>7. CASE LinkStale
  BY <1>7 DEF LinkStale, FeedInv, InTime, Follows
<1>8. CASE OnBook
  <2>1. InTime'
    BY <1>0, <1>8 DEF OnBook, ApplySnapshot, FeedInv, InTime
  <2>2. ASSUME link' = "up" /\ exact' /\ ~overwritten' PROVE ArrivesAs(Basis)'
    <3>1. Basis' = Basis
      BY <1>0, <1>8, <2>2 DEF OnBook, ApplySnapshot, Basis, FeedInv, InTime
    <3>2. ArrivesAs(Basis)
      BY <1>8, <2>2 DEF OnBook, FeedInv, Follows
    <3> QED BY <1>8, <3>1, <3>2 DEF OnBook, ArrivesAs, Arriving
  <2> QED BY <1>8, <2>1, <2>2 DEF OnBook, FeedInv, Follows
<1>9. CASE OnPriceChange
  <2>1. /\ feed # <<>> /\ feed' = Tail(feed)
        /\ UNCHANGED <<truth, clock, link, exact, snap, overwritten>>
    BY <1>9 DEF OnPriceChange, ApplyDelta
  <2>2. /\ Head(feed) = feed[1] /\ 1 \in DOMAIN feed /\ Head(feed) \in Deltas
        /\ \A i \in DOMAIN Tail(feed) : i + 1 \in DOMAIN feed /\ Tail(feed)[i] = feed[i + 1]
    BY <1>0, <2>1, HeadTailProperties
  <2>3. last' <= clock
    BY <1>9, <2>2 DEF OnPriceChange, ApplyDelta, FeedInv, InTime
  <2>4. exact => snap = None
    BY <1>9 DEF OnPriceChange
  <2>5. InTime'
    BY <2>1, <2>2, <2>3, <2>4 DEF FeedInv, InTime
  <2>6. ASSUME link' = "up" /\ exact' /\ ~overwritten' PROVE ArrivesAs(Basis)'
    <3>1. Basis = book /\ Basis' = book' /\ ArrivesAs(book)
      BY <2>1, <2>4, <2>6 DEF Basis, FeedInv, Follows
    <3>2. book' \in Levels
      BY <1>9, <2>2, DeltaTypes DEF OnPriceChange
    <3>3. ASSUME NEW s \in Sides, NEW p \in Prices
          PROVE  Arriving(book, s, p)' <=> p \in truth[s]
      <4>1. Arriving(book, s, p)' <=> Comes(Tail(feed), book', s, p)
        BY <2>1 DEF Arriving, Comes, Told
      <4>2. Comes(Tail(feed), book', s, p) <=> Comes(feed, book, s, p)
        BY <1>0, <1>9, <2>1, <3>2, FirstApplied DEF OnPriceChange, ApplyDelta
      <4>3. Comes(feed, book, s, p) <=> p \in truth[s]
        BY <3>1, ArrivingComes DEF ArrivesAs
      <4> QED BY <4>1, <4>2, <4>3
    <3> QED BY <2>1, <3>1, <3>3 DEF ArrivesAs
  <2> QED BY <2>1, <2>4, <2>5, <2>6 DEF FeedInv, Follows
<1>10. CASE FirstRefresh \/ ServeBook \/ RefreshFails
  BY <1>1, <1>10 DEF FirstRefresh, ServeBook, RefreshFails
\* Either the book stays, or it is overwritten and a snapshot is what counts.
<1>11. CASE RefreshBook
  <2>1. UNCHANGED <<clock, link, exact, feed, snap, truth>>
    BY <1>11 DEF RefreshBook
  <2>2. CASE UNCHANGED local
    BY <1>1, <2>1, <2>2
  <2>3. CASE overwritten' = TRUE
    <3>1. InTime'
      BY <2>1, <2>3 DEF FeedInv, InTime
    <3>2. snap # None => Basis' = Basis
      BY <2>1 DEF Basis
    <3>3. \A levels, side, price : Arriving(levels, side, price)' <=> Arriving(levels, side, price)
      BY <2>1 DEF Arriving
    <3> QED BY <2>1, <2>3, <3>1, <3>2, <3>3 DEF FeedInv, Follows, ArrivesAs
  <2> QED BY <1>11, <2>2, <2>3 DEF RefreshBook, ApplySnapshot
<1>12. CASE QuoterTick \/ GraceEnds \/ UNCHANGED vars
  BY <1>1, <1>12 DEF QuoterTick, GraceEnds, vars
<1> QED BY <1>3, <1>4, <1>5, <1>6, <1>7, <1>8, <1>9, <1>10, <1>11, <1>12 DEF Next

\* A connection that keeps its order has told, or has on its way, exactly what
\* the exchange's book is; what has been told is in the book unless a refresh
\* wrote it since.
THEOREM FeedInvariant == Spec => [](TypeOK /\ FeedInv)
<1>1. Init => FeedInv
  BY DEF Init, FeedInv, InTime, Follows
<1> QED BY <1>1, TypesAtFirst, TypesKept, FeedKept, PTL DEF Spec

\* For any prices and clocks, whatever earlier connections lost and wherever
\* refreshes fall, up to the one that overwrites the book and again from the
\* next snapshot that is applied.
THEOREM FeedAlwaysExact == Spec => []FeedIsExact
<1>1. FeedInv => FeedIsExact
  BY DEF FeedInv, Follows, FeedIsExact, Basis
<1> QED BY <1>1, FeedInvariant, PTL
=============================================================================
