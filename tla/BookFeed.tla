------------------------------ MODULE BookFeed ------------------------------
(***************************************************************************)
(* The local copy of one token's order book: MarketDataService keeps it    *)
(* from websocket frames, the maintenance loop compares it with a REST     *)
(* read every two minutes, and the quoter of the market quotes on it or,   *)
(* when it is unusable or the link is down for long, pulls its quotes.     *)
(*                                                                         *)
(* A book is the prices with size on each side, in ticks.  The exchange's  *)
(* clock counts its changes; the local clock differs from it by skew.      *)
(***************************************************************************)
EXTENDS Integers, Sequences, FiniteSetsExt

CONSTANTS
    Prices,     \* prices in ticks
    Opened,     \* the exchange's book at the start
    Rounded,    \* prices whose floating-point distance to the next exceeds a tick
    Skews,      \* local clock minus exchange clock
    Faults,     \* what may go wrong with the feed
    None, Off,  \* no frame or read under way; no refresh has begun
    MaxTime,    \* bound on the clock
    MaxFeed     \* bound on the deltas under way

\* "late"    the snapshot of a subscription may be overtaken by deltas
\* "lose"    a delta may be missed while the link is up
\* "bare"    a frame may carry no timestamp
\* "drop"    the link may go down
\* "read"    a REST read may fail
AllFaults == {"late", "lose", "bare", "drop", "read"}

Sides == {"bid", "ask"}
Levels == [Sides -> SUBSET Prices]

Best(levels, side) ==
    IF side = "bid" THEN Max(levels[side]) ELSE Min(levels[side])

\* Neither one-sided nor crossed or locked.
Usable(levels) ==
    /\ \A side \in Sides : levels[side] # {}
    /\ Best(levels, "bid") < Best(levels, "ask")

Uncrossed(levels) == \A b \in levels["bid"], a \in levels["ask"] : b < a

ASSUME FeedAssumption ==
    /\ Prices \subseteq Nat /\ IsFiniteSet(Prices)
    /\ Opened \in Levels /\ Uncrossed(Opened)
    /\ Rounded \subseteq Prices
    /\ Skews \subseteq Int
    /\ Faults \subseteq AllFaults
    /\ MaxTime \in Nat
    /\ MaxFeed \in Nat

\* Neither is a book or a frame.
ASSUME NoBookAssumption ==
    /\ None # Off
    /\ None \notin Levels /\ Off \notin Levels
    /\ None \notin [levels : Levels, ts : Nat]

VARIABLES
    truth,     \* the exchange's book
    clock,     \* its time
    skew,      \* what the local clock shows more
    link,      \* "down", "stale" once down for ws_stale_halt_s, "up"
    exact,     \* TRUE if this connection delivers everything in order
    feed,      \* deltas on their way
    snap,      \* the subscription's snapshot on its way, or None
    book,      \* OrderBook.bids and asks
    last,      \* OrderBook.last_update_ts
    overwritten, \* history: a refresh wrote the book since the last frame that set it
    rest,      \* the maintenance loop: Off at first, None, or a book read
    quoting,   \* orders of the market are resting
    unusable   \* Engine._book_unusable_since: "no", "new", "old"

exchange == <<truth, clock, skew>>
channel  == <<link, exact, feed, snap>>
local    == <<book, last, overwritten>>
quoter   == <<quoting, unusable>>
vars     == <<exchange, channel, local, rest, quoter>>

Stamps == {clock} \cup IF "bare" \in Faults THEN {0} ELSE {}

-----------------------------------------------------------------------------
(***************************************************************************)
(* OrderBook                                                               *)
(***************************************************************************)
\* mutant: the levels of the snapshot are added to those of the book.
ApplySnapshotOver(levels, ts, refreshed) ==
    IF ts > 0 /\ last > 0 /\ ts < last
    THEN UNCHANGED local
    ELSE /\ book' = [side \in Sides |-> book[side] \cup levels[side]]
         /\ last' = ts
         /\ overwritten' = refreshed

\* A snapshot older than the last update is ignored, one without time is not.
\* The history remembers whether it was a refresh that wrote the book.
ApplySnapshot(levels, ts, refreshed) ==
    IF ts > 0 /\ last > 0 /\ ts < last
    THEN UNCHANGED local
    ELSE /\ book' = levels
         /\ last' = ts
         /\ overwritten' = refreshed

\* A delta is applied whatever its time, and the book takes its time.
ApplyDelta(delta) ==
    /\ book' = [book EXCEPT ![delta.side] =
                   IF delta.there THEN @ \cup {delta.price} ELSE @ \ {delta.price}]
    /\ last' = delta.ts
    /\ UNCHANGED overwritten

-----------------------------------------------------------------------------
Init ==
    /\ truth = Opened
    /\ clock = 1
    /\ skew \in Skews
    /\ link = "down"
    /\ exact = TRUE
    /\ feed = <<>>
    /\ snap = None
    /\ book = [side \in Sides |-> {}]
    /\ last = 0
    /\ overwritten = FALSE
    /\ rest = Off
    /\ quoting = FALSE
    /\ unusable = "no"

(***************************************************************************)
(* The exchange and the link                                               *)
(***************************************************************************)
\* A level appears or disappears; whoever is subscribed is told, unless the
\* delta is missed.  The clock goes on after the last change.
Change(side, price) ==
    /\ clock + 1 < MaxTime
    /\ Len(feed) < MaxFeed
    /\ LET there == price \notin truth[side]
       IN  /\ truth' = [truth EXCEPT ![side] = IF there THEN @ \cup {price} ELSE @ \ {price}]
           /\ Uncrossed(truth')
           /\ clock' = clock + 1
           /\ \/ /\ link = "up"
                 /\ \E ts \in {clock'} \cup (Stamps \ {clock}) :
                       feed' = Append(feed, [side |-> side, price |-> price,
                                             there |-> there, ts |-> ts])
              \/ /\ link # "up" \/ ("lose" \in Faults /\ ~exact)
                 /\ feed' = feed
    /\ UNCHANGED <<skew, link, exact, snap, local, rest, quoter>>

TimePasses ==
    /\ clock < MaxTime
    /\ clock' = clock + 1
    /\ UNCHANGED <<truth, skew, channel, local, rest, quoter>>

\* _connect_and_listen: the server answers the subscription with a snapshot.
Subscribe ==
    /\ link # "up"
    /\ link' = "up"
    /\ exact' \in IF Faults \cap {"late", "lose"} = {} THEN {TRUE} ELSE BOOLEAN
    /\ \E ts \in Stamps : snap' = [levels |-> truth, ts |-> ts]
    /\ feed' = <<>>
    /\ UNCHANGED <<exchange, local, rest, quoter>>

\* What was on its way over the connection is lost.
LinkDrops ==
    /\ "drop" \in Faults
    /\ link = "up"
    /\ link' = "down"
    /\ feed' = <<>>
    /\ snap' = None
    /\ UNCHANGED <<exchange, exact, local, rest, quoter>>

\* ws_stale_halt_s go by without a link.
LinkStale ==
    /\ link = "down"
    /\ link' = "stale"
    /\ UNCHANGED <<exchange, exact, feed, snap, local, rest, quoter>>

-----------------------------------------------------------------------------
(***************************************************************************)
(* MarketDataService                                                       *)
(***************************************************************************)
\* _on_book.
OnBook ==
    /\ snap # None
    /\ ApplySnapshot(snap.levels, snap.ts, FALSE)
    /\ snap' = None
    /\ UNCHANGED <<exchange, link, exact, feed, rest, quoter>>

\* _on_price_change; deltas keep their order, the snapshot may come late.
OnPriceChange ==
    /\ feed # <<>>
    /\ snap = None \/ ("late" \in Faults /\ ~exact)
    /\ ApplyDelta(Head(feed))
    /\ feed' = Tail(feed)
    /\ UNCHANGED <<exchange, link, exact, snap, rest, quoter>>

(***************************************************************************)
(* Engine._maintenance_loop                                                *)
(***************************************************************************)
\* The loop sleeps first, so its first read is two minutes after the start.
FirstRefresh ==
    /\ rest = Off
    /\ rest' = None
    /\ UNCHANGED <<exchange, channel, local, quoter>>

\* get_full_book answers with the book of that moment.
ServeBook ==
    /\ rest = None
    /\ rest' = truth
    /\ UNCHANGED <<exchange, channel, local, quoter>>

\* abs(p - q) > tick_size, in floating point.
MoreThanATick(p, q) ==
    LET lower == Min({p, q})
        upper == Max({p, q})
    IN  upper - lower > IF lower \in Rounded THEN 0 ELSE 1

\* mutant: a side that is missing is not compared.
DriftOfBothSides(levels) ==
    \E side \in Sides :
        /\ book[side] # {} /\ levels[side] # {}
        /\ MoreThanATick(Best(book, side), Best(levels, side))

\* A side is missing on one of the two, or its best price is more than a tick off.
Drift(levels) ==
    \E side \in Sides :
        \/ (book[side] = {}) # (levels[side] = {})
        \/ /\ book[side] # {} /\ levels[side] # {}
           /\ MoreThanATick(Best(book, side), Best(levels, side))

\* The answer overwrites the book as it is by then, under the local time.
RefreshBook ==
    /\ rest \notin {Off, None}
    /\ IF Drift(rest) THEN ApplySnapshot(rest, clock + skew, TRUE) ELSE UNCHANGED local
    /\ rest' = None
    /\ UNCHANGED <<exchange, channel, quoter>>

\* mutant: a read that failed is compared and applied like any other.
RefreshFailsApplied ==
    /\ "read" \in Faults
    /\ rest \notin {Off, None}
    /\ rest' = None
    /\ book' = rest'
    /\ last' = clock + skew
    /\ overwritten' = TRUE
    /\ UNCHANGED <<exchange, channel, quoter>>

\* The exception is logged and the book left as it is.
RefreshFails ==
    /\ "read" \in Faults
    /\ rest \notin {Off, None}
    /\ rest' = None
    /\ UNCHANGED <<exchange, channel, local, quoter>>

-----------------------------------------------------------------------------
(***************************************************************************)
(* The market's quoter, as far as the book decides                         *)
(***************************************************************************)
Blind == link = "stale"

\* mutant: every look at an unusable book starts the grace again.
MarkUnusableAgain == unusable' = "new" /\ quoting' = quoting

\* An unusable book is left a grace before the quotes are pulled.
MarkUnusable ==
    /\ unusable' = IF unusable = "no" THEN "new" ELSE unusable
    /\ quoting' = (quoting /\ unusable # "old")

\* _recompute_locked: a usable book is quoted on, unless the market is blind.
QuoterTick ==
    /\ \/ Usable(book) /\ unusable' = "no" /\ quoting' = ~Blind
       \/ ~Usable(book) /\ Blind /\ unusable' = "no" /\ quoting' = FALSE
       \/ ~Usable(book) /\ ~Blind /\ MarkUnusable
    /\ UNCHANGED <<exchange, channel, local, rest>>

\* _bad_book_pull_after_s goes by.
GraceEnds ==
    /\ unusable = "new"
    /\ unusable' = "old"
    /\ UNCHANGED <<exchange, channel, local, rest, quoting>>

Next ==
    \/ \E side \in Sides, price \in Prices : Change(side, price)
    \/ TimePasses
    \/ Subscribe \/ LinkDrops \/ LinkStale
    \/ OnBook \/ OnPriceChange
    \/ FirstRefresh \/ ServeBook \/ RefreshBook \/ RefreshFails
    \/ QuoterTick \/ GraceEnds

Spec == Init /\ [][Next]_vars

(***************************************************************************)
(* The service reconnects and handles what arrives, the maintenance loop   *)
(* is supervised and some of its reads answer, the quoter ticks, time      *)
(* passes.  The exchange need not change, nor the link fail.               *)
(***************************************************************************)
Fairness ==
    /\ WF_vars(TimePasses)
    /\ WF_vars(Subscribe)
    /\ WF_vars(OnBook)
    /\ WF_vars(OnPriceChange)
    /\ WF_vars(FirstRefresh)
    /\ WF_vars(ServeBook)
    /\ SF_vars(RefreshBook)
    /\ WF_vars(QuoterTick)
    /\ WF_vars(GraceEnds)

FairSpec == Spec /\ Fairness

-----------------------------------------------------------------------------
(***************************************************************************)
(* Properties                                                              *)
(***************************************************************************)
TypeOK ==
    /\ truth \in Levels /\ Uncrossed(truth)
    /\ clock \in 1 .. MaxTime + 1
    /\ skew \in Skews
    /\ link \in {"down", "stale", "up"}
    /\ exact \in BOOLEAN
    /\ feed \in Seq([side : Sides, price : Prices, there : BOOLEAN, ts : Nat])
    /\ snap = None \/ snap \in [levels : Levels, ts : Nat]
    /\ book \in Levels
    /\ last \in Int
    /\ overwritten \in BOOLEAN
    /\ rest \in {Off, None} \cup Levels
    /\ quoting \in BOOLEAN
    /\ unusable \in {"no", "new", "old"}

\* Whether a level has size once every delta on its way is applied to levels.
Arriving(levels, side, price) ==
    LET told == {i \in DOMAIN feed : feed[i].side = side /\ feed[i].price = price}
    IN  \/ told = {} /\ price \in levels[side]
        \/ \E i \in told : (\A j \in told : j <= i) /\ feed[i].there

ArrivesAs(levels) ==
    \A side \in Sides, price \in Prices :
        Arriving(levels, side, price) <=> price \in truth[side]

\* Reconnects re-snapshot: whatever went wrong on earlier connections and
\* whatever their refreshes wrote, once the snapshot of a connection that keeps
\* its order is taken, the book and the deltas on their way are the exchange's
\* book, through every refresh that fails or finds no drift, until one
\* overwrites the book: its levels may be older than the deltas it replaces.
FeedIsExact ==
    link = "up" /\ exact /\ snap = None /\ ~overwritten => ArrivesAs(book)

\* Deltas missed or overtaken, snapshots ignored, refreshes that overwrite what
\* is newer, under clocks that disagree: once the exchange rests, each side of
\* the local book is there if it should be, with a best price at most a tick off.
TopWithinTick ==
    <>[]\A side \in Sides :
          /\ (book[side] = {}) = (truth[side] = {})
          /\ truth[side] # {} => Best(book, side) - Best(truth, side) \in -1 .. 1

\* Quotes do not stay on a book that stays unusable, nor on a dead link.
QuotesNeedABook == []<>(quoting => Usable(book) /\ ~Blind)
=============================================================================
