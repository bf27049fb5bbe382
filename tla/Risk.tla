-------------------------------- MODULE Risk --------------------------------
(***************************************************************************)
(* The capital gate: what every new order is weighed against, and the      *)
(* tasks that keep those figures true.                                     *)
(*                                                                         *)
(* RiskView holds five figures behind five locks: the EXPOSURE the fills   *)
(* opened, the RESERVATIONS of the orders that may still fill, the hedges  *)
(* no balance reading has shown yet, the ledger's lots by DIRECTION, and   *)
(* the CASH.  The engine is one thread: a check, a fill, a hedge's frame   *)
(* happen one at a time.  But a check takes the locks one after another,   *)
(* and two polls move the figures in between: the balance poll (cash,      *)
(* unread hedges) and the ledger poll (directions, closes).  Lots are      *)
(* closed by the maker exit and by other processes, which only append to   *)
(* the ledger.  The process may crash at any point and start again.        *)
(*                                                                         *)
(* What the caps then decide is any verdict; what they decide it ON is     *)
(* the subject.  Quantities are contracts.  A hedge is a number: the       *)
(* order of minting, which is the order of the Instants compared.          *)
(***************************************************************************)
EXTENDS Integers, FiniteSets, Functions

CONSTANTS
    Rels,
    Slots,      \* where an order may stand: a (relationship, market, side)
    RelOf,      \* the relationship of a slot
    DirOf,      \* the direction of the basket its fill opens
    Book,       \* the open lots of the ledger the first run starts on
    Clip,       \* the most contracts an order asks for
    MaxOrders,  \* bound on the orders placed
    MaxFills,   \* bound on the fills heard
    MaxCloses,  \* bound on the lots closed
    MaxStrays   \* bound on the contracts the ledger opens uncharged

Dirs == {"standard", "inverse"}

ASSUME SlotAssumption ==
    /\ RelOf \in [Slots -> Rels]
    /\ DirOf \in [Slots -> Dirs]
    /\ Book \in [Rels -> [Dirs -> Nat]]
ASSUME BoundAssumption ==
    /\ Clip \in Nat \ {0}
    /\ MaxOrders \in Nat
    /\ MaxFills \in Nat
    /\ MaxCloses \in Nat
    /\ MaxStrays \in Nat

VARIABLES
    placed,    \* how many orders have been placed
    live,      \* those that may still fill, and how much of each
    quote,     \* Quoter.resting: the order each slot rests, what is left of it
    raced,     \* history: contracts other orders of a slot took from its
               \* reservation since that was last written
    reserved,  \* RiskView.reserved, the slots of resting quotes
    reservedIoc, \* RiskView.reserved, the slots `ioc/<order id>`
    exposure,  \* RiskView.exposure.by_rel
    released,  \* RiskView.released: the closes already taken out of it
    directed,  \* RiskView.directed
    unread,    \* RiskView.hedges_unread
    cash,      \* RiskView.balances: how many hedges were minted before the
               \* reading in force was asked for
    minted,    \* hedges minted by fills, over every run
    owed,      \* contracts filled, neither hedged nor sold back
    booked,    \* the ledger's open lots, net of its closes
    closes,    \* the ledger's `unwound` records
    uncharged, \* history: contracts opened in the ledger that this run's
               \* exposure was not charged for, or was handed back
    strays,    \* and over every run
    balancePoll,
    ledgerPoll,
    check      \* the check in progress: the figures it has read so far

engineVars == <<placed, live, quote, raced, reserved, reservedIoc>>
bookVars   == <<exposure, released, directed>>
cashVars   == <<unread, cash, minted>>
worldVars  == <<owed, booked, closes, uncharged, strays>>
pollVars   == <<balancePoll, ledgerPoll>>
vars == <<engineVars, bookVars, cashVars, worldVars, pollVars, check>>

-----------------------------------------------------------------------------
(* Vocabulary.                                                              *)

Unspendable == -1   \* no reading yet, or one past BALANCE_MAX_AGE
NoQuote     == [order |-> 0, left |-> 0]
Idle        == [at |-> "idle"]
Empty       == [d \in Dirs |-> 0]
Nowhere     == [r \in Rels |-> Empty]
NoCheck     == [at |-> "idle", exposure |-> [r \in Rels |-> 0], directed |-> Nowhere,
                unread |-> {}, cash |-> Unspendable]

\* (slot - qty).max(0.0), and `consume`, which removes the entry at zero.
Less(have, qty) == IF have > qty THEN have - qty ELSE 0

MutConsumeNothing(have, n)  == have
MutConsumeUnfloored(have, n) == have - n
Consume(have, n) == Less(have, n)

Total(byDir) == byDir["standard"] + byDir["inverse"]

\* What identifies a close: the relationship and the close's own ts.
MutKeyRel(c) == <<c.rel, 0>>
Key(c) == <<c.rel, c.ts>>
Keys(cs) == {Key(c) : c \in cs}
Contracts(cs) == SumFunction([c \in cs |-> c.qty])
Fresh(cs, r)  == {c \in cs : c.rel = r /\ Key(c) \notin released}

-----------------------------------------------------------------------------
(* A check, lock by lock.  What order it is for changes nothing it reads,   *)
(* so that is named with the verdict; a Refuse of nothing is `admits` too.  *)

Assess ==
    /\ check = NoCheck
    /\ placed < MaxOrders
    /\ check' = [NoCheck EXCEPT !.at = "directed", !.exposure = exposure]
    /\ UNCHANGED <<engineVars, bookVars, cashVars, worldVars, pollVars>>

ReadDirected ==
    /\ check.at = "directed"
    /\ check' = [check EXCEPT !.at = "tails", !.directed = directed]
    /\ UNCHANGED <<engineVars, bookVars, cashVars, worldVars, pollVars>>

\* What the tail limits count in one direction, and what in both.
Netted(r) ==
    IF Total(check.directed[r]) <= check.exposure[r] THEN check.directed[r] ELSE Empty
Either(r) == check.exposure[r] - Total(Netted(r))

\* The tails are folded, and the two figures have done their part.  Of the
\* reservations, read next, no poll moves any.
ReadUnread ==
    /\ check.at = "tails"
    /\ check' = [NoCheck EXCEPT !.at = "cash", !.unread = unread]
    /\ UNCHANGED <<engineVars, bookVars, cashVars, worldVars, pollVars>>

ReadCash ==
    /\ check.at = "cash"
    /\ check' = [check EXCEPT !.at = "verdict", !.cash = cash]
    /\ UNCHANGED <<engineVars, bookVars, cashVars, worldVars, pollVars>>

Allowed ==
    /\ check.at = "verdict" /\ check.cash # Unspendable
Order(s, n, ioc) == [id |-> placed + 1, slot |-> s, ioc |-> ioc, unheard |-> n]

\* Allowed, as a quote of n on slot s: it is reserved and rests, in place of
\* whatever rested there.
AllowQuote(s, n) ==
    /\ Allowed
    /\ placed' = placed + 1
    /\ live' = live \cup {Order(s, n, FALSE)}
    /\ reserved' = [reserved EXCEPT ![s] = n]
    /\ quote' = [quote EXCEPT ![s] = [order |-> placed + 1, left |-> n]]
    /\ raced' = [raced EXCEPT ![s] = 0]
    /\ check' = NoCheck
    /\ UNCHANGED <<reservedIoc, bookVars, cashVars, worldVars, pollVars>>

\* Allowed, as an IOC: reserved under its own id, and handed back at once
\* when the executor's channel has no room for it.
AllowIoc(s, n, queued) ==
    /\ Allowed
    /\ placed' = placed + 1
    /\ live' = live \cup (IF queued THEN {Order(s, n, TRUE)} ELSE {})
    /\ reservedIoc' = [reservedIoc EXCEPT ![placed + 1] = IF queued THEN n ELSE 0]
    /\ check' = NoCheck
    /\ UNCHANGED <<quote, raced, reserved, bookVars, cashVars, worldVars, pollVars>>

\* S's quotes are no longer resting, and give their reservations back.
Released(f, S) == [s \in Slots |-> IF s \in S THEN 0 ELSE f[s]]
Unquoted(f, S) == [s \in Slots |-> IF s \in S THEN NoQuote ELSE f[s]]

\* Refused: nothing is reserved, and the quote that stands there stays --
\* unless its replacement has been refused for CAP_REFUSAL_PULL_S.
Refuse(S) ==
    /\ check.at = "verdict"
    /\ Cardinality(S) <= 1
    /\ \A s \in S : quote[s] # NoQuote
    /\ reserved' = Released(reserved, S)
    /\ quote' = Unquoted(quote, S)
    /\ raced' = Released(raced, S)
    /\ check' = NoCheck
    /\ UNCHANGED <<placed, live, reservedIoc, bookVars, cashVars, worldVars, pollVars>>

\* The book moved off a quote; or a halt takes every one of them.
Pull(S) ==
    /\ check = NoCheck
    /\ \A s \in S : quote[s] # NoQuote
    /\ reserved' = Released(reserved, S)
    /\ quote' = Unquoted(quote, S)
    /\ raced' = Released(raced, S)
    /\ UNCHANGED <<placed, live, reservedIoc, bookVars, cashVars, worldVars, pollVars,
                   check>>

-----------------------------------------------------------------------------
(* Fills.                                                                   *)

\* The engine hears n more contracts of order o, and perhaps that it is over:
\* exposure, a hedge minted and charged.
Booking(o, n, over) ==
    LET r == RelOf[o.slot]  d == DirOf[o.slot] IN
    /\ check = NoCheck /\ minted < MaxFills
    /\ n <= o.unheard
    /\ live' = (live \ {o}) \cup
               (IF n < o.unheard /\ ~over THEN {[o EXCEPT !.unheard = @ - n]} ELSE {})
    /\ exposure' = [exposure EXCEPT ![r] = @ + n]
    /\ owed' = [owed EXCEPT ![r][d] = @ + n]
    /\ minted' = minted + 1
    /\ unread' = unread \cup {minted + 1}

\* A quote's slot after the fill of one of its orders: the quote's own, or one
\* it superseded.
Standing(o, n) ==
    IF quote[o.slot].order # o.id THEN quote[o.slot]
    ELSE IF n < quote[o.slot].left THEN [quote[o.slot] EXCEPT !.left = @ - n]
    ELSE NoQuote

\* The frame of a resting order: it consumes its slot, whoever owns that by
\* now; then the quoter's own count; then the pull of every quote P the gate
\* would no longer admit.
Fill(o, n, P) ==
    LET s == o.slot
        gone == P \cup (IF Standing(o, n) = NoQuote THEN {s} ELSE {})
    IN
    /\ ~o.ioc
    /\ Booking(o, n, FALSE)
    /\ reserved' = Released([reserved EXCEPT ![s] = Consume(@, n)], gone)
    /\ quote' = Unquoted([quote EXCEPT ![s] = Standing(o, n)], gone)
    /\ raced' = Released([raced EXCEPT ![s] =
                             IF quote[s].order = o.id THEN @ ELSE @ + n], gone)
    /\ UNCHANGED <<placed, reservedIoc, released, directed, cash, booked, closes,
                   uncharged, strays, pollVars, check>>

\* The frame of an IOC, which leaves the remainder reserved; or the venue's
\* last word on it, after which the remainder will never trade.
FillIoc(o, n, over, P) ==
    /\ o.ioc
    /\ Booking(o, n, over)
    /\ reservedIoc' = [reservedIoc EXCEPT ![o.id] = IF over THEN 0 ELSE Consume(@, n)]
    /\ reserved' = Released(reserved, P)
    /\ quote' = Unquoted(quote, P)
    /\ raced' = Released(raced, P)
    /\ UNCHANGED <<placed, released, directed, cash, booked, closes, uncharged,
                   strays, pollVars, check>>

\* The last word on an IOC whose fills have all been heard.
FinishIoc(o) ==
    /\ check = NoCheck
    /\ o.ioc
    /\ live' = live \ {o}
    /\ reservedIoc' = [reservedIoc EXCEPT ![o.id] = 0]
    /\ UNCHANGED <<placed, quote, raced, reserved, bookVars, cashVars, worldVars,
                   pollVars, check>>

\* A hedge trades n contracts the engine's fills were charged for, and the
\* basket is booked: by the engine, or by another writer -- the recon pass, the
\* timer's hedger -- that completed the naked leg.  Of that the engine hears
\* nothing, and goes on hedging what it owes.
BookBasket(r, d, n) ==
    /\ n <= owed[r][d]
    /\ owed' = [owed EXCEPT ![r][d] = @ - n]
    /\ booked' = [booked EXCEPT ![r][d] = @ + n]
    /\ UNCHANGED <<engineVars, bookVars, cashVars, closes, uncharged, strays, pollVars,
                   check>>

\* History: n contracts that the ledger has open and the exposure does not.
Stray(r, n) ==
    /\ strays + n <= MaxStrays
    /\ strays' = strays + n
    /\ uncharged' = [uncharged EXCEPT ![r] = @ + n]

\* A basket is booked that no fill was charged for: the engine's own hedge of
\* what another writer completed (the row is contested, and both count), or a
\* leg the recon pass completes of an imbalance the engine never heard of.
BookUncharged(r, d, n) ==
    /\ Stray(r, n)
    /\ booked' = [booked EXCEPT ![r][d] = @ + n]
    /\ UNCHANGED <<engineVars, bookVars, cashVars, owed, closes, pollVars, check>>

\* The entry is sold back where it was bought.  Its ledger row closes no lot,
\* so the exposure is taken out here.
SellBack(r, d, n) ==
    /\ check = NoCheck
    /\ n <= owed[r][d]
    /\ owed' = [owed EXCEPT ![r][d] = @ - n]
    /\ exposure' = [exposure EXCEPT ![r] = Less(@, n)]
    /\ UNCHANGED <<engineVars, released, directed, cashVars, booked, closes, uncharged,
                   strays, pollVars, check>>

\* ...and so it is of an entry whose basket another writer has booked, whichever
\* lot that is: it stands in the ledger, and is charged no longer.
SellBackBooked(r, d, n) ==
    /\ check = NoCheck
    /\ n <= booked[r][d]
    /\ Stray(r, n)
    /\ exposure' = [exposure EXCEPT ![r] = Less(@, n)]
    /\ UNCHANGED <<engineVars, released, directed, cashVars, owed, booked, closes,
                   pollVars, check>>

-----------------------------------------------------------------------------
(* Closes and the two polls, all of them beside the engine.                 *)

\* Somebody closes n contracts of a lot.  All the gate learns of it is the row.
CloseLot(r, d, n) ==
    /\ Cardinality(closes) < MaxCloses
    /\ n <= booked[r][d]
    /\ booked' = [booked EXCEPT ![r][d] = @ - n]
    /\ closes' = closes \cup {[rel |-> r, ts |-> Cardinality(closes) + 1, qty |-> n]}
    /\ UNCHANGED <<engineVars, bookVars, cashVars, owed, uncharged, strays, pollVars,
                   check>>

LedgerRead ==
    /\ ledgerPoll = Idle
    /\ ledgerPoll' = [at |-> "read", open |-> booked, closes |-> closes]
    /\ UNCHANGED <<engineVars, bookVars, cashVars, worldVars, balancePoll, check>>

SetDirected ==
    /\ directed' = ledgerPoll.open
    /\ UNCHANGED <<exposure, released>>

ReleaseClosed ==
    /\ exposure' = [r \in Rels |->
                       Less(exposure[r], Contracts(Fresh(ledgerPoll.closes, r)))]
    /\ released' = released \cup Keys(ledgerPoll.closes)
    /\ UNCHANGED directed

MutReleaseFirst ==
    /\ \/ ledgerPoll.at = "read" /\ ReleaseClosed
          /\ ledgerPoll' = [ledgerPoll EXCEPT !.at = "half"]
       \/ ledgerPoll.at = "half" /\ SetDirected
          /\ ledgerPoll' = Idle
    /\ UNCHANGED <<engineVars, cashVars, worldVars, balancePoll, check>>

LedgerApply ==
    /\ \/ ledgerPoll.at = "read" /\ SetDirected
          /\ ledgerPoll' = [ledgerPoll EXCEPT !.at = "half"]
       \/ ledgerPoll.at = "half" /\ ReleaseClosed
          /\ ledgerPoll' = Idle
    /\ UNCHANGED <<engineVars, cashVars, worldVars, balancePoll, check>>

BalanceAsk ==
    /\ balancePoll = Idle
    /\ balancePoll' = [at |-> "asked", before |-> minted]
    /\ UNCHANGED <<engineVars, bookVars, cashVars, worldVars, ledgerPoll, check>>

\* A venue that fails, or answers what is not money: nothing is installed.
BalanceFail ==
    /\ balancePoll.at = "asked"
    /\ balancePoll' = Idle
    /\ UNCHANGED <<engineVars, bookVars, cashVars, worldVars, ledgerPoll, check>>

SetLiveCapital ==
    /\ balancePoll.at = "asked"
    /\ cash' = balancePoll.before
    /\ balancePoll' = [balancePoll EXCEPT !.at = "half"]
    /\ UNCHANGED <<engineVars, bookVars, unread, minted, worldVars, ledgerPoll, check>>

\* What is still unread once a reading begun after the first `before` mints
\* has landed.
MutReadAtFinish(before) == {h \in unread : h > minted}
StillUnread(before) == {h \in unread : h > before}

HedgesRead ==
    /\ balancePoll.at = "half"
    /\ unread' = StillUnread(balancePoll.before)
    /\ balancePoll' = Idle
    /\ UNCHANGED <<engineVars, bookVars, cash, minted, worldVars, ledgerPoll, check>>

CashExpires ==
    /\ cash # Unspendable
    /\ cash' = Unspendable
    /\ UNCHANGED <<engineVars, bookVars, unread, minted, worldVars, pollVars, check>>

-----------------------------------------------------------------------------
(* A crash and the next run: the exposure is folded anew from the ledger    *)
(* and from the obligations nobody booked, the closes already in that fold  *)
(* are declared, no quote is believed to rest, and nothing is spendable.    *)
(* What another writer booked counts as booked, and is owed no longer.      *)
(* What an order of the last run still fills, this one cannot attribute.    *)

Seeded == [r \in Rels |-> Total(booked[r]) + Total(owed[r])]

SeedReleased == Keys(closes)

Restart ==
    /\ exposure' = Seeded
    /\ released' = SeedReleased
    /\ directed' = booked
    /\ live' = {}
    /\ quote' = [s \in Slots |-> NoQuote]
    /\ raced' = [s \in Slots |-> 0]
    /\ reserved' = [s \in Slots |-> 0]
    /\ reservedIoc' = [o \in 1..MaxOrders |-> 0]
    /\ unread' = {}
    /\ cash' = Unspendable
    /\ balancePoll' = Idle
    /\ ledgerPoll' = Idle
    /\ check' = NoCheck
    /\ uncharged' = [r \in Rels |-> 0]
    /\ UNCHANGED <<placed, minted, owed, booked, closes, strays>>

Init ==
    /\ placed = 0
    /\ live = {}
    /\ quote = [s \in Slots |-> NoQuote]
    /\ raced = [s \in Slots |-> 0]
    /\ reserved = [s \in Slots |-> 0]
    /\ reservedIoc = [o \in 1..MaxOrders |-> 0]
    /\ exposure = [r \in Rels |-> Total(Book[r])]
    /\ released = {}
    /\ directed = Book
    /\ unread = {}
    /\ cash = Unspendable
    /\ minted = 0
    /\ owed = Nowhere
    /\ booked = Book
    /\ closes = {}
    /\ uncharged = [r \in Rels |-> 0]
    /\ strays = 0
    /\ balancePoll = Idle
    /\ ledgerPoll = Idle
    /\ check = NoCheck

Checking ==
    \/ Assess \/ ReadDirected \/ ReadUnread \/ ReadCash
    \/ \E s \in Slots, n \in 1..Clip :
          AllowQuote(s, n) \/ \E queued \in BOOLEAN : AllowIoc(s, n, queued)
    \/ \E S \in SUBSET Slots : Refuse(S)

Trading ==
    \/ \E S \in SUBSET Slots \ {{}} : Pull(S)
    \/ \E o \in live, n \in 1..Clip :
          \E P \in SUBSET {s \in Slots : quote[s] # NoQuote} :
            Fill(o, n, P) \/ \E over \in BOOLEAN : FillIoc(o, n, over, P)
    \/ \E o \in live : FinishIoc(o)
    \/ \E r \in Rels, d \in Dirs, n \in 1..Clip :
          \/ BookBasket(r, d, n) \/ BookUncharged(r, d, n)
          \/ SellBack(r, d, n) \/ SellBackBooked(r, d, n)
          \/ CloseLot(r, d, n)

Polling ==
    \/ LedgerRead \/ LedgerApply
    \/ BalanceAsk \/ BalanceFail \/ SetLiveCapital \/ HedgesRead \/ CashExpires

Next == Checking \/ Trading \/ Polling \/ Restart

Spec == Init /\ [][Next]_vars

-----------------------------------------------------------------------------
(* Properties.                                                              *)

OrderIds == 1..MaxOrders

\* Every figure has the type the code gives it, and every poll holds what
\* it read (RiskView's fields, risk.rs:320-420).
TypeOK ==
    /\ placed \in 0..MaxOrders
    /\ live \subseteq [id : 1..placed, slot : Slots, ioc : BOOLEAN, unheard : 1..Clip]
    /\ quote \in [Slots -> [order : 0..MaxOrders, left : 0..Clip]]
    /\ raced \in [Slots -> Nat]
    /\ reserved \in [Slots -> 0..Clip]
    /\ reservedIoc \in [OrderIds -> 0..Clip]
    /\ exposure \in [Rels -> Nat]
    /\ directed \in [Rels -> [Dirs -> Nat]]
    /\ owed \in [Rels -> [Dirs -> Nat]]
    /\ booked \in [Rels -> [Dirs -> Nat]]
    /\ uncharged \in [Rels -> Nat]
    /\ strays \in 0..MaxStrays
    /\ minted \in Nat
    /\ unread \subseteq 1..minted
    /\ cash \in {Unspendable} \cup 0..minted
    /\ balancePoll = Idle \/ balancePoll \in [at : {"asked", "half"}, before : 0..minted]
    /\ check \in [at : {"idle", "directed", "tails", "cash", "verdict"},
                  exposure : [Rels -> Nat], directed : [Rels -> [Dirs -> Nat]],
                  unread : SUBSET (1..minted), cash : {Unspendable} \cup 0..minted]

\* What the gate holds for a slot is what the quoter believes rests there,
\* short only by what superseded orders of the slot filled since it was last
\* written; and what it holds for an IOC is all of it that may still fill.
\* So no quote that has gone keeps capital, and no second order is admitted
\* on a first one's (the `reserved` field's list of ways a quote goes away,
\* risk.rs:364-405; the known race, fill.rs:425-446).
ReservationIsTheQuote ==
    /\ \A s \in Slots : reserved[s] = Less(quote[s].left, raced[s])
    /\ \A o \in live : o.ioc => reservedIoc[o.id] = o.unheard
    /\ \A i \in OrderIds : reservedIoc[i] > 0 => \E o \in live : o.id = i /\ o.ioc

\* "A fill's hedge stays charged in full until a balance reading that began
\* after it" (risk.rs:37-38): whatever the polls do between a check's
\* locks, a hedge it does not charge was minted before the reading it spends
\* was asked for -- in this run or in one before it.
HedgeCashCounted ==
    check.at = "verdict" /\ check.cash # Unspendable =>
        \A h \in 1..minted : h \in check.unread \/ h <= check.cash

\* What is open or owed, and what was closed and is still to be released.
OnTheBook(r) == Total(booked[r]) + Total(owed[r]) + Contracts(Fresh(closes, r))

\* The exposure is the book: never more than was filled and neither sold back
\* nor closed, with the closes the ledger poll has yet to apply -- each applied
\* once, however often the ledger is read and across restarts; and less only by
\* what the ledger has opened in this run that the exposure was not charged
\* for, or was handed back (positions.rs:899-907 books without record_open,
\* risk.rs:961-964 floors the release of its close).
ExposureIsTheBook ==
    \A r \in Rels :
        exposure[r] <= OnTheBook(r) /\ OnTheBook(r) <= exposure[r] + uncharged[r]

\* Netting hides no more of a loss than the exposure itself never saw: in each
\* direction, the contracts a check counts there and those it counts in both
\* are at least what is held there, less what the ledger opened uncharged --
\* though the check read the exposure and the directions under different locks,
\* the poll wrote them under different locks, and such opens make the ledger
\* claim more than is charged (risk.rs:1359-1373).
NettingHidesNothing ==
    check.at = "tails" =>
        \A r \in Rels, d \in Dirs :
            booked[r][d] + owed[r][d] <= Netted(r)[d] + Either(r) + uncharged[r]

=============================================================================
