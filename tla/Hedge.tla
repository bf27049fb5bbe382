------------------------------- MODULE Hedge -------------------------------
(***************************************************************************)
(* The hedge state machine of arb-trader: what happens between a maker     *)
(* fill at one venue and the hedge of it at the other.                     *)
(*                                                                         *)
(* Four parties share this state.                                          *)
(*   - the VENUES, which fill orders and are the truth (vfilled);          *)
(*   - the FILL FEED, which reports cumulative fills late, twice, out of   *)
(*     order or never (an action may report any count already reached);    *)
(*   - the ENGINE task, which turns an increase of a maker order's count   *)
(*     into one obligation, places hedge attempts for it on a deadline,    *)
(*     and credits the attempts' fills (mcum, pending, ob, attempts, ho,   *)
(*     named, unclaimed, booked, extra);                                   *)
(*   - one EXECUTOR task per venue, serving a queue of commands and        *)
(*     answering the engine through a channel (queue, chan).               *)
(*                                                                         *)
(* One relationship is modelled: two legs, one market on each venue, so    *)
(* every held fill is on a market of every obligation (`on_our_legs`).     *)
(* Prices enter as the outcome of the comparison made with them.           *)
(***************************************************************************)
EXTENDS Integers, Sequences, FiniteSets, Functions

CONSTANTS
    Makers,       \* the maker (entry) orders of the relationship
    Size,         \* contracts each maker order rests
    Home,         \* the venue each maker order rests on
    MaxIds,       \* bound on next_hedge_oid
    Lost,         \* the attempts whose place may never be acknowledged
    Halted,       \* those that may find their market halted
    SellBacks,    \* those that may find selling back the better price
    Backlog       \* may an executor's channel be full?

Venues == {"kalshi", "pmus"}
Ids    == 1..MaxIds
Orders == Makers \cup Ids

ASSUME MakersAssumption ==
    /\ Makers # {} /\ Makers \cap Ids = {}
    /\ Size \in [Makers -> Nat \ {0}]
    /\ Home \in [Makers -> Venues]
ASSUME BoundAssumption == MaxIds \in Nat
ASSUME FaultAssumption ==
    /\ Lost \subseteq Ids /\ Halted \subseteq Ids /\ SellBacks \subseteq Ids
    /\ Backlog \in BOOLEAN

VARIABLES
    vfilled,    \* venue truth: contracts filled, per order
    mcum,       \* FillLedger: cumulative count last accepted, per maker order
    anchored,   \* maker orders registered with a hedge anchor
    dropped,    \* contracts whose obligation was dropped unconsumed (no anchor)
    nextHedge,  \* next_hedge_oid
    pending,    \* pending_hedges: the chain ids of the live obligations
    ob,         \* the obligation of each chain id, kept after it is retired
    attempts,   \* hedge_orders: the ids of the attempts made
    ho,         \* the attempt of each id
    named,      \* oid_venue: orders whose venue id the engine has learnt
    unclaimed,  \* unclaimed_fills: count held for an order not named yet
    queue,      \* commands waiting at each venue's executor
    chan,       \* answers of each executor on their way to the engine
    booked,     \* contracts written to the trade ledger, per chain
    extra       \* contracts alarmed as over-hedged, per chain

engineVars == <<mcum, anchored, dropped, nextHedge, pending, ob, attempts, ho,
                named, unclaimed, booked, extra>>
vars == <<vfilled, engineVars, queue, chan>>

-----------------------------------------------------------------------------
(* Records.  `skipped` is a history of the decision taken when an attempt   *)
(* was queued: the earlier attempts of its chain that it is not checked     *)
(* against because the engine had no venue id for them.                     *)

Obligation(m, qty, latest) ==
    [maker |-> m, owed |-> qty, filled |-> 0, latest |-> latest,
     sinceTry |-> 0, old |-> FALSE, parked |-> FALSE, alarmed |-> FALSE]

Attempt(c, v, qty, sellBack, skipped) ==
    [chain |-> c, venue |-> v, qty |-> qty, cum |-> 0,
     sellBack |-> sellBack, skipped |-> skipped]

Cmd(h, prior, credited) == [oid |-> h, prior |-> prior, credited |-> credited]
Msg(kind, o, cum)       == [kind |-> kind, oid |-> o, cum |-> cum]

Other(v) == CHOOSE w \in Venues : w # v
Least(a, b)    == IF a <= b THEN a ELSE b
Greatest(a, b) == IF a <= b THEN b ELSE a

Minted == {c \in Ids : ob[c].owed > 0}
Missing(c) == ob[c].owed - ob[c].filled

-----------------------------------------------------------------------------
(* The arithmetic of one fill frame: arb_core's observe_cum_fill for a      *)
(* maker order, hedge_credit for an attempt.                                *)

MakerDelta(m, cum) == Greatest(Least(cum, Size[m]) - mcum[m], 0)

(* A stale frame un-credits what a later one credited. *)
MutDeltaUnclamped(h, cum) == Least(cum, ho[h].qty) - ho[h].cum

CreditDelta(h, cum) == Greatest(Least(cum, ho[h].qty) - ho[h].cum, 0)

(* The whole frame is booked, past what the obligation owed. *)
MutBookWhole(h, delta) == IF ho[h].chain \in pending THEN delta ELSE 0

(* The late fill of a retired obligation is booked as if it were owed. *)
MutBookRetired(h, delta) ==
    IF ho[h].chain \in pending
    THEN Least(delta, Greatest(Missing(ho[h].chain), 0))
    ELSE delta

CreditBook(h, delta) ==
    IF ho[h].chain \in pending
    THEN Least(delta, Greatest(Missing(ho[h].chain), 0))
    ELSE 0

(* The first frame of a hedge retires its obligation, covered or not. *)
MutDoneOnFirstFrame(c, delta) == c \in pending

CreditDone(c, delta) == c \in pending /\ ob[c].filled + delta >= ob[c].owed

-----------------------------------------------------------------------------
(* Queueing a hedge.  The command carries the attempt it must be checked    *)
(* against: the latest earlier one in its chain that the engine can name at *)
(* the moment it queues, with what has been credited to it.                 *)

Earlier(c, h) == {b \in attempts : ho[b].chain = c /\ b < h}

(* Only the immediate predecessor is checked: unnamed, it shields the rest. *)
MutSupersededImmediate(c, h) ==
    LET IsLatest(b) == \A d \in Earlier(c, h) : d <= b
    IN  IF \E b \in Earlier(c, h) \cap named : IsLatest(b)
        THEN CHOOSE b \in Earlier(c, h) : IsLatest(b)
        ELSE 0

Superseded(c, h) ==
    LET known == Earlier(c, h) \cap named
        IsLatest(b) == \A d \in known : d <= b
    IN  IF \E b \in known : IsLatest(b) THEN CHOOSE b \in known : IsLatest(b) ELSE 0

Skipped(c, h) == Earlier(c, h) \ named

Dispatch(v, cmd) ==
    \/ queue' = [queue EXCEPT ![v] = Append(@, cmd)]
    \/ Backlog /\ queue' = queue

-----------------------------------------------------------------------------
(* attribute_fill, arm by arm.                                              *)

(* The fill of a retired obligation's attempt is credited and not alarmed. *)
MutCreditUnalarmed(h, cum) ==
    LET c     == ho[h].chain
        delta == CreditDelta(h, cum)
        book  == CreditBook(h, delta)
    IN  /\ ho' = [ho EXCEPT ![h].cum = @ + delta]
        /\ ob' = IF c \in pending THEN [ob EXCEPT ![c].filled = @ + delta] ELSE ob
        /\ pending' = IF delta > 0 /\ CreditDone(c, delta) THEN pending \ {c} ELSE pending
        /\ booked' = [booked EXCEPT ![c] = @ + book]
        /\ extra' = IF c \in pending THEN [extra EXCEPT ![c] = @ + (delta - book)] ELSE extra
        /\ UNCHANGED <<mcum, dropped, nextHedge, attempts, queue>>

(* A fill of a hedge attempt: credit the attempt and its obligation, book   *)
(* what the obligation owed, alarm the rest, retire a covered obligation.   *)
CreditHedge(h, cum) ==
    LET c     == ho[h].chain
        delta == CreditDelta(h, cum)
        book  == CreditBook(h, delta)
    IN  /\ ho' = [ho EXCEPT ![h].cum = @ + delta]
        /\ ob' = IF c \in pending THEN [ob EXCEPT ![c].filled = @ + delta] ELSE ob
        /\ pending' = IF delta > 0 /\ CreditDone(c, delta) THEN pending \ {c} ELSE pending
        /\ booked' = [booked EXCEPT ![c] = @ + book]
        /\ extra' = [extra EXCEPT ![c] = @ + (delta - book)]
        /\ UNCHANGED <<mcum, dropped, nextHedge, attempts, queue>>

(* The obligation of a fresh maker fill enters pending_hedges before the    *)
(* first attempt is judged: a touch outside the slip budget leaves it       *)
(* tracked with nothing placed.                                             *)
MintAndPlace(m, qty) ==
    LET h == nextHedge + 1
        v == Other(Home[m])
    IN  /\ h \in Ids
        /\ nextHedge' = h
        /\ pending' = pending \cup {h}
        /\ \/ /\ ob' = [ob EXCEPT ![h] = Obligation(m, qty, h)]
              /\ attempts' = attempts \cup {h}
              /\ ho' = [ho EXCEPT ![h] = Attempt(h, v, qty, FALSE, {})]
              /\ Dispatch(v, Cmd(h, 0, 0))
           \/ /\ ob' = [ob EXCEPT ![h] = Obligation(m, qty, 0)]
              /\ UNCHANGED <<attempts, ho, queue>>

(* The obligation owes the cumulative count instead of the increase. *)
MutMintCumulative(m, cum) ==
    LET delta == MakerDelta(m, cum)
    IN  /\ mcum' = [mcum EXCEPT ![m] = @ + delta]
        /\ dropped' = [dropped EXCEPT ![m] =
                          IF m \in anchored THEN @ ELSE @ + delta]
        /\ IF delta > 0 /\ m \in anchored
           THEN MintAndPlace(m, Least(cum, Size[m]))
           ELSE UNCHANGED <<nextHedge, pending, ob, attempts, ho, queue>>
        /\ UNCHANGED <<booked, extra>>

(* A fill of a maker order: nothing on a stale count; otherwise mint one    *)
(* obligation for the increase, or drop it when it has no anchor.           *)
CreditMaker(m, cum) ==
    LET delta == MakerDelta(m, cum)
    IN  /\ mcum' = [mcum EXCEPT ![m] = @ + delta]
        /\ dropped' = [dropped EXCEPT ![m] =
                          IF m \in anchored THEN @ ELSE @ + delta]
        /\ IF delta > 0 /\ m \in anchored
           THEN MintAndPlace(m, delta)
           ELSE UNCHANGED <<nextHedge, pending, ob, attempts, ho, queue>>
        /\ UNCHANGED <<booked, extra>>

Credit(o, cum) == IF o \in Makers THEN CreditMaker(o, cum) ELSE CreditHedge(o, cum)

-----------------------------------------------------------------------------
(* The venues and the feed.                                                 *)

(* A resting maker order trades one more contract. *)
MakerTrades(m) ==
    /\ vfilled[m] < Size[m]
    /\ vfilled' = [vfilled EXCEPT ![m] = @ + 1]
    /\ UNCHANGED <<engineVars, queue, chan>>

(* on_fill: the feed reports some count the order has reached.  Under a     *)
(* venue id the engine has learnt it is attributed at once.                 *)
FillReported(o, cum) ==
    /\ o \in named
    /\ Credit(o, cum)
    /\ UNCHANGED <<vfilled, anchored, named, unclaimed, chan>>

(* on_fill under a venue id nobody has named yet: held for its order_ack.   *)
FillHeld(o, cum) ==
    /\ o \notin named
    /\ unclaimed' = [unclaimed EXCEPT ![o] = Greatest(@, cum)]
    /\ UNCHANGED <<vfilled, mcum, anchored, dropped, nextHedge, pending, ob, attempts,
                   ho, named, booked, extra, queue, chan>>

(* unclaimed_tick: a held fill nobody claimed within FILL_ACK_GRACE.        *)
HeldFillExpires(o) ==
    /\ unclaimed[o] > 0
    /\ unclaimed' = [unclaimed EXCEPT ![o] = 0]
    /\ UNCHANGED <<vfilled, mcum, anchored, dropped, nextHedge, pending, ob, attempts,
                   ho, named, booked, extra, queue, chan>>

-----------------------------------------------------------------------------
(* The engine's end of the executors' channel.                              *)

(* The ack names the order and drops the fill held under its id. *)
MutAckDropsHeld(o) ==
    /\ named' = named \cup {o}
    /\ unclaimed' = [unclaimed EXCEPT ![o] = 0]
    /\ UNCHANGED <<vfilled, mcum, anchored, dropped, nextHedge, pending, ob, attempts,
                   ho, booked, extra, queue>>

(* on_order_ack: learn the venue id, and replay the fill held under it.     *)
Acknowledged(o) ==
    /\ named' = named \cup {o}
    /\ unclaimed' = [unclaimed EXCEPT ![o] = 0]
    /\ IF unclaimed[o] > 0
       THEN Credit(o, unclaimed[o])
       ELSE UNCHANGED <<mcum, dropped, nextHedge, pending, ob, attempts, ho,
                        booked, extra, queue>>
    /\ UNCHANGED <<vfilled, anchored>>

RecvMakerAck(m) ==
    /\ m \notin named
    /\ Acknowledged(m)
    /\ UNCHANGED chan

RecvAck(v) ==
    /\ chan[v] # <<>>
    /\ Head(chan[v]).kind = "order_ack"
    /\ chan' = [chan EXCEPT ![v] = Tail(@)]
    /\ Acknowledged(Head(chan[v]).oid)

(* The fill an executor found when it verified a superseded attempt: told   *)
(* under the venue's id, so it takes on_fill's path.                        *)
RecvFill(v) ==
    LET msg == Head(chan[v])
    IN  /\ chan[v] # <<>>
        /\ msg.kind = "fill"
        /\ chan' = [chan EXCEPT ![v] = Tail(@)]
        /\ Credit(msg.oid, msg.cum)
        /\ UNCHANGED <<vfilled, anchored, named, unclaimed>>

(* on_place_result: a halted market parks the obligation, if it is live.    *)
RecvMarketHalted(v) ==
    LET msg == Head(chan[v])
        c   == ho[msg.oid].chain
    IN  /\ chan[v] # <<>>
        /\ msg.kind = "market_halted"
        /\ chan' = [chan EXCEPT ![v] = Tail(@)]
        /\ ob' = IF c \in pending THEN [ob EXCEPT ![c].parked = TRUE] ELSE ob
        /\ UNCHANGED <<vfilled, mcum, anchored, dropped, nextHedge, pending, attempts,
                       ho, named, unclaimed, booked, extra, queue>>

-----------------------------------------------------------------------------
(* The hedge deadline, for one obligation of the tick.                      *)

(* A parked obligation is not alarmed. *)
MutAlarmNotParked(c) == ob[c].old /\ ~ob[c].alarmed /\ ~ob[c].parked

AlarmDue(c) == ob[c].old /\ ~ob[c].alarmed

(* A fill is held for an order the engine cannot name, and this            *)
(* obligation's latest attempt is one: the fill may be its own.            *)
AckOutstanding(c) ==
    /\ ob[c].latest # 0
    /\ ob[c].latest \notin named
    /\ \E o \in Orders : unclaimed[o] > 0

(* hedge_plan's holds, in its order: the retry interval (sinceTry = 0), the *)
(* park of a halted market, then HOLD_FOR_ACK (sinceTry < 2).               *)
MayPlace(c) ==
    /\ Missing(c) > 0
    /\ ob[c].sinceTry >= 1
    /\ ~ob[c].parked
    /\ ~(AckOutstanding(c) /\ ob[c].sinceTry < 2)

Ticked(c) == [ob[c] EXCEPT !.alarmed = @ \/ AlarmDue(c)]

(* Hold, Parked, HoldForAck, Wait, and Retire for one already covered: the  *)
(* alarm is the only thing the first four can change.                       *)
TickWaits(c) ==
    /\ c \in pending
    /\ IF Missing(c) <= 0
       THEN pending' = pending \ {c} /\ ob' = ob
       ELSE pending' = pending /\ ob' = [ob EXCEPT ![c] = Ticked(c)]
    /\ UNCHANGED <<vfilled, mcum, anchored, dropped, nextHedge, attempts, ho,
                   named, unclaimed, booked, extra, queue, chan>>

(* place_attempt, for Retry (on the hedge leg) or SellBack (on the entry's  *)
(* own venue, where its limit may differ): a fresh id for what is missing.  *)
TickPlaces(c, sellBack) ==
    LET h == nextHedge + 1
        v == IF sellBack THEN Home[ob[c].maker] ELSE Other(Home[ob[c].maker])
        p == Superseded(c, h)
    IN  /\ c \in pending
        /\ MayPlace(c)
        /\ h \in Ids
        /\ sellBack => h \in SellBacks
        /\ nextHedge' = h
        /\ ob' = [ob EXCEPT ![c] = [Ticked(c) EXCEPT !.sinceTry = 0, !.latest = h]]
        /\ attempts' = attempts \cup {h}
        /\ ho' = [ho EXCEPT ![h] = Attempt(c, v, Missing(c), sellBack,
                                         Skipped(c, h))]
        /\ Dispatch(v, Cmd(h, p, IF p = 0 THEN 0 ELSE ho[p].cum))
        /\ UNCHANGED <<vfilled, mcum, anchored, dropped, pending, named, unclaimed,
                       booked, extra, chan>>

(* The clocks: since the last placement (the retry interval, then           *)
(* HOLD_FOR_ACK), since the obligation began, and the park.                 *)
Clock(c, record) ==
    /\ c \in pending
    /\ ob' = [ob EXCEPT ![c] = record]
    /\ UNCHANGED <<vfilled, mcum, anchored, dropped, nextHedge, pending, attempts, ho,
                   named, unclaimed, booked, extra, queue, chan>>

IntervalPasses(c) == ob[c].sinceTry < 2 /\ Clock(c, [ob[c] EXCEPT !.sinceTry = @ + 1])
HorizonPasses(c)  == ~ob[c].old /\ Clock(c, [ob[c] EXCEPT !.old = TRUE])
ParkExpires(c)    == ob[c].parked /\ Clock(c, [ob[c] EXCEPT !.parked = FALSE])

-----------------------------------------------------------------------------
(* The executor of a venue, at the head of its queue.                       *)

(* prior_attempt: what the superseded attempt's venue has filled for it     *)
(* against what the command says was credited.                              *)
Accounted(cmd) == cmd.prior # 0 => vfilled[cmd.prior] <= cmd.credited

Served(v, msgs) ==
    /\ queue' = [queue EXCEPT ![v] = Tail(@)]
    /\ chan' = [chan EXCEPT ![v] = @ \o msgs]
    /\ UNCHANGED engineVars

(* The venue could not be asked: nothing is placed and nothing is told.     *)
ExecUnreadable(v) ==
    /\ queue[v] # <<>>
    /\ Head(queue[v]).prior # 0
    /\ Served(v, <<>>)
    /\ UNCHANGED vfilled

(* The venue knows of more than was credited: tell the engine, do not place. *)
ExecUnaccounted(v) ==
    LET p == Head(queue[v]).prior
    IN  /\ queue[v] # <<>>
        /\ ~Accounted(Head(queue[v]))
        /\ Served(v, <<Msg("fill", p, vfilled[p])>>)
        /\ UNCHANGED vfilled

(* The venue takes the IOC, which fills what it fills there and then; its   *)
(* answer, or recover_place after a lost one, names the order.              *)
ExecPlaces(v, filled) ==
    LET h == Head(queue[v]).oid
    IN  /\ queue[v] # <<>>
        /\ Accounted(Head(queue[v]))
        /\ vfilled' = [vfilled EXCEPT ![h] = @ + filled]
        /\ Served(v, <<Msg("order_ack", h, 0)>>)

(* The same with the answer lost and not recovered: the order has no name.  *)
ExecAnswerLost(v, filled) ==
    LET h == Head(queue[v]).oid
    IN  /\ queue[v] # <<>>
        /\ h \in Lost
        /\ Accounted(Head(queue[v]))
        /\ vfilled' = [vfilled EXCEPT ![h] = @ + filled]
        /\ Served(v, <<>>)

(* The venue refuses the place.  Only a halted market is told to the engine. *)
ExecRefused(v, halted) ==
    /\ queue[v] # <<>>
    /\ Accounted(Head(queue[v]))
    /\ halted => Head(queue[v]).oid \in Halted
    /\ Served(v, IF halted THEN <<Msg("market_halted", Head(queue[v]).oid, 0)>> ELSE <<>>)
    /\ UNCHANGED vfilled

-----------------------------------------------------------------------------
(* The maker orders rest, registered with or without an anchor, and their   *)
(* order_acks have not been read.                                           *)
Init ==
    /\ vfilled = [o \in Orders |-> 0]
    /\ mcum = [m \in Makers |-> 0]
    /\ anchored \in SUBSET Makers
    /\ dropped = [m \in Makers |-> 0]
    /\ nextHedge = 0
    /\ pending = {}
    /\ ob = [c \in Ids |-> Obligation(CHOOSE m \in Makers : TRUE, 0, 0)]
    /\ attempts = {}
    /\ ho = [h \in Ids |-> Attempt(h, "kalshi", 0, FALSE, {})]
    /\ named = {}
    /\ unclaimed = [o \in Orders |-> 0]
    /\ queue = [v \in Venues |-> <<>>]
    /\ chan = [v \in Venues |-> <<>>]
    /\ booked = [c \in Ids |-> 0]
    /\ extra = [c \in Ids |-> 0]

Next ==
    \/ \E m \in Makers : MakerTrades(m) \/ RecvMakerAck(m)
    \/ \E o \in Orders : \E cum \in 1..vfilled[o] : FillReported(o, cum) \/ FillHeld(o, cum)
    \/ \E o \in Orders : HeldFillExpires(o)
    \/ \E v \in Venues : RecvAck(v) \/ RecvFill(v) \/ RecvMarketHalted(v)
    \/ \E c \in Ids : IntervalPasses(c) \/ HorizonPasses(c) \/ ParkExpires(c) \/ TickWaits(c)
    \/ \E c \in Ids, sellBack \in BOOLEAN : TickPlaces(c, sellBack)
    \/ \E v \in Venues : ExecUnreadable(v) \/ ExecUnaccounted(v)
    \/ \E v \in Venues, halted \in BOOLEAN : ExecRefused(v, halted)
    \/ \E v \in Venues : queue[v] # <<>> /\
          \E filled \in 0..ho[Head(queue[v]).oid].qty :
              ExecPlaces(v, filled) \/ ExecAnswerLost(v, filled)

(* The tick interval fires and the clocks move; nothing else is owed.       *)
Fairness == \A c \in Ids : WF_vars(TickWaits(c)) /\ WF_vars(HorizonPasses(c))

Spec == Init /\ [][Next]_vars
FairSpec == Spec /\ Fairness

-----------------------------------------------------------------------------
(* Properties.  I1 to I4 are the numbers of the invariant in hedge.rs.      *)

Obligations ==
    [maker : Makers, owed : Nat, filled : Nat, latest : Ids \cup {0},
     sinceTry : 0..2, old : BOOLEAN, parked : BOOLEAN, alarmed : BOOLEAN]
AttemptRecords ==
    [chain : Ids, venue : Venues, qty : Nat, cum : Nat,
     sellBack : BOOLEAN, skipped : SUBSET Ids]
Cmds == [oid : Ids, prior : Ids \cup {0}, credited : Nat]
Msgs == [kind : {"order_ack", "fill", "market_halted"}, oid : Ids, cum : Nat]

(* Every variable stays in its domain: in particular no count the engine    *)
(* keeps of contracts hedged, booked or over-filled ever goes negative.     *)
TypeOK ==
    /\ vfilled \in [Orders -> Nat]
    /\ mcum \in [Makers -> Nat]
    /\ anchored \subseteq Makers
    /\ dropped \in [Makers -> Nat]
    /\ nextHedge \in 0..MaxIds
    /\ pending \subseteq Ids
    /\ ob \in [Ids -> Obligations]
    /\ attempts \subseteq Ids
    /\ ho \in [Ids -> AttemptRecords]
    /\ named \subseteq Orders
    /\ unclaimed \in [Orders -> Nat]
    /\ queue \in [Venues -> Seq(Cmds)]
    /\ chan \in [Venues -> Seq(Msgs)]
    /\ booked \in [Ids -> Nat]
    /\ extra \in [Ids -> Nat]

(* I2: what the trade ledger holds against an obligation is what was hedged *)
(* for it, up to what it owed, whatever frames came in whatever order.      *)
LedgerIsTheHedge ==
    \A c \in Minted : booked[c] = Least(ob[c].filled, ob[c].owed)

(* I3: an obligation is in pending_hedges, with its retry and its alarm,    *)
(* exactly as long as it is not covered.                                    *)
NakedIsTracked ==
    \A c \in Minted : c \in pending <=> ob[c].filled < ob[c].owed

(* No frame is credited twice and none is lost between an attempt and its   *)
(* obligation: over a chain's attempts, what the engine credited is what it *)
(* booked plus what it alarmed as over-hedged.                              *)
Chain(c) == {h \in attempts : ho[h].chain = c}
CreditsAddUp ==
    \A c \in Minted :
        SumFunctionOnSet([h \in Ids |-> ho[h].cum], Chain(c)) = booked[c] + extra[c]

(* I4: the obligations minted for a maker order, with those dropped for     *)
(* want of an anchor, owe what the FillLedger has accepted of its fills.    *)
MintedFor(m) == {c \in Minted : ob[c].maker = m}
ObligationsCoverFills ==
    \A m \in Makers :
        mcum[m] = dropped[m]
                  + SumFunctionOnSet([c \in Ids |-> ob[c].owed], MintedFor(m))

(* The engine never believes in a fill the venue did not make: not in what  *)
(* it has credited, not in what it holds, not in what is on its way to it.  *)
NeverAheadOfVenue ==
    /\ \A m \in Makers : mcum[m] <= vfilled[m]
    /\ \A h \in attempts : ho[h].cum <= vfilled[h]
    /\ \A o \in Orders : unclaimed[o] <= vfilled[o]
    /\ \A v \in Venues : \A i \in 1..Len(chan[v]) :
          chan[v][i].cum <= vfilled[chan[v][i].oid]

(* Ids are used once and in order, and nothing is booked before an          *)
(* obligation is minted: what makes a fresh id fresh.                       *)
IdsAreFresh ==
    /\ pending \subseteq Minted
    /\ Minted \subseteq 1..nextHedge
    /\ attempts \subseteq 1..nextHedge
    /\ \A c \in Ids \ Minted : booked[c] = 0

(* The inductive invariant behind the theorems of HedgeProofs.              *)
IInv ==
    /\ TypeOK
    /\ IdsAreFresh
    /\ LedgerIsTheHedge
    /\ NakedIsTracked
    /\ NeverAheadOfVenue

(* A chain's contracts at the venues exceed what its obligation owed only   *)
(* after some attempt was queued while an earlier one, which did fill, had  *)
(* no venue id to be asked about: every other loss, delay or duplication of *)
(* a fill report is caught by prior_attempt before the retry is placed.     *)
AtVenue(c) == SumFunctionOnSet(vfilled, Chain(c))
PassedUnseen(c) == \E h \in Chain(c) : \E b \in ho[h].skipped : vfilled[b] > 0
OverHedgeNeedsSkippedAttempt ==
    \A c \in Minted : AtVenue(c) > ob[c].owed => PassedUnseen(c)

(* How this state is that of HedgeContract.                                 *)
Sold    == [m \in Makers |-> vfilled[m]]
Owes    == [c \in Ids |-> ob[c].owed]
Whose   == [c \in Ids |-> ob[c].maker]
Traded  == [c \in Ids |-> AtVenue(c)]
Alarmed == {c \in Ids : ob[c].alarmed}
Blind   == {c \in Ids : PassedUnseen(c)}

Contract == INSTANCE HedgeContract WITH
    Entries <- Makers, Debts <- Ids, sold <- Sold, answered <- mcum,
    forgone <- dropped, owes <- Owes, whose <- Whose, traded <- Traded,
    alarmed <- Alarmed, blind <- Blind

(* Whatever the feed, the acks and the executors do, each contract of a     *)
(* maker fill is answered at most once, nothing is booked but what traded   *)
(* for it and up to what is owed, the rest is alarmed, and no obligation is *)
(* chased or alarmed once it is covered.                                    *)
AnswersForFills == Contract!Promise

(* A fill that beat its order_ack is credited by that ack, to the count     *)
(* held, before any deadline can run.                                       *)
HeldFillIsReplayed ==
    [][\A o \in Orders :
          unclaimed[o] > 0 /\ o \in named' \ named
              => IF o \in Makers
                 THEN mcum'[o] >= unclaimed[o]
                 ELSE ho'[o].cum >= unclaimed[o]]_vars

(* A covered obligation is covered for good: it never comes back, nothing   *)
(* more is booked for it and no further attempt is made for it.             *)
RetiredIsFinal ==
    [][\A c \in Minted \ pending :
          /\ c \notin pending'
          /\ booked'[c] = booked[c]
          /\ \A h \in attempts' \ attempts : ho'[h].chain # c]_vars

(* A naked leg is covered or alarmed, whatever the book offers and even if  *)
(* its market stays halted and its acks and fills never come: again and     *)
(* again there comes a time when each that is pending has been alarmed.     *)
NakedNeverSilent == []<>(\A c \in pending : ob[c].alarmed)

(* The doc of superseded(): "An attempt with no venue id is therefore not a *)
(* hazard (nothing of it is at the venue to have filled unseen)".           *)
UnnamedAttemptIsNoHazard ==
    \A c \in Minted : AtVenue(c) <= ob[c].owed
=============================================================================
