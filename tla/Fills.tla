------------------------------- MODULE Fills -------------------------------
(***************************************************************************)
(* The Kalshi fill feed: how the fills of the venue become the cumulative  *)
(* counts the engine hedges on.                                            *)
(*                                                                         *)
(* The venue reports each trade twice over: as a frame on a socket that    *)
(* drops and may or may not replay, and as a row of a list that may lag.   *)
(* Two tasks of the process read them into one accumulator (KalshiFills),  *)
(* which counts a trade by its identity: the SOCKET loop, frame by frame,  *)
(* and the RECONCILE task, asked for by every reconnect, which reads the   *)
(* whole list and merges it.  Each sends its lines to the engine after it  *)
(* has released the accumulator, so their lines interleave.                *)
(*                                                                         *)
(* Trades are numbered in the order the venue executes them.  Quantities   *)
(* are in the parts `count_fp` counts in, Unit of them to a contract.      *)
(***************************************************************************)
EXTENDS Integers, Sequences, FiniteSets, Functions

CONSTANTS
    Trades,     \* how many trades the venue executes at most
    Orders,
    OrderOf,    \* the order each trade fills
    Count,      \* its quantity, in parts
    Unit,       \* parts to a contract (100 in the code)
    MaxGaps,    \* bound on KALSHI_FILL_GAPS
    Lagging,    \* the trades the list may show later than the socket
    Unreadable, \* those whose count may not parse
    Faults      \* what else the venue may do, see below

Ids == 1..Trades

(* "boot": orders may fill before the first subscription; "window": orders  *)
(* may fill between a subscription sent and its taking force; "foreign":    *)
(* socket and list may identify a trade differently; "reads": a read of the *)
(* list may fail.                                                           *)
AllFaults == {"boot", "window", "foreign", "reads"}

ASSUME TradesAssumption ==
    /\ Trades \in Nat
    /\ OrderOf \in [Ids -> Orders]
    /\ Count \in [Ids -> Nat \ {0}]
    /\ Unit \in Nat \ {0}
ASSUME GapsAssumption  == MaxGaps \in Nat \ {0}
ASSUME FaultAssumption ==
    Lagging \subseteq Ids /\ Unreadable \subseteq Ids /\ Faults \subseteq AllFaults

VARIABLES
    filled,     \* venue truth: trades 1..filled have executed
    listed,     \* the trades GET /portfolio/fills returns by now
    sameIds,    \* do the socket and the list identify a trade alike?
    link,       \* the socket: down, asked to subscribe, or live with frames
    wire,       \* frames sent and not yet read by the socket loop
    gaps,       \* KALSHI_FILL_GAPS
    seen,       \* KalshiFills.seen
    hundredths, \* KalshiFills.hundredths
    task,       \* the reconcile task, which holds the gate unless idle
    page,       \* how often each trade is on the pages it has read
    outbox,     \* lines each task has yet to send
    told,       \* the engine's cumulative count of each order
    claims,     \* history: how often each trade has been counted
    counted,    \* history: trades a failure counter answers for
    overlooked  \* history: trades let go with no counter raised

venueVars   == <<filled, listed, sameIds>>
accumulator == <<seen, hundredths, claims>>
vars == <<venueVars, link, wire, gaps, accumulator, task, page, outbox, told,
          counted, overlooked>>

-----------------------------------------------------------------------------
(* Identities and sums.                                                     *)

Done     == 1..filled
WsId(t)  == <<"ws", t>>
RowId(t) == IF sameIds THEN WsId(t) ELSE <<"row", t>>

SumOf(S) == SumFunctionOnSet(Count, S)

Of(o, S)     == {t \in S : OrderOf[t] = o}
Filled(o)    == SumOf(Of(o, Done))
Line(o, cum) == [order |-> o, cum |-> cum]

(* A line goes out when the whole contracts of the order moved; the dust is *)
(* banked for the piece that completes it.                                  *)
MutMovedByPiece(before, n) == n \div Unit > 0

Moved(before, n) == (before + n) \div Unit > before \div Unit

-----------------------------------------------------------------------------
(* KalshiFills.                                                             *)

(* A frame whose count does not parse counts nothing. *)
LineUnreadable(t) ==
    /\ seen' = seen
    /\ counted' = counted \cup {t}
    /\ UNCHANGED <<hundredths, claims, outbox>>

(* Every frame is counted, a replay like the first. *)
MutClaimAgain(id) == TRUE

Fresh(id) == id \notin seen

(* KalshiFills::line and the claim in it. *)
LineOf(t) ==
    LET o == OrderOf[t]
    IN  IF Fresh(WsId(t))
        THEN /\ seen' = seen \cup {WsId(t)}
             /\ hundredths' = [hundredths EXCEPT ![o] = @ + Count[t]]
             /\ claims' = [claims EXCEPT ![t] = @ + 1]
             /\ outbox' = IF Moved(hundredths[o], Count[t])
                          THEN [outbox EXCEPT !.socket =
                                    Append(@, Line(o, (hundredths[o] + Count[t]) \div Unit))]
                          ELSE outbox
        ELSE UNCHANGED <<accumulator, outbox>>

OnPage == {t \in Ids : page[t] > 0}
Unseen == {t \in OnPage : RowId(t) \notin seen}

VenueTotal(o) == SumOf(Of(o, OnPage))

(* The merge trusts the identities. *)
MutRejectNone(o) == FALSE

(* An order is refused when merging would take it past the venue's total.   *)
Rejected(o) ==
    hundredths[o] + SumOf(Of(o, Unseen)) > VenueTotal(o)

Merged == LET new == Unseen IN {t \in new : ~Rejected(OrderOf[t])}

(* What the running total of its order is once row t is claimed: rows are   *)
(* claimed oldest first.                                                    *)
After(t) == hundredths[OrderOf[t]]
              + SumOf(Of(OrderOf[t], {u \in Merged : u <= t}))

(* The trade of S that has i of S up to and including it.                   *)
Nth(S, i) == CHOOSE t \in S : Cardinality({u \in S : u <= t}) = i

MergeLines ==
    LET moving == {t \in Merged : Moved(After(t) - Count[t], Count[t])}
    IN  [i \in 1..Cardinality(moving) |->
            LET t == Nth(moving, i) IN Line(OrderOf[t], After(t) \div Unit)]

(* The venue's total overwrites the local one. *)
MutMergeCount(o) == SumOf(Of(o, OnPage))

MergeCount(o) == hundredths[o] + SumOf(Of(o, Merged))

(* KalshiFills::merge_venue, under the accumulator's lock. *)
MergeVenue ==
    /\ seen' = seen \cup {RowId(t) : t \in Merged}
    /\ hundredths' = [o \in Orders |-> MergeCount(o)]
    /\ claims' = [t \in Ids |-> IF t \in Merged THEN claims[t] + 1 ELSE claims[t]]
    /\ counted' = counted \cup {t \in Done : Rejected(OrderOf[t])}

-----------------------------------------------------------------------------
(* The venue.                                                               *)

(* A subscription sent and not in force yet, with the read it asked for     *)
(* behind it, or with none asked for: a trade now is covered by neither.    *)
InWindow == link = "asked" /\ task # "queued"

VenueFill ==
    /\ filled < Trades
    /\ link = "live" \/ gaps > 1 \/ "boot" \in Faults
    /\ link = "asked" => "window" \in Faults
    /\ filled' = filled + 1
    /\ listed' = IF filled + 1 \in Lagging THEN listed ELSE listed \cup {filled + 1}
    /\ wire' = IF link = "live" THEN wire \cup {filled + 1} ELSE wire
    /\ overlooked' = IF InWindow \/ (link = "down" /\ gaps = 1)
                     THEN overlooked \cup {filled + 1} ELSE overlooked
    /\ UNCHANGED <<sameIds, link, gaps, accumulator, task, page, outbox, told, counted>>

ListCatchesUp(t) ==
    /\ t \in Done \ listed
    /\ listed' = listed \cup {t}
    /\ UNCHANGED <<filled, sameIds, link, wire, gaps, accumulator, task, page, outbox,
                   told, counted, overlooked>>

-----------------------------------------------------------------------------
(* kalshi_fill_feed: the socket loop.                                       *)

(* spawn_reconcile: the gate is tried, and the request is dropped when it   *)
(* is held, whether the holder has still to read or has read already.       *)
Request ==
    IF task = "idle"
    THEN /\ task' = "queued"
         /\ overlooked' = overlooked
    ELSE /\ task' = task
         /\ overlooked' = IF task = "queued" THEN overlooked
                          ELSE overlooked \cup {t \in Done : page[t] = 0}

(* The boot connection reconciles nothing; every later one does. *)
MutSubscribeNoRequest == UNCHANGED <<task, overlooked>>

SubscribeRequest ==
    IF gaps > 1 THEN Request ELSE UNCHANGED <<task, overlooked>>

(* The request to subscribe is sent, and the read asked for in the same     *)
(* breath: the venue's confirmation is not waited for.                      *)
Subscribe ==
    /\ link = "down"
    /\ link' = "asked"
    /\ SubscribeRequest
    /\ UNCHANGED <<venueVars, wire, gaps, accumulator, page, outbox, told, counted>>

(* The subscription takes force.  Whether it replays is not known: any      *)
(* frame may come again.                                                    *)
Confirmed ==
    /\ link = "asked"
    /\ link' = "live"
    /\ wire' \in SUBSET Done
    /\ UNCHANGED <<venueVars, gaps, accumulator, task, page, outbox, told, counted, overlooked>>

ConnectFails ==
    /\ link = "down"
    /\ gaps < MaxGaps
    /\ gaps' = gaps + 1
    /\ UNCHANGED <<venueVars, link, wire, accumulator, task, page, outbox, told,
                   counted, overlooked>>

(* The drop is noticed by the read after the line of the frame before it    *)
(* has gone; what was on the wire is lost.                                  *)
Drop ==
    /\ link # "down"
    /\ outbox.socket = <<>>
    /\ gaps < MaxGaps
    /\ link' = "down"
    /\ wire' = {}
    /\ gaps' = gaps + 1
    /\ UNCHANGED <<venueVars, accumulator, task, page, outbox, told, counted, overlooked>>

ReadFrame(t) ==
    /\ link = "live"
    /\ t \in wire
    /\ outbox.socket = <<>>
    /\ wire' = wire \ {t}
    /\ \/ LineOf(t) /\ UNCHANGED counted
       \/ t \in Unreadable /\ LineUnreadable(t)
    /\ UNCHANGED <<venueVars, link, gaps, task, page, told, overlooked>>

-----------------------------------------------------------------------------
(* The reconcile task.                                                      *)

(* The read walks a list that grows at its head, so a row may repeat.  A    *)
(* row whose count does not parse is left out of everything.                *)
Fetch ==
    /\ task = "queued"
    /\ task' = "read"
    /\ \E again \in SUBSET listed, bad \in SUBSET (listed \cap Unreadable) :
          /\ Cardinality(again) <= 1
          /\ page' = [t \in Ids |-> IF t \notin listed \ bad THEN 0
                                    ELSE IF t \in again THEN 2 ELSE 1]
          /\ counted' = counted \cup bad
    /\ overlooked' = overlooked \cup (Done \ listed)
    /\ UNCHANGED <<venueVars, link, wire, gaps, accumulator, outbox, told>>

(* Failure changes nothing but its counter. *)
FetchFails ==
    /\ task = "queued"
    /\ "reads" \in Faults
    /\ task' = "idle"
    /\ counted' = counted \cup Done
    /\ UNCHANGED <<venueVars, link, wire, gaps, accumulator, page, outbox, told, overlooked>>

(* The gate is freed as soon as the pages are merged. *)
MutGateFreed(lines) == "idle"

(* It is held until the last line has gone. *)
GateAfterMerge(lines) == IF lines = <<>> THEN "idle" ELSE "sending"

Merge ==
    /\ task = "read"
    /\ MergeVenue
    /\ LET lines == MergeLines
       IN  /\ outbox' = [outbox EXCEPT !.reconcile = lines]
           /\ task' = GateAfterMerge(lines)
           /\ page' = IF lines = <<>> THEN [t \in Ids |-> 0] ELSE page
    /\ UNCHANGED <<venueVars, link, wire, gaps, told, overlooked>>

(* Each line is taken for an increment. *)
MutHeardAdds(o, cum) == told[o] + cum

(* The engine's count is monotone: arb_core's observe_cum_fill. *)
Heard(o, cum) == IF cum > told[o] THEN cum ELSE told[o]

Send(p) ==
    /\ outbox[p] # <<>>
    /\ LET l == Head(outbox[p])
       IN  told' = [told EXCEPT ![l.order] = Heard(l.order, l.cum)]
    /\ outbox' = [outbox EXCEPT ![p] = Tail(@)]
    /\ LET over == p = "reconcile" /\ Tail(outbox[p]) = <<>>
       IN  /\ task' = IF over THEN "idle" ELSE task
           /\ page' = IF over THEN [t \in Ids |-> 0] ELSE page
    /\ UNCHANGED <<venueVars, link, wire, gaps, accumulator, counted, overlooked>>

-----------------------------------------------------------------------------
Senders == {"socket", "reconcile"}

Init ==
    /\ filled = 0
    /\ listed = {}
    /\ sameIds \in IF "foreign" \in Faults THEN BOOLEAN ELSE {TRUE}
    /\ link = "down"
    /\ wire = {}
    /\ gaps = 1
    /\ seen = {}
    /\ hundredths = [o \in Orders |-> 0]
    /\ task = "idle"
    /\ page = [t \in Ids |-> 0]
    /\ outbox = [p \in Senders |-> <<>>]
    /\ told = [o \in Orders |-> 0]
    /\ claims = [t \in Ids |-> 0]
    /\ counted = {}
    /\ overlooked = {}

Next ==
    \/ VenueFill \/ Subscribe \/ Confirmed \/ ConnectFails \/ Drop
    \/ Fetch \/ FetchFails \/ Merge
    \/ \E t \in Ids : ListCatchesUp(t) \/ ReadFrame(t)
    \/ \E p \in Senders : Send(p)

Spec == Init /\ [][Next]_vars

-----------------------------------------------------------------------------
(* Properties.                                                              *)

TypeOK ==
    /\ filled \in 0..Trades
    /\ listed \subseteq Ids
    /\ sameIds \in BOOLEAN /\ link \in {"down", "asked", "live"}
    /\ wire \subseteq Ids
    /\ gaps \in 1..MaxGaps
    /\ seen \subseteq ({"ws", "row"} \X Ids)
    /\ hundredths \in [Orders -> Nat]
    /\ task \in {"idle", "queued", "read", "sending"}
    /\ page \in [Ids -> 0..2]
    /\ outbox \in [Senders -> Seq([order : Orders, cum : Nat])]
    /\ told \in [Orders -> Nat]
    /\ claims \in [Ids -> Nat]
    /\ counted \subseteq Ids
    /\ overlooked \subseteq Ids
    /\ link # "live" => wire = {}
    /\ task = "sending" <=> outbox.reconcile # <<>>
    /\ task \in {"idle", "queued"} => page = [t \in Ids |-> 0]

(* No fill is hedged twice and none is spent unread: a trade has been        *)
(* counted exactly once for each identity of it that is spent, whichever    *)
(* source delivered it first, and only if the venue executed it.  While     *)
(* socket and list identify a trade alike it has one identity.              *)
CountedOnce ==
    \A t \in Ids :
        /\ claims[t] = (IF WsId(t) \in seen THEN 1 ELSE 0)
                         + (IF ~sameIds /\ RowId(t) \in seen THEN 1 ELSE 0)
        /\ claims[t] > 0 => t \in Done

(* The running total is the sum of the distinct trades counted, and what    *)
(* the engine has been told is its whole contracts: flooring happens once,  *)
(* on the sum, and no line runs ahead of the total.                         *)
TotalsAreSums ==
    \A o \in Orders :
        /\ hundredths[o] = SumOf(Of(o, {t \in Ids : claims[t] > 0}))
                             + SumOf(Of(o, {t \in Ids : claims[t] > 1}))
        /\ told[o] <= hundredths[o] \div Unit

(* The count the engine hedges never passes what the venue filled: the      *)
(* invariant the feed's documentation asks every edit to preserve.  When    *)
(* the two sources identify trades differently the guard of the merge       *)
(* leaves one way past it: a trade counted from the list first and then     *)
(* from a frame.                                                            *)
NeverPastVenue ==
    \A o \in Orders :
        told[o] * Unit > Filled(o) =>
            \E t \in Of(o, Ids) : ~sameIds /\ claims[t] = 2

(* Under foreign identities a trade the socket counted first is never       *)
(* counted from the list: once a frame of an order is counted, every later  *)
(* merge refuses the order.                                                 *)
FrameShutsOutRows ==
    [][\A t \in Ids :
          WsId(t) \in seen /\ <<"row", t>> \notin seen /\ ~sameIds
              => <<"row", t>> \notin seen']_vars

(* A trade is lost when it is not counted and nothing under way can bring   *)
(* it: no frame, no reconnect, no read to come and no page about to merge.  *)
Lost(t) ==
    /\ t \in Done
    /\ claims[t] = 0
    /\ t \notin wire
    /\ link = "live"
    /\ task # "queued"
    /\ ~(task = "read" /\ page[t] > 0)

(* A trade the feed loses is answered for: a counter was raised for it, or  *)
(* it is one of those the feed lets go: filled before the first             *)
(* subscription is in force, filled before a later one is but after the     *)
(* list was read, not yet listed when it was read, or left by a request     *)
(* dropped behind a reconcile that had read already.                        *)
LossIsAccounted == \A t \in Ids : Lost(t) => t \in counted \cup overlooked

(* What the documentation says of a dropped request: that it is free, the   *)
(* one under way covering strictly more ground.                             *)
DroppedRequestIsFree == \A t \in Ids : Lost(t) => t \in counted

(* Whole contracts banked reach the engine: some line tells it, or has told  *)
(* it, exactly the whole contracts of the running total, even when every    *)
(* piece is less than a contract and the two tasks' lines cross.            *)
BankedIsTold ==
    \A o \in Orders :
        \/ told[o] = hundredths[o] \div Unit
        \/ \E p \in Senders : \E i \in DOMAIN outbox[p] :
              outbox[p][i] = Line(o, hundredths[o] \div Unit)
=============================================================================
