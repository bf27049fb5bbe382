---------------------------- MODULE FillsProofs ----------------------------
(***************************************************************************)
(* What the fill feed promises for any number of trades, orders and gaps   *)
(* and under any of the venue's faults: no trade is counted twice, and no  *)
(* trade is lost that no counter and no known gap of the feed answers      *)
(* for.  Neither of these adds quantities up.  The second half does: the   *)
(* totals are the sums of the trades counted, what the engine is told is   *)
(* their whole contracts, all of it is told or on its way, and none of it  *)
(* passes what the venue filled but in the one way the guard of the merge  *)
(* leaves.                                                                 *)
(***************************************************************************)
EXTENDS Fills, SumProofs, SequenceTheorems, TLAPS

Typed ==
    /\ filled \in Nat
    /\ sameIds \in BOOLEAN /\ link \in {"down", "asked", "live"}
    /\ claims \in [Ids -> Nat]
    /\ page \in [Ids -> Nat]
    /\ gaps \in Nat \ {0}
    /\ task \in {"idle", "queued", "read", "sending"}

(* What is reported, by frame or by row, has happened. *)
ReportedIsDone ==
    /\ listed \subseteq Done
    /\ wire \subseteq Done
    /\ link # "live" => wire = {}
    /\ \A t \in Ids : page[t] > 0 => t \in Done

(* Where a trade is that is not counted yet: a frame or a page carries it,  *)
(* or a read to come will, or a reconnect to come asks for that read, or it *)
(* is answered for.                                                         *)
OnItsWay(t) ==
    \/ claims[t] > 0
    \/ t \in wire
    \/ link = "down" /\ gaps > 1
    \/ task = "queued"
    \/ task = "read" /\ page[t] > 0
    \/ t \in counted \cup overlooked

Tracked == \A t \in Ids : t \in Done => OnItsWay(t)

(* Once a page is merged its rows are counted or refused. *)
MergedIsSettled ==
    task = "sending" => \A t \in Ids : page[t] > 0 => claims[t] > 0 \/ t \in counted

(* The gate is held while the reconcile task has lines to send. *)
GateHeld ==
    /\ outbox = [p \in Senders |-> outbox[p]]
    /\ outbox.reconcile # <<>> => task = "sending"

IInv == Typed /\ ReportedIsDone /\ CountedOnce /\ Tracked /\ MergedIsSettled

-----------------------------------------------------------------------------

(* The initial state: nothing has filled. *)
LEMMA InitIInv == ASSUME Init PROVE IInv
<1>1. Typed
  <2>1. sameIds \in BOOLEAN
    BY DEF Init
  <2>2. claims \in [Ids -> Nat] /\ page \in [Ids -> Nat]
    BY DEF Init
  <2>3. link \in {"down", "asked", "live"}
    BY DEF Init
  <2>4. filled \in Nat /\ gaps \in Nat \ {0} /\ task \in {"idle", "queued", "read", "sending"}
    BY DEF Init
  <2> QED
    BY <2>1, <2>2, <2>3, <2>4 DEF Typed
<1>2. Done = {}
  BY DEF Init, Done
<1>3. ReportedIsDone /\ Tracked /\ MergedIsSettled
  BY <1>2 DEF Init, ReportedIsDone, Tracked, MergedIsSettled
<1>4. CountedOnce
  BY DEF Init, CountedOnce
<1> QED
  BY <1>1, <1>3, <1>4 DEF IInv

(* A step that moves neither the accumulator nor the page keeps the parts   *)
(* that speak of them.                                                      *)
LEMMA Untouched ==
    ASSUME IInv, UNCHANGED <<seen, claims, sameIds>>, filled' \in Nat, filled' >= filled
    PROVE  CountedOnce'
<1> SUFFICES ASSUME NEW u \in Ids
             PROVE  /\ claims'[u] = (IF WsId(u) \in seen' THEN 1 ELSE 0)
                                     + (IF ~sameIds' /\ RowId(u)' \in seen' THEN 1 ELSE 0)
                    /\ claims'[u] > 0 => u \in Done'
  BY DEF CountedOnce, WsId
<1>1. RowId(u)' = RowId(u)
  BY DEF RowId, WsId
<1>2. /\ claims[u] = (IF WsId(u) \in seen THEN 1 ELSE 0)
                      + (IF ~sameIds /\ RowId(u) \in seen THEN 1 ELSE 0)
      /\ claims[u] > 0 => u \in Done
  BY DEF IInv, CountedOnce
<1>3. Done \subseteq Done'
  BY DEF Done, IInv, Typed
<1> QED
  BY <1>1, <1>2, <1>3

(* The two forms an identity takes are different. *)
LEMMA IdsDiffer ==
    ASSUME NEW t, NEW u
    PROVE  <<"ws", t>> # <<"row", u>>
OBVIOUS

(* A frame that is counted is counted under the socket's identity. *)
LEMMA FrameCounted ==
    ASSUME IInv, NEW t \in Ids, t \in Done, WsId(t) \notin seen,
           seen' = seen \cup {WsId(t)},
           claims' = [claims EXCEPT ![t] = @ + 1],
           UNCHANGED <<sameIds, filled>>
    PROVE  CountedOnce'
<1> SUFFICES ASSUME NEW u \in Ids
             PROVE  /\ claims'[u] = (IF WsId(u) \in seen' THEN 1 ELSE 0)
                                     + (IF ~sameIds' /\ RowId(u)' \in seen' THEN 1 ELSE 0)
                    /\ claims'[u] > 0 => u \in Done'
  BY DEF CountedOnce, WsId
<1>1. claims[u] \in Nat /\ claims[t] \in Nat
  BY DEF IInv, Typed
<1>2. WsId(u) \in seen' <=> WsId(u) \in seen \/ u = t
  BY DEF WsId
<1>3. RowId(u)' = RowId(u) /\ Done' = Done /\ sameIds' = sameIds
  BY DEF RowId, WsId, Done
<1>4. ~sameIds => (RowId(u) \in seen' <=> RowId(u) \in seen)
  BY IdsDiffer DEF RowId, WsId
<1>5. claims'[u] = IF u = t THEN claims[t] + 1 ELSE claims[u]
  BY DEF IInv, Typed
<1>6. /\ claims[u] = (IF WsId(u) \in seen THEN 1 ELSE 0)
                      + (IF ~sameIds /\ RowId(u) \in seen THEN 1 ELSE 0)
      /\ claims[u] > 0 => u \in Done
  BY DEF IInv, CountedOnce
<1>7. CASE u = t
  BY <1>1, <1>2, <1>3, <1>4, <1>5, <1>6, <1>7
<1>8. CASE u # t
  BY <1>1, <1>2, <1>3, <1>4, <1>5, <1>6, <1>8
<1> QED
  BY <1>7, <1>8

(* A row that is merged is counted under the list's identity. *)
LEMMA RowsCounted ==
    ASSUME IInv, MergeVenue, UNCHANGED <<sameIds, filled>>
    PROVE  CountedOnce'
<1> SUFFICES ASSUME NEW u \in Ids
             PROVE  /\ claims'[u] = (IF WsId(u) \in seen' THEN 1 ELSE 0)
                                     + (IF ~sameIds' /\ RowId(u)' \in seen' THEN 1 ELSE 0)
                    /\ claims'[u] > 0 => u \in Done'
  BY DEF CountedOnce, WsId
<1>1. claims[u] \in Nat
  BY DEF IInv, Typed
<1>2. Merged \subseteq Ids /\ (u \in Merged => RowId(u) \notin seen /\ page[u] > 0)
  BY DEF Merged, Unseen, OnPage
<1>3. claims'[u] = IF u \in Merged THEN claims[u] + 1 ELSE claims[u]
  BY DEF MergeVenue
<1>4. RowId(u)' = RowId(u) /\ Done' = Done /\ sameIds' = sameIds
  BY DEF RowId, WsId, Done
<1>5. RowId(u) \in seen' <=> RowId(u) \in seen \/ u \in Merged
  BY <1>2 DEF MergeVenue, RowId, WsId
<1>6. ~sameIds => (WsId(u) \in seen' <=> WsId(u) \in seen)
  BY IdsDiffer DEF MergeVenue, RowId, WsId
<1>7. sameIds => RowId(u) = WsId(u)
  BY DEF RowId
<1>8. /\ claims[u] = (IF WsId(u) \in seen THEN 1 ELSE 0)
                      + (IF ~sameIds /\ RowId(u) \in seen THEN 1 ELSE 0)
      /\ claims[u] > 0 => u \in Done
      /\ page[u] > 0 => u \in Done
  BY DEF IInv, CountedOnce, ReportedIsDone
<1>9. CASE sameIds
  BY <1>1, <1>2, <1>3, <1>4, <1>5, <1>7, <1>8, <1>9
<1>10. CASE ~sameIds
  BY <1>1, <1>2, <1>3, <1>4, <1>5, <1>6, <1>8, <1>10
<1> QED
  BY <1>9, <1>10 DEF IInv, Typed

(* Every row of a merged page is counted afterwards, or its order was       *)
(* refused and a counter says so.                                           *)
LEMMA MergeSettles ==
    ASSUME IInv, MergeVenue, NEW t \in Ids, page[t] > 0
    PROVE  claims'[t] > 0 \/ t \in counted'
<1>1. claims[t] \in Nat /\ t \in Done
  BY DEF IInv, Typed, ReportedIsDone
<1>2. claims'[t] = IF t \in Merged THEN claims[t] + 1 ELSE claims[t]
  BY DEF MergeVenue
<1>3. CASE t \in Merged
  BY <1>1, <1>2, <1>3
<1>4. CASE RowId(t) \in seen
  <2>1. claims[t] > 0
    BY <1>1, <1>4 DEF IInv, CountedOnce, RowId, Typed
  <2> QED
    BY <1>1, <1>2, <2>1
<1>5. CASE t \notin Merged /\ RowId(t) \notin seen
  <2>1. Rejected(OrderOf[t])
    BY <1>5 DEF Merged, Unseen, OnPage
  <2> QED
    BY <1>1, <2>1 DEF MergeVenue
<1> QED
  BY <1>3, <1>4, <1>5

-----------------------------------------------------------------------------
(* One lemma per action that does more than UNCHANGED.                      *)

(* The venue executes a trade: on the wire while subscribed, asked for by   *)
(* the next connection otherwise, let go before the first.                  *)
LEMMA VenueFillKeeps == ASSUME IInv, VenueFill PROVE IInv'
<1>1. filled' = filled + 1 /\ filled \in Nat /\ Done' = Done \cup {filled + 1}
  BY DEF VenueFill, IInv, Typed, Done
<1>2. Typed'
  BY <1>1 DEF VenueFill, IInv, Typed, accumulator
<1>3. ReportedIsDone'
  BY <1>1 DEF VenueFill, IInv, ReportedIsDone, accumulator
<1>4. CountedOnce'
  BY <1>1, Untouched DEF VenueFill, accumulator
<1>5. Tracked'
  <2> SUFFICES ASSUME NEW t \in Ids, t \in Done'
               PROVE  OnItsWay(t)'
    BY DEF Tracked
  <2>1. /\ UNCHANGED <<link, gaps, task, page, claims, counted>>
        /\ wire \subseteq wire' /\ overlooked \subseteq overlooked'
    BY DEF VenueFill, accumulator
  <2>2. CASE t \in Done
    <3>1. OnItsWay(t)
      BY <2>2 DEF IInv, Tracked
    <3> QED
      BY <2>1, <3>1 DEF OnItsWay
  <2>3. CASE t = filled + 1
    <3>1. CASE link = "live"
      BY <2>3, <3>1 DEF VenueFill, OnItsWay
    <3>2. CASE InWindow \/ (link = "down" /\ gaps = 1)
      BY <2>3, <3>2 DEF VenueFill, OnItsWay
    <3>3. CASE link = "down" /\ gaps # 1
      <4>1. gaps > 1
        BY <3>3 DEF IInv, Typed
      <4> QED
        BY <3>3, <4>1, <2>1 DEF OnItsWay
    <3>4. CASE link = "asked" /\ task = "queued"
      BY <2>1, <3>4 DEF OnItsWay
    <3> QED
      BY <3>1, <3>2, <3>3, <3>4 DEF InWindow, IInv, Typed
  <2> QED
    BY <1>1, <2>2, <2>3
<1>6. MergedIsSettled'
  BY DEF VenueFill, IInv, MergedIsSettled, accumulator
<1> QED
  BY <1>2, <1>3, <1>4, <1>5, <1>6 DEF IInv

(* A row is listed late: only the list changes. *)
LEMMA ListKeeps == ASSUME IInv, NEW t \in Ids, ListCatchesUp(t) PROVE IInv'
<1>1. /\ UNCHANGED <<filled, sameIds, link, wire, gaps, seen, claims, task, page,
                     counted, overlooked>>
      /\ listed' = listed \cup {t} /\ t \in Done
  BY DEF ListCatchesUp, accumulator
<1>2. Typed' /\ ReportedIsDone' /\ MergedIsSettled'
  BY <1>1 DEF IInv, Typed, ReportedIsDone, MergedIsSettled, Done
<1>3. CountedOnce'
  BY <1>1, Untouched DEF IInv, Typed
<1>4. Tracked'
  BY <1>1 DEF IInv, Tracked, OnItsWay, Done
<1> QED
  BY <1>2, <1>3, <1>4 DEF IInv

(* A request to reconcile leaves no trade untracked: it is queued, or the   *)
(* reconcile it is dropped behind still covers what it has on its page.     *)
LEMMA SubscribeKeeps == ASSUME IInv, Subscribe PROVE IInv'
<1>1. /\ UNCHANGED <<filled, listed, sameIds, gaps, seen, claims, page, counted>>
      /\ wire' = wire /\ link' = "asked" /\ link = "down"
      /\ SubscribeRequest
  BY DEF Subscribe, accumulator, venueVars
<1>2. task' = task \/ (task = "idle" /\ task' = "queued")
  BY <1>1 DEF SubscribeRequest, Request
<1>3. Typed' /\ ReportedIsDone' /\ MergedIsSettled'
  BY <1>1, <1>2 DEF IInv, Typed, ReportedIsDone, MergedIsSettled, Done
<1>4. CountedOnce'
  BY <1>1, Untouched DEF IInv, Typed
<1>5. Tracked'
  <2> SUFFICES ASSUME NEW t \in Ids, t \in Done
               PROVE  OnItsWay(t)'
    BY <1>1 DEF Tracked, Done
  <2>1. OnItsWay(t)
    BY DEF IInv, Tracked
  <2>2. overlooked \subseteq overlooked'
    BY <1>1 DEF SubscribeRequest, Request
  <2>3. page[t] \in Nat /\ gaps \in Nat \ {0}
    BY DEF IInv, Typed
  <2>4. CASE gaps > 1
    <3>1. Request
      BY <1>1, <2>4 DEF SubscribeRequest
    <3>2. CASE task = "idle" \/ task = "queued"
      BY <3>1, <3>2 DEF Request, OnItsWay
    <3>3. CASE task # "idle" /\ task # "queued" /\ page[t] = 0
      BY <3>1, <3>3 DEF Request, OnItsWay
    <3>4. CASE task = "read" /\ page[t] > 0
      BY <1>2, <1>1, <3>4 DEF OnItsWay
    <3>5. CASE task = "sending" /\ page[t] > 0
      <4>1. claims[t] > 0 \/ t \in counted
        BY <3>5 DEF IInv, MergedIsSettled
      <4> QED
        BY <1>1, <4>1 DEF OnItsWay
    <3> QED
      BY <2>3, <3>2, <3>3, <3>4, <3>5 DEF IInv, Typed
  <2>5. CASE ~(gaps > 1)
    <3>1. t \notin wire
      BY <1>1 DEF IInv, ReportedIsDone
    <3> QED
      BY <1>1, <2>1, <2>5, <3>1 DEF SubscribeRequest, OnItsWay
  <2> QED
    BY <2>4, <2>5
<1> QED
  BY <1>3, <1>4, <1>5 DEF IInv

(* A subscription in force only adds frames. *)
LEMMA ConfirmedKeeps == ASSUME IInv, Confirmed PROVE IInv'
<1>1. /\ UNCHANGED <<filled, listed, sameIds, gaps, seen, claims, task, page, counted,
                     overlooked>>
      /\ wire' \in SUBSET Done /\ link' = "live" /\ link = "asked"
  BY DEF Confirmed, accumulator, venueVars
<1>2. Typed' /\ ReportedIsDone' /\ MergedIsSettled'
  BY <1>1 DEF IInv, Typed, ReportedIsDone, MergedIsSettled, Done
<1>3. CountedOnce'
  BY <1>1, Untouched DEF IInv, Typed
<1>4. wire = {}
  BY <1>1 DEF IInv, ReportedIsDone
<1>5. Tracked'
  BY <1>1, <1>4 DEF IInv, Tracked, OnItsWay, Done
<1> QED
  BY <1>2, <1>3, <1>5 DEF IInv

(* A lost socket, or a connection that fails, leaves a reconnect to come. *)
LEMMA GapEmptiesWire == ASSUME IInv, ConnectFails \/ Drop PROVE wire' = {}
BY DEF ConnectFails, Drop, IInv, ReportedIsDone

(* So a gap keeps every trade accounted for. *)
LEMMA GapKeeps == ASSUME IInv, ConnectFails \/ Drop PROVE IInv'
<1>1. /\ UNCHANGED <<filled, listed, sameIds, seen, claims, task, page, counted,
                     overlooked>>
      /\ wire' \subseteq wire /\ link' = "down" /\ gaps' = gaps + 1
  BY DEF ConnectFails, Drop, accumulator, venueVars, IInv, Typed
<1>2. gaps' > 1
  BY <1>1 DEF IInv, Typed
<1>3. Typed' /\ MergedIsSettled'
  <2>1. link' \in {"down", "asked", "live"}
    BY <1>1
  <2>2. gaps' \in Nat \ {0}
    BY <1>1 DEF IInv, Typed
  <2>3. Typed'
    BY <1>1, <2>1, <2>2 DEF IInv, Typed
  <2> QED
    BY <1>1, <2>3 DEF IInv, MergedIsSettled
<1>6. ReportedIsDone'
  BY <1>1, GapEmptiesWire DEF IInv, ReportedIsDone, Done
<1>4. CountedOnce'
  BY <1>1, Untouched DEF IInv, Typed
<1>5. Tracked'
  BY <1>1, <1>2 DEF Tracked, OnItsWay
<1> QED
  BY <1>3, <1>4, <1>5, <1>6 DEF IInv

(* A frame read is counted, was counted before, or is unreadable. *)
LEMMA ReadFrameKeeps == ASSUME IInv, NEW t \in Ids, ReadFrame(t) PROVE IInv'
<1>1. /\ UNCHANGED <<filled, listed, sameIds, link, gaps, task, page, overlooked>>
      /\ wire' = wire \ {t} /\ t \in wire
  BY DEF ReadFrame, venueVars
<1>2. t \in Done
  BY <1>1 DEF IInv, ReportedIsDone
<1>3. claims[t] \in Nat
  BY DEF IInv, Typed
<1>4. CASE LineOf(t) /\ UNCHANGED counted /\ WsId(t) \notin seen
  <2>1. seen' = seen \cup {WsId(t)} /\ claims' = [claims EXCEPT ![t] = @ + 1]
    BY <1>4 DEF LineOf, Fresh
  <2>2. \A u \in Ids : claims'[u] = IF u = t THEN claims[u] + 1 ELSE claims[u]
    BY <2>1 DEF IInv, Typed
  <2>3. Typed' /\ ReportedIsDone' /\ MergedIsSettled'
    BY <1>1, <1>3, <1>4, <2>1, <2>2
    DEF IInv, Typed, ReportedIsDone, MergedIsSettled, Done
  <2>4. CountedOnce'
    BY <1>1, <1>2, <1>4, <2>1, FrameCounted
  <2>5. Tracked'
    BY <1>1, <1>3, <1>4, <2>2 DEF IInv, Tracked, OnItsWay, Done, Typed
  <2> QED
    BY <2>3, <2>4, <2>5 DEF IInv
<1>5. CASE LineOf(t) /\ UNCHANGED counted /\ WsId(t) \in seen
  <2>1. UNCHANGED <<seen, claims>>
    BY <1>5 DEF LineOf, Fresh, accumulator
  <2>2. claims[t] > 0
    BY <1>3, <1>5 DEF IInv, CountedOnce
  <2>3. Typed' /\ ReportedIsDone' /\ MergedIsSettled'
    BY <1>1, <1>5, <2>1 DEF IInv, Typed, ReportedIsDone, MergedIsSettled, Done
  <2>4. CountedOnce'
    BY <1>1, <2>1, Untouched DEF IInv, Typed
  <2>5. Tracked'
    BY <1>1, <1>5, <2>1, <2>2 DEF IInv, Tracked, OnItsWay, Done
  <2> QED
    BY <2>3, <2>4, <2>5 DEF IInv
<1>6. CASE LineUnreadable(t)
  <2>1. UNCHANGED <<seen, claims>> /\ counted' = counted \cup {t}
    BY <1>6 DEF LineUnreadable
  <2>2. Typed' /\ ReportedIsDone' /\ MergedIsSettled'
    BY <1>1, <2>1 DEF IInv, Typed, ReportedIsDone, MergedIsSettled, Done
  <2>3. CountedOnce'
    BY <1>1, <2>1, Untouched DEF IInv, Typed
  <2>4. Tracked'
    BY <1>1, <2>1 DEF IInv, Tracked, OnItsWay, Done
  <2> QED
    BY <2>2, <2>3, <2>4 DEF IInv
<1> QED
  BY <1>4, <1>5, <1>6 DEF ReadFrame

(* The read of the list: what is not on the page is answered for. *)
LEMMA FetchKeeps == ASSUME IInv, Fetch \/ FetchFails PROVE IInv'
<1>1. /\ UNCHANGED <<filled, listed, sameIds, link, wire, gaps, seen, claims>>
      /\ task = "queued" /\ task' \in {"read", "idle"}
  BY DEF Fetch, FetchFails, accumulator, venueVars
<1>2. CountedOnce'
  BY <1>1, Untouched DEF IInv, Typed
<1>3. MergedIsSettled'
  BY <1>1 DEF MergedIsSettled
<1>4. CASE Fetch
  <2>1. PICK again \in SUBSET listed, bad \in SUBSET (listed \cap Unreadable) :
          /\ page' = [t \in Ids |-> IF t \notin listed \ bad THEN 0
                                    ELSE IF t \in again THEN 2 ELSE 1]
          /\ counted' = counted \cup bad
    BY <1>4 DEF Fetch
  <2>2. overlooked' = overlooked \cup (Done \ listed) /\ task' = "read"
    BY <1>4 DEF Fetch
  <2>3. \A t \in Ids : page'[t] = IF t \notin listed \ bad THEN 0
                                  ELSE IF t \in again THEN 2 ELSE 1
    BY <2>1
  <2>4. Typed'
    BY <1>1, <2>1 DEF IInv, Typed
  <2>5. ReportedIsDone'
    <3>1. \A t \in Ids : page'[t] > 0 => t \in listed
      BY <2>3
    <3>2. Done' = Done
      BY <1>1 DEF Done
    <3> QED
      BY <1>1, <3>1, <3>2 DEF IInv, ReportedIsDone
  <2>6. Tracked'
    <3> SUFFICES ASSUME NEW t \in Ids, t \in Done
                 PROVE  OnItsWay(t)'
      BY <1>1 DEF Tracked, Done
    <3>1. CASE t \in listed \ bad
      <4>1. page'[t] > 0
        BY <2>3, <3>1
      <4> QED
        BY <2>2, <4>1 DEF OnItsWay
    <3>2. CASE t \notin listed \ bad
      BY <2>1, <2>2, <3>2 DEF OnItsWay
    <3> QED
      BY <3>1, <3>2
  <2> QED
    BY <1>2, <1>3, <2>4, <2>5, <2>6 DEF IInv
<1>5. CASE FetchFails
  <2>1. counted' = counted \cup Done /\ page' = page
    BY <1>5 DEF FetchFails
  <2>2. Typed' /\ ReportedIsDone'
    BY <1>1, <2>1 DEF IInv, Typed, ReportedIsDone, Done
  <2>3. Tracked'
    BY <1>1, <2>1 DEF Tracked, OnItsWay, Done
  <2> QED
    BY <1>2, <1>3, <2>2, <2>3 DEF IInv
<1> QED
  BY <1>4, <1>5

(* The merge settles every row of its page. *)
LEMMA MergeKeeps == ASSUME IInv, Merge PROVE IInv'
<1>1. /\ UNCHANGED <<filled, listed, sameIds, link, wire, gaps, overlooked>>
      /\ task = "read" /\ MergeVenue
      /\ page' = page \/ page' = [t \in Ids |-> 0]
      /\ task' \in {"idle", "sending"}
  BY DEF Merge, venueVars, GateAfterMerge
<1>2. /\ claims' \in [Ids -> Nat] /\ counted \subseteq counted'
      /\ \A t \in Ids : claims[t] > 0 => claims'[t] > 0
  BY <1>1 DEF MergeVenue, IInv, Typed
<1>3. Typed'
  <2>1. page' \in [Ids -> Nat]
    BY <1>1 DEF IInv, Typed
  <2> QED
    BY <1>1, <1>2, <2>1 DEF IInv, Typed
<1>4. ReportedIsDone'
  <2>1. \A t \in Ids : page'[t] > 0 => page[t] > 0
    BY <1>1 DEF IInv, Typed
  <2> QED
    BY <1>1, <2>1 DEF IInv, ReportedIsDone, Done
<1>5. CountedOnce'
  BY <1>1, RowsCounted
<1>6. MergedIsSettled'
  <2>1. \A t \in Ids : page'[t] > 0 => page[t] > 0
    BY <1>1 DEF IInv, Typed
  <2> QED
    BY <1>1, <2>1, MergeSettles DEF MergedIsSettled
<1>7. Tracked'
  <2> SUFFICES ASSUME NEW t \in Ids, t \in Done
               PROVE  OnItsWay(t)'
    BY <1>1 DEF Tracked, Done
  <2>1. OnItsWay(t)
    BY DEF IInv, Tracked
  <2>2. CASE page[t] > 0
    BY <1>1, <2>2, MergeSettles DEF OnItsWay
  <2>3. CASE ~(page[t] > 0)
    BY <1>1, <1>2, <2>1, <2>3 DEF OnItsWay
  <2> QED
    BY <2>2, <2>3
<1> QED
  BY <1>3, <1>4, <1>5, <1>6, <1>7 DEF IInv

(* A line that goes out frees the gate once it is the last. *)
LEMMA SendKeeps == ASSUME IInv, NEW p \in Senders, Send(p),
                          outbox.reconcile # <<>> => task = "sending"
                   PROVE  IInv'
<1>1. /\ UNCHANGED <<filled, listed, sameIds, link, wire, gaps, seen, claims, counted,
                     overlooked>>
      /\ \/ task' = task /\ page' = page
         \/ p = "reconcile" /\ task' = "idle" /\ page' = [t \in Ids |-> 0]
  BY DEF Send, venueVars, accumulator
<1>2. CountedOnce'
  BY <1>1, Untouched DEF IInv, Typed
<1>3. CASE task' = task /\ page' = page
  BY <1>1, <1>2, <1>3
  DEF IInv, Typed, ReportedIsDone, MergedIsSettled, Tracked, OnItsWay, Done
<1>4. CASE p = "reconcile" /\ task' = "idle" /\ page' = [t \in Ids |-> 0]
  <2>1. task = "sending"
    BY <1>4 DEF Send
  <2>2. Typed' /\ ReportedIsDone' /\ MergedIsSettled'
    BY <1>1, <1>4 DEF IInv, Typed, ReportedIsDone, MergedIsSettled, Done
  <2>3. Tracked'
    BY <1>1, <1>4, <2>1 DEF IInv, Tracked, OnItsWay, Done
  <2> QED
    BY <1>2, <2>2, <2>3 DEF IInv
<1> QED
  BY <1>1, <1>3, <1>4

(* The gate: only a merge gives the task lines, and it is held for them. *)
LEMMA GateKeeps == ASSUME Typed, GateHeld, [Next]_vars PROVE GateHeld'
<1>1. "socket" \in Senders /\ "reconcile" \in Senders /\ "socket" # "reconcile"
  BY DEF Senders
<1>2. CASE UNCHANGED <<outbox, task>>
  BY <1>2 DEF GateHeld
<1>3. CASE Subscribe \/ Fetch \/ FetchFails
  <2>1. outbox' = outbox
    BY <1>3 DEF Subscribe, Fetch, FetchFails
  <2>2. task # "sending" \/ task' = task
    <3>1. CASE Subscribe
      BY <3>1 DEF Subscribe, SubscribeRequest, Request
    <3>2. CASE Fetch \/ FetchFails
      BY <3>2 DEF Fetch, FetchFails
    <3> QED
      BY <1>3, <3>1, <3>2
  <2> QED
    BY <2>1, <2>2 DEF GateHeld
<1>4. ASSUME NEW t \in Ids, ReadFrame(t) PROVE GateHeld'
  <2>1. task' = task /\ (outbox' = outbox \/ \E l : outbox' = [outbox EXCEPT !.socket = l])
    BY <1>4 DEF ReadFrame, LineOf, LineUnreadable
  <2> QED
    BY <1>1, <2>1 DEF GateHeld
<1>5. CASE Merge
  <2>1. PICK lines : /\ outbox' = [outbox EXCEPT !.reconcile = lines]
                     /\ task' = GateAfterMerge(lines)
    BY <1>5 DEF Merge
  <2>2. outbox'.reconcile = lines
    BY <1>1, <2>1 DEF GateHeld
  <2> QED
    BY <1>1, <2>1, <2>2 DEF GateHeld, GateAfterMerge
<1>6. ASSUME NEW p \in Senders, Send(p) PROVE GateHeld'
  <2>1. outbox' = [outbox EXCEPT ![p] = Tail(@)]
    BY <1>6 DEF Send
  <2>2. CASE p = "reconcile"
    <3>1. outbox'.reconcile = Tail(outbox.reconcile) /\ task = "sending"
      BY <1>1, <1>6, <2>1, <2>2 DEF GateHeld, Send
    <3>2. task' = IF Tail(outbox.reconcile) = <<>> THEN "idle" ELSE task
      BY <1>6, <2>2 DEF Send
    <3> QED
      BY <2>1, <3>1, <3>2 DEF GateHeld
  <2>3. CASE p # "reconcile"
    <3>1. outbox'.reconcile = outbox.reconcile /\ task' = task
      BY <1>1, <1>6, <2>1, <2>3 DEF GateHeld, Send
    <3> QED
      BY <2>1, <3>1 DEF GateHeld
  <2> QED
    BY <2>2, <2>3
<1> QED
  BY <1>2, <1>3, <1>4, <1>5, <1>6
  DEF Next, vars, VenueFill, Confirmed, ConnectFails, Drop, ListCatchesUp

(* The invariant is inductive. *)
LEMMA StepIInv == ASSUME IInv, GateHeld, [Next]_vars PROVE IInv'
<1>1. CASE UNCHANGED vars
  <2>1. UNCHANGED <<filled, listed, sameIds, link, wire, gaps, seen, claims, task, page,
                    counted, overlooked>>
    BY <1>1 DEF vars, venueVars, accumulator
  <2>2. CountedOnce'
    BY <2>1, Untouched DEF IInv, Typed
  <2> QED
    BY <2>1, <2>2 DEF IInv, Typed, ReportedIsDone, MergedIsSettled, Tracked, OnItsWay, Done
<1>2. ASSUME NEW p \in Senders, Send(p) PROVE IInv'
  BY <1>2, SendKeeps DEF GateHeld
<1> QED
  BY <1>1, <1>2, VenueFillKeeps, SubscribeKeeps, ConfirmedKeeps, GapKeeps, FetchKeeps, MergeKeeps,
     ListKeeps, ReadFrameKeeps
  DEF Next

(* At every state of the feed. *)
THEOREM FeedInvariant == Spec => [](IInv /\ GateHeld)
<1>1. Init => IInv /\ GateHeld
  <2>1. Init => GateHeld
    BY DEF Init, GateHeld, Senders
  <2> QED
    BY <2>1, InitIInv
<1>2. IInv /\ GateHeld /\ [Next]_vars => (IInv /\ GateHeld)'
  BY StepIInv, GateKeeps DEF IInv
<1> QED
  BY <1>1, <1>2, PTL DEF Spec

(* No trade of the venue is counted twice, whichever of the socket and the  *)
(* list reports it first, how often either repeats it and however the two   *)
(* tasks interleave.                                                        *)
THEOREM NoTradeCountedTwice == Spec => []CountedOnce
<1>1. IInv => CountedOnce
  BY DEF IInv
<1> QED
  BY <1>1, FeedInvariant, PTL

(* No trade is lost without a counter or a known gap of the design to       *)
(* answer for it, over any number of drops, reconnects and reconciles.      *)
THEOREM NoSilentLoss == Spec => []LossIsAccounted
<1>1. IInv => LossIsAccounted
  BY DEF IInv, Tracked, OnItsWay, LossIsAccounted, Lost, Typed
<1> QED
  BY <1>1, FeedInvariant, PTL

-----------------------------------------------------------------------------
(* Arithmetic: whole contracts and sums of trades.                          *)

(* The whole contracts of a count of parts.                                 *)
LEMMA Wholes ==
  ASSUME NEW n \in Nat
  PROVE  n \div Unit \in Nat /\ (n \div Unit) * Unit <= n
BY TradesAssumption, Z3

(* More parts, no fewer whole contracts.                                    *)
LEMMA WholesGrow ==
  ASSUME NEW n \in Nat, NEW k \in Nat, n <= k
  PROVE  n \div Unit <= k \div Unit
<1> DEFINE a == n \div Unit
           b == k \div Unit
<1>1. Unit \in Nat /\ Unit > 0
  BY TradesAssumption
<1>2. a \in Nat /\ b \in Nat /\ a * Unit <= n /\ k < (b + 1) * Unit
  BY <1>1, Z3
<1> HIDE DEF a, b
<1>3. SUFFICES ASSUME a >= b + 1 PROVE FALSE
  BY <1>2 DEF a, b
<1>4. a * Unit >= (b + 1) * Unit
  BY <1>1, <1>2, <1>3, Z3
<1> QED
  BY <1>1, <1>2, <1>4, Z3

(* The parts of a set of trades. *)
LEMMA SumOfType ==
  ASSUME NEW S \in SUBSET Ids
  PROVE  /\ IsFiniteSet(S) /\ SumOf(S) \in Nat
         /\ \A x \in S : Count[x] \in Nat /\ Count[x] > 0
<1>1. IsFiniteSet(Ids)
  BY FS_Interval, TradesAssumption DEF Ids
<1>2. IsFiniteSet(S) /\ \A x \in S : Count[x] \in Nat /\ Count[x] > 0
  BY <1>1, FS_Subset, TradesAssumption
<1> QED
  BY <1>2, SumType DEF SumOf

(* The parts of one order among them. *)
LEMMA OfIsPart == ASSUME NEW o, NEW S PROVE Of(o, S) \subseteq S
BY DEF Of

(* Sets of trades that share none add up. *)
LEMMA PartsAddUp ==
  ASSUME NEW o, NEW S \in SUBSET Ids, NEW T \in SUBSET Ids, S \cap T = {}
  PROVE  /\ SumOf(Of(o, S \cup T)) = SumOf(Of(o, S)) + SumOf(Of(o, T))
         /\ SumOf(Of(o, S)) \in Nat /\ SumOf(Of(o, T)) \in Nat
<1>1. Of(o, S \cup T) = Of(o, S) \cup Of(o, T) /\ Of(o, S) \cap Of(o, T) = {}
  BY DEF Of
<1>2. Of(o, S) \in SUBSET Ids /\ Of(o, T) \in SUBSET Ids
  BY OfIsPart
<1>3. /\ IsFiniteSet(Of(o, S)) /\ IsFiniteSet(Of(o, T))
      /\ \A x \in Of(o, S) \cup Of(o, T) : Count[x] \in Nat
  BY <1>2, SumOfType
<1>4. SumOf(Of(o, S) \cup Of(o, T)) = SumOf(Of(o, S)) + SumOf(Of(o, T))
  BY <1>1, <1>3, SumDisjoint DEF SumOf
<1> QED
  BY <1>1, <1>2, <1>4, SumOfType

(* No part of a set has more parts than it. *)
LEMMA PartsGrow ==
  ASSUME NEW o, NEW S \in SUBSET Ids, NEW T \in SUBSET S
  PROVE  /\ SumOf(Of(o, T)) <= SumOf(Of(o, S))
         /\ SumOf(Of(o, S)) \in Nat /\ SumOf(Of(o, T)) \in Nat
<1>1. Of(o, T) \in SUBSET Of(o, S) /\ Of(o, S) \in SUBSET Ids /\ Of(o, T) \in SUBSET Ids
  BY DEF Of
<1> QED
  BY <1>1, SumOfType, SumSubset DEF SumOf

(* What counting some trades once more adds to an order. *)
ClaimedParts(o) ==
    SumOf(Of(o, {t \in Ids : claims[t] > 0})) + SumOf(Of(o, {t \in Ids : claims[t] > 1}))

(* Counting the trades M once more adds their counts to what is claimed.    *)
LEMMA ClaimsAdd ==
  ASSUME claims \in [Ids -> Nat], NEW M \in SUBSET Ids, \A t \in M : claims[t] <= 1,
         \A t \in Ids : claims'[t] = IF t \in M THEN claims[t] + 1 ELSE claims[t],
         NEW o
  PROVE  ClaimedParts(o)' = ClaimedParts(o) + SumOf(Of(o, M))
<1> DEFINE once  == {t \in Ids : claims[t] > 0}
           twice == {t \in Ids : claims[t] > 1}
           fresh == {t \in M : claims[t] = 0}
           again == {t \in M : claims[t] = 1}
<1>1. /\ {t \in Ids : claims'[t] > 0} = once \cup fresh /\ once \cap fresh = {}
      /\ {t \in Ids : claims'[t] > 1} = twice \cup again /\ twice \cap again = {}
      /\ M = fresh \cup again /\ fresh \cap again = {}
  OBVIOUS
<1>2. /\ once \in SUBSET Ids /\ twice \in SUBSET Ids
      /\ fresh \in SUBSET Ids /\ again \in SUBSET Ids
  OBVIOUS
<1>3. ClaimedParts(o)' = SumOf(Of(o, once \cup fresh)) + SumOf(Of(o, twice \cup again))
  <2>1. ClaimedParts(o)' = SumOf(Of(o, {t \in Ids : claims'[t] > 0}))
                             + SumOf(Of(o, {t \in Ids : claims'[t] > 1}))
    BY DEF ClaimedParts, SumOf, Of
  <2> QED
    BY <1>1, <2>1
<1>4. ClaimedParts(o) = SumOf(Of(o, once)) + SumOf(Of(o, twice))
  BY DEF ClaimedParts
<1> HIDE DEF once, twice, fresh, again
<1>5. /\ SumOf(Of(o, once \cup fresh)) = SumOf(Of(o, once)) + SumOf(Of(o, fresh))
      /\ SumOf(Of(o, once)) \in Nat /\ SumOf(Of(o, fresh)) \in Nat
  BY <1>1, <1>2, PartsAddUp
<1>6. /\ SumOf(Of(o, twice \cup again)) = SumOf(Of(o, twice)) + SumOf(Of(o, again))
      /\ SumOf(Of(o, twice)) \in Nat /\ SumOf(Of(o, again)) \in Nat
  BY <1>1, <1>2, PartsAddUp
<1>7. SumOf(Of(o, M)) = SumOf(Of(o, fresh)) + SumOf(Of(o, again))
  BY <1>1, <1>2, PartsAddUp
<1> QED
  BY <1>3, <1>4, <1>5, <1>6, <1>7

(* The trades of S up to t, oldest first, and the total of an order that    *)
(* held h once they are claimed.                                            *)
UpTo(S, t) == {u \in S : u <= t}
Total(h, S, t) == h + SumOf(UpTo(S, t))

(* Claiming S leaves an order that held h at its whole contracts, or takes  *)
(* it to its new ones at a trade that moves it.                             *)
Reaches(h, S) ==
    \/ (h + SumOf(S)) \div Unit = h \div Unit
    \/ \E t \in S : /\ Moved(Total(h, S, t) - Count[t], Count[t])
                    /\ Total(h, S, t) \div Unit = (h + SumOf(S)) \div Unit

(* Claiming a set of trades one after the other does one or the other.      *)
LEMMA WholesReached ==
  ASSUME NEW h \in Nat, NEW S \in SUBSET Ids
  PROVE  Reaches(h, S)
<1> DEFINE Bad == {s \in SUBSET S : ~Reaches(h, s)}
<1>1. Bad = {}
  <2> SUFFICES ASSUME Bad # {} PROVE FALSE
    OBVIOUS
  <2>1. PICK s \in Bad : \A u \in Bad : u \subseteq s => u = s
    <3>1. Bad \in SUBSET SUBSET S /\ IsFiniteSet(S)
      BY SumOfType
    <3> HIDE DEF Bad
    <3> QED
      BY <3>1, SmallestSubset
  <2>2. s \in SUBSET Ids /\ IsFiniteSet(s) /\ s \in SUBSET S /\ ~Reaches(h, s)
    BY <2>1, SumOfType
  <2>3. s # {}
    <3>1. SumOf({}) = 0
      BY SumEmpty DEF SumOf
    <3>2. h + SumOf({}) = h
      BY <3>1
    <3>3. Reaches(h, {})
      BY <3>2 DEF Reaches
    <3> QED
      BY <2>2, <3>3
  <2>4. PICK m \in s : \A x \in s : x <= m
    <3>1. s \subseteq Int
      BY <2>2 DEF Ids
    <3> QED
      BY <2>2, <2>3, <3>1, GreatestOfSet
  <2> DEFINE r == s \ {m}
             n == h + SumOf(r)
  <2>5. SumOf(s) = Count[m] + SumOf(r) /\ SumOf(r) \in Nat /\ Count[m] \in Nat
    <3>1. IsFiniteSet(s) /\ r \in SUBSET Ids /\ \A x \in s : Count[x] \in Nat
      BY <2>2, SumOfType
    <3>2. SumOf(s) = Count[m] + SumOf(r)
      BY <3>1, SumRemove DEF SumOf
    <3> QED
      BY <3>1, <3>2, SumOfType
  <2>6. Reaches(h, r)
    <3>1. r \in SUBSET S /\ r # s /\ r \subseteq s
      BY <2>2, <2>4
    <3> QED
      BY <2>1, <3>1
  <2>7. Total(h, s, m) = n + Count[m] /\ n \in Nat
    <3>1. {u \in s : u <= m} = s
      BY <2>4
    <3>2. Total(h, s, m) = h + SumOf(s)
      BY <3>1 DEF Total, UpTo
    <3> QED
      BY <2>5, <3>2
  <2>8. \A t \in r : Total(h, s, t) = Total(h, r, t)
    <3> SUFFICES ASSUME NEW t \in r PROVE {u \in s : u <= t} = {u \in r : u <= t}
      BY DEF Total, UpTo
    <3>1. t \in Int /\ m \in Int /\ t <= m /\ t # m
      BY <2>2, <2>4 DEF Ids
    <3>2. ~(m <= t)
      BY <3>1
    <3> QED
      BY <3>2
  <2>9. h + SumOf(s) = n + Count[m]
    BY <2>5
  <2>10. CASE (n + Count[m]) \div Unit > n \div Unit
    <3>1. Moved(Total(h, s, m) - Count[m], Count[m])
      BY <2>5, <2>7, <2>10 DEF Moved
    <3>2. Total(h, s, m) \div Unit = (h + SumOf(s)) \div Unit
      BY <2>7, <2>9
    <3>3. Reaches(h, s)
      BY <3>1, <3>2 DEF Reaches
    <3> QED
      BY <2>2, <3>3
  <2>11. CASE ~((n + Count[m]) \div Unit > n \div Unit)
    <3>1. n \div Unit <= (n + Count[m]) \div Unit
      BY <2>5, <2>7, WholesGrow
    <3>2. n \div Unit \in Nat /\ (n + Count[m]) \div Unit \in Nat
      BY <2>5, <2>7, Wholes
    <3>3. (h + SumOf(s)) \div Unit = (h + SumOf(r)) \div Unit
      BY <2>9, <2>11, <3>1, <3>2
    <3>4. r \subseteq s
      OBVIOUS
    <3> HIDE DEF r
    <3>5. Reaches(h, s)
      BY <2>6, <2>8, <3>3, <3>4 DEF Reaches
    <3> QED
      BY <2>2, <3>5
  <2> QED
    BY <2>10, <2>11
<1> QED
  BY <1>1

-----------------------------------------------------------------------------
(* What the feed has counted and what it has told.                          *)

Lines    == [order : Orders, cum : Nat]
Whole(o) == hundredths[o] \div Unit

TotalsKept  == \A o \in Orders : hundredths[o] = ClaimedParts(o)
ToldBounded == \A o \in Orders : told[o] <= Whole(o)

(* No line on its way runs ahead of its order's total. *)
LinesBounded ==
    \A p \in Senders : \A i \in 1..Len(outbox[p]) :
        outbox[p][i].cum <= Whole(outbox[p][i].order)

(* Some line on its way tells all of the order's total. *)
Tells(o) ==
    \E p \in Senders : \E i \in 1..Len(outbox[p]) : outbox[p][i] = Line(o, Whole(o))
AllTold == \A o \in Orders : told[o] = Whole(o) \/ Tells(o)

SumsInv == TotalsKept /\ ToldBounded /\ LinesBounded /\ AllTold
FeedInv == IInv /\ GateHeld /\ TypeOK /\ SumsInv

(* Of two ranks alike the trades are alike. *)
LEMMA RankUnique ==
  ASSUME NEW S \in SUBSET Ids, NEW t \in S, NEW u \in S,
         Cardinality({x \in S : x <= t}) = Cardinality({x \in S : x <= u})
  PROVE  t = u
<1>1. t \in Int /\ u \in Int /\ \A x \in S : x \in Int
  BY DEF Ids
<1>2. ASSUME NEW a \in S, NEW b \in S, a < b,
             Cardinality({x \in S : x <= a}) = Cardinality({x \in S : x <= b})
      PROVE  FALSE
  <2>1. {x \in S : x <= a} \subseteq {x \in S : x <= b}
    <3> SUFFICES ASSUME NEW x \in S, x <= a PROVE x <= b
      OBVIOUS
    <3> QED
      BY <1>1, <1>2
  <2>2. IsFiniteSet({x \in S : x <= b})
    BY SumOfType, FS_Subset
  <2>3. {x \in S : x <= a} = {x \in S : x <= b}
    BY <1>2, <2>1, <2>2, FS_Subset
  <2>4. b <= b /\ ~(b <= a)
    BY <1>1, <1>2
  <2> QED
    BY <2>3, <2>4
<1> QED
  BY <1>1, <1>2

(* The i-th trade of a set is one of it, and every trade of it is the i-th  *)
(* for some i.                                                              *)
LEMMA NthOf ==
  ASSUME NEW S \in SUBSET Ids
  PROVE  /\ Cardinality(S) \in Nat
         /\ \A i \in 1..Cardinality(S) : Nth(S, i) \in S
         /\ \A t \in S : \E i \in 1..Cardinality(S) : Nth(S, i) = t
<1>1. IsFiniteSet(S) /\ S \subseteq Int
  BY SumOfType DEF Ids
<1>2. /\ Cardinality(S) \in Nat
      /\ \A t \in S : Cardinality({u \in S : u <= t}) \in 1..Cardinality(S)
      /\ \A i \in 1..Cardinality(S) : \E t \in S : Cardinality({u \in S : u <= t}) = i
  BY <1>1, Ranks
<1>3. \A i \in 1..Cardinality(S) :
         Nth(S, i) \in S /\ Cardinality({u \in S : u <= Nth(S, i)}) = i
  BY <1>2 DEF Nth
<1>4. ASSUME NEW t \in S PROVE \E i \in 1..Cardinality(S) : Nth(S, i) = t
  <2> DEFINE i == Cardinality({u \in S : u <= t})
  <2>1. i \in 1..Cardinality(S)
    BY <1>2
  <2>2. Nth(S, i) \in S /\ Cardinality({u \in S : u <= Nth(S, i)}) = i
    BY <1>3, <2>1
  <2> DEFINE n == Nth(S, i)
  <2>3. n \in S /\ Cardinality({u \in S : u <= n}) = Cardinality({u \in S : u <= t})
    BY <2>2
  <2>4. n = t
    <3> HIDE DEF n
    <3> QED
      BY <2>3, RankUnique
  <2> QED
    BY <2>1, <2>4
<1> QED
  BY <1>2, <1>3, <1>4

-----------------------------------------------------------------------------
(* A merge.                                                                 *)

Moving == {t \in Merged : Moved(After(t) - Count[t], Count[t])}

(* The rows merged, and the totals they are claimed at.                     *)
LEMMA MergedRows ==
  ASSUME IInv, TypeOK
  PROVE  /\ Merged \in SUBSET Ids /\ Moving \in SUBSET Ids /\ Moving \subseteq Merged
         /\ \A t \in Merged : /\ claims[t] <= 1
                              /\ After(t) \in Nat
                              /\ After(t) <= MergeCount(OrderOf[t])
                              /\ OrderOf[t] \in Orders
         /\ \A o \in Orders : MergeCount(o) \in Nat /\ hundredths[o] <= MergeCount(o)
<1>1. Merged \in SUBSET Ids /\ Moving \in SUBSET Ids /\ Moving \subseteq Merged
  BY DEF Moving, Merged, Unseen, OnPage
<1>2. \A t \in Merged : OrderOf[t] \in Orders
  BY <1>1, TradesAssumption
<1>3. \A o \in Orders : hundredths[o] \in Nat
  BY DEF TypeOK
<1>4. ASSUME NEW o \in Orders
      PROVE  MergeCount(o) \in Nat /\ hundredths[o] <= MergeCount(o)
  <2>1. SumOf(Of(o, Merged)) \in Nat
    BY <1>1, PartsGrow
  <2> QED
    BY <1>3, <2>1 DEF MergeCount
<1>5. ASSUME NEW t \in Merged
      PROVE  After(t) \in Nat /\ After(t) <= MergeCount(OrderOf[t])
  <2> DEFINE o == OrderOf[t]
             S == {u \in Merged : u <= t}
  <2>1. S \in SUBSET Merged /\ o \in Orders
    BY <1>2
  <2> HIDE DEF S
  <2>2. /\ SumOf(Of(o, S)) <= SumOf(Of(o, Merged))
        /\ SumOf(Of(o, S)) \in Nat /\ SumOf(Of(o, Merged)) \in Nat
    BY <1>1, <2>1, PartsGrow
  <2>3. After(t) = hundredths[o] + SumOf(Of(o, S))
    BY DEF After, S
  <2>4. hundredths[o] \in Nat
    BY <1>3, <2>1
  <2> HIDE DEF o
  <2>5. MergeCount(o) = hundredths[o] + SumOf(Of(o, Merged))
    BY DEF MergeCount
  <2>6. After(t) \in Nat /\ After(t) <= MergeCount(o)
    BY <2>2, <2>3, <2>4, <2>5
  <2> QED
    BY <2>6 DEF o
<1>6. ASSUME NEW t \in Merged PROVE claims[t] <= 1
  <2>1. RowId(t) \notin seen /\ t \in Ids
    BY <1>1 DEF Merged, Unseen
  <2>2. claims[t] = (IF WsId(t) \in seen THEN 1 ELSE 0)
                      + (IF ~sameIds /\ RowId(t) \in seen THEN 1 ELSE 0)
    BY <2>1 DEF IInv, CountedOnce
  <2> QED
    BY <2>1, <2>2
<1> QED
  BY <1>1, <1>2, <1>4, <1>5, <1>6

(* The lines of a merge: one for each row that moves its order.             *)
LEMMA MergeLinesAre ==
  ASSUME IInv, TypeOK
  PROVE  /\ MergeLines \in Seq(Lines)
         /\ \A i \in 1..Len(MergeLines) : \E t \in Moving :
               MergeLines[i] = Line(OrderOf[t], After(t) \div Unit)
         /\ \A t \in Moving : \E i \in 1..Len(MergeLines) :
               MergeLines[i] = Line(OrderOf[t], After(t) \div Unit)
<1> DEFINE L(t) == Line(OrderOf[t], After(t) \div Unit)
           n == Cardinality(Moving)
<1>1. MergeLines = [i \in 1..n |-> L(Nth(Moving, i))]
  BY DEF MergeLines, Moving
<1>2. /\ n \in Nat
      /\ \A i \in 1..n : Nth(Moving, i) \in Moving
      /\ \A t \in Moving : \E i \in 1..n : Nth(Moving, i) = t
  BY NthOf, MergedRows
<1>3. \A t \in Moving : L(t) \in Lines
  <2> SUFFICES ASSUME NEW t \in Moving PROVE L(t) \in Lines
    OBVIOUS
  <2>1. OrderOf[t] \in Orders /\ After(t) \in Nat
    BY MergedRows
  <2>2. After(t) \div Unit \in Nat
    BY <2>1, Wholes
  <2> QED
    BY <2>1, <2>2 DEF Line, Lines
<1> HIDE DEF L, n
<1>4. MergeLines \in Seq(Lines) /\ Len(MergeLines) = n
  <2>1. MergeLines \in [1..n -> Lines]
    BY <1>1, <1>2, <1>3
  <2> QED
    BY <1>2, <2>1, SeqDef, LenProperties
<1>5. \A i \in 1..Len(MergeLines) : MergeLines[i] = L(Nth(Moving, i))
  BY <1>1, <1>4
<1>6. /\ \A i \in 1..Len(MergeLines) : \E t \in Moving : MergeLines[i] = L(t)
      /\ \A t \in Moving : \E i \in 1..Len(MergeLines) : MergeLines[i] = L(t)
  BY <1>2, <1>4, <1>5
<1> QED
  BY <1>4, <1>6 DEF L

(* A merge keeps the sums, and its lines tell what it adds.                 *)
LEMMA MergeSums ==
  ASSUME FeedInv, Merge
  PROVE  SumsInv'
<1>a. IInv /\ GateHeld /\ TypeOK /\ SumsInv
  BY DEF FeedInv
<1>1. /\ MergeVenue /\ told' = told /\ task = "read"
      /\ outbox' = [outbox EXCEPT !.reconcile = MergeLines]
  BY DEF Merge
<1>2. \A o \in Orders : hundredths'[o] = MergeCount(o) /\ hundredths[o] \in Nat
  BY <1>1, <1>a DEF MergeVenue, TypeOK
<1>3. outbox.reconcile = <<>> /\ "socket" \in Senders /\ "reconcile" \in Senders
  BY <1>a, <1>1 DEF GateHeld, Senders
<1>4. /\ outbox'["reconcile"] = MergeLines /\ outbox'["socket"] = outbox["socket"]
      /\ \A p \in Senders : p = "reconcile" \/ p = "socket"
  BY <1>a, <1>1, <1>3 DEF TypeOK, Senders
<1>5. \A o \in Orders : Whole(o) <= Whole(o)'
                        /\ Whole(o) \in Nat /\ Whole(o)' \in Nat
  <2> SUFFICES ASSUME NEW o \in Orders
               PROVE  Whole(o) <= Whole(o)' /\ Whole(o) \in Nat /\ Whole(o)' \in Nat
    OBVIOUS
  <2>1. /\ hundredths'[o] = MergeCount(o) /\ MergeCount(o) \in Nat
        /\ hundredths[o] <= MergeCount(o) /\ hundredths[o] \in Nat
    BY <1>a, <1>2, MergedRows
  <2> QED
    BY <2>1, Wholes, WholesGrow DEF Whole
<1>6. TotalsKept'
  <2> SUFFICES ASSUME NEW o \in Orders PROVE hundredths'[o] = ClaimedParts(o)'
    BY DEF TotalsKept
  <2>1. \A t \in Ids : claims'[t] = IF t \in Merged THEN claims[t] + 1 ELSE claims[t]
    BY <1>1 DEF MergeVenue
  <2>2. ClaimedParts(o)' = ClaimedParts(o) + SumOf(Of(o, Merged))
    <3>1. claims \in [Ids -> Nat]
      BY <1>a DEF TypeOK
    <3>2. Merged \in SUBSET Ids /\ \A t \in Merged : claims[t] <= 1
      BY <1>a, MergedRows
    <3> QED
      BY <2>1, <3>1, <3>2, ClaimsAdd
  <2>3. hundredths[o] = ClaimedParts(o)
    BY <1>a DEF SumsInv, TotalsKept
  <2> QED
    BY <1>2, <2>2, <2>3 DEF MergeCount
<1>7. ToldBounded'
  <2> SUFFICES ASSUME NEW o \in Orders PROVE told[o] <= Whole(o)'
    BY <1>1 DEF ToldBounded
  <2>1. told[o] <= Whole(o) /\ told[o] \in Nat
    BY <1>a DEF SumsInv, ToldBounded, TypeOK
  <2> QED
    BY <1>5, <2>1
<1>8. LinesBounded'
  <2>1. ASSUME NEW i \in 1..Len(outbox["socket"])
        PROVE  outbox["socket"][i].cum <= hundredths'[outbox["socket"][i].order] \div Unit
    <3> DEFINE l == outbox["socket"][i]
    <3>1. l \in Lines
      <4>1. outbox["socket"] \in Seq(Lines)
        BY <1>a, <1>3 DEF TypeOK, Lines
      <4> QED
        BY <2>1, <4>1
    <3>2. l.cum <= Whole(l.order) /\ l.cum \in Nat /\ l.order \in Orders
      BY <1>a, <1>3, <2>1, <3>1 DEF SumsInv, LinesBounded, Lines
    <3>3. l.cum <= hundredths'[l.order] \div Unit
      <4> HIDE DEF l
      <4> QED
        BY <1>5, <3>2 DEF Whole
    <3> QED
      BY <3>3
  <2>2. ASSUME NEW i \in 1..Len(MergeLines)
        PROVE  MergeLines[i].cum <= hundredths'[MergeLines[i].order] \div Unit
    <3>1. PICK t \in Moving : MergeLines[i] = Line(OrderOf[t], After(t) \div Unit)
      BY <1>a, <2>2, MergeLinesAre
    <3>2. /\ After(t) \in Nat /\ After(t) <= MergeCount(OrderOf[t]) /\ OrderOf[t] \in Orders
          /\ MergeCount(OrderOf[t]) \in Nat
      BY <1>a, MergedRows
    <3>3. After(t) \div Unit <= hundredths'[OrderOf[t]] \div Unit
      BY <1>2, <3>2, WholesGrow
    <3>4. MergeLines[i].cum = After(t) \div Unit /\ MergeLines[i].order = OrderOf[t]
      BY <3>1 DEF Line
    <3> QED
      BY <3>3, <3>4
  <2> QED
    BY <1>4, <2>1, <2>2 DEF LinesBounded, Whole
<1>9. AllTold'
  <2> SUFFICES ASSUME NEW o \in Orders
               PROVE  told[o] = hundredths'[o] \div Unit
                      \/ \E p \in Senders : \E i \in 1..Len(outbox'[p]) :
                            outbox'[p][i] = Line(o, hundredths'[o] \div Unit)
    BY <1>1 DEF AllTold, Tells, Whole, Line
  <2> DEFINE S == Of(o, Merged)
             h == hundredths[o]
  <2>1. h \in Nat /\ S \in SUBSET Ids /\ hundredths'[o] = h + SumOf(S)
    BY <1>a, <1>2, MergedRows, OfIsPart DEF MergeCount
  <2>2. CASE (h + SumOf(S)) \div Unit = h \div Unit
    <3>1. told[o] = Whole(o) \/ Tells(o)
      BY <1>a DEF SumsInv, AllTold
    <3>2. hundredths'[o] \div Unit = Whole(o)
      BY <2>1, <2>2 DEF Whole
    <3>3. ASSUME Tells(o)
          PROVE  \E i \in 1..Len(outbox["socket"]) : outbox["socket"][i] = Line(o, Whole(o))
      <4>1. Len(<<>>) = 0 /\ \A i : i \notin 1..0
        OBVIOUS
      <4> QED
        BY <1>3, <1>4, <3>3, <4>1 DEF Tells
    <3> QED
      BY <1>3, <1>4, <3>1, <3>2, <3>3
  <2>3. ASSUME NEW t \in S, Moved(Total(h, S, t) - Count[t], Count[t]),
               Total(h, S, t) \div Unit = (h + SumOf(S)) \div Unit
        PROVE  \E i \in 1..Len(outbox'["reconcile"]) :
                  outbox'["reconcile"][i] = Line(o, hundredths'[o] \div Unit)
    <3>1. UpTo(S, t) = Of(o, {u \in Merged : u <= t}) /\ OrderOf[t] = o /\ t \in Merged
      BY <2>3 DEF Of, UpTo
    <3>2. After(t) = Total(h, S, t)
      BY <3>1 DEF After, Total
    <3> HIDE DEF h, S
    <3>3. t \in Moving
      BY <2>3, <3>1, <3>2 DEF Moving
    <3>4. PICK i \in 1..Len(MergeLines) : MergeLines[i] = Line(OrderOf[t], After(t) \div Unit)
      BY <1>a, <3>3, MergeLinesAre
    <3>5. After(t) \div Unit = hundredths'[o] \div Unit
      BY <2>1, <2>3, <3>2
    <3> QED
      BY <1>4, <3>1, <3>4, <3>5
  <2> HIDE DEF h, S
  <2>4. Reaches(h, S)
    BY <2>1, WholesReached
  <2> QED
    BY <1>3, <2>2, <2>3, <2>4 DEF Reaches
<1> QED
  BY <1>6, <1>7, <1>8, <1>9 DEF SumsInv

(* One trade sums to its count. *)
LEMMA SumOfOne ==
  ASSUME NEW t \in Ids, NEW o
  PROVE  SumOf(Of(o, {t})) = IF OrderOf[t] = o THEN Count[t] ELSE 0
<1>1. SumOf({}) = 0 /\ Count[t] \in Nat
  BY SumEmpty, TradesAssumption DEF SumOf
<1>2. SumOf({} \cup {t}) = SumOf({}) + Count[t]
  BY <1>1, SumAdd, FS_EmptySet DEF SumOf
<1>3. {} \cup {t} = {t} /\ Of(o, {t}) = IF OrderOf[t] = o THEN {t} ELSE {}
  BY DEF Of
<1>4. SumOf({t}) = Count[t]
  BY <1>1, <1>2, <1>3
<1> QED
  BY <1>1, <1>3, <1>4

(* What a step that tells and counts nothing keeps. *)
LEMMA SumsUntouched ==
  ASSUME SumsInv, UNCHANGED <<hundredths, claims, outbox, told>>
  PROVE  SumsInv'
BY DEF SumsInv, TotalsKept, ToldBounded, LinesBounded, AllTold, Tells, Whole, ClaimedParts,
       SumOf, Of, Line

(* A frame that counts: its line goes out when it moves its order.          *)
LEMMA FrameSums ==
  ASSUME FeedInv, NEW t \in Ids, LineOf(t), Fresh(WsId(t)), told' = told
  PROVE  SumsInv'
<1> DEFINE o == OrderOf[t]
           n == hundredths[o] + Count[t]
           l == Line(o, n \div Unit)
<1>a. IInv /\ TypeOK /\ SumsInv
  BY DEF FeedInv
<1>1. /\ hundredths' = [hundredths EXCEPT ![o] = n]
      /\ claims' = [claims EXCEPT ![t] = @ + 1]
      /\ outbox' = IF Moved(hundredths[o], Count[t])
                   THEN [outbox EXCEPT !.socket = Append(@, l)] ELSE outbox
  BY DEF LineOf
<1>2. /\ o \in Orders /\ Count[t] \in Nat /\ hundredths \in [Orders -> Nat]
      /\ claims \in [Ids -> Nat] /\ told \in [Orders -> Nat]
  BY <1>a, TradesAssumption DEF TypeOK
<1>3. /\ n \in Nat /\ hundredths[o] \in Nat /\ hundredths[o] <= n
      /\ \A a \in Orders : hundredths'[a] = IF a = o THEN n ELSE hundredths[a]
  BY <1>1, <1>2
<1>4. claims[t] <= 1 /\ \A u \in Ids : claims'[u] = IF u \in {t} THEN claims[u] + 1 ELSE claims[u]
  <2>1. claims[t] = (IF WsId(t) \in seen THEN 1 ELSE 0)
                      + (IF ~sameIds /\ RowId(t) \in seen THEN 1 ELSE 0)
    BY <1>a DEF IInv, CountedOnce
  <2>2. WsId(t) \notin seen
    BY DEF Fresh
  <2>3. claims[t] <= 1
    BY <2>1, <2>2
  <2> QED
    BY <1>1, <1>2, <2>3
<1>5. TotalsKept'
  <2> SUFFICES ASSUME NEW a \in Orders PROVE hundredths'[a] = ClaimedParts(a)'
    BY DEF TotalsKept
  <2>1. ClaimedParts(a)' = ClaimedParts(a) + SumOf(Of(a, {t}))
    <3>1. {t} \in SUBSET Ids /\ \A u \in {t} : claims[u] <= 1
      BY <1>4
    <3> QED
      BY <1>2, <1>4, <3>1, ClaimsAdd
  <2>2. hundredths[a] = ClaimedParts(a) /\ hundredths[a] \in Nat
    BY <1>a, <1>2 DEF SumsInv, TotalsKept
  <2>3. SumOf(Of(a, {t})) = IF o = a THEN Count[t] ELSE 0
    BY SumOfOne
  <2> HIDE DEF o
  <2>4. hundredths'[a] = IF a = o THEN hundredths[a] + Count[t] ELSE hundredths[a]
    BY <1>3
  <2> QED
    BY <1>2, <2>1, <2>2, <2>3, <2>4
<1>6. \A a \in Orders : /\ hundredths[a] \div Unit \in Nat /\ hundredths'[a] \div Unit \in Nat
                        /\ hundredths[a] \div Unit <= hundredths'[a] \div Unit
  <2> SUFFICES ASSUME NEW a \in Orders
               PROVE  /\ hundredths[a] \div Unit \in Nat /\ hundredths'[a] \div Unit \in Nat
                      /\ hundredths[a] \div Unit <= hundredths'[a] \div Unit
    OBVIOUS
  <2>1. hundredths[a] \in Nat /\ hundredths'[a] \in Nat /\ hundredths[a] <= hundredths'[a]
    <3> HIDE DEF n, o
    <3> QED
      BY <1>2, <1>3
  <2> QED
    BY <2>1, Wholes, WholesGrow
<1>7. ToldBounded'
  <2> SUFFICES ASSUME NEW a \in Orders PROVE told[a] <= hundredths'[a] \div Unit
    BY DEF ToldBounded, Whole
  <2>1. told[a] <= hundredths[a] \div Unit /\ told[a] \in Nat
    BY <1>a, <1>2 DEF SumsInv, ToldBounded, Whole
  <2> QED
    BY <1>6, <2>1
<1>8. l.cum = hundredths'[l.order] \div Unit /\ l \in Lines
  <2>1. n \div Unit \in Nat
    BY <1>3, Wholes
  <2> HIDE DEF n
  <2> QED
    BY <1>2, <1>3, <2>1 DEF Line, Lines
<1>9. \A p \in Senders : outbox[p] \in Seq(Lines)
  BY <1>a DEF TypeOK, Lines
<1>10. "socket" \in Senders
  BY DEF Senders
<1>11. \A p \in Senders : \A i \in 1..Len(outbox[p]) :
          i \in 1..Len(outbox'[p]) /\ outbox'[p][i] = outbox[p][i]
  <2> SUFFICES ASSUME NEW p \in Senders, NEW i \in 1..Len(outbox[p])
               PROVE  i \in 1..Len(outbox'[p]) /\ outbox'[p][i] = outbox[p][i]
    OBVIOUS
  <2>1. outbox'[p] = outbox[p] \/ outbox'[p] = Append(outbox[p], l)
    BY <1>1, <1>a DEF TypeOK
  <2> HIDE DEF l
  <2> QED
    BY <1>8, <1>9, <2>1, AppendProperties
<1>12. \A p \in Senders : \A i \in 1..Len(outbox'[p]) :
          (i \in 1..Len(outbox[p]) /\ outbox'[p][i] = outbox[p][i]) \/ outbox'[p][i] = l
  <2> SUFFICES ASSUME NEW p \in Senders, NEW i \in 1..Len(outbox'[p])
               PROVE  (i \in 1..Len(outbox[p]) /\ outbox'[p][i] = outbox[p][i]) \/ outbox'[p][i] = l
    OBVIOUS
  <2>1. outbox'[p] = outbox[p] \/ outbox'[p] = Append(outbox[p], l)
    BY <1>1, <1>a DEF TypeOK
  <2> HIDE DEF l
  <2> QED
    BY <1>8, <1>9, <2>1, AppendProperties
<1>13. LinesBounded'
  <2> SUFFICES ASSUME NEW p \in Senders, NEW i \in 1..Len(outbox'[p])
               PROVE  outbox'[p][i].cum <= hundredths'[outbox'[p][i].order] \div Unit
    BY DEF LinesBounded, Whole
  <2>1. CASE outbox'[p][i] = l
    <3> HIDE DEF l
    <3>1. l.cum = hundredths'[l.order] \div Unit /\ l.cum \in Nat
      BY <1>8 DEF Lines
    <3> QED
      BY <2>1, <3>1
  <2>2. ASSUME i \in 1..Len(outbox[p]), outbox'[p][i] = outbox[p][i]
        PROVE  outbox'[p][i].cum <= hundredths'[outbox'[p][i].order] \div Unit
    <3> DEFINE k == outbox[p][i]
    <3>1. k \in Lines
      BY <1>9, <2>2
    <3>2. k.cum <= hundredths[k.order] \div Unit /\ k.cum \in Nat /\ k.order \in Orders
      BY <1>a, <2>2, <3>1 DEF SumsInv, LinesBounded, Whole, Lines
    <3> HIDE DEF k
    <3>3. k.cum <= hundredths'[k.order] \div Unit
      BY <1>6, <3>2
    <3> QED
      BY <2>2, <3>3 DEF k
  <2> QED
    BY <1>12, <2>1, <2>2
<1>14. AllTold'
  <2> SUFFICES ASSUME NEW a \in Orders
               PROVE  told[a] = hundredths'[a] \div Unit
                      \/ \E p \in Senders : \E i \in 1..Len(outbox'[p]) :
                            outbox'[p][i] = Line(a, hundredths'[a] \div Unit)
    BY DEF AllTold, Tells, Whole, Line
  <2>1. CASE hundredths'[a] \div Unit = hundredths[a] \div Unit
    <3>1. told[a] = hundredths[a] \div Unit
          \/ \E p \in Senders : \E i \in 1..Len(outbox[p]) :
                outbox[p][i] = Line(a, hundredths[a] \div Unit)
      BY <1>a DEF SumsInv, AllTold, Tells, Whole
    <3> QED
      BY <1>11, <2>1, <3>1
  <2>2. CASE hundredths'[a] \div Unit # hundredths[a] \div Unit
    <3>1. a = o /\ hundredths'[a] = n
      BY <1>3, <2>2
    <3>2. Moved(hundredths[o], Count[t])
      <4>1. n \div Unit > hundredths[o] \div Unit
        BY <1>2, <1>6, <2>2, <3>1
      <4> QED
        BY <4>1 DEF Moved
    <3>3. outbox'["socket"] = Append(outbox["socket"], l)
      BY <1>1, <1>10, <1>a, <3>2 DEF TypeOK
    <3>4. \E i \in 1..Len(outbox'["socket"]) : outbox'["socket"][i] = l
      <4> HIDE DEF l
      <4>1. /\ Len(outbox'["socket"]) = Len(outbox["socket"]) + 1 /\ Len(outbox["socket"]) \in Nat
            /\ outbox'["socket"][Len(outbox["socket"]) + 1] = l
        BY <1>8, <1>9, <1>10, <3>3, AppendProperties, LenProperties
      <4>2. Len(outbox["socket"]) + 1 \in 1..Len(outbox'["socket"])
        BY <4>1
      <4> QED
        BY <4>1, <4>2
    <3>5. l = Line(a, hundredths'[a] \div Unit)
      BY <3>1
    <3> QED
      BY <1>10, <3>4, <3>5
  <2> QED
    BY <2>1, <2>2
<1> QED
  BY <1>5, <1>7, <1>13, <1>14 DEF SumsInv

(* A line that goes out is heard: the count the engine had of its order, or *)
(* the line's if that is more.                                              *)
LEMMA SendSums ==
  ASSUME FeedInv, NEW p \in Senders, Send(p)
  PROVE  SumsInv'
<1> DEFINE l == Head(outbox[p])
           o == l.order
<1>a. TypeOK /\ SumsInv
  BY DEF FeedInv
<1>1. /\ UNCHANGED <<hundredths, claims>> /\ outbox[p] # <<>>
      /\ outbox' = [outbox EXCEPT ![p] = Tail(@)]
      /\ told' = [told EXCEPT ![o] = Heard(o, l.cum)]
  BY DEF Send, accumulator
<1>2. \A q \in Senders : outbox[q] \in Seq(Lines)
  BY <1>a DEF TypeOK, Lines
<1>3. /\ 1 \in 1..Len(outbox[p]) /\ l = outbox[p][1] /\ l \in Lines
      /\ Len(outbox[p]) \in Nat /\ Len(Tail(outbox[p])) = Len(outbox[p]) - 1
      /\ \A i \in 1..Len(Tail(outbox[p])) : /\ Tail(outbox[p])[i] = outbox[p][i + 1]
                                            /\ i + 1 \in 1..Len(outbox[p])
  BY <1>1, <1>2, HeadTailProperties, LenProperties, EmptySeq, ElementOfSeq
<1>4. /\ o \in Orders /\ l.cum \in Nat /\ told \in [Orders -> Nat]
      /\ l.cum <= hundredths[o] \div Unit
  BY <1>a, <1>3 DEF Lines, TypeOK, SumsInv, LinesBounded, Whole
<1>5. \A a \in Orders : hundredths[a] \div Unit \in Nat
  BY <1>a, Wholes DEF TypeOK
<1>6. \A a \in Orders : told'[a] = IF a = o THEN Heard(o, l.cum) ELSE told[a]
  BY <1>1, <1>4
<1>7. TotalsKept'
  BY <1>a, <1>1 DEF SumsInv, TotalsKept, ClaimedParts, SumOf, Of
<1>8. ToldBounded'
  <2>1. \A a \in Orders : told[a] <= hundredths[a] \div Unit
    BY <1>a DEF SumsInv, ToldBounded, Whole
  <2>2. \A a \in Orders : told'[a] <= hundredths[a] \div Unit
    <3> HIDE DEF o, l
    <3> QED
      BY <1>4, <1>6, <2>1 DEF Heard
  <2> QED
    BY <1>1, <2>2 DEF ToldBounded, Whole
<1>9. \A q \in Senders : \A i \in 1..Len(outbox'[q]) :
         \E j \in 1..Len(outbox[q]) : outbox'[q][i] = outbox[q][j]
  <2> SUFFICES ASSUME NEW q \in Senders, NEW i \in 1..Len(outbox'[q])
               PROVE  \E j \in 1..Len(outbox[q]) : outbox'[q][i] = outbox[q][j]
    OBVIOUS
  <2>1. CASE q = p
    <3>1. outbox'[q] = Tail(outbox[p])
      BY <1>1, <1>a, <2>1 DEF TypeOK
    <3> QED
      BY <1>3, <2>1, <3>1
  <2>2. CASE q # p
    <3>1. outbox'[q] = outbox[q]
      BY <1>1, <1>a, <2>2 DEF TypeOK
    <3> QED
      BY <3>1
  <2> QED
    BY <2>1, <2>2
<1>10. LinesBounded'
  BY <1>1, <1>9, <1>a DEF SumsInv, LinesBounded, Whole
<1>11. AllTold'
  <2> SUFFICES ASSUME NEW a \in Orders
               PROVE  told'[a] = hundredths[a] \div Unit
                      \/ \E q \in Senders : \E i \in 1..Len(outbox'[q]) :
                            outbox'[q][i] = Line(a, hundredths[a] \div Unit)
    BY <1>1 DEF AllTold, Tells, Whole, Line
  <2> DEFINE w == hundredths[a] \div Unit
  <2>1. told[a] <= w /\ told'[a] <= w /\ w \in Nat
    BY <1>1, <1>5, <1>8, <1>a DEF SumsInv, ToldBounded, Whole
  <2>2. CASE told[a] = w
    <3>1. told'[a] >= w
      <4> HIDE DEF o, l, w
      <4> QED
        BY <1>4, <1>6, <2>1, <2>2 DEF Heard
    <3>2. told'[a] = w
      <4>1. told'[a] \in Nat
        <5> HIDE DEF o, l
        <5> QED
          BY <1>4, <1>6 DEF Heard
      <4> HIDE DEF w
      <4> QED
        BY <2>1, <3>1, <4>1
    <3> QED
      BY <3>2
  <2>3. ASSUME NEW q \in Senders, NEW i \in 1..Len(outbox[q]), outbox[q][i] = Line(a, w)
        PROVE  told'[a] = w \/ \E j \in 1..Len(outbox'[q]) : outbox'[q][j] = Line(a, w)
    <3>1. CASE q # p
      <4>1. outbox'[q] = outbox[q]
        BY <1>1, <1>a, <3>1 DEF TypeOK
      <4> QED
        BY <2>3, <4>1
    <3>2. CASE q = p /\ i = 1
      <4>1. l = Line(a, w)
        BY <1>3, <2>3, <3>2
      <4>2. o = a /\ l.cum = w
        BY <4>1 DEF Line
      <4>3. told'[a] = w
        <5> HIDE DEF w, l, o
        <5> QED
          BY <1>4, <1>6, <2>1, <4>2 DEF Heard
      <4> QED
        BY <4>3
    <3>3. CASE q = p /\ i # 1
      <4>1. outbox'[q] = Tail(outbox[p])
        BY <1>1, <1>a, <3>3 DEF TypeOK
      <4>2. i - 1 \in 1..Len(Tail(outbox[p])) /\ (i - 1) + 1 = i
        BY <1>3, <2>3, <3>3
      <4>3. outbox'[q][i - 1] = Line(a, w)
        BY <1>3, <2>3, <3>3, <4>1, <4>2
      <4> QED
        BY <4>1, <4>2, <4>3
    <3> QED
      BY <3>1, <3>2, <3>3
  <2>4. told[a] = w \/ \E q \in Senders : \E i \in 1..Len(outbox[q]) : outbox[q][i] = Line(a, w)
    BY <1>a DEF SumsInv, AllTold, Tells, Whole
  <2> QED
    BY <2>2, <2>3, <2>4
<1> QED
  BY <1>7, <1>8, <1>10, <1>11 DEF SumsInv

-----------------------------------------------------------------------------
(* Types.                                                                   *)

Wide == [Senders -> Seq(Lines)]

(* The identities of the trades counted. *)
LEMMA IdsTyped ==
  ASSUME NEW t \in Ids
  PROVE  WsId(t) \in {"ws", "row"} \X Ids /\ RowId(t) \in {"ws", "row"} \X Ids
BY DEF WsId, RowId

(* What has executed is one of the trades. *)
LEMMA DoneAreIds == ASSUME TypeOK PROVE Done \subseteq Ids
<1>1. filled \in Int /\ filled <= Trades /\ Trades \in Int
  BY TradesAssumption DEF TypeOK
<1> QED
  BY <1>1 DEF Done, Ids

(* The venue and the two ends of the socket.                                *)
LEMMA SocketType ==
  ASSUME TypeOK, IInv,
         \/ VenueFill \/ Subscribe \/ Confirmed \/ ConnectFails \/ Drop \/ UNCHANGED vars
         \/ \E t \in Ids : ListCatchesUp(t)
  PROVE  TypeOK'
<1>a. Done \subseteq Ids
  BY DoneAreIds
<1>1. CASE VenueFill
  <2>1. /\ filled' = filled + 1 /\ filled + 1 \in Ids /\ filled' \in 0..Trades
    BY <1>1, TradesAssumption DEF VenueFill, TypeOK, Ids
  <2>2. /\ listed' \subseteq Ids /\ wire' \subseteq Ids /\ overlooked' \subseteq Ids
        /\ link # "live" => wire' = {}
    BY <1>1, <2>1 DEF VenueFill, TypeOK
  <2>3. UNCHANGED <<sameIds, link, gaps, seen, hundredths, claims, task, page, outbox, told, counted>>
    BY <1>1 DEF VenueFill, accumulator
  <2> QED
    BY <2>1, <2>2, <2>3 DEF TypeOK
<1>2. CASE Subscribe
  <2>1. /\ link = "down" /\ link' = "asked" /\ wire' = wire
        /\ UNCHANGED <<filled, listed, sameIds, gaps, seen, hundredths, claims, page, outbox,
                       told, counted>>
    BY <1>2 DEF Subscribe, venueVars, accumulator
  <2>2. task' = task \/ (task = "idle" /\ task' = "queued")
    BY <1>2 DEF Subscribe, SubscribeRequest, Request
  <2>3. overlooked' \subseteq Ids
    BY <1>2, <1>a DEF Subscribe, SubscribeRequest, Request, TypeOK
  <2> QED
    BY <2>1, <2>2, <2>3 DEF TypeOK
<1>6. CASE Confirmed
  <2>1. /\ link' = "live" /\ wire' \subseteq Ids
        /\ UNCHANGED <<filled, listed, sameIds, gaps, seen, hundredths, claims, task, page,
                       outbox, told, counted, overlooked>>
    BY <1>6, <1>a DEF Confirmed, venueVars, accumulator
  <2> QED
    BY <2>1 DEF TypeOK
<1>3. CASE ConnectFails \/ Drop
  <2>1. /\ gaps' = gaps + 1 /\ gaps < MaxGaps
        /\ UNCHANGED <<filled, listed, sameIds, seen, hundredths, claims, task, page, outbox,
                       told, counted, overlooked>>
    BY <1>3 DEF ConnectFails, Drop, venueVars, accumulator
  <2>2. gaps' \in 1..MaxGaps
    BY <2>1, GapsAssumption DEF TypeOK
  <2>3. link' = "down" /\ wire' = {}
    BY <1>3 DEF ConnectFails, Drop, TypeOK
  <2> QED
    BY <2>1, <2>2, <2>3 DEF TypeOK
<1>4. ASSUME NEW t \in Ids, ListCatchesUp(t) PROVE TypeOK'
  BY <1>4 DEF ListCatchesUp, accumulator, TypeOK
<1>5. CASE UNCHANGED vars
  BY <1>5 DEF vars, venueVars, accumulator, TypeOK
<1> QED
  BY <1>1, <1>2, <1>3, <1>4, <1>5, <1>6

(* A frame that is read.                                                    *)
LEMMA ReadFrameType ==
  ASSUME TypeOK, IInv, NEW t \in Ids, ReadFrame(t)
  PROVE  TypeOK'
<1> DEFINE o == OrderOf[t]
           l == Line(o, (hundredths[o] + Count[t]) \div Unit)
<1>1. /\ UNCHANGED <<filled, listed, sameIds, link, gaps, task, page, told, overlooked>>
      /\ wire' \subseteq wire /\ link = "live"
      /\ counted' \subseteq counted \cup {t}
  BY DEF ReadFrame, venueVars, LineUnreadable
<1>2. o \in Orders /\ hundredths[o] + Count[t] \in Nat
  BY TradesAssumption DEF TypeOK
<1>3. l \in Lines
  BY <1>2, Wholes DEF Line, Lines
<1>4. /\ seen' \subseteq seen \cup {WsId(t)}
      /\ hundredths' = hundredths \/ hundredths' = [hundredths EXCEPT ![o] = @ + Count[t]]
      /\ claims' = claims \/ claims' = [claims EXCEPT ![t] = @ + 1]
      /\ outbox' = outbox \/ outbox' = [outbox EXCEPT !.socket = Append(@, l)]
  BY DEF ReadFrame, LineOf, LineUnreadable, accumulator
<1>5. hundredths' \in [Orders -> Nat]
  <2>1. hundredths \in [Orders -> Nat]
    BY DEF TypeOK
  <2> QED
    BY <1>2, <1>4, <2>1
<1>6. claims' \in [Ids -> Nat]
  <2>1. claims \in [Ids -> Nat]
    BY DEF TypeOK
  <2> QED
    BY <1>4, <2>1
<1>7. outbox' \in Wide /\ outbox'["reconcile"] = outbox["reconcile"]
  <2>1. outbox \in Wide /\ "socket" \in Senders /\ "reconcile" \in Senders /\ "socket" # "reconcile"
    BY DEF Wide, TypeOK, Lines, Senders
  <2> HIDE DEF l
  <2>2. Append(outbox["socket"], l) \in Seq(Lines)
    BY <1>3, <2>1, AppendProperties DEF Wide
  <2> QED
    BY <1>4, <2>1, <2>2 DEF Wide
<1>8. seen' \subseteq {"ws", "row"} \X Ids
  BY <1>4, IdsTyped DEF TypeOK
<1> QED
  BY <1>1, <1>5, <1>6, <1>7, <1>8 DEF TypeOK, Wide, Lines

(* The reconcile task. *)
LEMMA ReconcileType ==
  ASSUME TypeOK, IInv, Fetch \/ FetchFails \/ Merge
  PROVE  TypeOK'
<1>a. Done \subseteq Ids
  BY DoneAreIds
<1>1. CASE Fetch \/ FetchFails
  <2>1. /\ UNCHANGED <<filled, listed, sameIds, link, wire, gaps, seen, hundredths, claims,
                       outbox, told>>
        /\ task = "queued"
        /\ (task' = "read" /\ Fetch) \/ (task' = "idle" /\ page' = page)
    BY <1>1 DEF Fetch, FetchFails, venueVars, accumulator
  <2>2. counted' \subseteq Ids /\ overlooked' \subseteq Ids
    BY <1>1, <1>a DEF Fetch, FetchFails, TypeOK
  <2>3. page' \in [Ids -> 0..2]
    <3>1. ASSUME NEW again, NEW bad,
                 page' = [t \in Ids |-> IF t \notin listed \ bad THEN 0
                                        ELSE IF t \in again THEN 2 ELSE 1]
          PROVE  page' \in [Ids -> 0..2]
      BY <3>1
    <3>2. CASE page' = page
      BY <3>2 DEF TypeOK
    <3> QED
      BY <2>1, <3>1, <3>2 DEF Fetch
  <2> QED
    BY <2>1, <2>2, <2>3 DEF TypeOK
<1>2. CASE Merge
  <2>1. /\ UNCHANGED <<filled, listed, sameIds, link, wire, gaps, told, overlooked>>
        /\ MergeVenue /\ task = "read"
        /\ outbox' = [outbox EXCEPT !.reconcile = MergeLines]
        /\ task' = IF MergeLines = <<>> THEN "idle" ELSE "sending"
        /\ page' = IF MergeLines = <<>> THEN [t \in Ids |-> 0] ELSE page
    BY <1>2 DEF Merge, venueVars, GateAfterMerge
  <2>2. MergeLines \in Seq(Lines)
    BY MergeLinesAre
  <2>3. outbox' \in Wide /\ outbox'["reconcile"] = MergeLines
    <3>1. outbox \in Wide /\ "reconcile" \in Senders
      BY DEF Wide, TypeOK, Lines, Senders
    <3> QED
      BY <2>1, <2>2, <3>1 DEF Wide
  <2>4. Merged \in SUBSET Ids
    BY MergedRows
  <2>5. seen' \subseteq {"ws", "row"} \X Ids
    BY <2>1, <2>4, IdsTyped DEF MergeVenue, TypeOK
  <2>6. hundredths' \in [Orders -> Nat]
    BY <2>1, MergedRows DEF MergeVenue
  <2>7. claims' \in [Ids -> Nat]
    BY <2>1 DEF MergeVenue, TypeOK
  <2>8. counted' \subseteq Ids
    BY <2>1, <1>a DEF MergeVenue, TypeOK
  <2>9. /\ task' \in {"idle", "queued", "read", "sending"} /\ page' \in [Ids -> 0..2]
        /\ task' \in {"idle", "queued"} => page' = [t \in Ids |-> 0]
        /\ task' = "sending" <=> outbox'["reconcile"] # <<>>
    BY <2>1, <2>3 DEF TypeOK
  <2>10. outbox' \in [Senders -> Seq([order : Orders, cum : Nat])]
    BY <2>3 DEF Wide, Lines
  <2> HIDE DEF Senders, Ids
  <2> QED
    BY <2>1, <2>5, <2>6, <2>7, <2>8, <2>9, <2>10 DEF TypeOK
<1> QED
  BY <1>1, <1>2

(* A line that goes out. *)
LEMMA SendType ==
  ASSUME TypeOK, NEW p \in Senders, Send(p)
  PROVE  TypeOK'
<1> DEFINE l == Head(outbox[p])
           over == p = "reconcile" /\ Tail(outbox[p]) = <<>>
<1>1. /\ UNCHANGED <<filled, listed, sameIds, link, wire, gaps, seen, hundredths, claims, counted,
                     overlooked>>
      /\ outbox[p] # <<>>
      /\ told' = [told EXCEPT ![l.order] = Heard(l.order, l.cum)]
      /\ outbox' = [outbox EXCEPT ![p] = Tail(@)]
      /\ task' = IF over THEN "idle" ELSE task
      /\ page' = IF over THEN [t \in Ids |-> 0] ELSE page
  BY DEF Send, venueVars, accumulator
<1>2. outbox \in Wide /\ "reconcile" \in Senders
  BY DEF Wide, TypeOK, Lines, Senders
<1>3. l \in Lines /\ Tail(outbox[p]) \in Seq(Lines)
  BY <1>1, <1>2, HeadTailProperties DEF Wide
<1>4. told' \in [Orders -> Nat]
  <2>1. l.order \in Orders /\ l.cum \in Nat
    BY <1>3 DEF Lines
  <2>2. Heard(l.order, l.cum) \in Nat
    BY <2>1 DEF Heard, TypeOK
  <2> HIDE DEF l
  <2> QED
    BY <1>1, <2>1, <2>2 DEF TypeOK
<1>5. /\ outbox' \in Wide
      /\ \A q \in Senders : outbox'[q] = IF q = p THEN Tail(outbox[p]) ELSE outbox[q]
  BY <1>1, <1>2, <1>3 DEF Wide
<1>6. task' = "sending" <=> outbox'["reconcile"] # <<>>
  BY <1>1, <1>2, <1>5 DEF TypeOK
<1>7. /\ task' \in {"idle", "queued", "read", "sending"} /\ page' \in [Ids -> 0..2]
      /\ task' \in {"idle", "queued"} => page' = [t \in Ids |-> 0]
  <2>1. CASE over
    <3>1. task' = "idle" /\ page' = [t \in Ids |-> 0]
      BY <1>1, <2>1
    <3> QED
      BY <3>1
  <2>2. CASE ~over
    <3>1. task' = task /\ page' = page
      BY <1>1, <2>2
    <3> QED
      BY <3>1 DEF TypeOK
  <2> QED
    BY <2>1, <2>2
<1>8. outbox' \in [Senders -> Seq([order : Orders, cum : Nat])]
  BY <1>5 DEF Wide, Lines
<1>9. /\ filled' \in 0..Trades /\ listed' \subseteq Ids /\ sameIds' \in BOOLEAN
      /\ link' \in {"down", "asked", "live"}
      /\ wire' \subseteq Ids /\ gaps' \in 1..MaxGaps /\ seen' \subseteq ({"ws", "row"} \X Ids)
      /\ hundredths' \in [Orders -> Nat] /\ claims' \in [Ids -> Nat]
      /\ counted' \subseteq Ids /\ overlooked' \subseteq Ids /\ (link' # "live" => wire' = {})
  BY <1>1 DEF TypeOK
<1> HIDE DEF l, over
<1> QED
  BY <1>4, <1>6, <1>7, <1>8, <1>9 DEF TypeOK

-----------------------------------------------------------------------------
(* The invariant and the theorems.                                          *)

(* The initial state: nothing is counted, nothing told. *)
LEMMA InitFeed == ASSUME Init PROVE FeedInv
<1>1. IInv /\ GateHeld
  BY InitIInv DEF Init, GateHeld, Senders
<1>2. TypeOK
  <2>1. <<>> \in Seq([order : Orders, cum : Nat])
    OBVIOUS
  <2>2. outbox \in [Senders -> Seq([order : Orders, cum : Nat])] /\ outbox.reconcile = <<>>
    BY <2>1 DEF Init, Senders
  <2> HIDE DEF Senders
  <2>3. filled \in 0..Trades /\ gaps \in 1..MaxGaps /\ sameIds \in BOOLEAN
    <3>1. sameIds \in BOOLEAN
      BY DEF Init
    <3>2. filled = 0 /\ gaps = 1 /\ 0 \in 0..Trades /\ 1 \in 1..MaxGaps
      BY TradesAssumption, GapsAssumption DEF Init
    <3> QED
      BY <3>1, <3>2
  <2>4. /\ listed \subseteq Ids /\ link \in {"down", "asked", "live"} /\ wire \subseteq Ids
        /\ seen \subseteq ({"ws", "row"} \X Ids)
        /\ counted \subseteq Ids /\ overlooked \subseteq Ids
    BY DEF Init
  <2>6. /\ hundredths \in [Orders -> Nat]
        /\ page \in [Ids -> 0..2] /\ told \in [Orders -> Nat] /\ claims \in [Ids -> Nat]
    BY DEF Init
  <2>5. task = "idle" /\ wire = {} /\ page = [t \in Ids |-> 0]
    BY DEF Init
  <2> QED
    BY <2>2, <2>3, <2>4, <2>5, <2>6 DEF TypeOK
<1>3. SumsInv
  <2>1. \A o : ClaimedParts(o) = 0
    <3>1. \A o : Of(o, {}) = {} /\ SumOf({}) = 0
      BY SumEmpty DEF Of, SumOf
    <3>2. {t \in Ids : claims[t] > 0} = {} /\ {t \in Ids : claims[t] > 1} = {}
      BY DEF Init
    <3> QED
      BY <3>1, <3>2 DEF ClaimedParts
  <2>2. \A o \in Orders : hundredths[o] = 0 /\ told[o] = 0 /\ 0 \div Unit = 0
    BY TradesAssumption DEF Init
  <2>3. \A p \in Senders : Len(outbox[p]) = 0
    BY DEF Init
  <2> QED
    BY <2>1, <2>2, <2>3 DEF SumsInv, TotalsKept, ToldBounded, LinesBounded, AllTold, Whole
<1> QED
  BY <1>1, <1>2, <1>3 DEF FeedInv

(* Every step keeps the sums.                                               *)
LEMMA StepSums ==
  ASSUME FeedInv, [Next]_vars
  PROVE  SumsInv'
<1>a. SumsInv
  BY DEF FeedInv
<1>1. ASSUME NEW t \in Ids, ReadFrame(t) PROVE SumsInv'
  <2>1. CASE LineOf(t) /\ Fresh(WsId(t))
    BY <1>1, <2>1, FrameSums DEF ReadFrame
  <2>2. CASE LineUnreadable(t) \/ (LineOf(t) /\ ~Fresh(WsId(t)))
    <3>1. UNCHANGED <<hundredths, claims, outbox, told>>
      BY <1>1, <2>2 DEF ReadFrame, LineOf, LineUnreadable, accumulator
    <3> QED
      BY <1>a, <3>1, SumsUntouched
  <2> QED
    BY <1>1, <2>1, <2>2 DEF ReadFrame
<1>2. ASSUME UNCHANGED <<hundredths, claims, outbox, told>> PROVE SumsInv'
  BY <1>2, <1>a, SumsUntouched
<1> QED
  BY <1>1, <1>2, MergeSums, SendSums
  DEF Next, vars, VenueFill, Subscribe, Confirmed, ConnectFails, Drop, Fetch, FetchFails,
      ListCatchesUp, accumulator

(* The invariant is kept by every step.                                     *)
LEMMA StepFeed == ASSUME FeedInv, [Next]_vars PROVE FeedInv'
<1>1. IInv' /\ GateHeld'
  BY StepIInv, GateKeeps DEF FeedInv, IInv
<1>2. TypeOK'
  BY SocketType, ReadFrameType, ReconcileType, SendType DEF FeedInv, Next
<1>3. SumsInv'
  BY StepSums
<1> QED
  BY <1>1, <1>2, <1>3 DEF FeedInv

(* Types, sums and what is told, at every state of the feed.                *)
THEOREM FeedSums == Spec => []FeedInv
<1> QED
  BY InitFeed, StepFeed, PTL DEF Spec

(* Every variable keeps its type: the gate is held exactly while lines of a *)
(* merge are left to send, and no frame is on the wire of a socket down.    *)
THEOREM FeedTyped == Spec => []TypeOK
<1>1. FeedInv => TypeOK
  BY DEF FeedInv
<1> QED
  BY <1>1, FeedSums, PTL

(* The running total of an order is the sum of the trades counted for it,   *)
(* and the engine is told no more than its whole contracts.                 *)
THEOREM TotalsAreTheSums == Spec => []TotalsAreSums
<1>1. FeedInv => TotalsAreSums
  BY DEF FeedInv, SumsInv, TotalsKept, ToldBounded, ClaimedParts, Whole, TotalsAreSums
<1> QED
  BY <1>1, FeedSums, PTL

(* Whole contracts banked are told, or on a line on its way.                *)
THEOREM BankedReachesTheEngine == Spec => []BankedIsTold
<1>1. FeedInv => BankedIsTold
  <2> SUFFICES ASSUME FeedInv, NEW o \in Orders
               PROVE  \/ told[o] = hundredths[o] \div Unit
                      \/ \E p \in Senders : \E i \in DOMAIN outbox[p] :
                            outbox[p][i] = Line(o, hundredths[o] \div Unit)
    BY DEF BankedIsTold
  <2>1. \A p \in Senders : DOMAIN outbox[p] = 1..Len(outbox[p])
    BY LenProperties DEF FeedInv, TypeOK
  <2> QED
    BY <2>1 DEF FeedInv, SumsInv, AllTold, Tells, Whole
<1> QED
  BY <1>1, FeedSums, PTL

(* The engine is never told of more than the venue filled, unless socket    *)
(* and list identify a trade differently and one was counted from each.     *)
THEOREM NeverPastTheVenue == Spec => []NeverPastVenue
<1>1. FeedInv => NeverPastVenue
  <2> SUFFICES ASSUME FeedInv, NEW o \in Orders, told[o] * Unit > Filled(o),
                      \A t \in Of(o, Ids) : ~(~sameIds /\ claims[t] = 2)
               PROVE  FALSE
    BY DEF NeverPastVenue
  <2> DEFINE once  == {t \in Ids : claims[t] > 0}
             twice == {t \in Ids : claims[t] > 1}
  <2>a. TypeOK /\ CountedOnce /\ Unit \in Nat /\ Unit > 0
    BY TradesAssumption DEF FeedInv, IInv
  <2>1. \A t \in Of(o, Ids) : ~(claims[t] > 1)
    <3> SUFFICES ASSUME NEW t \in Of(o, Ids), claims[t] > 1 PROVE FALSE
      OBVIOUS
    <3>1. t \in Ids
      BY DEF Of
    <3>2. claims[t] = (IF WsId(t) \in seen THEN 1 ELSE 0)
                        + (IF ~sameIds /\ RowId(t) \in seen THEN 1 ELSE 0)
      BY <2>a, <3>1 DEF CountedOnce
    <3> QED
      BY <3>2
  <2>2. Of(o, twice) = {}
    BY <2>1 DEF Of
  <2>3. once \subseteq Done /\ Done \subseteq Ids
    BY <2>a, DoneAreIds DEF CountedOnce
  <2>4. hundredths[o] = SumOf(Of(o, once)) + SumOf(Of(o, twice))
    BY DEF FeedInv, SumsInv, TotalsKept, ClaimedParts
  <2> HIDE DEF once, twice
  <2>5. /\ SumOf(Of(o, once)) <= Filled(o) /\ Filled(o) \in Nat
        /\ SumOf(Of(o, once)) \in Nat /\ SumOf(Of(o, twice)) = 0
    <3>1. SumOf({}) = 0
      BY SumEmpty DEF SumOf
    <3> QED
      BY <2>2, <2>3, <3>1, PartsGrow DEF Filled
  <2> DEFINE w == hundredths[o] \div Unit
  <2>6. told[o] <= w /\ told[o] \in Nat /\ hundredths[o] \in Nat
    BY <2>a DEF FeedInv, SumsInv, ToldBounded, Whole, TypeOK
  <2>7. w \in Nat /\ w * Unit <= hundredths[o]
    BY <2>6, Wholes
  <2> HIDE DEF w
  <2>8. told[o] * Unit <= w * Unit
    BY <2>a, <2>6, <2>7, Z3
  <2>9. hundredths[o] <= Filled(o)
    BY <2>4, <2>5
  <2>10. told[o] * Unit \in Nat /\ w * Unit \in Nat
    BY <2>a, <2>6, <2>7, Z3
  <2> QED
    BY <2>5, <2>6, <2>7, <2>8, <2>9, <2>10
<1> QED
  BY <1>1, FeedSums, PTL

(* Under foreign identities, once a frame of a trade is counted every later *)
(* merge refuses its order: the total of the order already holds the rows   *)
(* counted and that frame.                                                  *)
THEOREM FramesShutOutRows == Spec => FrameShutsOutRows
<1>1. ASSUME FeedInv, Merge, NEW t \in Ids, WsId(t) \in seen, <<"row", t>> \notin seen, ~sameIds
      PROVE  t \notin Merged
  <2> SUFFICES ASSUME t \in Merged PROVE FALSE
    OBVIOUS
  <2> DEFINE o == OrderOf[t]
             rows == {u \in Ids : RowId(u) \in seen}
             once == {u \in Ids : claims[u] > 0}
             twice == {u \in Ids : claims[u] > 1}
  <2>a. TypeOK /\ CountedOnce
    BY <1>1 DEF FeedInv, IInv
  <2>1. t \notin rows /\ t \in Unseen /\ ~Rejected(o)
    BY <1>1 DEF Merged, RowId
  <2>2. rows \cup {t} \subseteq once
    <3> SUFFICES ASSUME NEW u \in Ids, RowId(u) \in seen \/ u = t PROVE claims[u] > 0
      OBVIOUS
    <3>1. claims[u] = (IF WsId(u) \in seen THEN 1 ELSE 0)
                        + (IF ~sameIds /\ RowId(u) \in seen THEN 1 ELSE 0)
      BY <2>a DEF CountedOnce
    <3> QED
      BY <1>1, <3>1
  <2>3. OnPage \subseteq rows \cup Unseen /\ rows \cap Unseen = {} /\ Unseen \in SUBSET Ids
    BY DEF Unseen, OnPage
  <2>4. hundredths[o] = SumOf(Of(o, once)) + SumOf(Of(o, twice))
    BY <1>1, TradesAssumption DEF FeedInv, SumsInv, TotalsKept, ClaimedParts
  <2>5. rows \in SUBSET Ids /\ once \in SUBSET Ids /\ twice \in SUBSET Ids
    OBVIOUS
  <2> HIDE DEF rows, once, twice
  <2>6. SumOf(Of(o, {t})) = Count[t] /\ Count[t] > 0 /\ Count[t] \in Nat
    BY SumOfOne, TradesAssumption
  <2> HIDE DEF o
  <2>7. /\ SumOf(Of(o, rows \cup {t})) = SumOf(Of(o, rows)) + Count[t]
        /\ SumOf(Of(o, rows)) \in Nat
    <3>1. {t} \in SUBSET Ids /\ rows \cap {t} = {}
      BY <2>1
    <3>2. /\ SumOf(Of(o, rows \cup {t})) = SumOf(Of(o, rows)) + SumOf(Of(o, {t}))
          /\ SumOf(Of(o, rows)) \in Nat
      BY <2>5, <3>1, PartsAddUp
    <3> QED
      BY <2>6, <3>2
  <2>8. SumOf(Of(o, rows \cup {t})) <= SumOf(Of(o, once)) /\ SumOf(Of(o, once)) \in Nat
    BY <2>2, <2>5, PartsGrow
  <2>9. SumOf(Of(o, twice)) \in Nat
    BY <2>5, PartsGrow
  <2>10. /\ SumOf(Of(o, rows \cup Unseen)) = SumOf(Of(o, rows)) + SumOf(Of(o, Unseen))
         /\ SumOf(Of(o, Unseen)) \in Nat
    BY <2>3, <2>5, PartsAddUp
  <2>11. SumOf(Of(o, OnPage)) <= SumOf(Of(o, rows \cup Unseen)) /\ SumOf(Of(o, OnPage)) \in Nat
    <3>1. rows \cup Unseen \in SUBSET Ids /\ OnPage \in SUBSET (rows \cup Unseen)
      BY <2>3, <2>5
    <3> QED
      BY <3>1, PartsGrow
  <2>12. hundredths[o] + SumOf(Of(o, Unseen)) > VenueTotal(o)
    BY <2>4, <2>6, <2>7, <2>8, <2>9, <2>10, <2>11 DEF VenueTotal
  <2> QED
    BY <2>1, <2>12 DEF Rejected
<1>2. ASSUME FeedInv, [Next]_vars, NEW t \in Ids,
             WsId(t) \in seen, <<"row", t>> \notin seen, ~sameIds
      PROVE  <<"row", t>> \notin seen'
  <2>1. CASE Merge
    <3>1. seen' = seen \cup {RowId(u) : u \in Merged}
      BY <2>1 DEF Merge, MergeVenue
    <3>2. \A u : RowId(u) = <<"row", u>>
      BY <1>2 DEF RowId
    <3> QED
      BY <1>1, <1>2, <2>1, <3>1, <3>2
  <2>2. ASSUME NEW u \in Ids, ReadFrame(u) PROVE <<"row", t>> \notin seen'
    <3>1. seen' = seen \/ seen' = seen \cup {WsId(u)}
      BY <2>2 DEF ReadFrame, LineOf, LineUnreadable, accumulator
    <3> QED
      BY <1>2, <3>1, IdsDiffer DEF WsId
  <2> QED
    BY <1>2, <2>1, <2>2
    DEF Next, vars, VenueFill, Subscribe, Confirmed, ConnectFails, Drop, Fetch, FetchFails,
        ListCatchesUp, Send, accumulator
<1>3. FeedInv /\ [Next]_vars
        => [\A t \in Ids :
              WsId(t) \in seen /\ <<"row", t>> \notin seen /\ ~sameIds
                => <<"row", t>> \notin seen']_vars
  BY <1>2
<1> QED
  BY <1>3, FeedSums, PTL DEF Spec, FrameShutsOutRows
=============================================================================
