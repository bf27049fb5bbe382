----------------------------- MODULE RiskProofs -----------------------------
(***************************************************************************)
(* The gate's figures are right for every number of slots, orders, fills,  *)
(* closes and polls.                                                       *)
(*                                                                         *)
(* Two of them have an inductive invariant of their own, over the part of  *)
(* the state they concern: the cash a check spends (HedgeCashCounted, from *)
(* CashInv) and the reservations (ReservationIsTheQuote, from              *)
(* ReservationInv).  The other two share one, GateInv: the exposure is the *)
(* book but for what was opened uncharged (ExposureIsTheBook) because what *)
(* the ledger poll has read holds every close that was ever taken out, and *)
(* closes are told apart; netting hides no more than that                  *)
(* (NettingHidesNothing) because the directions never run ahead of the     *)
(* releases, and while a check runs no fill is heard.                      *)
(***************************************************************************)
EXTENDS Risk, SumProofs

-----------------------------------------------------------------------------
(* The cash.                                                                *)

\* Every hedge minted after the first b is still charged in S.
ChargedAfter(S, b) == \A h \in 1..minted : h \in S \/ h <= b

\* A reading that has been asked for, and one that is in force, leave nothing
\* out -- neither beside the charges as they stand nor beside those a check
\* has already read, which is what the second lock may meet.
CashInv ==
    /\ minted \in Nat
    /\ balancePoll.at \in {"idle", "asked", "half"}
    /\ balancePoll.at = "asked" =>
         /\ ChargedAfter(unread, balancePoll.before)
         /\ check.at = "cash" => ChargedAfter(check.unread, balancePoll.before)
    /\ balancePoll.at = "half" => cash \in {Unspendable, balancePoll.before}
    /\ cash # Unspendable =>
         /\ cash \in Nat
         /\ ChargedAfter(unread, cash)
         /\ check.at = "cash" => ChargedAfter(check.unread, cash)
    /\ balancePoll # Idle => balancePoll.before \in Nat
    /\ check = NoCheck \/ check.at \in {"directed", "tails", "cash", "verdict"}
    /\ check.at = "verdict" /\ check.cash # Unspendable =>
         ChargedAfter(check.unread, check.cash)

\* A step that moves no figure of the cash keeps it so.
LEMMA CashUntouched ==
    ASSUME CashInv, UNCHANGED <<cashVars, balancePoll>>,
           \/ UNCHANGED check
           \/ check' = NoCheck
           \/ check'.at \in {"directed", "tails"}
    PROVE  CashInv'
BY DEF CashInv, ChargedAfter, cashVars, NoCheck

\* No hedge is minted, and nothing is spendable.
LEMMA CashInit == Init => CashInv
BY DEF Init, CashInv, ChargedAfter, Idle, NoCheck, Unspendable

\* Every step, a check's as much as the balance poll's, keeps the cash right.
LEMMA CashStep == CashInv /\ [Next]_vars => CashInv'
<1> SUFFICES ASSUME CashInv, [Next]_vars PROVE CashInv'
  OBVIOUS
<1> USE DEF cashVars, pollVars
<1>1. CASE UNCHANGED vars
  BY <1>1, CashUntouched DEF vars
<1>2. ASSUME Assess PROVE CashInv'
  <2>1. check'.at = "directed"
    BY <1>2 DEF Assess, NoCheck
  <2> QED
    BY <1>2, <2>1, CashUntouched DEF Assess
<1>3. ASSUME ReadDirected PROVE CashInv'
  <2>1. check'.at = "tails"
    BY <1>3 DEF ReadDirected, CashInv, NoCheck
  <2> QED
    BY <1>3, <2>1, CashUntouched DEF ReadDirected
<1>4. ASSUME ReadUnread PROVE CashInv'
  <2>1. check'.at = "cash" /\ check'.unread = unread /\ check' # NoCheck
    BY <1>4 DEF ReadUnread, NoCheck
  <2> QED
    BY <1>4, <2>1 DEF ReadUnread, CashInv, ChargedAfter
<1>5. ASSUME ReadCash PROVE CashInv'
  <2>1. check'.at = "verdict" /\ check'.unread = check.unread /\ check'.cash = cash
    BY <1>5 DEF ReadCash, CashInv, NoCheck
  <2> QED
    BY <1>5, <2>1 DEF ReadCash, CashInv, ChargedAfter
<1>6. ASSUME NEW s \in Slots, NEW n \in 1..Clip, AllowQuote(s, n) PROVE CashInv'
  BY <1>6, CashUntouched DEF AllowQuote
<1>7. ASSUME NEW s \in Slots, NEW n \in 1..Clip, NEW queued \in BOOLEAN,
             AllowIoc(s, n, queued)
      PROVE  CashInv'
  BY <1>7, CashUntouched DEF AllowIoc
<1>8. ASSUME NEW S \in SUBSET Slots, Refuse(S) PROVE CashInv'
  BY <1>8, CashUntouched DEF Refuse
<1>9. ASSUME NEW S \in SUBSET Slots, Pull(S) PROVE CashInv'
  BY <1>9, CashUntouched DEF Pull
<1>10. ASSUME NEW o \in live, NEW n \in 1..Clip, NEW over, Booking(o, n, over),
              UNCHANGED <<cash, pollVars, check>>
       PROVE  CashInv'
  <2>1. /\ check = NoCheck /\ check.at = "idle"
        /\ minted' = minted + 1 /\ unread' = unread \cup {minted + 1}
    BY <1>10 DEF Booking, NoCheck
  <2> QED
    BY <1>10, <2>1 DEF CashInv, ChargedAfter
<1>11. ASSUME NEW o \in live, FinishIoc(o) PROVE CashInv'
  BY <1>11, CashUntouched DEF FinishIoc
<1>12. ASSUME NEW r \in Rels, NEW d \in Dirs, NEW n \in 1..Clip,
              \/ BookBasket(r, d, n) \/ BookUncharged(r, d, n)
              \/ SellBack(r, d, n) \/ SellBackBooked(r, d, n)
              \/ CloseLot(r, d, n)
       PROVE  CashInv'
  BY <1>12, CashUntouched DEF BookBasket, BookUncharged, SellBack, SellBackBooked, CloseLot
<1>13. ASSUME LedgerRead \/ LedgerApply PROVE CashInv'
  BY <1>13, CashUntouched DEF LedgerRead, LedgerApply
<1>14. ASSUME BalanceAsk PROVE CashInv'
  BY <1>14 DEF BalanceAsk, CashInv, ChargedAfter, Idle
<1>15. ASSUME BalanceFail PROVE CashInv'
  BY <1>15 DEF BalanceFail, CashInv, ChargedAfter, Idle
<1>16. ASSUME SetLiveCapital PROVE CashInv'
  BY <1>16 DEF SetLiveCapital, CashInv, ChargedAfter, Idle
<1>17. ASSUME HedgesRead PROVE CashInv'
  BY <1>17 DEF HedgesRead, StillUnread, CashInv, ChargedAfter, Idle
<1>18. ASSUME CashExpires PROVE CashInv'
  BY <1>18 DEF CashExpires, CashInv, ChargedAfter
<1>19. ASSUME Restart PROVE CashInv'
  BY <1>19 DEF Restart, CashInv, ChargedAfter, Idle, NoCheck
<1>20. CASE Checking
  BY <1>20, <1>2, <1>3, <1>4, <1>5, <1>6, <1>7, <1>8 DEF Checking
<1>21. CASE Trading
  <2>1. ASSUME NEW o \in live, NEW n \in 1..Clip,
               NEW P \in SUBSET {s \in Slots : quote[s] # NoQuote}, Fill(o, n, P)
        PROVE  CashInv'
    <3>1. Booking(o, n, FALSE) /\ UNCHANGED <<cash, pollVars, check>>
      BY <2>1, Zenon DEF Fill
    <3> QED
      BY <3>1, <1>10
  <2>2. ASSUME NEW o \in live, NEW n \in 1..Clip, NEW over \in BOOLEAN,
               NEW P \in SUBSET {s \in Slots : quote[s] # NoQuote}, FillIoc(o, n, over, P)
        PROVE  CashInv'
    <3>1. Booking(o, n, over) /\ UNCHANGED <<cash, pollVars, check>>
      BY <2>2, Zenon DEF FillIoc
    <3> QED
      BY <3>1, <1>10
  <2> QED
    BY <1>21, <2>1, <2>2, <1>9, <1>11, <1>12, Zenon DEF Trading
<1>22. CASE Polling
  BY <1>22, <1>13, <1>14, <1>15, <1>16, <1>17, <1>18 DEF Polling
<1> QED
  BY <1>1, <1>19, <1>20, <1>21, <1>22 DEF Next

\* Whatever the balance poll does between a check's locks, a hedge the check
\* does not charge was minted before the reading it spends was asked for.
THEOREM CashSafe == Spec => []HedgeCashCounted
<1>1. CashInv => HedgeCashCounted
  BY DEF CashInv, HedgeCashCounted, ChargedAfter
<1> QED
  BY <1>1, CashInit, CashStep, PTL DEF Spec

-----------------------------------------------------------------------------
(* The reservations.                                                        *)

\* Who may still fill: each an order placed, and no two under one id.
LiveInv ==
    /\ placed \in 0..MaxOrders
    /\ check # NoCheck => placed < MaxOrders
    /\ live \subseteq [id : 1..placed, slot : Slots, ioc : BOOLEAN, unheard : 1..Clip]
    /\ \A o, q \in live : o.id = q.id => o = q

\* A slot's reservation is the quote resting there, less what raced it.
SlotInv ==
    /\ quote \in [Slots -> [order : Nat, left : Nat]]
    /\ raced \in [Slots -> Nat]
    /\ reserved \in [Slots -> Nat]
    /\ \A s \in Slots : quote[s].order = 0 => quote[s] = NoQuote
    /\ \A s \in Slots : reserved[s] = Less(quote[s].left, raced[s])

IocInv ==
    /\ reservedIoc \in [OrderIds -> Nat]
    /\ \A o \in live : o.ioc => reservedIoc[o.id] = o.unheard
    /\ \A i \in OrderIds : reservedIoc[i] > 0 => \E o \in live : o.id = i /\ o.ioc

ReservationInv == LiveInv /\ SlotInv /\ IocInv

\* Every order of the bound is one that may still be placed.
LEMMA OrderNumbers == LiveInv => \A o \in live : o.id \in OrderIds /\ o.id # 0
BY BoundAssumption DEF LiveInv, OrderIds

\* A quote that goes takes its reservation and its history with it.
LEMMA ReleaseKeepsSlots ==
    ASSUME NEW S \in SUBSET Slots,
           NEW q \in [Slots -> [order : Nat, left : Nat]],
           NEW x \in [Slots -> Nat], NEW f \in [Slots -> Nat],
           \A s \in Slots \ S : q[s].order = 0 => q[s] = NoQuote,
           \A s \in Slots \ S : f[s] = Less(q[s].left, x[s]),
           quote' = Unquoted(q, S), raced' = Released(x, S), reserved' = Released(f, S)
    PROVE  SlotInv'
<1>1. NoQuote \in [order : Nat, left : Nat] /\ NoQuote.left = 0
  BY DEF NoQuote
<1>2. ASSUME NEW s \in Slots PROVE
        /\ quote'[s] \in [order : Nat, left : Nat]
        /\ raced'[s] \in Nat /\ reserved'[s] \in Nat
        /\ quote'[s].order = 0 => quote'[s] = NoQuote
        /\ reserved'[s] = Less(quote'[s].left, raced'[s])
  <2>1. CASE s \in S
    BY <1>1, <2>1 DEF Unquoted, Released, Less
  <2>2. CASE s \notin S
    BY <2>2 DEF Unquoted, Released
  <2> QED
    BY <2>1, <2>2
<1> QED
  BY <1>2 DEF SlotInv, Unquoted, Released

\* What is heard of an order leaves the others, and the rest of it.
LEMMA BookingKeepsLive ==
    ASSUME LiveInv, NEW o \in live, NEW n \in 1..Clip, NEW over \in BOOLEAN,
           Booking(o, n, over), UNCHANGED <<placed, check>>
    PROVE  /\ LiveInv'
           /\ \A q \in live : q # o => q \in live'
           /\ \A q \in live' : q \in live \/ q.id = o.id
           /\ \A q \in live' : q.id = o.id =>
                q.ioc = o.ioc /\ q.unheard = o.unheard - n /\ ~over
           /\ n < o.unheard /\ ~over => \E q \in live' : q.id = o.id /\ q.ioc = o.ioc
<1> DEFINE rest == [o EXCEPT !.unheard = @ - n]
<1>1. /\ o.id \in 1..placed /\ o.slot \in Slots /\ o.ioc \in BOOLEAN
      /\ o.unheard \in 1..Clip /\ n <= o.unheard
      /\ o \in [id : 1..placed, slot : Slots, ioc : BOOLEAN, unheard : 1..Clip]
      /\ placed \in Nat /\ n \in Nat \ {0}
  BY BoundAssumption DEF LiveInv, Booking
<1>2. rest.id = o.id /\ rest.ioc = o.ioc /\ rest.unheard = o.unheard - n
  BY <1>1
<1>3. n < o.unheard =>
        rest \in [id : 1..placed, slot : Slots, ioc : BOOLEAN, unheard : 1..Clip]
  <2> SUFFICES ASSUME n < o.unheard PROVE
        rest \in [id : 1..placed, slot : Slots, ioc : BOOLEAN, unheard : 1..Clip]
    OBVIOUS
  <2>1. o.unheard - n \in 1..Clip
    BY <1>1, BoundAssumption
  <2> QED
    BY <1>1, <2>1
<1>4. live' = (live \ {o}) \cup (IF n < o.unheard /\ ~over THEN {rest} ELSE {})
  BY DEF Booking
<1> HIDE DEF rest
<1>5. \A q \in live : q.id = o.id => q = o
  BY DEF LiveInv
<1> QED
  BY <1>1, <1>2, <1>3, <1>4, <1>5 DEF LiveInv

\* No order, no quote, no reservation.
LEMMA ReservationInit == Init => ReservationInv
BY BoundAssumption
   DEF Init, ReservationInv, LiveInv, SlotInv, IocInv, NoQuote, Less, OrderIds, NoCheck

\* A step that neither places, nor hears of, nor releases an order.
LEMMA EngineUntouched ==
    ASSUME ReservationInv, UNCHANGED engineVars,
           check' # NoCheck => check # NoCheck \/ placed < MaxOrders
    PROVE  ReservationInv'
<1>1. UNCHANGED <<placed, live, quote, raced, reserved, reservedIoc>>
  BY DEF engineVars
<1> QED
  BY <1>1 DEF ReservationInv, LiveInv, SlotInv, IocInv

\* A resting order's frame: what it takes of the slot, the quote loses or the
\* race gains.
LEMMA FillKeeps ==
    ASSUME ReservationInv, NEW o \in live, NEW n \in 1..Clip,
           NEW P \in SUBSET Slots, Fill(o, n, P)
    PROVE  ReservationInv'
<1> DEFINE s == o.slot
           gone == P \cup (IF Standing(o, n) = NoQuote THEN {s} ELSE {})
           q == [quote EXCEPT ![s] = Standing(o, n)]
           x == [raced EXCEPT ![s] = IF quote[s].order = o.id THEN @ ELSE @ + n]
           f == [reserved EXCEPT ![s] = Consume(@, n)]
<1>1. /\ ~o.ioc /\ Booking(o, n, FALSE) /\ UNCHANGED <<placed, check, reservedIoc>>
      /\ quote' = Unquoted(q, gone) /\ raced' = Released(x, gone)
      /\ reserved' = Released(f, gone)
  BY DEF Fill
<1>2. s \in Slots /\ o.id # 0 /\ n \in Nat \ {0} /\ gone \in SUBSET Slots
  BY OrderNumbers DEF ReservationInv, LiveInv
<1>3. /\ LiveInv'
      /\ \A p \in live : p # o => p \in live'
      /\ \A p \in live' : p \in live \/ p.id = o.id
      /\ \A p \in live' : p.id = o.id => p.ioc = o.ioc
  <2>1. PICK over \in BOOLEAN : over = FALSE
    OBVIOUS
  <2>2. LiveInv /\ Booking(o, n, over) /\ UNCHANGED <<placed, check>>
    BY <1>1, <2>1 DEF ReservationInv
  <2> HIDE DEF s, q, x, f, gone
  <2> QED
    BY <2>2, BookingKeepsLive
<1>4. IocInv'
  BY <1>1, <1>3 DEF ReservationInv, IocInv
<1>5. /\ quote[s] \in [order : Nat, left : Nat]
      /\ raced[s] \in Nat /\ reserved[s] \in Nat
      /\ quote[s].order = 0 => quote[s] = NoQuote
      /\ reserved[s] = Less(quote[s].left, raced[s])
  BY <1>2 DEF ReservationInv, SlotInv
<1>6. /\ Standing(o, n) \in [order : Nat, left : Nat]
      /\ Standing(o, n).order = 0 => Standing(o, n) = NoQuote
      /\ f[s] \in Nat /\ x[s] \in Nat
      /\ Standing(o, n) # NoQuote => f[s] = Less(Standing(o, n).left, x[s])
  <2>1. f[s] = Less(reserved[s], n)
        /\ x[s] = IF quote[s].order = o.id THEN raced[s] ELSE raced[s] + n
    BY <1>2 DEF ReservationInv, SlotInv, Consume
  <2>2. CASE quote[s].order # o.id
    BY <1>2, <1>5, <2>1, <2>2 DEF Standing, Less
  <2>3. CASE quote[s].order = o.id /\ n < quote[s].left
    <3>1. Standing(o, n) = [quote[s] EXCEPT !.left = @ - n]
      BY <2>3 DEF Standing
    <3>2. /\ Standing(o, n).order = quote[s].order
          /\ Standing(o, n).left = quote[s].left - n
          /\ Standing(o, n) \in [order : Nat, left : Nat]
      BY <3>1, <2>3, <1>2, <1>5
    <3> QED
      BY <1>2, <1>5, <2>1, <2>3, <3>2 DEF Less
  <2>4. CASE quote[s].order = o.id /\ ~(n < quote[s].left)
    BY <1>2, <1>5, <2>1, <2>4 DEF Standing, Less, NoQuote
  <2> QED
    BY <2>2, <2>3, <2>4
<1>7. /\ q \in [Slots -> [order : Nat, left : Nat]]
      /\ x \in [Slots -> Nat] /\ f \in [Slots -> Nat]
      /\ \A t \in Slots \ gone : q[t].order = 0 => q[t] = NoQuote
      /\ \A t \in Slots \ gone : f[t] = Less(q[t].left, x[t])
  <2>1. /\ quote \in [Slots -> [order : Nat, left : Nat]]
        /\ raced \in [Slots -> Nat] /\ reserved \in [Slots -> Nat]
        /\ \A t \in Slots : quote[t].order = 0 => quote[t] = NoQuote
        /\ \A t \in Slots : reserved[t] = Less(quote[t].left, raced[t])
    BY DEF ReservationInv, SlotInv
  <2>2. /\ q[s] = Standing(o, n)
        /\ \A t \in Slots : t # s => q[t] = quote[t] /\ x[t] = raced[t] /\ f[t] = reserved[t]
    BY <2>1, <1>2
  <2>3. s \in gone \/ Standing(o, n) # NoQuote
    OBVIOUS
  <2>4. /\ q \in [Slots -> [order : Nat, left : Nat]]
        /\ x \in [Slots -> Nat] /\ f \in [Slots -> Nat]
    <3> HIDE DEF s
    <3> QED
      BY <1>2, <1>6, <2>1, <2>2
  <2> HIDE DEF s, q, x, f, gone
  <2> QED
    BY <1>6, <2>1, <2>2, <2>3, <2>4
<1> HIDE DEF s, q, x, f, gone
<1>8. SlotInv'
  BY <1>1, <1>2, <1>7, ReleaseKeepsSlots
<1> QED
  BY <1>3, <1>4, <1>8 DEF ReservationInv

\* A pull of quotes, whoever asks for it.
LEMMA PullKeepsSlots ==
    ASSUME SlotInv, NEW S \in SUBSET Slots,
           reserved' = Released(reserved, S), quote' = Unquoted(quote, S),
           raced' = Released(raced, S)
    PROVE  SlotInv'
BY ReleaseKeepsSlots DEF SlotInv

\* An IOC's frame: its own reservation, and whatever quotes it pulled.
LEMMA FillIocKeeps ==
    ASSUME ReservationInv, NEW o \in live, NEW n \in 1..Clip, NEW over \in BOOLEAN,
           NEW P \in SUBSET Slots, FillIoc(o, n, over, P)
    PROVE  ReservationInv'
<1>1. /\ o.ioc /\ Booking(o, n, over) /\ UNCHANGED <<placed, check>>
      /\ reservedIoc' = [reservedIoc EXCEPT ![o.id] = IF over THEN 0 ELSE Consume(@, n)]
      /\ o.unheard \in Nat /\ n \in Nat \ {0} /\ n <= o.unheard
  BY BoundAssumption DEF FillIoc, Booking, ReservationInv, LiveInv
<1>2. SlotInv'
  BY PullKeepsSlots DEF FillIoc, ReservationInv
<1>3. /\ LiveInv'
      /\ \A p \in live : p # o => p \in live'
      /\ \A p \in live' : p \in live \/ p.id = o.id
      /\ \A p \in live' : p.id = o.id => p.unheard = o.unheard - n /\ ~over
      /\ n < o.unheard /\ ~over => \E p \in live' : p.id = o.id /\ p.ioc
  BY <1>1, BookingKeepsLive DEF ReservationInv
<1>4. /\ o.id \in OrderIds /\ reservedIoc \in [OrderIds -> Nat]
      /\ reservedIoc[o.id] = o.unheard
      /\ \A p \in live : p.id = o.id => p = o
  BY <1>1, OrderNumbers DEF ReservationInv, IocInv, LiveInv
<1>5. /\ reservedIoc'[o.id] = IF over THEN 0 ELSE o.unheard - n
      /\ reservedIoc' \in [OrderIds -> Nat]
      /\ \A i \in OrderIds : i # o.id => reservedIoc'[i] = reservedIoc[i]
  BY <1>1, <1>4 DEF Consume, Less
<1>6. IocInv'
  <2>1. \A p \in live' : p.ioc => reservedIoc'[p.id] = p.unheard
    <3> TAKE p \in live'
    <3>1. CASE p.id = o.id
      BY <3>1, <1>3, <1>5
    <3>2. CASE p.id # o.id
      BY <3>2, <1>3, <1>5, OrderNumbers DEF ReservationInv, IocInv
    <3> QED
      BY <3>1, <3>2
  <2>2. \A i \in OrderIds : reservedIoc'[i] > 0 => \E p \in live' : p.id = i /\ p.ioc
    <3> TAKE i \in OrderIds
    <3> HAVE reservedIoc'[i] > 0
    <3>1. CASE i = o.id
      BY <3>1, <1>1, <1>3, <1>5
    <3>2. CASE i # o.id
      <4>1. PICK p \in live : p.id = i /\ p.ioc
        BY <3>2, <1>5 DEF ReservationInv, IocInv
      <4> QED
        BY <4>1, <3>2, <1>3
    <3> QED
      BY <3>1, <3>2
  <2> QED
    BY <1>5, <2>1, <2>2 DEF IocInv
<1> QED
  BY <1>2, <1>3, <1>6 DEF ReservationInv

\* An IOC that is over keeps nothing.
LEMMA FinishIocKeeps ==
    ASSUME ReservationInv, NEW o \in live, FinishIoc(o) PROVE ReservationInv'
<1>1. o.ioc /\ UNCHANGED <<placed, check, quote, raced, reserved>>
      /\ live' = live \ {o} /\ reservedIoc' = [reservedIoc EXCEPT ![o.id] = 0]
  BY DEF FinishIoc
<1>2. LiveInv' /\ SlotInv'
  BY <1>1 DEF ReservationInv, LiveInv, SlotInv
<1>3. \A p \in live' : p \in live /\ p.id \in OrderIds /\ p.id # o.id
  BY <1>1, OrderNumbers DEF ReservationInv, LiveInv
<1>4. o.id \in OrderIds /\ reservedIoc \in [OrderIds -> Nat]
  BY OrderNumbers DEF ReservationInv, IocInv
<1> QED
  BY <1>1, <1>2, <1>3, <1>4 DEF ReservationInv, IocInv

\* An order admitted takes the next id, which no other has.
LEMMA PlacedIsNew ==
    ASSUME ReservationInv, check # NoCheck, NEW s \in Slots, NEW n \in 1..Clip,
           NEW ioc \in BOOLEAN, placed' = placed + 1, check' = NoCheck,
           live' = live \/ live' = live \cup {Order(s, n, ioc)}
    PROVE  /\ LiveInv'
           /\ placed + 1 \in OrderIds
           /\ \A p \in live : p.id # placed + 1
<1>1. placed \in Nat /\ placed < MaxOrders
  BY BoundAssumption DEF ReservationInv, LiveInv
<1>2. \A p \in live : p.id \in 1..placed
  BY DEF ReservationInv, LiveInv
<1>3. /\ Order(s, n, ioc) \in
            [id : 1..placed', slot : Slots, ioc : BOOLEAN, unheard : 1..Clip]
      /\ Order(s, n, ioc).id = placed + 1
  BY <1>1 DEF Order
<1>4. \A p \in live : p \in [id : 1..placed', slot : Slots, ioc : BOOLEAN, unheard : 1..Clip]
  <2>1. 1..placed \subseteq 1..placed'
    BY <1>1
  <2> QED
    BY <2>1 DEF ReservationInv, LiveInv
<1>5. placed' \in 0..MaxOrders /\ placed + 1 \in OrderIds
  BY <1>1, BoundAssumption DEF OrderIds
<1>6. \A p \in live : p.id # placed + 1
  BY <1>1, <1>2
<1> HIDE DEF Order
<1>7. LiveInv'
  BY <1>3, <1>4, <1>5, <1>6 DEF ReservationInv, LiveInv
<1> QED
  BY <1>5, <1>6, <1>7

\* A quote admitted writes its slot anew.
LEMMA AllowQuoteKeeps ==
    ASSUME ReservationInv, NEW s \in Slots, NEW n \in 1..Clip, AllowQuote(s, n)
    PROVE  ReservationInv'
<1>1. check # NoCheck
  BY DEF AllowQuote, Allowed, NoCheck
<1>2. LiveInv'
  BY <1>1, PlacedIsNew DEF AllowQuote
<1>3. SlotInv'
  <2>1. n \in Nat /\ placed + 1 \in Nat /\ placed + 1 # 0
    BY BoundAssumption DEF ReservationInv, LiveInv
  <2> QED
    BY <2>1 DEF AllowQuote, ReservationInv, SlotInv, Less
<1>4. IocInv'
  <2>1. live' = live \cup {Order(s, n, FALSE)} /\ UNCHANGED reservedIoc
        /\ ~Order(s, n, FALSE).ioc
    BY DEF AllowQuote, Order
  <2> QED
    BY <2>1 DEF ReservationInv, IocInv
<1> QED
  BY <1>2, <1>3, <1>4 DEF ReservationInv

\* An IOC admitted is reserved under an id no other order has.
LEMMA AllowIocKeeps ==
    ASSUME ReservationInv, NEW s \in Slots, NEW n \in 1..Clip, NEW queued \in BOOLEAN,
           AllowIoc(s, n, queued)
    PROVE  ReservationInv'
<1>1. check # NoCheck
  BY DEF AllowIoc, Allowed, NoCheck
<1>2. /\ live' = live \cup (IF queued THEN {Order(s, n, TRUE)} ELSE {})
      /\ reservedIoc' = [reservedIoc EXCEPT ![placed + 1] = IF queued THEN n ELSE 0]
      /\ UNCHANGED <<quote, raced, reserved>>
  BY DEF AllowIoc
<1>3. /\ LiveInv'
      /\ placed + 1 \in OrderIds
      /\ \A p \in live : p.id # placed + 1
  BY <1>1, PlacedIsNew DEF AllowIoc
<1>4. SlotInv'
  BY <1>2 DEF ReservationInv, SlotInv
<1>5. /\ Order(s, n, TRUE).id = placed + 1 /\ Order(s, n, TRUE).unheard = n
      /\ Order(s, n, TRUE).ioc /\ n \in Nat
  BY DEF Order
<1>6. /\ reservedIoc' \in [OrderIds -> Nat]
      /\ reservedIoc'[placed + 1] = IF queued THEN n ELSE 0
      /\ \A i \in OrderIds : i # placed + 1 => reservedIoc'[i] = reservedIoc[i]
  BY <1>2, <1>3, <1>5 DEF ReservationInv, IocInv
<1>7. IocInv'
  <2>1. \A p \in live' : p.ioc => reservedIoc'[p.id] = p.unheard
    BY <1>2, <1>3, <1>5, <1>6, OrderNumbers DEF ReservationInv, IocInv
  <2>2. \A i \in OrderIds : reservedIoc'[i] > 0 => \E p \in live' : p.id = i /\ p.ioc
    <3> TAKE i \in OrderIds
    <3> HAVE reservedIoc'[i] > 0
    <3> HIDE DEF Order
    <3>1. CASE i = placed + 1
      <4>1. queued
        BY <3>1, <1>6
      <4>2. Order(s, n, TRUE) \in live'
        BY <4>1, <1>2
      <4> QED
        BY <3>1, <4>2, <1>5
    <3>2. CASE i # placed + 1
      BY <3>2, <1>2, <1>6 DEF ReservationInv, IocInv
    <3> QED
      BY <3>1, <3>2
  <2> QED
    BY <1>6, <2>1, <2>2 DEF IocInv
<1> QED
  BY <1>3, <1>4, <1>7 DEF ReservationInv

\* Every step keeps the reservations.
LEMMA ReservationStep == ReservationInv /\ [Next]_vars => ReservationInv'
<1> SUFFICES ASSUME ReservationInv, [Next]_vars PROVE ReservationInv'
  OBVIOUS
<1>1. CASE UNCHANGED vars
  BY <1>1, EngineUntouched DEF vars
<1>2. CASE Assess
  BY <1>2, EngineUntouched DEF Assess
<1>3. CASE ReadDirected \/ ReadUnread \/ ReadCash
  BY <1>3, EngineUntouched DEF ReadDirected, ReadUnread, ReadCash, NoCheck
<1>4. ASSUME NEW S \in SUBSET Slots, Refuse(S) PROVE ReservationInv'
  <2>1. UNCHANGED <<placed, live, reservedIoc>> /\ check' = NoCheck
    BY <1>4 DEF Refuse
  <2>2. SlotInv'
    BY <1>4, PullKeepsSlots DEF Refuse, ReservationInv
  <2> QED
    BY <2>1, <2>2 DEF ReservationInv, LiveInv, IocInv
<1>5. ASSUME NEW S \in SUBSET Slots, Pull(S) PROVE ReservationInv'
  <2>1. UNCHANGED <<placed, live, reservedIoc, check>>
    BY <1>5 DEF Pull
  <2>2. SlotInv'
    BY <1>5, PullKeepsSlots DEF Pull, ReservationInv
  <2> QED
    BY <2>1, <2>2 DEF ReservationInv, LiveInv, IocInv
<1>6. ASSUME NEW r \in Rels, NEW d \in Dirs, NEW n \in 1..Clip,
             \/ BookBasket(r, d, n) \/ BookUncharged(r, d, n)
             \/ SellBack(r, d, n) \/ SellBackBooked(r, d, n)
             \/ CloseLot(r, d, n)
      PROVE  ReservationInv'
  BY <1>6, EngineUntouched DEF BookBasket, BookUncharged, SellBack, SellBackBooked, CloseLot
<1>7. CASE Polling
  BY <1>7, EngineUntouched
     DEF Polling, LedgerRead, LedgerApply, BalanceAsk, BalanceFail, SetLiveCapital,
         HedgesRead, CashExpires
<1>8. CASE Restart
  <2>1. /\ placed' = placed /\ check' = NoCheck /\ live' = {}
        /\ quote' = [s \in Slots |-> NoQuote] /\ raced' = [s \in Slots |-> 0]
        /\ reserved' = [s \in Slots |-> 0] /\ reservedIoc' = [o \in OrderIds |-> 0]
    BY <1>8 DEF Restart, OrderIds
  <2> QED
    BY <2>1 DEF ReservationInv, LiveInv, SlotInv, IocInv, NoQuote, Less
<1>9. CASE Checking
  BY <1>9, <1>2, <1>3, <1>4, AllowQuoteKeeps, AllowIocKeeps DEF Checking
<1>10. CASE Trading
  BY <1>10, <1>5, <1>6, FillKeeps, FillIocKeeps, FinishIocKeeps DEF Trading
<1> QED
  BY <1>1, <1>7, <1>8, <1>9, <1>10 DEF Next

\* No quote that is gone keeps capital, none that rests goes without, and an
\* IOC is held for as long as, and for as much as, it may still fill.
THEOREM ReservationSafe == Spec => []ReservationIsTheQuote
<1>1. ReservationInv => ReservationIsTheQuote
  BY DEF ReservationInv, SlotInv, IocInv, ReservationIsTheQuote
<1> QED
  BY <1>1, ReservationInit, ReservationStep, PTL DEF Spec

-----------------------------------------------------------------------------
(* Sums of closes.                                                          *)

\* Closes have contracts, and there are finitely many of them.
Counted(cs) == IsFiniteSet(cs) /\ \A c \in cs : c.qty \in Nat

\* The contracts of some of them, by their count over all.
LEMMA ContractsIs ==
  ASSUME NEW cs, Counted(cs), NEW f, f = [c \in cs |-> c.qty]
  PROVE  /\ \A c \in cs : f[c] \in Nat
         /\ \A T \in SUBSET cs : /\ Contracts(T) = SumFunctionOnSet(f, T)
                                 /\ Contracts(T) \in Nat /\ IsFiniteSet(T)
<1>1. \A c \in cs : f[c] \in Nat
  BY DEF Counted
<1>2. ASSUME NEW T \in SUBSET cs
      PROVE  /\ Contracts(T) = SumFunctionOnSet(f, T)
             /\ Contracts(T) \in Nat /\ IsFiniteSet(T)
  <2> DEFINE g == [c \in T |-> c.qty]
  <2>1. IsFiniteSet(T)
    BY FS_Subset DEF Counted
  <2>2. \A c \in T : g[c] = f[c] /\ f[c] \in Nat
    BY <1>1
  <2>3. DOMAIN g = T /\ Contracts(T) = SumFunction(g)
    BY DEF Contracts
  <2> HIDE DEF g
  <2>4. Contracts(T) = SumFunctionOnSet(g, T)
    BY <2>3 DEF SumFunction
  <2>5. SumFunctionOnSet(g, T) = SumFunctionOnSet(f, T)
    BY <2>1, <2>2, SumSame
  <2>6. SumFunctionOnSet(f, T) \in Nat
    BY <2>1, <2>2, SumType
  <2> QED
    BY <2>1, <2>4, <2>5, <2>6
<1> QED
  BY <1>1, <1>2

\* No closes close nothing.
LEMMA NoContracts == Contracts({}) = 0
<1>1. Counted({})
  BY FS_EmptySet DEF Counted
<1>2. PICK f : f = [c \in {} |-> c.qty]
  OBVIOUS
<1>3. Contracts({}) = SumFunctionOnSet(f, {})
  BY <1>1, <1>2, ContractsIs
<1> QED
  BY <1>3, SumEmpty

\* One more close.
LEMMA ContractsAdd ==
  ASSUME NEW cs, Counted(cs), NEW c, c \notin cs, c.qty \in Nat
  PROVE  /\ Counted(cs \cup {c}) /\ Contracts(cs) \in Nat
         /\ Contracts(cs \cup {c}) = Contracts(cs) + c.qty
<1>1. Counted(cs \cup {c})
  BY FS_AddElement DEF Counted
<1>2. PICK f : f = [x \in cs \cup {c} |-> x.qty]
  OBVIOUS
<1>3. /\ \A x \in cs \cup {c} : f[x] \in Nat
      /\ Contracts(cs) = SumFunctionOnSet(f, cs) /\ Contracts(cs) \in Nat
      /\ Contracts(cs \cup {c}) = SumFunctionOnSet(f, cs \cup {c})
  BY <1>1, <1>2, ContractsIs
<1>4. f[c] = c.qty
  BY <1>2
<1>5. SumFunctionOnSet(f, cs \cup {c}) = SumFunctionOnSet(f, cs) + f[c]
  BY <1>3, SumAdd DEF Counted
<1> QED
  BY <1>1, <1>3, <1>4, <1>5

\* The closes of a set in two parts.
LEMMA ContractsSplit ==
  ASSUME NEW cs, Counted(cs), NEW T \in SUBSET cs
  PROVE  /\ Contracts(cs) = Contracts(T) + Contracts(cs \ T)
         /\ Contracts(T) \in Nat /\ Contracts(cs \ T) \in Nat
         /\ Contracts(T) <= Contracts(cs)
<1>1. PICK f : f = [x \in cs |-> x.qty]
  OBVIOUS
<1>2. /\ \A x \in cs : f[x] \in Nat
      /\ Contracts(cs) = SumFunctionOnSet(f, cs)
      /\ Contracts(T) = SumFunctionOnSet(f, T) /\ Contracts(T) \in Nat
      /\ Contracts(cs \ T) = SumFunctionOnSet(f, cs \ T) /\ Contracts(cs \ T) \in Nat
  BY <1>1, ContractsIs
<1>3. SumFunctionOnSet(f, cs) = SumFunctionOnSet(f, T) + SumFunctionOnSet(f, cs \ T)
  BY <1>2, SumSplit DEF Counted
<1> QED
  BY <1>2, <1>3

-----------------------------------------------------------------------------
(* The exposure, the directions and what a check has read of them.          *)

ByDir == [Rels -> [Dirs -> Nat]]

BookTyped ==
    /\ exposure \in [Rels -> Nat]
    /\ directed \in ByDir /\ owed \in ByDir /\ booked \in ByDir
    /\ uncharged \in [Rels -> Nat] /\ strays \in 0..MaxStrays

CashTyped ==
    /\ minted \in Nat
    /\ unread \subseteq 1..minted
    /\ cash \in {Unspendable} \cup 0..minted
    /\ balancePoll = Idle \/ balancePoll \in [at : {"asked", "half"}, before : 0..minted]

CheckTyped ==
    check \in [at : {"idle", "directed", "tails", "cash", "verdict"},
               exposure : [Rels -> Nat], directed : ByDir,
               unread : SUBSET (1..minted), cash : {Unspendable} \cup 0..minted]

\* Closes are told apart by their ts, and none is released that never was.
ClosesOK ==
    /\ IsFiniteSet(closes)
    /\ closes \subseteq [rel : Rels, ts : 1..Cardinality(closes), qty : Nat]
    /\ \A c, d \in closes : c.ts = d.ts => c = d
    /\ released \subseteq Keys(closes)

Of(cs, r) == {c \in cs : c.rel = r}

\* A reading of the ledger has every close that was released by then, and
\* what was open then is open still or closed since.
LedgerPollOK ==
    \/ ledgerPoll = Idle
    \/ /\ ledgerPoll \in [at : {"read", "half"}, open : ByDir, closes : SUBSET closes]
       /\ released \subseteq Keys(ledgerPoll.closes)
       /\ \A r \in Rels, d \in Dirs :
             ledgerPoll.open[r][d]
                 <= booked[r][d] + Contracts(Of(closes \ ledgerPoll.closes, r))
       /\ ledgerPoll.at = "half" => directed = ledgerPoll.open

\* So it is with the directions, and they never run ahead of the releases.
DirectedOK ==
    \A r \in Rels, d \in Dirs :
        directed[r][d] <= booked[r][d] + Contracts(Fresh(closes, r))

LedgerInv == BookTyped /\ ClosesOK /\ LedgerPollOK /\ DirectedOK /\ ExposureIsTheBook

\* While a check runs the exposure only falls, and nothing more is held but
\* what is opened uncharged.
CheckOK ==
    /\ check.at \in {"directed", "tails"} => \A r \in Rels : exposure[r] <= check.exposure[r]
    /\ check.at = "tails" =>
         \A r \in Rels : \A d, e \in Dirs : d # e =>
             booked[r][d] + owed[r][d] + check.directed[r][e]
                 <= check.exposure[r] + uncharged[r]

WeighInv == CheckTyped /\ CheckOK

GateInv == LedgerInv /\ CashTyped /\ WeighInv

\* No check has read anything.
LEMMA NoCheckTyped ==
  /\ NoCheck.at = "idle"
  /\ NoCheck \in [at : {"idle", "directed", "tails", "cash", "verdict"},
                  exposure : [Rels -> Nat], directed : ByDir,
                  unread : SUBSET (1..minted'), cash : {Unspendable} \cup 0..minted']
BY DEF NoCheck, Nowhere, Empty, ByDir

\* The closes of a relationship, and those of them not released.
LEMMA FreshCounted ==
  ASSUME ClosesOK
  PROVE  /\ Counted(closes)
         /\ \A r \in Rels : /\ Counted(Of(closes, r)) /\ Counted(Fresh(closes, r))
                            /\ Contracts(Fresh(closes, r)) \in Nat
         /\ \A r \in Rels, T \in SUBSET closes :
               Counted(Of(T, r)) /\ Contracts(Of(T, r)) \in Nat
<1>1. Counted(closes)
  BY DEF ClosesOK, Counted
<1>2. \A T \in SUBSET closes : Counted(T)
  BY <1>1, FS_Subset DEF Counted
<1>3. \A T \in SUBSET closes : Contracts(T) \in Nat
  <2> SUFFICES ASSUME NEW T \in SUBSET closes PROVE Contracts(T) \in Nat
    OBVIOUS
  <2> QED
    BY <1>1, ContractsSplit
<1>4. \A r : /\ Fresh(closes, r) \in SUBSET closes
             /\ \A T \in SUBSET closes : Of(T, r) \in SUBSET closes
  BY DEF Fresh, Of
<1> QED
  BY <1>1, <1>2, <1>3, <1>4

\* What is held of a relationship bounds each direction of it.
LEMMA TotalIs ==
  ASSUME NEW f \in [Dirs -> Nat]
  PROVE  /\ Total(f) \in Nat /\ \A d \in Dirs : f[d] \in Nat /\ f[d] <= Total(f)
         /\ \A d, e \in Dirs : d # e => Total(f) = f[d] + f[e]
BY DEF Total, Dirs

\* Steps that move neither figure, nor what the polls have read of them.
LEMMA LedgerSame ==
  ASSUME LedgerInv,
         UNCHANGED <<exposure, released, directed, owed, booked, closes, uncharged, strays,
                     ledgerPoll>>
  PROVE  LedgerInv'
BY DEF LedgerInv, BookTyped, ClosesOK, LedgerPollOK, DirectedOK, ExposureIsTheBook, OnTheBook,
   Fresh, Of, Keys, Key

\* A check that goes on while the figures fall, and nothing more is held but
\* what is opened uncharged.
LEMMA CheckFalls ==
  ASSUME BookTyped, BookTyped', CheckTyped, CheckOK, UNCHANGED check,
         \A r \in Rels : exposure'[r] <= exposure[r],
         \A r \in Rels, d \in Dirs :
            booked'[r][d] + owed'[r][d] + uncharged[r]
                <= booked[r][d] + owed[r][d] + uncharged'[r]
  PROVE  CheckOK'
<1>1. check.exposure \in [Rels -> Nat] /\ check.directed \in ByDir
  BY DEF CheckTyped
<1>2. ASSUME check.at \in {"directed", "tails"}, NEW r \in Rels
      PROVE  exposure'[r] <= check'.exposure[r]
  <2>1. exposure[r] <= check.exposure[r]
    BY <1>2 DEF CheckOK
  <2>2. exposure[r] \in Nat /\ exposure'[r] \in Nat /\ check.exposure[r] \in Nat
    BY <1>1 DEF BookTyped
  <2> QED
    BY <2>1, <2>2
<1>3. ASSUME check.at = "tails", NEW r \in Rels, NEW d \in Dirs, NEW e \in Dirs, d # e
      PROVE  booked'[r][d] + owed'[r][d] + check'.directed[r][e]
                 <= check'.exposure[r] + uncharged'[r]
  <2>1. booked[r][d] + owed[r][d] + check.directed[r][e] <= check.exposure[r] + uncharged[r]
    BY <1>3 DEF CheckOK
  <2>2. /\ booked[r][d] \in Nat /\ owed[r][d] \in Nat
        /\ booked'[r][d] \in Nat /\ owed'[r][d] \in Nat
        /\ uncharged[r] \in Nat /\ uncharged'[r] \in Nat
        /\ check.directed[r][e] \in Nat /\ check.exposure[r] \in Nat
    BY <1>1 DEF BookTyped, ByDir
  <2>3. booked'[r][d] + owed'[r][d] + uncharged[r]
            <= booked[r][d] + owed[r][d] + uncharged'[r]
    OBVIOUS
  <2> QED
    BY <2>1, <2>2, <2>3
<1> QED
  BY <1>2, <1>3 DEF CheckOK

\* No check runs.
LEMMA CheckIdle ==
  ASSUME check' = NoCheck PROVE CheckTyped' /\ CheckOK'
BY NoCheckTyped DEF CheckTyped, CheckOK, ByDir

\* One direction of one relationship changes.
Moved(f, g, r, d, v) == g = [f EXCEPT ![r][d] = v]

\* What becomes of the totals then.
Shifted(f, g, r, d, v) ==
  /\ g \in ByDir /\ g[r][d] = v
  /\ Total(f[r]) \in Nat /\ f[r][d] \in Nat /\ f[r][d] <= Total(f[r])
  /\ Total(g[r]) = Total(f[r]) - f[r][d] + v
  /\ \A q \in Rels : q # r => g[q] = f[q]
  /\ \A e \in Dirs : e # d => g[r][e] = f[r][e]

LEMMA DirMoves ==
  ASSUME NEW f \in ByDir, NEW r \in Rels, NEW d \in Dirs, NEW v \in Nat,
         NEW g, Moved(f, g, r, d, v)
  PROVE  Shifted(f, g, r, d, v)
<1>1. f[r] \in [Dirs -> Nat] /\ g[r] = [f[r] EXCEPT ![d] = v]
  BY DEF ByDir, Moved
<1>2. \A q \in Rels : q # r => g[q] = f[q]
  BY DEF ByDir, Moved
<1>3. g[r] \in [Dirs -> Nat] /\ g[r][d] = v /\ \A e \in Dirs : e # d => g[r][e] = f[r][e]
  BY <1>1
<1>4. g \in ByDir
  BY <1>2, <1>3 DEF ByDir, Moved
<1>5. Total(g[r]) = Total(f[r]) - f[r][d] + v
  BY <1>1, <1>3 DEF Total, Dirs
<1> QED
  BY <1>1, <1>2, <1>3, <1>4, <1>5, TotalIs DEF Shifted

\* An exposure e that says what is on the book b, but for u uncharged.
Agrees(e, b, u) == e <= b /\ b <= e + u

LEMMA BookAgrees ==
  ExposureIsTheBook <=>
      \A q \in Rels :
          Agrees(exposure[q], Total(booked[q]) + Total(owed[q]) + Contracts(Fresh(closes, q)),
                 uncharged[q])
BY DEF ExposureIsTheBook, OnTheBook, Agrees

\* So after a step.
LEMMA BookAgreesNext ==
  ASSUME \A q \in Rels :
            Agrees(exposure'[q],
                   Total(booked'[q]) + Total(owed'[q]) + Contracts(Fresh(closes, q)'),
                   uncharged'[q])
  PROVE  ExposureIsTheBook'
BY DEF ExposureIsTheBook, OnTheBook, Agrees

\* A fill opens exposure, and owes as much.
LEMMA BookingLedger ==
  ASSUME LedgerInv, NEW r \in Rels, NEW d \in Dirs, NEW n \in Nat,
         exposure' = [exposure EXCEPT ![r] = @ + n],
         Moved(owed, owed', r, d, owed[r][d] + n),
         UNCHANGED <<released, directed, booked, closes, uncharged, strays, ledgerPoll>>
  PROVE  LedgerInv'
<1>1. BookTyped /\ ClosesOK
  BY DEF LedgerInv
<1>2. PICK v \in Nat : v = owed[r][d] + n
  BY <1>1 DEF BookTyped, ByDir
<1>3. Moved(owed, owed', r, d, v) /\ owed \in ByDir
  BY <1>1, <1>2 DEF BookTyped, Moved
<1>4. /\ owed' \in ByDir /\ owed[r][d] \in Nat
      /\ Total(owed'[r]) = Total(owed[r]) - owed[r][d] + v
      /\ \A q \in Rels : q # r => owed'[q] = owed[q]
  <2>1. Shifted(owed, owed', r, d, v)
    BY <1>3, DirMoves, Zenon
  <2> QED
    BY <2>1, Zenon DEF Shifted
<1>5. /\ exposure' \in [Rels -> Nat] /\ exposure'[r] = exposure[r] + n
      /\ \A q \in Rels : q # r => exposure'[q] = exposure[q]
  BY <1>1 DEF BookTyped
<1>6. BookTyped'
  BY <1>1, <1>4, <1>5 DEF BookTyped
<1>7. ClosesOK' /\ LedgerPollOK' /\ DirectedOK'
  BY DEF LedgerInv, ClosesOK, LedgerPollOK, DirectedOK, Fresh, Of, Keys, Key
<1>8. \A q : Fresh(closes, q)' = Fresh(closes, q)
  BY DEF Fresh
<1>9. ASSUME NEW q \in Rels
      PROVE  Agrees(exposure'[q],
                    Total(booked'[q]) + Total(owed'[q]) + Contracts(Fresh(closes, q)'),
                    uncharged'[q])
  <2> USE DEF Agrees
  <2>1. /\ Agrees(exposure[q], Total(booked[q]) + Total(owed[q]) + Contracts(Fresh(closes, q)),
                  uncharged[q])
        /\ Contracts(Fresh(closes, q)) \in Nat
    BY <1>1, FreshCounted, BookAgrees DEF LedgerInv
  <2>2. /\ Total(booked[q]) \in Nat /\ Total(owed[q]) \in Nat
        /\ exposure[q] \in Nat /\ uncharged[q] \in Nat
    BY <1>1, TotalIs DEF BookTyped, ByDir
  <2>3. CASE q = r
    BY <1>2, <1>4, <1>5, <1>8, <2>1, <2>2, <2>3
  <2>4. CASE q # r
    BY <1>4, <1>5, <1>8, <2>1, <2>4
  <2> QED
    BY <2>3, <2>4
<1>10. ExposureIsTheBook'
  BY <1>9, BookAgreesNext
<1> QED
  BY <1>6, <1>7, <1>10 DEF LedgerInv

\* Directions that were within the book are within one that grows.
LEMMA DirectedGrows ==
  ASSUME BookTyped, ClosesOK, DirectedOK, UNCHANGED <<directed, closes>>,
         \A q : Fresh(closes, q)' = Fresh(closes, q),
         \A q \in Rels, e \in Dirs :
            booked[q][e] <= booked'[q][e] /\ booked[q][e] \in Nat /\ booked'[q][e] \in Nat
  PROVE  DirectedOK'
<1> SUFFICES ASSUME NEW q \in Rels, NEW e \in Dirs
             PROVE  directed[q][e] <= booked'[q][e] + Contracts(Fresh(closes, q))
  BY DEF DirectedOK
<1>1. directed[q][e] <= booked[q][e] + Contracts(Fresh(closes, q))
  BY DEF DirectedOK
<1>2. directed[q][e] \in Nat /\ Contracts(Fresh(closes, q)) \in Nat
  BY FreshCounted DEF BookTyped, ByDir
<1> QED
  BY <1>1, <1>2

\* And so is what the poll has read.
LEMMA PollGrows ==
  ASSUME ClosesOK, LedgerPollOK, UNCHANGED <<ledgerPoll, directed, released, closes>>,
         \A q \in Rels, e \in Dirs :
            booked[q][e] <= booked'[q][e] /\ booked[q][e] \in Nat /\ booked'[q][e] \in Nat
  PROVE  LedgerPollOK'
<1>1. CASE ledgerPoll = Idle
  BY <1>1 DEF LedgerPollOK
<1>2. CASE ledgerPoll # Idle
  <2>1. /\ ledgerPoll \in [at : {"read", "half"}, open : ByDir, closes : SUBSET closes]
        /\ released \subseteq Keys(ledgerPoll.closes)
        /\ ledgerPoll.at = "half" => directed = ledgerPoll.open
    BY <1>2 DEF LedgerPollOK
  <2>2. ASSUME NEW q \in Rels, NEW e \in Dirs
        PROVE  ledgerPoll.open[q][e]
                  <= booked'[q][e] + Contracts(Of(closes \ ledgerPoll.closes, q))
    <3>1. ledgerPoll.open[q][e]
              <= booked[q][e] + Contracts(Of(closes \ ledgerPoll.closes, q))
      BY <1>2 DEF LedgerPollOK
    <3>2. ledgerPoll.open[q][e] \in Nat
      BY <2>1 DEF ByDir
    <3>3. Contracts(Of(closes \ ledgerPoll.closes, q)) \in Nat
      BY <2>1, FreshCounted
    <3> QED
      BY <3>1, <3>2, <3>3
  <2> QED
    BY <2>1, <2>2 DEF LedgerPollOK, Of, Keys, Key
<1> QED
  BY <1>1, <1>2

\* A basket is booked of what was owed.
LEMMA BasketLedger ==
  ASSUME LedgerInv, NEW r \in Rels, NEW d \in Dirs, NEW n \in 1..Clip, BookBasket(r, d, n)
  PROVE  /\ LedgerInv' /\ UNCHANGED <<exposure, uncharged>>
         /\ \A q \in Rels, e \in Dirs :
               booked'[q][e] + owed'[q][e] = booked[q][e] + owed[q][e]
<1>1. BookTyped /\ ClosesOK /\ n \in Nat /\ n <= owed[r][d]
      /\ UNCHANGED <<exposure, released, directed, closes, uncharged, strays, ledgerPoll>>
  BY BoundAssumption DEF LedgerInv, BookBasket, bookVars, pollVars
<1>2. PICK v \in Nat, w \in Nat : v = owed[r][d] - n /\ w = booked[r][d] + n
  BY <1>1 DEF BookTyped, ByDir
<1>3. /\ Moved(owed, owed', r, d, v) /\ owed \in ByDir
      /\ Moved(booked, booked', r, d, w) /\ booked \in ByDir
  BY <1>1, <1>2 DEF BookTyped, BookBasket, Moved
<1>4. /\ owed' \in ByDir /\ owed[r][d] \in Nat /\ owed'[r][d] = v
      /\ Total(owed'[r]) = Total(owed[r]) - owed[r][d] + v
      /\ \A q \in Rels : q # r => owed'[q] = owed[q]
      /\ \A e \in Dirs : e # d => owed'[r][e] = owed[r][e]
  <2>1. Shifted(owed, owed', r, d, v)
    BY <1>3, DirMoves, Zenon
  <2> QED
    BY <2>1, Zenon DEF Shifted
<1>5. /\ booked' \in ByDir /\ booked[r][d] \in Nat /\ booked'[r][d] = w
      /\ Total(booked'[r]) = Total(booked[r]) - booked[r][d] + w
      /\ \A q \in Rels : q # r => booked'[q] = booked[q]
      /\ \A e \in Dirs : e # d => booked'[r][e] = booked[r][e]
  <2>1. Shifted(booked, booked', r, d, w)
    BY <1>3, DirMoves, Zenon
  <2> QED
    BY <2>1, Zenon DEF Shifted
<1>6. BookTyped'
  BY <1>1, <1>4, <1>5 DEF BookTyped
<1>7. ASSUME NEW q \in Rels, NEW e \in Dirs
      PROVE  /\ booked[q][e] <= booked'[q][e]
             /\ booked'[q][e] + owed'[q][e] = booked[q][e] + owed[q][e]
             /\ booked[q][e] \in Nat /\ booked'[q][e] \in Nat
  <2>1. booked[q][e] \in Nat /\ booked'[q][e] \in Nat /\ owed[q][e] \in Nat
    BY <1>1, <1>6 DEF BookTyped, ByDir
  <2>2. CASE q = r /\ e = d
    BY <1>1, <1>2, <1>4, <1>5, <2>1, <2>2
  <2>3. CASE ~(q = r /\ e = d)
    BY <1>4, <1>5, <2>1, <2>3
  <2> QED
    BY <2>2, <2>3
<1>8. ClosesOK' /\ \A q : Fresh(closes, q)' = Fresh(closes, q)
  BY <1>1 DEF ClosesOK, Fresh, Keys, Key
<1>9. DirectedOK'
  BY <1>1, <1>7, <1>8, DirectedGrows DEF LedgerInv
<1>10. LedgerPollOK'
  BY <1>1, <1>7, PollGrows DEF LedgerInv
<1>11. ASSUME NEW q \in Rels
       PROVE  Total(booked'[q]) + Total(owed'[q]) = Total(booked[q]) + Total(owed[q])
  <2>1. Total(booked[q]) \in Nat /\ Total(owed[q]) \in Nat
    BY <1>1, TotalIs DEF BookTyped, ByDir
  <2>2. CASE q = r
    BY <1>1, <1>2, <1>4, <1>5, <2>1, <2>2
  <2>3. CASE q # r
    BY <1>4, <1>5, <2>3
  <2> QED
    BY <2>2, <2>3
<1>12. ExposureIsTheBook'
  <2>1. \A q \in Rels : OnTheBook(q)' = OnTheBook(q)
    BY <1>8, <1>11 DEF OnTheBook
  <2> QED
    BY <1>1, <2>1 DEF LedgerInv, ExposureIsTheBook
<1> QED
  BY <1>1, <1>6, <1>7, <1>8, <1>9, <1>10, <1>12 DEF LedgerInv

\* What is sold back comes out of the exposure, which has it.
LEMMA SellBackLedger ==
  ASSUME LedgerInv, NEW r \in Rels, NEW d \in Dirs, NEW n \in 1..Clip, SellBack(r, d, n)
  PROVE  LedgerInv'
<1>1. BookTyped /\ ClosesOK /\ n \in Nat /\ n <= owed[r][d]
      /\ UNCHANGED <<booked, released, directed, closes, uncharged, strays, ledgerPoll>>
  BY BoundAssumption DEF LedgerInv, SellBack, pollVars
<1>2. PICK v \in Nat : v = owed[r][d] - n
  BY <1>1 DEF BookTyped, ByDir
<1>3. Moved(owed, owed', r, d, v) /\ owed \in ByDir
  BY <1>1, <1>2 DEF BookTyped, SellBack, Moved
<1>4. /\ owed' \in ByDir /\ owed[r][d] \in Nat /\ owed[r][d] <= Total(owed[r])
      /\ Total(owed'[r]) = Total(owed[r]) - owed[r][d] + v
      /\ \A q \in Rels : q # r => owed'[q] = owed[q]
  <2>1. Shifted(owed, owed', r, d, v)
    BY <1>3, DirMoves, Zenon
  <2> QED
    BY <2>1, Zenon DEF Shifted
<1>5. ASSUME NEW q \in Rels
      PROVE  /\ Agrees(exposure[q],
                       Total(booked[q]) + Total(owed[q]) + Contracts(Fresh(closes, q)),
                       uncharged[q])
             /\ Total(booked[q]) \in Nat /\ Total(owed[q]) \in Nat
             /\ exposure[q] \in Nat /\ uncharged[q] \in Nat
             /\ Contracts(Fresh(closes, q)) \in Nat
  BY <1>1, TotalIs, FreshCounted, BookAgrees DEF BookTyped, ByDir, LedgerInv
<1>6. /\ exposure'[r] = Less(exposure[r], n) /\ exposure' \in [Rels -> Nat]
      /\ \A q \in Rels : q # r => exposure'[q] = exposure[q]
  <2>1. exposure[r] \in Nat
    BY <1>5
  <2>2. Less(exposure[r], n) \in Nat
    BY <1>1, <2>1 DEF Less
  <2> QED
    BY <1>1, <2>2 DEF SellBack, BookTyped
<1>7. BookTyped'
  BY <1>1, <1>4, <1>6 DEF BookTyped
<1>8. ClosesOK' /\ LedgerPollOK' /\ DirectedOK' /\ \A q : Fresh(closes, q)' = Fresh(closes, q)
  BY <1>1 DEF LedgerInv, ClosesOK, LedgerPollOK, DirectedOK, Fresh, Of, Keys, Key
<1>9. ASSUME NEW q \in Rels
      PROVE  Agrees(exposure'[q],
                    Total(booked'[q]) + Total(owed'[q]) + Contracts(Fresh(closes, q)'),
                    uncharged'[q])
  <2>1. CASE q = r
    BY <1>1, <1>2, <1>4, <1>5, <1>6, <1>8, <2>1 DEF Less, Agrees
  <2>2. CASE q # r
    BY <1>1, <1>4, <1>5, <1>6, <1>8, <2>2
  <2> QED
    BY <2>1, <2>2
<1>10. ExposureIsTheBook'
  BY <1>9, BookAgreesNext
<1> QED
  BY <1>7, <1>8, <1>10 DEF LedgerInv

\* What is sold back though it is booked leaves the exposure that much short.
LEMMA SellBackBookedLedger ==
  ASSUME LedgerInv, NEW r \in Rels, NEW d \in Dirs, NEW n \in 1..Clip, SellBackBooked(r, d, n)
  PROVE  LedgerInv'
<1>1. BookTyped /\ ClosesOK /\ n \in Nat
      /\ UNCHANGED <<booked, owed, released, directed, closes, ledgerPoll>>
  BY BoundAssumption DEF LedgerInv, SellBackBooked, pollVars
<1>2. ASSUME NEW q \in Rels
      PROVE  /\ Agrees(exposure[q],
                       Total(booked[q]) + Total(owed[q]) + Contracts(Fresh(closes, q)),
                       uncharged[q])
             /\ Total(booked[q]) \in Nat /\ Total(owed[q]) \in Nat
             /\ exposure[q] \in Nat /\ uncharged[q] \in Nat
             /\ Contracts(Fresh(closes, q)) \in Nat
  BY <1>1, TotalIs, FreshCounted, BookAgrees DEF BookTyped, ByDir, LedgerInv
<1>3. /\ exposure'[r] = Less(exposure[r], n) /\ exposure' \in [Rels -> Nat]
      /\ \A q \in Rels : q # r => exposure'[q] = exposure[q]
  <2>1. Less(exposure[r], n) \in Nat
    BY <1>1, <1>2 DEF Less
  <2> QED
    BY <1>1, <2>1 DEF SellBackBooked, BookTyped
<1>4. /\ uncharged'[r] = uncharged[r] + n /\ uncharged' \in [Rels -> Nat]
      /\ strays' \in 0..MaxStrays
      /\ \A q \in Rels : q # r => uncharged'[q] = uncharged[q]
  BY <1>1, BoundAssumption DEF SellBackBooked, Stray, BookTyped
<1>5. BookTyped'
  BY <1>1, <1>3, <1>4 DEF BookTyped
<1>6. ClosesOK' /\ LedgerPollOK' /\ DirectedOK' /\ \A q : Fresh(closes, q)' = Fresh(closes, q)
  BY <1>1 DEF LedgerInv, ClosesOK, LedgerPollOK, DirectedOK, Fresh, Of, Keys, Key
<1>7. ASSUME NEW q \in Rels
      PROVE  Agrees(exposure'[q],
                    Total(booked'[q]) + Total(owed'[q]) + Contracts(Fresh(closes, q)'),
                    uncharged'[q])
  <2>1. /\ n <= Total(booked[q]) \/ q # r
        /\ Fresh(closes, q)' = Fresh(closes, q)
    <3>1. n <= booked[r][d]
      BY DEF SellBackBooked
    <3>2. booked[r][d] <= Total(booked[r]) /\ booked[r][d] \in Nat
      BY <1>1, TotalIs DEF BookTyped, ByDir
    <3> QED
      BY <1>1, <1>2, <1>6, <3>1, <3>2
  <2>2. CASE q = r
    BY <1>1, <1>2, <1>3, <1>4, <2>1, <2>2 DEF Less, Agrees
  <2>3. CASE q # r
    BY <1>1, <1>2, <1>3, <1>4, <2>1, <2>3
  <2> QED
    BY <2>2, <2>3
<1>8. ExposureIsTheBook'
  BY <1>7, BookAgreesNext
<1> QED
  BY <1>5, <1>6, <1>8 DEF LedgerInv

\* A basket that was charged to nobody: the book gains what is uncharged.
LEMMA UnchargedLedger ==
  ASSUME LedgerInv, NEW r \in Rels, NEW d \in Dirs, NEW n \in 1..Clip, BookUncharged(r, d, n)
  PROVE  /\ LedgerInv' /\ UNCHANGED exposure
         /\ \A q \in Rels, e \in Dirs :
               booked'[q][e] + owed'[q][e] + uncharged[q]
                   <= booked[q][e] + owed[q][e] + uncharged'[q]
<1>1. BookTyped /\ ClosesOK /\ n \in Nat
      /\ UNCHANGED <<exposure, owed, released, directed, closes, ledgerPoll>>
  BY BoundAssumption DEF LedgerInv, BookUncharged, bookVars, pollVars
<1>2. PICK w \in Nat : w = booked[r][d] + n
  BY <1>1 DEF BookTyped, ByDir
<1>3. Moved(booked, booked', r, d, w) /\ booked \in ByDir
  BY <1>1, <1>2 DEF BookTyped, BookUncharged, Moved
<1>4. /\ booked' \in ByDir /\ booked[r][d] \in Nat /\ booked'[r][d] = w
      /\ Total(booked'[r]) = Total(booked[r]) - booked[r][d] + w
      /\ \A q \in Rels : q # r => booked'[q] = booked[q]
      /\ \A e \in Dirs : e # d => booked'[r][e] = booked[r][e]
  <2>1. Shifted(booked, booked', r, d, w)
    BY <1>3, DirMoves, Zenon
  <2> QED
    BY <2>1, Zenon DEF Shifted
<1>5. /\ uncharged'[r] = uncharged[r] + n /\ uncharged' \in [Rels -> Nat]
      /\ strays' \in 0..MaxStrays
      /\ \A q \in Rels : q # r => uncharged'[q] = uncharged[q]
  BY <1>1, BoundAssumption DEF BookUncharged, Stray, BookTyped
<1>6. BookTyped'
  BY <1>1, <1>4, <1>5 DEF BookTyped
<1>7. ASSUME NEW q \in Rels, NEW e \in Dirs
      PROVE  /\ booked[q][e] <= booked'[q][e]
             /\ booked'[q][e] + owed'[q][e] + uncharged[q]
                    <= booked[q][e] + owed[q][e] + uncharged'[q]
             /\ booked[q][e] \in Nat /\ booked'[q][e] \in Nat
  <2>1. /\ booked[q][e] \in Nat /\ booked'[q][e] \in Nat /\ owed[q][e] \in Nat
        /\ uncharged[q] \in Nat
    BY <1>1, <1>6 DEF BookTyped, ByDir
  <2>2. CASE q = r /\ e = d
    BY <1>1, <1>2, <1>4, <1>5, <2>1, <2>2
  <2>3. CASE q = r /\ e # d
    BY <1>1, <1>4, <1>5, <2>1, <2>3
  <2>4. CASE q # r
    BY <1>1, <1>4, <1>5, <2>1, <2>4
  <2> QED
    BY <2>2, <2>3, <2>4
<1>8. ClosesOK' /\ \A q : Fresh(closes, q)' = Fresh(closes, q)
  BY <1>1 DEF ClosesOK, Fresh, Keys, Key
<1>9. DirectedOK'
  BY <1>1, <1>7, <1>8, DirectedGrows DEF LedgerInv
<1>10. LedgerPollOK'
  BY <1>1, <1>7, PollGrows DEF LedgerInv
<1>11. ASSUME NEW q \in Rels
       PROVE  Agrees(exposure'[q],
                     Total(booked'[q]) + Total(owed'[q]) + Contracts(Fresh(closes, q)'),
                     uncharged'[q])
  <2>1. /\ Agrees(exposure[q],
                  Total(booked[q]) + Total(owed[q]) + Contracts(Fresh(closes, q)),
                  uncharged[q])
        /\ Total(booked[q]) \in Nat /\ Total(owed[q]) \in Nat
        /\ exposure[q] \in Nat /\ uncharged[q] \in Nat
        /\ Contracts(Fresh(closes, q)) \in Nat
        /\ Fresh(closes, q)' = Fresh(closes, q)
    BY <1>1, <1>8, TotalIs, FreshCounted, BookAgrees DEF BookTyped, ByDir, LedgerInv
  <2>2. CASE q = r
    BY <1>1, <1>2, <1>4, <1>5, <2>1, <2>2 DEF Agrees
  <2>3. CASE q # r
    BY <1>1, <1>4, <1>5, <2>1, <2>3
  <2> QED
    BY <2>2, <2>3
<1>12. ExposureIsTheBook'
  BY <1>11, BookAgreesNext
<1> QED
  BY <1>1, <1>6, <1>7, <1>8, <1>9, <1>10, <1>12 DEF LedgerInv

\* A lot is closed: what the book loses, the closes not applied gain.
LEMMA CloseLotLedger ==
  ASSUME LedgerInv, NEW r \in Rels, NEW d \in Dirs, NEW n \in 1..Clip, CloseLot(r, d, n)
  PROVE  /\ LedgerInv' /\ UNCHANGED <<exposure, uncharged>>
         /\ \A q \in Rels, e \in Dirs :
               booked'[q][e] + owed'[q][e] <= booked[q][e] + owed[q][e]
<1>1. /\ BookTyped /\ ClosesOK /\ n \in Nat /\ n <= booked[r][d]
      /\ UNCHANGED <<exposure, released, directed, owed, uncharged, strays, ledgerPoll>>
  BY BoundAssumption DEF LedgerInv, CloseLot, bookVars, pollVars
<1>2. PICK v \in Nat : v = booked[r][d] - n
  BY <1>1 DEF BookTyped, ByDir
<1>3. Moved(booked, booked', r, d, v) /\ booked \in ByDir
  BY <1>1, <1>2 DEF BookTyped, CloseLot, Moved
<1>4. /\ booked' \in ByDir /\ booked[r][d] \in Nat /\ booked'[r][d] = v
      /\ Total(booked'[r]) = Total(booked[r]) - booked[r][d] + v
      /\ \A q \in Rels : q # r => booked'[q] = booked[q]
      /\ \A e \in Dirs : e # d => booked'[r][e] = booked[r][e]
  <2>1. Shifted(booked, booked', r, d, v)
    BY <1>3, DirMoves, Zenon
  <2> QED
    BY <2>1, Zenon DEF Shifted
<1>5. BookTyped'
  BY <1>1, <1>4 DEF BookTyped
<1>6. PICK k \in Nat : k = Cardinality(closes)
  BY <1>1, FS_CardinalityType DEF ClosesOK
<1>7. PICK c : c = [rel |-> r, ts |-> k + 1, qty |-> n]
  OBVIOUS
<1>8. /\ closes' = closes \cup {c} /\ c.rel = r /\ c.ts = k + 1 /\ c.qty = n /\ c.qty \in Nat
      /\ c \in [rel : Rels, ts : 1..(k + 1), qty : Nat]
  BY <1>1, <1>6, <1>7 DEF CloseLot
<1>9. \A x \in closes : x.ts \in 1..k /\ x \in [rel : Rels, ts : 1..(k + 1), qty : Nat]
  BY <1>1, <1>6 DEF ClosesOK
<1>10. c \notin closes
  BY <1>6, <1>8, <1>9
<1>11. IsFiniteSet(closes') /\ Cardinality(closes') = k + 1
  BY <1>1, <1>6, <1>8, <1>10, FS_AddElement DEF ClosesOK
<1>12. \A x, y \in closes' : x.ts = y.ts => x = y
  <2>1. \A x \in closes : x.ts # c.ts
    BY <1>6, <1>8, <1>9
  <2> QED
    BY <1>1, <1>8, <2>1 DEF ClosesOK
<1>13. ClosesOK'
  <2>1. closes' \subseteq [rel : Rels, ts : 1..Cardinality(closes'), qty : Nat]
    BY <1>8, <1>9, <1>11
  <2>2. released' \subseteq Keys(closes')
    BY <1>1, <1>8 DEF ClosesOK, Keys
  <2> QED
    BY <1>11, <1>12, <2>1, <2>2 DEF ClosesOK
<1>14. Key(c) \notin released
  <2>1. \A x \in closes : Key(x) # Key(c)
    BY <1>6, <1>8, <1>9 DEF Key
  <2> QED
    BY <1>1, <2>1 DEF ClosesOK, Keys
<1>15. /\ Fresh(closes', r) = Fresh(closes, r) \cup {c}
       /\ \A q \in Rels : q # r => Fresh(closes', q) = Fresh(closes, q)
       /\ \A q \in Rels : Fresh(closes, q)' = Fresh(closes', q)
  BY <1>1, <1>8, <1>14 DEF Fresh
<1>16. /\ Contracts(Fresh(closes', r)) = Contracts(Fresh(closes, r)) + n
       /\ Contracts(Fresh(closes, r)) \in Nat
  <2>1. Counted(Fresh(closes, r)) /\ c \notin Fresh(closes, r)
    BY <1>1, <1>10, FreshCounted DEF Fresh
  <2> QED
    BY <1>8, <1>15, <2>1, ContractsAdd
<1>17. ASSUME NEW q \in Rels
       PROVE  /\ Total(booked[q]) \in Nat /\ Total(owed[q]) \in Nat
              /\ Contracts(Fresh(closes, q)) \in Nat
  BY <1>1, TotalIs, FreshCounted DEF BookTyped, ByDir, LedgerInv
<1>18. ASSUME NEW q \in Rels
       PROVE  Total(booked'[q]) + Total(owed[q]) + Contracts(Fresh(closes', q))
                  = Total(booked[q]) + Total(owed[q]) + Contracts(Fresh(closes, q))
  <2>1. CASE q = r
    BY <1>1, <1>2, <1>4, <1>16, <1>17, <2>1
  <2>2. CASE q # r
    BY <1>4, <1>15, <1>17, <2>2
  <2> QED
    BY <2>1, <2>2
<1>19. ExposureIsTheBook'
  <2>1. \A q \in Rels : OnTheBook(q)' = OnTheBook(q)
    BY <1>1, <1>15, <1>18 DEF OnTheBook
  <2> QED
    BY <1>1, <2>1 DEF LedgerInv, ExposureIsTheBook
<1>20. DirectedOK'
  <2> SUFFICES ASSUME NEW q \in Rels, NEW e \in Dirs
               PROVE  directed[q][e] <= booked'[q][e] + Contracts(Fresh(closes', q))
    BY <1>1, <1>15 DEF DirectedOK
  <2>1. directed[q][e] <= booked[q][e] + Contracts(Fresh(closes, q))
    BY DEF LedgerInv, DirectedOK
  <2>2. /\ directed[q][e] \in Nat /\ Contracts(Fresh(closes, q)) \in Nat
        /\ booked[q][e] \in Nat
    BY <1>1, FreshCounted DEF BookTyped, ByDir
  <2>3. CASE q # r
    BY <1>4, <1>15, <2>1, <2>3
  <2>4. CASE q = r /\ e = d
    BY <1>2, <1>4, <1>16, <2>1, <2>2, <2>4
  <2>5. CASE q = r /\ e # d
    BY <1>1, <1>4, <1>16, <2>1, <2>2, <2>5
  <2> QED
    BY <2>3, <2>4, <2>5
<1>21. LedgerPollOK'
  <2>1. CASE ledgerPoll = Idle
    BY <1>1, <2>1 DEF LedgerPollOK
  <2>2. CASE ledgerPoll # Idle
    <3>1. /\ ledgerPoll \in [at : {"read", "half"}, open : ByDir, closes : SUBSET closes]
          /\ released \subseteq Keys(ledgerPoll.closes)
          /\ ledgerPoll.at = "half" => directed = ledgerPoll.open
      BY <2>2 DEF LedgerInv, LedgerPollOK
    <3>2. ledgerPoll \in [at : {"read", "half"}, open : ByDir, closes : SUBSET closes']
      BY <1>8, <3>1
    <3>3. PICK C \in SUBSET closes : C = ledgerPoll.closes
      BY <3>1
    <3>4. /\ Of(closes' \ C, r) = Of(closes \ C, r) \cup {c}
          /\ \A q \in Rels : q # r => Of(closes' \ C, q) = Of(closes \ C, q)
      BY <1>8, <1>10 DEF Of
    <3>5. closes \ C \in SUBSET closes
      OBVIOUS
    <3>6. /\ Contracts(Of(closes' \ C, r)) = Contracts(Of(closes \ C, r)) + n
          /\ Contracts(Of(closes \ C, r)) \in Nat
      <4>1. Counted(Of(closes \ C, r)) /\ c \notin Of(closes \ C, r)
        BY <1>1, <1>10, <3>5, FreshCounted DEF Of
      <4> QED
        BY <1>8, <3>4, <4>1, ContractsAdd
    <3>7. ASSUME NEW q \in Rels, NEW e \in Dirs
          PROVE  ledgerPoll.open[q][e] <= booked'[q][e] + Contracts(Of(closes' \ C, q))
      <4>1. ledgerPoll.open[q][e] <= booked[q][e] + Contracts(Of(closes \ C, q))
        BY <2>2, <3>3 DEF LedgerInv, LedgerPollOK
      <4>2. ledgerPoll.open[q][e] \in Nat /\ booked[q][e] \in Nat
        BY <1>1, <3>1 DEF BookTyped, ByDir
      <4>3. CASE q # r
        BY <1>4, <3>4, <4>1, <4>3
      <4>4. CASE q = r /\ e = d
        BY <1>2, <1>4, <3>6, <4>1, <4>2, <4>4
      <4>5. CASE q = r /\ e # d
        BY <1>1, <1>4, <3>6, <4>1, <4>2, <4>5
      <4> QED
        BY <4>3, <4>4, <4>5
    <3> QED
      BY <1>1, <3>1, <3>2, <3>3, <3>7 DEF LedgerPollOK, Of, Keys, Key
  <2> QED
    BY <2>1, <2>2
<1>22. ASSUME NEW q \in Rels, NEW e \in Dirs
       PROVE  booked'[q][e] + owed'[q][e] <= booked[q][e] + owed[q][e]
  <2>1. booked[q][e] \in Nat /\ owed[q][e] \in Nat
    BY <1>1 DEF BookTyped, ByDir
  <2>2. CASE q = r /\ e = d
    BY <1>1, <1>2, <1>4, <2>1, <2>2
  <2>3. CASE ~(q = r /\ e = d)
    BY <1>1, <1>4, <2>1, <2>3
  <2> QED
    BY <2>2, <2>3
<1> QED
  BY <1>1, <1>5, <1>13, <1>19, <1>20, <1>21, <1>22 DEF LedgerInv

\* The poll reads the ledger as it is.
LEMMA LedgerReadLedger ==
  ASSUME LedgerInv, LedgerRead
  PROVE  LedgerInv' /\ UNCHANGED <<exposure, booked, owed>>
<1>1. /\ BookTyped /\ ClosesOK /\ DirectedOK /\ ExposureIsTheBook
      /\ UNCHANGED <<exposure, released, directed, owed, booked, closes, uncharged, strays>>
  BY DEF LedgerInv, LedgerRead, bookVars, worldVars
<1>2. PICK p : p = [at |-> "read", open |-> booked, closes |-> closes]
  OBVIOUS
<1>3. /\ ledgerPoll' = p /\ p.at = "read" /\ p.open = booked /\ p.closes = closes
      /\ p \in [at : {"read", "half"}, open : ByDir, closes : SUBSET closes]
  BY <1>1, <1>2 DEF LedgerRead, BookTyped
<1>4. ASSUME NEW q \in Rels, NEW e \in Dirs
      PROVE  p.open[q][e] <= booked[q][e] + Contracts(Of(closes \ p.closes, q))
  <2>1. Of(closes \ p.closes, q) = {}
    BY <1>3 DEF Of
  <2>2. booked[q][e] \in Nat
    BY <1>1 DEF BookTyped, ByDir
  <2> QED
    BY <1>3, <2>1, <2>2, NoContracts
<1>5. released \subseteq Keys(p.closes)
  BY <1>1, <1>3 DEF ClosesOK
<1>6. LedgerPollOK'
  BY <1>1, <1>3, <1>4, <1>5 DEF LedgerPollOK
<1>7. BookTyped' /\ ClosesOK' /\ DirectedOK' /\ ExposureIsTheBook'
  BY <1>1 DEF BookTyped, ClosesOK, DirectedOK, ExposureIsTheBook, OnTheBook, Fresh, Keys, Key
<1> QED
  BY <1>1, <1>6, <1>7 DEF LedgerInv

\* A close that has not been read has not been released.
LEMMA UnreadIsFresh ==
  ASSUME ClosesOK, NEW C \in SUBSET closes, released \subseteq Keys(C), NEW r \in Rels
  PROVE  /\ Of(closes \ C, r) \in SUBSET Fresh(closes, r)
         /\ Fresh(closes, r) \ Of(closes \ C, r) = Fresh(C, r)
<1>1. ASSUME NEW c \in closes \ C PROVE Key(c) \notin Keys(C)
  <2>1. SUFFICES ASSUME NEW d \in C, Key(c) = Key(d) PROVE FALSE
    BY DEF Keys
  <2>2. c.ts = d.ts /\ c \in closes /\ d \in closes
    BY <2>1 DEF Key
  <2> QED
    BY <2>1, <2>2 DEF ClosesOK
<1> QED
  BY <1>1 DEF Of, Fresh

\* The first half: the directions are those of the reading.
LEMMA SetDirectedLedger ==
  ASSUME LedgerInv, ledgerPoll.at = "read", SetDirected,
         ledgerPoll' = [ledgerPoll EXCEPT !.at = "half"],
         UNCHANGED <<owed, booked, closes, uncharged, strays>>
  PROVE  LedgerInv'
<1>1. /\ BookTyped /\ ClosesOK /\ ExposureIsTheBook
      /\ UNCHANGED <<exposure, released, owed, booked, closes, uncharged, strays>>
  BY DEF LedgerInv, SetDirected
<1>2. ledgerPoll # Idle
  BY DEF Idle
<1>3. /\ ledgerPoll \in [at : {"read", "half"}, open : ByDir, closes : SUBSET closes]
      /\ released \subseteq Keys(ledgerPoll.closes)
      /\ \A r \in Rels, d \in Dirs :
            ledgerPoll.open[r][d]
                <= booked[r][d] + Contracts(Of(closes \ ledgerPoll.closes, r))
  BY <1>2 DEF LedgerInv, LedgerPollOK
<1>4. /\ ledgerPoll' \in [at : {"read", "half"}, open : ByDir, closes : SUBSET closes]
      /\ ledgerPoll'.open = ledgerPoll.open /\ ledgerPoll'.closes = ledgerPoll.closes
      /\ directed' = ledgerPoll.open
  BY <1>3 DEF SetDirected
<1>5. LedgerPollOK'
  BY <1>1, <1>3, <1>4 DEF LedgerPollOK, Of, Keys, Key
<1>6. \A q : Fresh(closes, q)' = Fresh(closes, q)
  BY <1>1 DEF Fresh
<1>7. DirectedOK'
  <2> SUFFICES ASSUME NEW q \in Rels, NEW e \in Dirs
               PROVE  ledgerPoll.open[q][e] <= booked[q][e] + Contracts(Fresh(closes, q))
    BY <1>1, <1>4, <1>6 DEF DirectedOK
  <2>1. PICK C \in SUBSET closes : C = ledgerPoll.closes
    BY <1>3
  <2>2. Of(closes \ C, q) \in SUBSET Fresh(closes, q)
    BY <1>1, <1>3, <2>1, UnreadIsFresh
  <2>3. Counted(Fresh(closes, q))
    BY <1>1, FreshCounted
  <2>4. /\ Contracts(Of(closes \ C, q)) <= Contracts(Fresh(closes, q))
        /\ Contracts(Of(closes \ C, q)) \in Nat /\ Contracts(Fresh(closes, q)) \in Nat
    <3>1. Contracts(Fresh(closes, q)) \in Nat
      BY <1>1, FreshCounted
    <3> QED
      BY <2>2, <2>3, <3>1, ContractsSplit
  <2>5. ledgerPoll.open[q][e] \in Nat /\ booked[q][e] \in Nat
    BY <1>1, <1>3 DEF BookTyped, ByDir
  <2>6. ledgerPoll.open[q][e] <= booked[q][e] + Contracts(Of(closes \ C, q))
    BY <1>3, <2>1
  <2> QED
    BY <2>4, <2>5, <2>6
<1>8. BookTyped' /\ ClosesOK' /\ ExposureIsTheBook'
  BY <1>1, <1>3, <1>4, <1>6 DEF BookTyped, ClosesOK, ExposureIsTheBook, OnTheBook, Keys, Key
<1> QED
  BY <1>5, <1>7, <1>8 DEF LedgerInv

\* The second half: what was read and not yet released is taken out, which
\* the exposure has.
LEMMA ReleaseLedger ==
  ASSUME LedgerInv, ledgerPoll.at = "half", ReleaseClosed, ledgerPoll' = Idle,
         UNCHANGED <<owed, booked, closes, uncharged, strays>>
  PROVE  LedgerInv' /\ \A r \in Rels : exposure'[r] <= exposure[r]
<1>1. /\ BookTyped /\ ClosesOK /\ ExposureIsTheBook
      /\ UNCHANGED <<directed, owed, booked, closes, uncharged, strays>>
  BY DEF LedgerInv, ReleaseClosed
<1>2. ledgerPoll # Idle
  BY DEF Idle
<1>3. PICK C \in SUBSET closes : C = ledgerPoll.closes
  BY <1>2 DEF LedgerInv, LedgerPollOK
<1>4. /\ released \subseteq Keys(C)
      /\ \A r \in Rels, d \in Dirs :
            directed[r][d] <= booked[r][d] + Contracts(Of(closes \ C, r))
  BY <1>2, <1>3 DEF LedgerInv, LedgerPollOK
<1>5. released' = Keys(C)
  BY <1>3, <1>4 DEF ReleaseClosed
<1>6. ASSUME NEW q \in Rels
      PROVE  Fresh(closes, q)' = Of(closes \ C, q)
  <2>1. ASSUME NEW c \in closes \ C PROVE Key(c) \notin Keys(C)
    <3>1. SUFFICES ASSUME NEW d \in C, Key(c) = Key(d) PROVE FALSE
      BY DEF Keys
    <3>2. c.ts = d.ts /\ c \in closes /\ d \in closes
      BY <3>1 DEF Key
    <3> QED
      BY <1>1, <3>1, <3>2 DEF ClosesOK
  <2>2. \A c \in C : Key(c) \in Keys(C)
    BY DEF Keys
  <2>3. Fresh(closes, q)' = {c \in closes : c.rel = q /\ Key(c) \notin Keys(C)}
    BY <1>1, <1>5 DEF Fresh
  <2> QED
    BY <2>1, <2>2, <2>3 DEF Of
<1>7. ASSUME NEW q \in Rels
      PROVE  /\ Contracts(Fresh(closes, q))
                  = Contracts(Of(closes \ C, q)) + Contracts(Fresh(C, q))
             /\ Contracts(Of(closes \ C, q)) \in Nat /\ Contracts(Fresh(C, q)) \in Nat
  <2>1. /\ Of(closes \ C, q) \in SUBSET Fresh(closes, q)
        /\ Fresh(closes, q) \ Of(closes \ C, q) = Fresh(C, q)
    BY <1>1, <1>4, UnreadIsFresh
  <2>2. Counted(Fresh(closes, q))
    BY <1>1, FreshCounted
  <2>3. /\ Contracts(Fresh(closes, q)) = Contracts(Of(closes \ C, q))
                + Contracts(Fresh(closes, q) \ Of(closes \ C, q))
        /\ Contracts(Of(closes \ C, q)) \in Nat
        /\ Contracts(Fresh(closes, q) \ Of(closes \ C, q)) \in Nat
    BY <2>1, <2>2, ContractsSplit
  <2> QED
    BY <2>1, <2>3
<1>8. ASSUME NEW q \in Rels
      PROVE  /\ Agrees(exposure'[q],
                       Total(booked[q]) + Total(owed[q]) + Contracts(Of(closes \ C, q)),
                       uncharged[q])
             /\ exposure'[q] \in Nat /\ exposure'[q] <= exposure[q]
  <2>1. Agrees(exposure[q], Total(booked[q]) + Total(owed[q]) + Contracts(Fresh(closes, q)),
               uncharged[q])
    BY <1>1, BookAgrees
  <2>2. Total(booked[q]) \in Nat /\ Total(owed[q]) \in Nat
    BY <1>1, TotalIs DEF BookTyped, ByDir
  <2>3. exposure'[q] = Less(exposure[q], Contracts(Fresh(C, q)))
    BY <1>3 DEF ReleaseClosed
  <2>4. PICK t \in Nat : t = Total(booked[q]) + Total(owed[q])
    BY <2>2
  <2>5. PICK m \in Nat : m = Contracts(Of(closes \ C, q))
    BY <1>7
  <2>6. PICK k \in Nat : k = Contracts(Fresh(C, q))
    BY <1>7
  <2>7. PICK x \in Nat, u \in Nat : x = exposure[q] /\ u = uncharged[q]
    BY <1>1 DEF BookTyped
  <2>8. Agrees(x, t + (m + k), u)
    BY <1>7, <2>1, <2>4, <2>5, <2>6, <2>7
  <2>9. Agrees(Less(x, k), t + m, u) /\ Less(x, k) \in Nat /\ Less(x, k) <= x
    BY <2>8 DEF Less, Agrees
  <2> QED
    BY <2>3, <2>4, <2>5, <2>6, <2>7, <2>9
<1>9. BookTyped'
  <2>1. exposure' = [q \in Rels |-> exposure'[q]]
    BY DEF ReleaseClosed
  <2> QED
    BY <1>1, <1>8, <2>1 DEF BookTyped
<1>10. ExposureIsTheBook'
  BY <1>1, <1>6, <1>8, BookAgreesNext
<1>11. DirectedOK'
  BY <1>1, <1>4, <1>6 DEF DirectedOK
<1>12. ClosesOK'
  BY <1>1, <1>5 DEF ClosesOK, Keys, Key
<1>13. LedgerPollOK'
  BY DEF LedgerPollOK
<1> QED
  BY <1>8, <1>9, <1>10, <1>11, <1>12, <1>13 DEF LedgerInv

\* The next run folds the ledger anew, and every close of it is in the fold.
LEMMA RestartLedger ==
  ASSUME LedgerInv, Restart PROVE LedgerInv'
<1>1. /\ BookTyped /\ ClosesOK /\ UNCHANGED <<owed, booked, closes, strays>>
      /\ uncharged' = [q \in Rels |-> 0]
      /\ exposure' = Seeded /\ released' = Keys(closes) /\ directed' = booked
      /\ ledgerPoll' = Idle
  BY DEF LedgerInv, Restart, worldVars, SeedReleased
<1>2. \A q : Fresh(closes, q)' = {}
  BY <1>1 DEF Fresh, Keys
<1>3. \A q \in Rels : Total(booked[q]) \in Nat /\ Total(owed[q]) \in Nat
  BY <1>1, TotalIs DEF BookTyped, ByDir
<1>4. BookTyped'
  BY <1>1, <1>3 DEF BookTyped, Seeded
<1>5. ExposureIsTheBook'
  <2> SUFFICES ASSUME NEW q \in Rels
               PROVE  Agrees(exposure'[q],
                             Total(booked'[q]) + Total(owed'[q]) + Contracts(Fresh(closes, q)'),
                             uncharged'[q])
    BY BookAgreesNext
  <2>1. PICK t \in Nat : t = Total(booked[q]) + Total(owed[q])
    BY <1>3
  <2>2. exposure'[q] = t /\ uncharged'[q] = 0 /\ Contracts(Fresh(closes, q)') = 0
    BY <1>1, <1>2, <2>1, NoContracts DEF Seeded
  <2>3. Total(booked'[q]) + Total(owed'[q]) = t
    BY <1>1, <2>1
  <2>4. Agrees(t, t + 0, 0)
    BY DEF Agrees
  <2> QED
    BY <2>2, <2>3, <2>4
<1>6. DirectedOK'
  <2> SUFFICES ASSUME NEW q \in Rels, NEW e \in Dirs
               PROVE  booked[q][e] <= booked[q][e] + 0
    BY <1>1, <1>2, NoContracts DEF DirectedOK
  <2> QED
    BY <1>1 DEF BookTyped, ByDir
<1>7. ClosesOK' /\ LedgerPollOK'
  BY <1>1 DEF ClosesOK, LedgerPollOK, Keys, Key
<1> QED
  BY <1>4, <1>5, <1>6, <1>7 DEF LedgerInv

\* The first run starts on the book it is given.
LEMMA LedgerInit ==
  ASSUME Init PROVE LedgerInv
<1>1. /\ owed = Nowhere /\ booked = Book /\ directed = Book /\ closes = {} /\ released = {}
      /\ ledgerPoll = Idle /\ exposure = [r \in Rels |-> Total(Book[r])]
      /\ uncharged = [r \in Rels |-> 0] /\ strays \in 0..MaxStrays
  BY BoundAssumption DEF Init
<1>2. Book \in ByDir /\ Nowhere \in ByDir
  BY SlotAssumption DEF ByDir, Nowhere, Empty
<1>3. \A q \in Rels : Total(Book[q]) \in Nat /\ Total(Nowhere[q]) = 0
  BY <1>2, TotalIs DEF ByDir, Nowhere, Empty, Total, Dirs
<1>4. \A q : Fresh(closes, q) = {}
  BY <1>1 DEF Fresh
<1>5. BookTyped
  BY <1>1, <1>2, <1>3 DEF BookTyped
<1>6. ExposureIsTheBook
  BY <1>1, <1>3, <1>4, NoContracts DEF ExposureIsTheBook, OnTheBook
<1>7. DirectedOK
  <2> SUFFICES ASSUME NEW q \in Rels, NEW e \in Dirs
               PROVE  Book[q][e] <= Book[q][e] + 0
    BY <1>1, <1>4, NoContracts DEF DirectedOK
  <2> QED
    BY <1>2 DEF ByDir
<1>8. ClosesOK /\ LedgerPollOK
  BY <1>1, FS_EmptySet DEF ClosesOK, LedgerPollOK, Keys
<1> QED
  BY <1>5, <1>6, <1>7, <1>8 DEF LedgerInv

\* Steps that move no figure, and leave a check no further than it may be.
LEMMA GateSame ==
  ASSUME GateInv, UNCHANGED <<bookVars, worldVars, ledgerPoll>>, CashTyped', CheckTyped',
         check'.at \in {"directed", "tails"} => UNCHANGED check
  PROVE  GateInv'
<1>1. LedgerInv'
  BY LedgerSame DEF GateInv, bookVars, worldVars
<1>2. CheckOK'
  BY DEF GateInv, WeighInv, CheckOK, bookVars, worldVars
<1> QED
  BY <1>1, <1>2 DEF GateInv, WeighInv

\* The engine's own steps, which end a check if one was running.
LEMMA GateEngine ==
  ASSUME GateInv, UNCHANGED <<bookVars, worldVars, cashVars, pollVars>>,
         UNCHANGED check \/ check' = NoCheck
  PROVE  GateInv'
<1>1. CashTyped'
  BY DEF GateInv, CashTyped, cashVars, pollVars
<1>2. CASE UNCHANGED check
  <2>1. CheckTyped'
    BY <1>2 DEF GateInv, WeighInv, CheckTyped, cashVars
  <2> QED
    BY <1>1, <1>2, <2>1, GateSame DEF pollVars
<1>3. CASE check' = NoCheck
  BY <1>1, <1>3, CheckIdle, GateSame, NoCheckTyped DEF pollVars
<1> QED
  BY <1>2, <1>3

\* The steps of a check.
LEMMA GateAssess == ASSUME GateInv, Assess PROVE GateInv'
<1>1. /\ UNCHANGED <<bookVars, worldVars, cashVars, pollVars>>
      /\ check' = [NoCheck EXCEPT !.at = "directed", !.exposure = exposure]
  BY DEF Assess
<1>2. LedgerInv' /\ CashTyped' /\ minted' = minted /\ exposure' = exposure
  BY <1>1, LedgerSame DEF GateInv, CashTyped, bookVars, worldVars, cashVars, pollVars
<1>3. exposure \in [Rels -> Nat]
  BY DEF GateInv, LedgerInv, BookTyped
<1>4. /\ check'.at = "directed" /\ check'.exposure = exposure
      /\ check' \in [at : {"idle", "directed", "tails", "cash", "verdict"},
                     exposure : [Rels -> Nat], directed : ByDir,
                     unread : SUBSET (1..minted'), cash : {Unspendable} \cup 0..minted']
  BY <1>1, <1>3, NoCheckTyped DEF NoCheck
<1>5. CheckTyped' /\ CheckOK'
  BY <1>2, <1>3, <1>4 DEF CheckTyped, CheckOK, ByDir
<1> QED
  BY <1>2, <1>5 DEF GateInv, WeighInv

\* The second lock: what is held one way and directed the other is within
\* the exposure, for the directions lag by no more than the closes waiting.
LEMMA GateReadDirected == ASSUME GateInv, ReadDirected PROVE GateInv'
<1>1. /\ UNCHANGED <<bookVars, worldVars, cashVars, pollVars>>
      /\ check.at = "directed"
      /\ check' = [check EXCEPT !.at = "tails", !.directed = directed]
  BY DEF ReadDirected
<1>2. /\ LedgerInv' /\ CashTyped' /\ minted' = minted
      /\ UNCHANGED <<exposure, directed, booked, owed, uncharged>>
  BY <1>1, LedgerSame DEF GateInv, CashTyped, bookVars, worldVars, cashVars, pollVars
<1>3. /\ BookTyped /\ ClosesOK /\ DirectedOK /\ ExposureIsTheBook /\ CheckTyped /\ CheckOK
  BY DEF GateInv, LedgerInv, WeighInv
<1>4. /\ check'.at = "tails" /\ check'.exposure = check.exposure /\ check'.directed = directed
      /\ check.exposure \in [Rels -> Nat]
      /\ check' \in [at : {"idle", "directed", "tails", "cash", "verdict"},
                     exposure : [Rels -> Nat], directed : ByDir,
                     unread : SUBSET (1..minted), cash : {Unspendable} \cup 0..minted]
  BY <1>1, <1>3 DEF CheckTyped, BookTyped
<1>5. CheckTyped'
  BY <1>2, <1>4 DEF CheckTyped
<1>6. \A r \in Rels : exposure[r] <= check.exposure[r]
  BY <1>1, <1>3 DEF CheckOK
<1>7. ASSUME NEW r \in Rels, NEW d \in Dirs, NEW e \in Dirs, d # e
      PROVE  booked[r][d] + owed[r][d] + directed[r][e] <= check.exposure[r] + uncharged[r]
  <2>1. /\ Total(booked[r]) = booked[r][d] + booked[r][e]
        /\ Total(owed[r]) = owed[r][d] + owed[r][e]
        /\ booked[r][d] \in Nat /\ booked[r][e] \in Nat
        /\ owed[r][d] \in Nat /\ owed[r][e] \in Nat
    BY <1>3, <1>7, TotalIs DEF BookTyped, ByDir
  <2>2. Contracts(Fresh(closes, r)) \in Nat
    BY <1>3, FreshCounted
  <2>3. /\ Total(booked[r]) + Total(owed[r]) + Contracts(Fresh(closes, r))
              <= exposure[r] + uncharged[r]
        /\ exposure[r] \in Nat /\ uncharged[r] \in Nat
    BY <1>3 DEF ExposureIsTheBook, OnTheBook, BookTyped
  <2>4. directed[r][e] <= booked[r][e] + Contracts(Fresh(closes, r)) /\ directed[r][e] \in Nat
    BY <1>3 DEF DirectedOK, BookTyped, ByDir
  <2>5. exposure[r] <= check.exposure[r] /\ check.exposure[r] \in Nat
    BY <1>4, <1>6
  <2> QED
    BY <2>1, <2>2, <2>3, <2>4, <2>5
<1>8. CheckOK'
  BY <1>2, <1>4, <1>6, <1>7 DEF CheckOK
<1> QED
  BY <1>2, <1>5, <1>8 DEF GateInv, WeighInv

\* The third and the fourth: the exposure has done its part.
LEMMA GateReadUnread == ASSUME GateInv, ReadUnread PROVE GateInv'
<1>1. /\ UNCHANGED <<bookVars, worldVars, cashVars, pollVars>>
      /\ check' = [NoCheck EXCEPT !.at = "cash", !.unread = unread]
  BY DEF ReadUnread
<1>2. CashTyped' /\ minted' = minted /\ unread \subseteq 1..minted'
  BY <1>1 DEF GateInv, CashTyped, cashVars, pollVars
<1>3. CheckTyped' /\ check'.at = "cash"
  BY <1>1, <1>2, NoCheckTyped DEF CheckTyped, ByDir
<1> QED
  BY <1>1, <1>2, <1>3, GateSame DEF pollVars

\* A check reads the cash after the hedges.
LEMMA GateReadCash == ASSUME GateInv, ReadCash PROVE GateInv'
<1>1. /\ UNCHANGED <<bookVars, worldVars, cashVars, pollVars>>
      /\ check' = [check EXCEPT !.at = "verdict", !.cash = cash]
  BY DEF ReadCash
<1>2. CashTyped' /\ minted' = minted /\ cash \in {Unspendable} \cup 0..minted
  BY <1>1 DEF GateInv, CashTyped, cashVars, pollVars
<1>3. CheckTyped' /\ check'.at = "verdict"
  BY <1>1, <1>2 DEF GateInv, WeighInv, CheckTyped
<1> QED
  BY <1>1, <1>2, <1>3, GateSame DEF pollVars

\* A fill: no check is running.
LEMMA GateBooking ==
  ASSUME GateInv, LiveInv, NEW o \in live, NEW n \in 1..Clip, NEW over, Booking(o, n, over),
         UNCHANGED <<released, directed, cash, booked, closes, uncharged, strays, pollVars,
                     check>>
  PROVE  GateInv'
<1>1. PICK r \in Rels, d \in Dirs : r = RelOf[o.slot] /\ d = DirOf[o.slot]
  BY SlotAssumption DEF LiveInv
<1>2. n \in Nat /\ LedgerInv /\ CashTyped
  BY BoundAssumption DEF GateInv
<1>3. /\ check' = NoCheck
      /\ exposure' = [exposure EXCEPT ![r] = @ + n]
      /\ owed' = [owed EXCEPT ![r][d] = @ + n]
      /\ minted' = minted + 1 /\ unread' = unread \cup {minted + 1}
      /\ UNCHANGED <<released, directed, booked, closes, uncharged, strays, ledgerPoll,
                     balancePoll, cash>>
  BY <1>1 DEF Booking, pollVars
<1>4. Moved(owed, owed', r, d, owed[r][d] + n)
  BY <1>2, <1>3 DEF Moved, LedgerInv, BookTyped, ByDir
<1>5. LedgerInv'
  BY <1>2, <1>3, <1>4, BookingLedger
<1>6. CashTyped'
  BY <1>2, <1>3 DEF CashTyped
<1>7. CheckTyped' /\ CheckOK'
  BY <1>3, CheckIdle
<1> QED
  BY <1>5, <1>6, <1>7 DEF GateInv, WeighInv

\* The books' own steps, under which a running check only reads too much.
LEMMA GateFalls ==
  ASSUME GateInv, LedgerInv', UNCHANGED <<cashVars, balancePoll, check>>,
         \A r \in Rels : exposure'[r] <= exposure[r],
         \A r \in Rels, d \in Dirs :
            booked'[r][d] + owed'[r][d] + uncharged[r]
                <= booked[r][d] + owed[r][d] + uncharged'[r]
  PROVE  GateInv'
<1>1. CashTyped' /\ CheckTyped'
  BY DEF GateInv, WeighInv, CashTyped, CheckTyped, cashVars
<1>2. BookTyped /\ BookTyped' /\ CheckTyped /\ CheckOK
  BY DEF GateInv, WeighInv, LedgerInv
<1>3. CheckOK'
  BY <1>2, CheckFalls
<1> QED
  BY <1>1, <1>3 DEF GateInv, WeighInv

\* An exposure left as it is does not grow.
LEMMA ExposureStays ==
  ASSUME GateInv PROVE \A r \in Rels : exposure[r] <= exposure[r]
<1>1. \A r \in Rels : exposure[r] \in Nat
  BY DEF GateInv, LedgerInv, BookTyped
<1>2. \A x \in Nat : x <= x
  OBVIOUS
<1> QED
  BY <1>1, <1>2

\* Nothing more is held, and nothing more is uncharged.
LEMMA NoMoreHeld ==
  ASSUME LedgerInv, LedgerInv', UNCHANGED uncharged,
         \A r \in Rels, d \in Dirs : booked'[r][d] + owed'[r][d] <= booked[r][d] + owed[r][d]
  PROVE  \A r \in Rels, d \in Dirs :
            booked'[r][d] + owed'[r][d] + uncharged[r]
                <= booked[r][d] + owed[r][d] + uncharged'[r]
<1> SUFFICES ASSUME NEW r \in Rels, NEW d \in Dirs
             PROVE  booked'[r][d] + owed'[r][d] + uncharged[r]
                        <= booked[r][d] + owed[r][d] + uncharged[r]
  OBVIOUS
<1>1. /\ booked[r][d] \in Nat /\ owed[r][d] \in Nat
      /\ booked'[r][d] \in Nat /\ owed'[r][d] \in Nat /\ uncharged[r] \in Nat
  BY DEF LedgerInv, BookTyped, ByDir
<1>2. booked'[r][d] + owed'[r][d] <= booked[r][d] + owed[r][d]
  OBVIOUS
<1> QED
  BY <1>1, <1>2

\* As much is held as was.
LEMMA AsMuchHeld ==
  ASSUME LedgerInv,
         \A r \in Rels, d \in Dirs : booked'[r][d] + owed'[r][d] = booked[r][d] + owed[r][d]
  PROVE  \A r \in Rels, d \in Dirs : booked'[r][d] + owed'[r][d] <= booked[r][d] + owed[r][d]
<1>1. \A r \in Rels, d \in Dirs : booked[r][d] \in Nat /\ owed[r][d] \in Nat
  BY DEF LedgerInv, BookTyped, ByDir
<1>2. \A x, y \in Nat : x + y <= x + y
  OBVIOUS
<1> QED
  BY <1>1, <1>2

\* A basket booked, an entry sold back, a lot closed.
LEMMA GateBooks ==
  ASSUME GateInv, NEW r \in Rels, NEW d \in Dirs, NEW n \in 1..Clip,
         \/ BookBasket(r, d, n) \/ BookUncharged(r, d, n)
         \/ SellBack(r, d, n) \/ SellBackBooked(r, d, n)
         \/ CloseLot(r, d, n)
  PROVE  GateInv'
<1>1. LedgerInv
  BY DEF GateInv
<1>2. CASE BookBasket(r, d, n)
  <2>1. /\ LedgerInv' /\ UNCHANGED <<exposure, uncharged, cashVars, balancePoll, check>>
        /\ \A q \in Rels, e \in Dirs :
              booked'[q][e] + owed'[q][e] = booked[q][e] + owed[q][e]
    BY <1>1, <1>2, BasketLedger DEF BookBasket, pollVars
  <2>2. \A q \in Rels, e \in Dirs :
              booked'[q][e] + owed'[q][e] + uncharged[q]
                  <= booked[q][e] + owed[q][e] + uncharged'[q]
    BY <1>1, <2>1, AsMuchHeld, NoMoreHeld
  <2>3. \A q \in Rels : exposure'[q] <= exposure[q]
    BY <2>1, ExposureStays
  <2> QED
    BY <2>1, <2>2, <2>3, GateFalls
<1>3. CASE CloseLot(r, d, n)
  <2>1. /\ LedgerInv' /\ UNCHANGED <<exposure, uncharged, cashVars, balancePoll, check>>
        /\ \A q \in Rels, e \in Dirs :
              booked'[q][e] + owed'[q][e] <= booked[q][e] + owed[q][e]
    BY <1>1, <1>3, CloseLotLedger DEF CloseLot, pollVars
  <2>2. \A q \in Rels, e \in Dirs :
              booked'[q][e] + owed'[q][e] + uncharged[q]
                  <= booked[q][e] + owed[q][e] + uncharged'[q]
    BY <1>1, <2>1, NoMoreHeld
  <2>3. \A q \in Rels : exposure'[q] <= exposure[q]
    BY <2>1, ExposureStays
  <2> QED
    BY <2>1, <2>2, <2>3, GateFalls
<1>4. CASE BookUncharged(r, d, n)
  <2>1. /\ LedgerInv' /\ UNCHANGED <<exposure, cashVars, balancePoll, check>>
        /\ \A q \in Rels, e \in Dirs :
              booked'[q][e] + owed'[q][e] + uncharged[q]
                  <= booked[q][e] + owed[q][e] + uncharged'[q]
    BY <1>1, <1>4, UnchargedLedger DEF BookUncharged, pollVars
  <2>2. \A q \in Rels : exposure'[q] <= exposure[q]
    BY <2>1, ExposureStays
  <2> QED
    BY <2>1, <2>2, GateFalls
<1>5. CASE SellBack(r, d, n) \/ SellBackBooked(r, d, n)
  <2>1. LedgerInv' /\ UNCHANGED <<cashVars, pollVars>> /\ check' = NoCheck
    BY <1>1, <1>5, SellBackLedger, SellBackBookedLedger DEF SellBack, SellBackBooked
  <2>2. CashTyped' /\ CheckTyped' /\ CheckOK'
    BY <2>1, CheckIdle DEF GateInv, CashTyped, cashVars, pollVars
  <2> QED
    BY <2>1, <2>2 DEF GateInv, WeighInv
<1> QED
  BY <1>2, <1>3, <1>4, <1>5

\* The ledger poll, read or applied.
LEMMA GateLedgerPoll == ASSUME GateInv, LedgerRead \/ LedgerApply PROVE GateInv'
<1>1. LedgerInv
  BY DEF GateInv
<1>2. UNCHANGED <<cashVars, balancePoll, check, owed, booked, closes, uncharged, strays>>
  BY DEF LedgerRead, LedgerApply, worldVars
<1>3. LedgerInv' /\ \A q \in Rels : exposure'[q] <= exposure[q]
  <2>1. CASE LedgerRead
    <3>1. LedgerInv' /\ UNCHANGED exposure
      BY <1>1, <2>1, LedgerReadLedger
    <3> QED
      BY <3>1, ExposureStays
  <2>2. CASE /\ ledgerPoll.at = "read" /\ SetDirected
             /\ ledgerPoll' = [ledgerPoll EXCEPT !.at = "half"]
    <3>1. LedgerInv' /\ UNCHANGED exposure
      BY <1>1, <1>2, <2>2, SetDirectedLedger DEF SetDirected
    <3> QED
      BY <3>1, ExposureStays
  <2>3. CASE ledgerPoll.at = "half" /\ ReleaseClosed /\ ledgerPoll' = Idle
    BY <1>1, <1>2, <2>3, ReleaseLedger
  <2> QED
    BY <2>1, <2>2, <2>3 DEF LedgerApply
<1>4. \A q \in Rels, e \in Dirs :
          booked'[q][e] + owed'[q][e] + uncharged[q]
              <= booked[q][e] + owed[q][e] + uncharged'[q]
  <2>1. \A q \in Rels, e \in Dirs : booked'[q][e] + owed'[q][e] = booked[q][e] + owed[q][e]
    BY <1>2
  <2> QED
    BY <1>1, <1>2, <1>3, <2>1, AsMuchHeld, NoMoreHeld
<1> QED
  BY <1>2, <1>3, <1>4, GateFalls

\* The balance poll moves the cash and the hedges no reading has shown.
LEMMA GateBalancePoll ==
  ASSUME GateInv, BalanceAsk \/ BalanceFail \/ SetLiveCapital \/ HedgesRead \/ CashExpires
  PROVE  GateInv'
<1>1. UNCHANGED <<bookVars, worldVars, ledgerPoll, check, minted>>
  BY DEF BalanceAsk, BalanceFail, SetLiveCapital, HedgesRead, CashExpires, cashVars, pollVars
<1>2. CashTyped /\ CheckTyped'
  BY <1>1 DEF GateInv, WeighInv, CheckTyped
<1>3. CashTyped'
  <2>1. CASE BalanceAsk
    BY <1>2, <2>1 DEF BalanceAsk, CashTyped, cashVars
  <2>2. CASE BalanceFail
    BY <1>2, <2>2 DEF BalanceFail, CashTyped, cashVars
  <2>3. CASE SetLiveCapital
    BY <1>2, <2>3 DEF SetLiveCapital, CashTyped, Idle
  <2>4. CASE HedgesRead
    BY <1>2, <2>4 DEF HedgesRead, CashTyped, StillUnread
  <2>5. CASE CashExpires
    BY <1>2, <2>5 DEF CashExpires, CashTyped, pollVars
  <2> QED
    BY <2>1, <2>2, <2>3, <2>4, <2>5
<1> QED
  BY <1>1, <1>2, <1>3, GateSame

\* A crash and the next run.
LEMMA GateRestart == ASSUME GateInv, Restart PROVE GateInv'
<1>1. LedgerInv'
  BY RestartLedger DEF GateInv
<1>2. /\ check' = NoCheck /\ minted' = minted /\ unread' = {} /\ cash' = Unspendable
      /\ balancePoll' = Idle
  BY DEF Restart
<1>3. CashTyped' /\ CheckTyped' /\ CheckOK'
  BY <1>2, CheckIdle DEF GateInv, CashTyped
<1> QED
  BY <1>1, <1>3 DEF GateInv, WeighInv

\* The figures agree at the start, and no check runs.
LEMMA GateInit == Init => GateInv
<1> SUFFICES ASSUME Init PROVE GateInv
  OBVIOUS
<1>1. LedgerInv
  BY LedgerInit
<1>2. check = NoCheck /\ minted = 0 /\ unread = {} /\ cash = Unspendable /\ balancePoll = Idle
  BY DEF Init
<1>3. CashTyped /\ CheckTyped /\ CheckOK
  BY <1>2 DEF CashTyped, CheckTyped, CheckOK, NoCheck, Nowhere, Empty, ByDir
<1> QED
  BY <1>1, <1>3 DEF GateInv, WeighInv

\* Every step keeps them; that a fill is of an order known is LiveInv's.
LEMMA GateStep == GateInv /\ ReservationInv /\ [Next]_vars => GateInv'
<1> SUFFICES ASSUME GateInv, ReservationInv, [Next]_vars PROVE GateInv'
  OBVIOUS
<1>1. CASE UNCHANGED vars
  BY <1>1, GateEngine DEF vars
<1>2. ASSUME NEW s \in Slots, NEW n \in 1..Clip, AllowQuote(s, n) PROVE GateInv'
  BY <1>2, GateEngine DEF AllowQuote
<1>3. ASSUME NEW s \in Slots, NEW n \in 1..Clip, NEW queued \in BOOLEAN,
             AllowIoc(s, n, queued)
      PROVE  GateInv'
  BY <1>3, GateEngine DEF AllowIoc
<1>4. ASSUME NEW S \in SUBSET Slots, Refuse(S) \/ Pull(S) PROVE GateInv'
  BY <1>4, GateEngine DEF Refuse, Pull
<1>5. ASSUME NEW o \in live, FinishIoc(o) PROVE GateInv'
  BY <1>5, GateEngine DEF FinishIoc
<1>6. ASSUME NEW o \in live, NEW n \in 1..Clip, NEW P, Fill(o, n, P) PROVE GateInv'
  BY <1>6, GateBooking DEF Fill, ReservationInv
<1>7. ASSUME NEW o \in live, NEW n \in 1..Clip, NEW over, NEW P, FillIoc(o, n, over, P)
      PROVE  GateInv'
  BY <1>7, GateBooking DEF FillIoc, ReservationInv
<1>8. CASE Checking
  BY <1>8, <1>2, <1>3, <1>4, GateAssess, GateReadDirected, GateReadUnread, GateReadCash
     DEF Checking
<1>9. CASE Trading
  BY <1>9, <1>4, <1>5, <1>6, <1>7, GateBooks DEF Trading
<1>10. CASE Polling
  BY <1>10, GateLedgerPoll, GateBalancePoll DEF Polling
<1>11. CASE Restart
  BY <1>11, GateRestart
<1> QED
  BY <1>1, <1>8, <1>9, <1>10, <1>11 DEF Next

\* The exposure is never more than the book with the closes the ledger poll has
\* yet to apply, and less only by what the ledger opened uncharged.
THEOREM ExposureSafe == Spec => []ExposureIsTheBook
<1>1. Init => GateInv /\ ReservationInv
  BY GateInit, ReservationInit
<1>2. GateInv /\ ReservationInv /\ [Next]_vars => (GateInv /\ ReservationInv)'
  BY GateStep, ReservationStep
<1>3. GateInv /\ ReservationInv => ExposureIsTheBook
  BY DEF GateInv, LedgerInv
<1> QED
  BY <1>1, <1>2, <1>3, PTL DEF Spec

\* Netting hides no more of what is held than was opened uncharged, whatever the
\* ledger poll writes between the two locks a check takes.
THEOREM NettingSafe == Spec => []NettingHidesNothing
<1>1. Init => GateInv /\ ReservationInv
  BY GateInit, ReservationInit
<1>2. GateInv /\ ReservationInv /\ [Next]_vars => (GateInv /\ ReservationInv)'
  BY GateStep, ReservationStep
<1>3. GateInv => NettingHidesNothing
  <2> SUFFICES ASSUME GateInv, check.at = "tails", NEW r \in Rels, NEW d \in Dirs
               PROVE  booked[r][d] + owed[r][d] <= Netted(r)[d] + Either(r) + uncharged[r]
    BY DEF NettingHidesNothing
  <2>1. BookTyped /\ ClosesOK /\ ExposureIsTheBook /\ CheckTyped /\ CheckOK
    BY DEF GateInv, LedgerInv, WeighInv
  <2>2. /\ check.exposure[r] \in Nat /\ check.directed[r] \in [Dirs -> Nat]
        /\ booked[r][d] \in Nat /\ owed[r][d] \in Nat /\ uncharged[r] \in Nat
    BY <2>1 DEF CheckTyped, BookTyped, ByDir
  <2>3. CASE Total(check.directed[r]) <= check.exposure[r]
    <3>1. PICK e \in Dirs : d # e
      BY DEF Dirs
    <3>2. booked[r][d] + owed[r][d] + check.directed[r][e] <= check.exposure[r] + uncharged[r]
      BY <2>1, <3>1 DEF CheckOK
    <3>3. /\ Total(check.directed[r]) = check.directed[r][d] + check.directed[r][e]
          /\ check.directed[r][d] \in Nat /\ check.directed[r][e] \in Nat
      BY <2>2, <3>1, TotalIs
    <3>4. Netted(r) = check.directed[r]
      BY <2>3 DEF Netted
    <3> QED
      BY <2>2, <3>2, <3>3, <3>4 DEF Either
  <2>4. CASE ~(Total(check.directed[r]) <= check.exposure[r])
    <3>1. exposure[r] <= check.exposure[r] /\ exposure[r] \in Nat
      BY <2>1 DEF CheckOK, BookTyped
    <3>2. /\ booked[r][d] <= Total(booked[r]) /\ owed[r][d] <= Total(owed[r])
          /\ Total(booked[r]) \in Nat /\ Total(owed[r]) \in Nat
      BY <2>1, TotalIs DEF BookTyped, ByDir
    <3>3. /\ Total(booked[r]) + Total(owed[r]) + Contracts(Fresh(closes, r))
                <= exposure[r] + uncharged[r]
          /\ Contracts(Fresh(closes, r)) \in Nat
      BY <2>1, FreshCounted DEF ExposureIsTheBook, OnTheBook
    <3>4. Netted(r) = Empty /\ Empty[d] = 0 /\ Total(Empty) = 0
      BY <2>4 DEF Netted, Empty, Total, Dirs
    <3>5. Netted(r)[d] + Either(r) = check.exposure[r]
      BY <2>2, <3>4 DEF Either
    <3> QED
      BY <2>2, <3>1, <3>2, <3>3, <3>5
  <2> QED
    BY <2>3, <2>4
<1> QED
  BY <1>1, <1>2, <1>3, PTL DEF Spec

-----------------------------------------------------------------------------
(* The types.                                                               *)

\* A quote rests an order that was placed, of no more than was asked for.
QuoteBound ==
    quote \in [Slots -> [order : 0..MaxOrders, left : 0..Clip]]

\* Every step keeps it: an order is numbered within the bound.
LEMMA BoundKept ==
  ASSUME QuoteBound, ReservationInv, [Next]_vars PROVE QuoteBound'
<1>1. ASSUME NEW q \in [Slots -> [order : 0..MaxOrders, left : 0..Clip]], NEW S,
             quote' = Unquoted(q, S)
      PROVE  QuoteBound'
  <2>1. NoQuote \in [order : 0..MaxOrders, left : 0..Clip]
    BY BoundAssumption DEF NoQuote
  <2> QED
    BY <1>1, <2>1 DEF QuoteBound, Unquoted
<1>2. ASSUME UNCHANGED quote PROVE QuoteBound'
  BY <1>2 DEF QuoteBound
<1>3. ASSUME NEW s \in Slots, NEW n \in 1..Clip, AllowQuote(s, n) PROVE QuoteBound'
  <2>1. placed + 1 \in 0..MaxOrders
    <3>1. check # NoCheck
      BY <1>3 DEF AllowQuote, Allowed, NoCheck
    <3>2. placed \in 0..MaxOrders /\ placed < MaxOrders
      BY <3>1 DEF ReservationInv, LiveInv
    <3> QED
      BY <3>2, BoundAssumption
  <2>2. n \in 0..Clip
    BY BoundAssumption
  <2>3. [order |-> placed + 1, left |-> n] \in [order : 0..MaxOrders, left : 0..Clip]
    BY <2>1, <2>2
  <2> QED
    BY <1>3, <2>3 DEF AllowQuote, QuoteBound
<1>4. ASSUME NEW s \in Slots, NEW n \in 1..Clip, NEW queued \in BOOLEAN,
             AllowIoc(s, n, queued)
      PROVE  QuoteBound'
  BY <1>2, <1>4 DEF AllowIoc
<1>5. ASSUME NEW S \in SUBSET Slots, Refuse(S) \/ Pull(S) PROVE QuoteBound'
  BY <1>1, <1>5 DEF Refuse, Pull, QuoteBound
<1>6. ASSUME NEW o \in live, FinishIoc(o) PROVE QuoteBound'
  BY <1>2, <1>6 DEF FinishIoc
<1>7. ASSUME NEW o \in live, NEW n \in 1..Clip, NEW P, Fill(o, n, P) PROVE QuoteBound'
  <2>1. Standing(o, n) \in [order : 0..MaxOrders, left : 0..Clip]
    <3>1. quote[o.slot] \in [order : 0..MaxOrders, left : 0..Clip]
      BY DEF QuoteBound, ReservationInv, LiveInv
    <3>2. PICK q \in [order : 0..MaxOrders, left : 0..Clip] : q = quote[o.slot]
      BY <3>1
    <3>3. n < q.left => [q EXCEPT !.left = @ - n] \in [order : 0..MaxOrders, left : 0..Clip]
      <4>1. ASSUME n < q.left PROVE q.left - n \in 0..Clip
        BY <4>1, BoundAssumption
      <4> QED
        BY <4>1
    <3>4. NoQuote \in [order : 0..MaxOrders, left : 0..Clip]
      BY BoundAssumption DEF NoQuote
    <3> QED
      BY <3>2, <3>3, <3>4 DEF Standing
  <2>2. [quote EXCEPT ![o.slot] = Standing(o, n)]
            \in [Slots -> [order : 0..MaxOrders, left : 0..Clip]]
    BY <2>1 DEF QuoteBound
  <2> QED
    BY <1>1, <1>7, <2>2 DEF Fill
<1>8. ASSUME NEW o \in live, NEW n \in 1..Clip, NEW over, NEW P, FillIoc(o, n, over, P)
      PROVE  QuoteBound'
  BY <1>1, <1>8 DEF FillIoc, QuoteBound
<1>9. CASE Checking
  BY <1>9, <1>2, <1>3, <1>4, <1>5
     DEF Checking, Assess, ReadDirected, ReadUnread, ReadCash, engineVars
<1>10. CASE Trading
  BY <1>10, <1>2, <1>5, <1>6, <1>7, <1>8
     DEF Trading, BookBasket, BookUncharged, SellBack, SellBackBooked, CloseLot, engineVars
<1>11. CASE Polling
  BY <1>11, <1>2 DEF Polling, LedgerRead, LedgerApply, BalanceAsk, BalanceFail,
     SetLiveCapital, HedgesRead, CashExpires, engineVars
<1>12. CASE Restart
  <2>1. quote' = Unquoted(quote, Slots)
    BY <1>12 DEF Restart, Unquoted
  <2> QED
    BY <1>1, <2>1 DEF QuoteBound
<1>13. CASE UNCHANGED vars
  BY <1>2, <1>13 DEF vars, engineVars
<1> QED
  BY <1>9, <1>10, <1>11, <1>12, <1>13 DEF Next

\* Every figure has its type, and every poll and every check holds what it
\* read: no reservation exceeds what an order may ask for.
THEOREM RiskTyped == Spec => []TypeOK
<1>1. Init => GateInv /\ ReservationInv /\ QuoteBound
  BY GateInit, ReservationInit, BoundAssumption DEF Init, QuoteBound, NoQuote
<1>2. GateInv /\ ReservationInv /\ QuoteBound /\ [Next]_vars
        => (GateInv /\ ReservationInv /\ QuoteBound)'
  BY GateStep, ReservationStep, BoundKept
<1>3. GateInv /\ ReservationInv /\ QuoteBound => TypeOK
  <2> SUFFICES ASSUME GateInv, ReservationInv, QuoteBound PROVE TypeOK
    OBVIOUS
  <2>1. reserved \in [Slots -> 0..Clip]
    <3>1. ASSUME NEW s \in Slots PROVE reserved[s] \in 0..Clip
      <4>1. /\ quote[s].left \in 0..Clip /\ raced[s] \in Nat
            /\ reserved[s] = Less(quote[s].left, raced[s])
        BY DEF QuoteBound, ReservationInv, SlotInv
      <4> QED
        BY <4>1, BoundAssumption DEF Less
    <3> QED
      BY <3>1 DEF ReservationInv, SlotInv
  <2>2. reservedIoc \in [OrderIds -> 0..Clip]
    <3>1. ASSUME NEW i \in OrderIds PROVE reservedIoc[i] \in 0..Clip
      <4>1. reservedIoc[i] \in Nat
        BY DEF ReservationInv, IocInv
      <4>2. CASE reservedIoc[i] = 0
        BY <4>2, BoundAssumption
      <4>3. CASE reservedIoc[i] > 0
        <5>1. PICK o \in live : o.id = i /\ o.ioc
          BY <4>3 DEF ReservationInv, IocInv
        <5>2. reservedIoc[i] = o.unheard /\ o.unheard \in 1..Clip
          BY <5>1 DEF ReservationInv, IocInv, LiveInv
        <5> QED
          BY <5>2, BoundAssumption
      <4> QED
        BY <4>1, <4>2, <4>3
    <3> QED
      BY <3>1 DEF ReservationInv, IocInv
  <2>3. /\ placed \in 0..MaxOrders /\ raced \in [Slots -> Nat]
        /\ live \subseteq [id : 1..placed, slot : Slots, ioc : BOOLEAN, unheard : 1..Clip]
    BY DEF ReservationInv, LiveInv, SlotInv
  <2> QED
    BY <2>1, <2>2, <2>3 DEF TypeOK, GateInv, LedgerInv, BookTyped, CashTyped, WeighInv,
       CheckTyped, QuoteBound, ByDir
<1> QED
  BY <1>1, <1>2, <1>3, PTL DEF Spec
=============================================================================
