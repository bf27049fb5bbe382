---------------------------- MODULE HedgeProofs ----------------------------
(* The safety theorems of Hedge, for every set of makers, every size and    *)
(* every bound on the ids.                                                  *)
EXTENDS Hedge, SumProofs, SequenceTheorems, TLAPS

-----------------------------------------------------------------------------
(* Facts about the helpers.                                                 *)

(* There are two venues, so the other one is a venue. *)
LEMMA OtherIsVenue == ASSUME NEW v \in Venues PROVE Other(v) \in Venues
  BY DEF Other, Venues

(* Least and Greatest of two counts are counts, and bound both. *)
LEMMA LeastGreatest ==
  ASSUME NEW a \in Int, NEW b \in Int
  PROVE  /\ Least(a, b) \in {a, b} /\ Least(a, b) <= a /\ Least(a, b) <= b
         /\ Greatest(a, b) \in {a, b} /\ Greatest(a, b) >= a /\ Greatest(a, b) >= b
  BY DEF Least, Greatest

(* A command names an id as its prior attempt, or none. *)
LEMMA SupersededIsKnown ==
  ASSUME TypeOK, NEW c \in Ids, NEW h \in Ids
  PROVE  Superseded(c, h) \in Ids \cup {0}
  BY DEF TypeOK, Superseded, Earlier

(* What a maker's stale, duplicate or inflated frame adds is a count. *)
LEMMA MakerDeltaType ==
  ASSUME TypeOK, NEW m \in Makers, NEW cum \in Nat
  PROVE  /\ MakerDelta(m, cum) \in Nat
         /\ MakerDelta(m, cum) > 0 => mcum[m] + MakerDelta(m, cum) <= cum
         /\ MakerDelta(m, cum) <= Size[m]
<1>1. PICK size \in Nat, told \in Nat : size = Size[m] /\ told = mcum[m]
  BY MakersAssumption DEF TypeOK
<1>2. MakerDelta(m, cum) = Greatest(Least(cum, size) - told, 0)
  BY <1>1, Zenon DEF MakerDelta
<1> QED
  BY <1>1, <1>2 DEF Least, Greatest

(* The credit of one hedge frame, and how it splits. *)
LEMMA CreditDeltaType ==
  ASSUME TypeOK, NEW h \in Ids, NEW cum \in Nat
  PROVE  /\ CreditDelta(h, cum) \in Nat
         /\ CreditDelta(h, cum) > 0 => ho[h].cum + CreditDelta(h, cum) <= cum
  BY DEF TypeOK, AttemptRecords, CreditDelta, Least, Greatest

(* Booking a credit keeps the books typed.                                  *)
LEMMA CreditBookType ==
  ASSUME TypeOK, NEW h \in Ids, NEW d \in Nat
  PROVE  /\ CreditBook(h, d) \in Nat
         /\ CreditBook(h, d) <= d
<1>1. PICK missing \in Int : missing = Missing(ho[h].chain)
  BY DEF TypeOK, AttemptRecords, Obligations, Missing
<1>2. CreditBook(h, d) = IF ho[h].chain \in pending THEN Least(d, Greatest(missing, 0)) ELSE 0
  BY <1>1, Zenon DEF CreditBook
<1> QED
  BY <1>1, <1>2 DEF Least, Greatest

-----------------------------------------------------------------------------
(* Type correctness.                                                        *)

(* A record keeps its type when one of its fields takes a value of its own. *)
LEMMA AttemptFields ==
  ASSUME NEW r \in AttemptRecords, NEW n \in Nat
  PROVE  [r EXCEPT !.cum = n] \in AttemptRecords
  BY DEF AttemptRecords

(* The type of an obligation, field by field.                               *)
LEMMA ObligationFields ==
  ASSUME NEW r \in Obligations
  PROVE  /\ \A n \in Nat : [r EXCEPT !.filled = n] \in Obligations
         /\ \A b \in BOOLEAN : [r EXCEPT !.parked = b] \in Obligations
         /\ \A b \in BOOLEAN : [r EXCEPT !.old = b] \in Obligations
         /\ \A b \in BOOLEAN : [r EXCEPT !.alarmed = b] \in Obligations
         /\ \A i \in 0..2 : [r EXCEPT !.sinceTry = i] \in Obligations
  BY DEF Obligations

(* The type of a hedge order, field by field.                               *)
LEMMA PlacedFields ==
  ASSUME NEW r \in Obligations, NEW l \in Ids
  PROVE  [r EXCEPT !.sinceTry = 0, !.latest = l] \in Obligations
  <1>1. [r EXCEPT !.sinceTry = 0] \in Obligations
    BY DEF Obligations
  <1>2. [[r EXCEPT !.sinceTry = 0] EXCEPT !.latest = l] \in Obligations
    BY <1>1 DEF Obligations
  <1>3. [r EXCEPT !.sinceTry = 0, !.latest = l] = [[r EXCEPT !.sinceTry = 0] EXCEPT !.latest = l]
    BY DEF Obligations
  <1>. QED BY <1>2, <1>3

(* Queueing a command keeps the queues' type. *)
LEMMA DispatchType ==
  ASSUME TypeOK, NEW v \in Venues, NEW cmd \in Cmds, Dispatch(v, cmd)
  PROVE  queue' \in [Venues -> Seq(Cmds)]
  <1>1. Append(queue[v], cmd) \in Seq(Cmds)
    BY DEF TypeOK
  <1>. QED BY <1>1 DEF Dispatch, TypeOK

(* Serving a command keeps the type of the queues and the channels. *)
LEMMA ServedType ==
  ASSUME TypeOK, NEW v \in Venues, queue[v] # <<>>, NEW msgs \in Seq(Msgs), Served(v, msgs)
  PROVE  queue' \in [Venues -> Seq(Cmds)] /\ chan' \in [Venues -> Seq(Msgs)]
  <1>1. queue[v] \in Seq(Cmds) /\ chan[v] \in Seq(Msgs)
    BY DEF TypeOK
  <1>2. Tail(queue[v]) \in Seq(Cmds)
    BY <1>1, HeadTailProperties
  <1>3. chan[v] \o msgs \in Seq(Msgs)
    BY <1>1, ConcatProperties
  <1>. QED BY <1>2, <1>3 DEF Served, TypeOK

(* The variables attribute_fill may change. *)
CreditedOK ==
    /\ mcum \in [Makers -> Nat]
    /\ dropped \in [Makers -> Nat]
    /\ nextHedge \in 0..MaxIds
    /\ pending \subseteq Ids
    /\ ob \in [Ids -> Obligations]
    /\ attempts \subseteq Ids
    /\ ho \in [Ids -> AttemptRecords]
    /\ queue \in [Venues -> Seq(Cmds)]
    /\ booked \in [Ids -> Nat]
    /\ extra \in [Ids -> Nat]

(* Crediting a hedge's fill keeps the types.                                *)
LEMMA CreditHedgeType ==
  ASSUME TypeOK, NEW h \in Ids, NEW cum \in Nat, CreditHedge(h, cum)
  PROVE  CreditedOK'
  <1>. DEFINE c == ho[h].chain
              d == CreditDelta(h, cum)
              b == CreditBook(h, d)
  <1>1. d \in Nat /\ b \in Nat /\ d - b \in Nat
    <2>1. d \in Nat
      BY CreditDeltaType
    <2>. HIDE DEF d
    <2>2. b \in Nat /\ b <= d
      BY <2>1, CreditBookType
    <2>. HIDE DEF b
    <2>. QED BY <2>1, <2>2
  <1>2. c \in Ids /\ ho[h].cum + d \in Nat
    BY <1>1 DEF TypeOK, AttemptRecords
  <1>3. ho' \in [Ids -> AttemptRecords]
    <2>. DEFINE r == [ho[h] EXCEPT !.cum = @ + d]
    <2>1. r \in AttemptRecords
      BY <1>2, AttemptFields DEF TypeOK
    <2>2. ho' = [ho EXCEPT ![h] = r]
      BY DEF CreditHedge
    <2>. QED BY <2>1, <2>2 DEF TypeOK
  <1>4. ob' \in [Ids -> Obligations]
    <2>. DEFINE r == [ob[c] EXCEPT !.filled = @ + d]
    <2>1. ob[c] \in Obligations /\ ob[c].filled + d \in Nat
      <3>1. ob[c] \in Obligations
        BY <1>2 DEF TypeOK
      <3>2. ob[c].filled \in Nat
        BY <3>1 DEF Obligations
      <3>. HIDE DEF c, d
      <3>. QED BY <1>1, <3>1, <3>2
    <2>3. r \in Obligations
      BY <2>1, ObligationFields
    <2>2. ob' = ob \/ ob' = [ob EXCEPT ![c] = r]
      BY DEF CreditHedge
    <2>. QED BY <2>3, <2>2, <1>2 DEF TypeOK
  <1>5. booked' \in [Ids -> Nat] /\ extra' \in [Ids -> Nat]
    <2>1. booked' = [booked EXCEPT ![c] = @ + b] /\ extra' = [extra EXCEPT ![c] = @ + (d - b)]
      BY DEF CreditHedge
    <2>2. booked \in [Ids -> Nat] /\ extra \in [Ids -> Nat]
      BY DEF TypeOK
    <2>. HIDE DEF c, d, b
    <2>3. booked[c] + b \in Nat /\ extra[c] + (d - b) \in Nat
      BY <1>1, <1>2, <2>2
    <2>. QED BY <1>2, <2>1, <2>2, <2>3
  <1>6. pending' \subseteq Ids
    BY DEF CreditHedge, TypeOK
  <1>. QED BY <1>3, <1>4, <1>5, <1>6 DEF CreditHedge, CreditedOK, TypeOK

(* Crediting a maker's fill keeps the types.                                *)
LEMMA CreditMakerType ==
  ASSUME TypeOK, NEW m \in Makers, NEW cum \in Nat, CreditMaker(m, cum)
  PROVE  CreditedOK'
  <1>. DEFINE d == MakerDelta(m, cum)
              h == nextHedge + 1
              v == Other(Home[m])
  <1>1. d \in Nat
    BY MakerDeltaType
  <1>2. mcum' \in [Makers -> Nat] /\ dropped' \in [Makers -> Nat]
    BY <1>1 DEF CreditMaker, TypeOK
  <1>3. booked' \in [Ids -> Nat] /\ extra' \in [Ids -> Nat]
    BY DEF CreditMaker, TypeOK
  <1>4. CASE ~(d > 0 /\ m \in anchored)
    BY <1>2, <1>3, <1>4 DEF CreditMaker, CreditedOK, TypeOK
  <1>5. CASE d > 0 /\ m \in anchored
    <2>1. MintAndPlace(m, d)
      BY <1>5 DEF CreditMaker
    <2>2. h \in Ids /\ nextHedge' \in 0..MaxIds /\ pending' \subseteq Ids
      BY <2>1, BoundAssumption DEF MintAndPlace, TypeOK, Ids
    <2>3. v \in Venues
      BY OtherIsVenue, MakersAssumption
    <2>4. ob' \in [Ids -> Obligations]
      <3>1. \A l \in {0, h} : Obligation(m, d, l) \in Obligations
        BY <1>1, <2>2 DEF Obligation, Obligations
      <3>. QED BY <2>1, <2>2, <3>1 DEF MintAndPlace, TypeOK
    <2>5. attempts' \subseteq Ids /\ ho' \in [Ids -> AttemptRecords]
      <3>1. Attempt(h, v, d, FALSE, {}) \in AttemptRecords
        BY <1>1, <2>2, <2>3 DEF Attempt, AttemptRecords
      <3>. QED BY <2>1, <2>2, <3>1 DEF MintAndPlace, TypeOK
    <2>6. Cmd(h, 0, 0) \in Cmds
      BY <2>2 DEF Cmd, Cmds
    <2>7. queue' \in [Venues -> Seq(Cmds)]
      BY <2>1, <2>3, <2>6, DispatchType DEF MintAndPlace, TypeOK
    <2>. QED BY <1>2, <1>3, <2>2, <2>4, <2>5, <2>7 DEF CreditedOK
  <1>. QED BY <1>4, <1>5

(* Crediting a fill of either kind keeps the types.                         *)
LEMMA CreditType ==
  ASSUME TypeOK, NEW o \in Orders, NEW cum \in Nat, Credit(o, cum)
  PROVE  CreditedOK'
  BY CreditHedgeType, CreditMakerType DEF Credit, Orders

(* Every step of Next is one of these, with arguments of their types. *)
LEMMA NextCases ==
  ASSUME TypeOK, Next
  PROVE  \/ \E m \in Makers : MakerTrades(m) \/ RecvMakerAck(m)
         \/ \E o \in Orders, cum \in Nat :
              cum <= vfilled[o] /\ (FillReported(o, cum) \/ FillHeld(o, cum))
         \/ \E o \in Orders : HeldFillExpires(o)
         \/ \E v \in Venues : RecvAck(v) \/ RecvFill(v) \/ RecvMarketHalted(v)
         \/ \E c \in Ids : \/ IntervalPasses(c) \/ HorizonPasses(c)
                          \/ ParkExpires(c) \/ TickWaits(c)
         \/ \E c \in Ids, sellBack \in BOOLEAN : TickPlaces(c, sellBack)
         \/ \E v \in Venues : ExecUnreadable(v) \/ ExecUnaccounted(v)
         \/ \E v \in Venues, halted \in BOOLEAN : ExecRefused(v, halted)
         \/ \E v \in Venues, filled \in Nat :
              queue[v] # <<>> /\ (ExecPlaces(v, filled) \/ ExecAnswerLost(v, filled))
  <1>1. \A o \in Orders : \A cum \in 1..vfilled[o] : cum \in Nat /\ cum <= vfilled[o]
    BY DEF TypeOK
  <1>2. \A v \in Venues : queue[v] # <<>> =>
          \A filled \in 0..ho[Head(queue[v]).oid].qty : filled \in Nat
    OBVIOUS
  <1>. QED BY <1>1, <1>2, Zenon DEF Next

(* The message at the head of a channel, and the channel without it. *)
LEMMA ChanHead ==
  ASSUME TypeOK, NEW v \in Venues, chan[v] # <<>>
  PROVE  /\ Head(chan[v]) \in Msgs
         /\ [chan EXCEPT ![v] = Tail(@)] \in [Venues -> Seq(Msgs)]
  <1>1. chan[v] \in Seq(Msgs)
    BY DEF TypeOK
  <1>2. Head(chan[v]) \in Msgs /\ Tail(chan[v]) \in Seq(Msgs)
    BY <1>1, HeadTailProperties
  <1>. QED BY <1>2 DEF TypeOK

(* The command at the head of a queue. *)
LEMMA QueueHead ==
  ASSUME TypeOK, NEW v \in Venues, queue[v] # <<>>
  PROVE  Head(queue[v]) \in Cmds
  <1>1. queue[v] \in Seq(Cmds)
    BY DEF TypeOK
  <1>. QED BY <1>1, HeadTailProperties

(* The initial states are typed: an engine that has seen no fill.           *)
THEOREM InitType == Init => TypeOK
  <1>. SUFFICES ASSUME Init PROVE TypeOK
    OBVIOUS
  <1>1. (CHOOSE m \in Makers : TRUE) \in Makers
    BY MakersAssumption
  <1>2. Obligation(CHOOSE m \in Makers : TRUE, 0, 0) \in Obligations
    BY <1>1 DEF Obligation, Obligations
  <1>3. \A h \in Ids : Attempt(h, "kalshi", 0, FALSE, {}) \in AttemptRecords
    BY DEF Attempt, AttemptRecords, Venues
  <1>4. ob \in [Ids -> Obligations] /\ ho \in [Ids -> AttemptRecords]
    BY <1>2, <1>3 DEF Init
  <1>5. queue \in [Venues -> Seq(Cmds)] /\ chan \in [Venues -> Seq(Msgs)]
    BY DEF Init
  <1>6. nextHedge \in 0..MaxIds
    BY BoundAssumption DEF Init
  <1>7. /\ vfilled \in [Orders -> Nat] /\ unclaimed \in [Orders -> Nat]
        /\ mcum \in [Makers -> Nat] /\ dropped \in [Makers -> Nat]
        /\ booked \in [Ids -> Nat] /\ extra \in [Ids -> Nat]
    BY DEF Init
  <1>8. /\ anchored \subseteq Makers /\ pending \subseteq Ids
        /\ attempts \subseteq Ids /\ named \subseteq Orders
    BY DEF Init
  <1>. QED BY <1>4, <1>5, <1>6, <1>7, <1>8 DEF TypeOK

(* on_order_ack keeps the types, with or without a fill to replay. *)
LEMMA AcknowledgedType ==
  ASSUME TypeOK, NEW o \in Orders, Acknowledged(o), chan' \in [Venues -> Seq(Msgs)]
  PROVE  TypeOK'
  <1>1. named' \subseteq Orders /\ unclaimed' \in [Orders -> Nat]
    BY DEF Acknowledged, TypeOK
  <1>2. CreditedOK'
    <2>1. CASE unclaimed[o] > 0
      <3>1. Credit(o, unclaimed[o]) /\ unclaimed[o] \in Nat
        BY <2>1 DEF Acknowledged, TypeOK
      <3>. QED BY <3>1, CreditType
    <2>2. CASE ~(unclaimed[o] > 0)
      BY <2>2 DEF Acknowledged, TypeOK, CreditedOK
    <2>. QED BY <2>1, <2>2
  <1>. QED BY <1>1, <1>2 DEF Acknowledged, TypeOK, CreditedOK

(* Every step of the engine, its venues and its executors keeps the types.  *)
THEOREM StepType == TypeOK /\ [Next]_vars => TypeOK'
  <1>. SUFFICES ASSUME TypeOK, [Next]_vars PROVE TypeOK'
    OBVIOUS
  <1>. USE DEF engineVars
  <1>1. ASSUME NEW m \in Makers, MakerTrades(m) PROVE TypeOK'
    BY <1>1 DEF MakerTrades, TypeOK, Orders
  <1>2. ASSUME NEW m \in Makers, RecvMakerAck(m) PROVE TypeOK'
    BY <1>2, AcknowledgedType DEF RecvMakerAck, TypeOK, Orders
  <1>3. ASSUME NEW o \in Orders, NEW cum \in Nat, FillReported(o, cum) PROVE TypeOK'
    BY <1>3, CreditType DEF FillReported, TypeOK, CreditedOK
  <1>4. ASSUME NEW o \in Orders, NEW cum \in Nat, FillHeld(o, cum) PROVE TypeOK'
    <2>1. unclaimed' \in [Orders -> Nat]
      BY <1>4, LeastGreatest DEF FillHeld, TypeOK, Greatest
    <2>. QED BY <1>4, <2>1 DEF FillHeld, TypeOK
  <1>5. ASSUME NEW o \in Orders, HeldFillExpires(o) PROVE TypeOK'
    BY <1>5 DEF HeldFillExpires, TypeOK
  <1>6. ASSUME NEW v \in Venues, RecvAck(v) PROVE TypeOK'
    <2>1. Head(chan[v]).oid \in Orders /\ chan' \in [Venues -> Seq(Msgs)]
      BY <1>6, ChanHead DEF RecvAck, Msgs, Orders
    <2>. QED BY <1>6, <2>1, AcknowledgedType DEF RecvAck
  <1>7. ASSUME NEW v \in Venues, RecvFill(v) PROVE TypeOK'
    <2>1. /\ Head(chan[v]).oid \in Orders /\ Head(chan[v]).cum \in Nat
          /\ chan' \in [Venues -> Seq(Msgs)]
      BY <1>7, ChanHead DEF RecvFill, Msgs, Orders
    <2>2. CreditedOK'
      BY <1>7, <2>1, CreditType DEF RecvFill
    <2>. QED BY <1>7, <2>1, <2>2 DEF RecvFill, TypeOK, CreditedOK
  <1>8. ASSUME NEW v \in Venues, RecvMarketHalted(v) PROVE TypeOK'
    <2>. DEFINE c == ho[Head(chan[v]).oid].chain
    <2>1. chan' \in [Venues -> Seq(Msgs)]
      BY <1>8, ChanHead DEF RecvMarketHalted
    <2>2. ob' = ob \/ (c \in pending /\ ob' = [ob EXCEPT ![c] = [ob[c] EXCEPT !.parked = TRUE]])
      BY <1>8 DEF RecvMarketHalted
    <2>3. c \in pending => [ob[c] EXCEPT !.parked = TRUE] \in Obligations
      BY ObligationFields DEF TypeOK
    <2>4. ob' \in [Ids -> Obligations]
      BY <2>2, <2>3 DEF TypeOK
    <2>. QED BY <1>8, <2>1, <2>4 DEF RecvMarketHalted, TypeOK
  <1>9. ASSUME NEW c \in Ids, NEW r \in Obligations, Clock(c, r) PROVE TypeOK'
    BY <1>9 DEF Clock, TypeOK
  <1>10. ASSUME NEW c \in Ids, IntervalPasses(c) PROVE TypeOK'
    <2>1. ob[c].sinceTry + 1 \in 0..2 /\ ob[c] \in Obligations
      BY <1>10 DEF IntervalPasses, TypeOK, Obligations
    <2>2. [ob[c] EXCEPT !.sinceTry = @ + 1] \in Obligations
      BY <2>1, ObligationFields
    <2>. QED BY <1>10, <2>2, <1>9 DEF IntervalPasses
  <1>11. ASSUME NEW c \in Ids, HorizonPasses(c) PROVE TypeOK'
    BY <1>11, <1>9, ObligationFields DEF HorizonPasses, TypeOK
  <1>12. ASSUME NEW c \in Ids, ParkExpires(c) PROVE TypeOK'
    BY <1>12, <1>9, ObligationFields DEF ParkExpires, TypeOK
  <1>13. ASSUME NEW c \in Ids PROVE Ticked(c) \in Obligations
    <2>1. ob[c] \in Obligations /\ (ob[c].alarmed \/ AlarmDue(c)) \in BOOLEAN
      BY DEF TypeOK
    <2>. QED BY <2>1, ObligationFields DEF Ticked
  <1>14. ASSUME NEW c \in Ids, TickWaits(c) PROVE TypeOK'
    BY <1>14, <1>13 DEF TickWaits, TypeOK
  <1>15. ASSUME NEW c \in Ids, NEW sellBack \in BOOLEAN, TickPlaces(c, sellBack) PROVE TypeOK'
    <2>. DEFINE h == nextHedge + 1
                v == IF sellBack THEN Home[ob[c].maker] ELSE Other(Home[ob[c].maker])
                p == Superseded(c, h)
    <2>1. h \in Ids /\ nextHedge' \in 0..MaxIds /\ attempts' \subseteq Ids
      BY <1>15, BoundAssumption DEF TickPlaces, TypeOK, Ids
    <2>2. v \in Venues
      BY MakersAssumption, OtherIsVenue DEF TypeOK, Obligations
    <2>3. ob' \in [Ids -> Obligations]
      <3>1. [Ticked(c) EXCEPT !.sinceTry = 0, !.latest = h] \in Obligations
        BY <1>13, <2>1, PlacedFields
      <3>. QED BY <1>15, <3>1 DEF TickPlaces, TypeOK
    <2>4. ho' \in [Ids -> AttemptRecords]
      <3>1. Missing(c) \in Nat
        BY <1>15 DEF TickPlaces, MayPlace, Missing, TypeOK, Obligations
      <3>2. Skipped(c, h) \subseteq Ids
        BY DEF Skipped, Earlier, TypeOK
      <3>3. Attempt(c, v, Missing(c), sellBack, Skipped(c, h)) \in AttemptRecords
        BY <2>2, <3>1, <3>2 DEF Attempt, AttemptRecords
      <3>. QED BY <1>15, <2>1, <3>3 DEF TickPlaces, TypeOK
    <2>5. queue' \in [Venues -> Seq(Cmds)]
      <3>1. p \in Ids \cup {0}
        BY <2>1, SupersededIsKnown
      <3>2. (IF p = 0 THEN 0 ELSE ho[p].cum) \in Nat
        BY <3>1 DEF TypeOK, AttemptRecords
      <3>3. Cmd(h, p, IF p = 0 THEN 0 ELSE ho[p].cum) \in Cmds
        BY <2>1, <3>1, <3>2 DEF Cmd, Cmds
      <3>. QED BY <1>15, <2>2, <3>3, DispatchType DEF TickPlaces
    <2>. QED BY <1>15, <2>1, <2>3, <2>4, <2>5 DEF TickPlaces, TypeOK
  <1>16. ASSUME NEW v \in Venues, ExecUnreadable(v) PROVE TypeOK'
    <2>1. <<>> \in Seq(Msgs)
      OBVIOUS
    <2>. QED BY <1>16, <2>1, ServedType DEF ExecUnreadable, Served, TypeOK
  <1>17. ASSUME NEW v \in Venues, ExecUnaccounted(v) PROVE TypeOK'
    <2>. DEFINE p == Head(queue[v]).prior
    <2>1. p \in Ids /\ vfilled[p] \in Nat
      BY <1>17, QueueHead DEF ExecUnaccounted, Accounted, Cmds, TypeOK, Orders
    <2>2. <<Msg("fill", p, vfilled[p])>> \in Seq(Msgs)
      BY <2>1 DEF Msg, Msgs
    <2>. QED BY <1>17, <2>2, ServedType DEF ExecUnaccounted, Served, TypeOK
  <1>18. ASSUME NEW v \in Venues, NEW halted \in BOOLEAN, ExecRefused(v, halted) PROVE TypeOK'
    <2>. DEFINE msgs == IF halted THEN <<Msg("market_halted", Head(queue[v]).oid, 0)>> ELSE <<>>
    <2>1. Head(queue[v]).oid \in Ids
      BY <1>18, QueueHead DEF ExecRefused, Cmds
    <2>2. msgs \in Seq(Msgs)
      <3>1. Msg("market_halted", Head(queue[v]).oid, 0) \in Msgs
        BY <2>1 DEF Msg, Msgs
      <3>. QED BY <3>1
    <2>. QED BY <1>18, <2>2, ServedType DEF ExecRefused, Served, TypeOK
  <1>19. ASSUME NEW v \in Venues, NEW filled \in Nat, queue[v] # <<>>,
                ExecPlaces(v, filled) \/ ExecAnswerLost(v, filled)
         PROVE  TypeOK'
    <2>. DEFINE h == Head(queue[v]).oid
    <2>1. h \in Ids
      BY <1>19, QueueHead DEF Cmds
    <2>2. vfilled' \in [Orders -> Nat]
      <3>1. vfilled' = [vfilled EXCEPT ![h] = @ + filled]
        BY <1>19 DEF ExecPlaces, ExecAnswerLost
      <3>. QED BY <3>1, <2>1 DEF TypeOK, Orders
    <2>3. <<Msg("order_ack", h, 0)>> \in Seq(Msgs) /\ <<>> \in Seq(Msgs)
      BY <2>1 DEF Msg, Msgs
    <2>. QED BY <1>19, <2>2, <2>3, ServedType DEF ExecPlaces, ExecAnswerLost, Served, TypeOK
  <1>20. CASE UNCHANGED vars
    BY <1>20 DEF vars, TypeOK
  <1>. QED
    BY NextCases, <1>1, <1>2, <1>3, <1>4, <1>5, <1>6, <1>7, <1>8, <1>10, <1>11, <1>12,
       <1>14, <1>15, <1>16, <1>17, <1>18, <1>19, <1>20

-----------------------------------------------------------------------------
(* The inductive invariant.                                                 *)

(* Steps that leave every obligation's two counts, the set of live ones and *)
(* the ledger alone keep what is said of them. *)
LEMMA SameObligations ==
  ASSUME IInv, pending' = pending, booked' = booked,
         \A e \in Ids : ob'[e].owed = ob[e].owed /\ ob'[e].filled = ob[e].filled
  PROVE  /\ Minted' = Minted
         /\ LedgerIsTheHedge' /\ NakedIsTracked'
         /\ pending' \subseteq Minted'
         /\ \A e \in Ids \ Minted' : booked'[e] = 0
  <1>1. Minted' = Minted
    BY DEF Minted
  <1>2. Minted \subseteq Ids
    BY DEF Minted
  <1>3. LedgerIsTheHedge' /\ NakedIsTracked'
    BY <1>1, <1>2 DEF IInv, LedgerIsTheHedge, NakedIsTracked
  <1>. QED BY <1>1, <1>3 DEF IInv, IdsAreFresh

(* What IInv says of the variables attribute_fill may change. *)
CreditedInv ==
    /\ IdsAreFresh
    /\ LedgerIsTheHedge
    /\ NakedIsTracked
    /\ \A m \in Makers : mcum[m] <= vfilled[m]
    /\ \A h \in attempts : ho[h].cum <= vfilled[h]

(* Crediting a hedge's fill keeps the invariant.                            *)
LEMMA CreditHedgeInv ==
  ASSUME IInv, NEW h \in Ids, NEW cum \in Nat, cum <= vfilled[h], CreditHedge(h, cum),
         vfilled' = vfilled
  PROVE  CreditedInv'
  <1>. DEFINE c == ho[h].chain
              d == CreditDelta(h, cum)
              b == CreditBook(h, d)
  <1>1. TypeOK /\ IdsAreFresh /\ LedgerIsTheHedge /\ NakedIsTracked /\ NeverAheadOfVenue
    BY DEF IInv
  <1>2. /\ d \in Nat /\ (d > 0 => ho[h].cum + d <= cum)
        /\ b \in Nat
    BY <1>1, CreditDeltaType, CreditBookType
  <1>3. c \in Ids /\ ob[c].owed \in Nat /\ ob[c].filled \in Nat /\ booked[c] \in Nat
    BY <1>1 DEF TypeOK, AttemptRecords, Obligations
  <1>4. mcum' = mcum /\ attempts' = attempts /\ nextHedge' = nextHedge
    BY DEF CreditHedge
  <1>5. \A g \in attempts' : ho'[g].cum <= vfilled'[g]
    <2>1. \A g \in Ids : ho'[g].cum = IF g = h THEN ho[g].cum + d ELSE ho[g].cum
      <3>. DEFINE r == [ho[h] EXCEPT !.cum = @ + d]
      <3>1. r.cum = ho[h].cum + d
        BY <1>1 DEF TypeOK, AttemptRecords
      <3>2. ho' = [ho EXCEPT ![h] = r]
        BY DEF CreditHedge
      <3>. HIDE DEF r
      <3>. QED BY <3>1, <3>2, <1>1 DEF TypeOK
    <2>2. \A g \in attempts : g \in Ids /\ ho[g].cum \in Nat /\ ho[g].cum <= vfilled[g] /\ vfilled[g] \in Nat
      BY <1>1 DEF TypeOK, NeverAheadOfVenue, AttemptRecords, Orders
    <2>3. h \in attempts => (IF d > 0 THEN ho[h].cum + d <= vfilled[h] ELSE ho[h].cum + d = ho[h].cum)
      BY <1>2, <2>2
    <2>. QED BY <2>1, <2>2, <2>3, <1>2, <1>4
  <1>6. CASE c \notin pending
    <2>1. b = 0
      BY <1>6 DEF CreditBook
    <2>2. booked' = booked
      BY <2>1, <1>1, <1>3 DEF CreditHedge, TypeOK
    <2>3. pending' = pending /\ ob' = ob
      BY <1>6 DEF CreditHedge, CreditDone
    <2>. QED BY <2>2, <2>3, <1>1, <1>4, <1>5, SameObligations
             DEF CreditedInv, IdsAreFresh, NeverAheadOfVenue
  <1>7. CASE c \in pending
    <2>1. c \in Minted /\ ob[c].filled < ob[c].owed /\ booked[c] = ob[c].filled
      <3>1. c \in Minted
        BY <1>1, <1>7 DEF IdsAreFresh
      <3>2. ob[c].filled < ob[c].owed
        BY <1>1, <1>7, <3>1 DEF NakedIsTracked
      <3>3. booked[c] = Least(ob[c].filled, ob[c].owed)
        BY <1>1, <3>1 DEF LedgerIsTheHedge
      <3>. QED BY <1>3, <3>1, <3>2, <3>3 DEF Least
    <2>2. \A e \in Ids : /\ ob'[e].owed = ob[e].owed
                        /\ ob'[e].filled = IF e = c THEN ob[e].filled + d ELSE ob[e].filled
      <3>. DEFINE r == [ob[c] EXCEPT !.filled = @ + d]
      <3>1. r.filled = ob[c].filled + d /\ r.owed = ob[c].owed
        BY <1>1, <1>3 DEF TypeOK, Obligations
      <3>2. ob' = [ob EXCEPT ![c] = r]
        BY <1>7 DEF CreditHedge
      <3>. HIDE DEF r
      <3>. QED BY <3>1, <3>2, <1>1, <1>3 DEF TypeOK
    <2>3. b = Least(d, ob[c].owed - ob[c].filled)
      BY <1>2, <1>3, <1>7, <2>1 DEF CreditBook, Missing, Greatest
    <2>4. \A e \in Ids : booked'[e] = IF e = c THEN booked[e] + b ELSE booked[e]
      BY <1>1, <1>3 DEF CreditHedge, TypeOK
    <2>5. booked'[c] = Least(ob'[c].filled, ob'[c].owed)
      BY <1>2, <1>3, <2>1, <2>2, <2>3, <2>4 DEF Least
    <2>6. pending' = IF ob[c].filled + d >= ob[c].owed THEN pending \ {c} ELSE pending
      BY <1>2, <1>3, <1>7, <2>1 DEF CreditHedge, CreditDone
    <2>7. Minted' = Minted
      BY <2>2 DEF Minted
    <2>8. LedgerIsTheHedge'
      BY <1>1, <2>2, <2>4, <2>5, <2>7 DEF LedgerIsTheHedge, Minted
    <2>9. NakedIsTracked'
      BY <1>1, <1>2, <1>3, <1>7, <2>1, <2>2, <2>6, <2>7 DEF NakedIsTracked, Minted
    <2>10. IdsAreFresh'
      BY <1>1, <1>4, <2>1, <2>4, <2>6, <2>7 DEF IdsAreFresh
    <2>. QED BY <1>1, <1>4, <1>5, <2>8, <2>9, <2>10 DEF CreditedInv, NeverAheadOfVenue
  <1>. QED BY <1>6, <1>7

(* A fresh obligation enters live, owing what it was minted for. *)
LEMMA MintInv ==
  ASSUME IInv, NEW m \in Makers, NEW q \in Nat, q > 0, MintAndPlace(m, q), booked' = booked
  PROVE  /\ IdsAreFresh' /\ LedgerIsTheHedge' /\ NakedIsTracked'
         /\ \A g \in attempts' : g \in Ids /\ (ho'[g].cum = 0 \/ (g \in attempts /\ ho'[g] = ho[g]))
  <1>. DEFINE h == nextHedge + 1
              v == Other(Home[m])
  <1>1. TypeOK /\ IdsAreFresh /\ LedgerIsTheHedge /\ NakedIsTracked
    BY DEF IInv
  <1>2. h \in Ids /\ nextHedge' = h /\ nextHedge \in Nat /\ pending' = pending \cup {h}
    BY <1>1 DEF MintAndPlace, TypeOK
  <1>3. h \notin Minted /\ h \notin attempts /\ h \notin pending
    BY <1>1, <1>2 DEF IdsAreFresh
  <1>4. PICK l \in {0, h} : ob' = [ob EXCEPT ![h] = Obligation(m, q, l)]
    BY DEF MintAndPlace
  <1>5. Obligation(m, q, l).owed = q /\ Obligation(m, q, l).filled = 0
    BY DEF Obligation
  <1>6. \A e \in Ids : /\ ob'[e].owed = IF e = h THEN q ELSE ob[e].owed
                      /\ ob'[e].filled = IF e = h THEN 0 ELSE ob[e].filled
    BY <1>1, <1>2, <1>4, <1>5 DEF TypeOK
  <1>7. Minted' = Minted \cup {h}
    BY <1>2, <1>6 DEF Minted
  <1>8. booked[h] = 0
    BY <1>1, <1>2, <1>3 DEF IdsAreFresh
  <1>9. LedgerIsTheHedge'
    BY <1>1, <1>2, <1>3, <1>6, <1>7, <1>8 DEF LedgerIsTheHedge, Least, Minted
  <1>10. NakedIsTracked'
    BY <1>1, <1>2, <1>3, <1>6, <1>7 DEF NakedIsTracked, Minted
  <1>11. attempts' \subseteq attempts \cup {h}
    BY DEF MintAndPlace
  <1>12. IdsAreFresh'
    BY <1>1, <1>2, <1>7, <1>11 DEF IdsAreFresh
  <1>13. ASSUME NEW g \in attempts'
         PROVE  g \in Ids /\ (ho'[g].cum = 0 \/ (g \in attempts /\ ho'[g] = ho[g]))
    <2>1. g \in Ids
      BY <1>1, <1>2, <1>11 DEF TypeOK
    <2>2. CASE ho' = ho /\ attempts' = attempts
      BY <2>1, <2>2
    <2>3. CASE ho' = [ho EXCEPT ![h] = Attempt(h, v, q, FALSE, {})]
      <3>1. Attempt(h, v, q, FALSE, {}).cum = 0
        BY DEF Attempt
      <3>. QED BY <1>1, <1>2, <1>11, <2>1, <2>3, <3>1 DEF TypeOK
    <2>. QED BY <2>2, <2>3 DEF MintAndPlace
  <1>. QED BY <1>9, <1>10, <1>12, <1>13

(* Crediting a maker's fill keeps the invariant.                            *)
LEMMA CreditMakerInv ==
  ASSUME IInv, NEW m \in Makers, NEW cum \in Nat, cum <= vfilled[m], CreditMaker(m, cum),
         vfilled' = vfilled
  PROVE  CreditedInv'
  <1>. DEFINE d == MakerDelta(m, cum)
  <1>1. TypeOK /\ NeverAheadOfVenue
    BY DEF IInv
  <1>2. d \in Nat /\ (d > 0 => mcum[m] + d <= cum)
    BY <1>1, MakerDeltaType
  <1>3. \A n \in Makers : mcum'[n] <= vfilled'[n]
    <2>1. \A n \in Makers : mcum'[n] = IF n = m THEN mcum[n] + d ELSE mcum[n]
      BY <1>1 DEF CreditMaker, TypeOK
    <2>2. \A n \in Makers : mcum[n] \in Nat /\ vfilled[n] \in Nat /\ mcum[n] <= vfilled[n]
      BY <1>1 DEF TypeOK, NeverAheadOfVenue, Orders
    <2>. QED BY <1>2, <2>1, <2>2
  <1>4. \A g \in attempts : g \in Ids /\ vfilled[g] \in Nat /\ ho[g].cum <= vfilled[g]
    BY <1>1 DEF TypeOK, NeverAheadOfVenue, Orders
  <1>5. booked' = booked
    BY DEF CreditMaker
  <1>6. CASE d > 0 /\ m \in anchored
    <2>1. MintAndPlace(m, d)
      BY <1>6 DEF CreditMaker
    <2>2. \A g \in attempts' : ho'[g].cum <= vfilled'[g]
      <3>1. \A g \in attempts' : vfilled[g] \in Nat
        BY <1>1, <1>2, <1>5, <1>6, <2>1, MintInv DEF TypeOK, Orders
      <3>. QED BY <1>2, <1>4, <1>5, <1>6, <2>1, <3>1, MintInv
    <2>. QED BY <1>2, <1>3, <1>5, <1>6, <2>1, <2>2, MintInv DEF CreditedInv
  <1>7. CASE ~(d > 0 /\ m \in anchored)
    <2>1. UNCHANGED <<nextHedge, pending, ob, attempts, ho>>
      BY <1>7 DEF CreditMaker
    <2>. QED BY <1>3, <1>4, <1>5, <2>1, SameObligations DEF CreditedInv, IInv, IdsAreFresh
  <1>. QED BY <1>6, <1>7

(* Crediting a fill of either kind keeps the invariant.                     *)
LEMMA CreditInv ==
  ASSUME IInv, NEW o \in Orders, NEW cum \in Nat, cum <= vfilled[o], Credit(o, cum),
         vfilled' = vfilled
  PROVE  CreditedInv'
  BY CreditHedgeInv, CreditMakerInv DEF Credit, Orders

(* The messages on their way to the engine say no more than the venue does. *)
TruthfulChannels ==
    \A v \in Venues : \A i \in 1..Len(chan[v]) : chan[v][i].cum <= vfilled[chan[v][i].oid]

(* Taking the head of a channel away, with the venues unmoved, leaves the   *)
(* rest truthful. *)
LEMMA TailTruthful ==
  ASSUME TypeOK, TruthfulChannels, NEW v \in Venues, chan[v] # <<>>,
         chan' = [chan EXCEPT ![v] = Tail(@)], vfilled' = vfilled
  PROVE  /\ TruthfulChannels'
         /\ Head(chan[v]).cum <= vfilled[Head(chan[v]).oid]
  <1>1. chan[v] \in Seq(Msgs)
    BY DEF TypeOK
  <1>2. /\ Len(Tail(chan[v])) = Len(chan[v]) - 1 /\ Len(chan[v]) \in Nat
        /\ \A i \in 1..Len(Tail(chan[v])) : Tail(chan[v])[i] = chan[v][i + 1]
    BY <1>1, HeadTailProperties, LenProperties
  <1>3. \A w \in Venues : chan'[w] = IF w = v THEN Tail(chan[v]) ELSE chan[w]
    BY DEF TypeOK
  <1>4. \A i \in 1..Len(Tail(chan[v])) : i + 1 \in 1..Len(chan[v])
    BY <1>2
  <1>5. 1 \in 1..Len(chan[v]) /\ Head(chan[v]) = chan[v][1]
    BY <1>1, EmptySeq
  <1>. QED BY <1>2, <1>3, <1>4, <1>5 DEF TruthfulChannels

(* So does adding truthful messages while the venues only fill more. *)
LEMMA ServedTruthful ==
  ASSUME TypeOK, TypeOK', TruthfulChannels, NEW v \in Venues, NEW msgs \in Seq(Msgs),
         Served(v, msgs), \A o \in Orders : vfilled[o] <= vfilled'[o],
         \A i \in 1..Len(msgs) : msgs[i].cum <= vfilled'[msgs[i].oid]
  PROVE  TruthfulChannels'
  <1>1. \A w \in Venues : chan[w] \in Seq(Msgs) /\ Len(chan[w]) \in Nat
    BY LenProperties DEF TypeOK
  <1>2. \A w \in Venues : chan'[w] = IF w = v THEN chan[v] \o msgs ELSE chan[w]
    BY DEF TypeOK, Served
  <1>3. /\ Len(chan[v] \o msgs) = Len(chan[v]) + Len(msgs) /\ Len(msgs) \in Nat
        /\ \A i \in 1..(Len(chan[v]) + Len(msgs)) : (chan[v] \o msgs)[i] =
              IF i <= Len(chan[v]) THEN chan[v][i] ELSE msgs[i - Len(chan[v])]
    BY <1>1, ConcatProperties, LenProperties
  <1>4. ASSUME NEW w \in Venues, NEW i \in 1..Len(chan[w])
        PROVE  chan[w][i].cum <= vfilled'[chan[w][i].oid]
    <2>1. chan[w][i] \in Msgs
      BY <1>1, ElementOfSeq
    <2>2. chan[w][i].cum \in Nat /\ chan[w][i].oid \in Orders
      BY <2>1 DEF Msgs, Orders
    <2>3. chan[w][i].cum <= vfilled[chan[w][i].oid]
      BY DEF TruthfulChannels
    <2>4. vfilled[chan[w][i].oid] \in Nat /\ vfilled'[chan[w][i].oid] \in Nat
      BY <2>2 DEF TypeOK
    <2>. QED BY <2>2, <2>3, <2>4
  <1>5. ASSUME NEW i \in 1..(Len(chan[v]) + Len(msgs))
        PROVE  (chan[v] \o msgs)[i].cum <= vfilled'[(chan[v] \o msgs)[i].oid]
    <2>1. CASE i <= Len(chan[v])
      BY <1>1, <1>3, <1>4, <2>1
    <2>2. CASE ~(i <= Len(chan[v]))
      <3>1. i - Len(chan[v]) \in 1..Len(msgs)
        BY <1>1, <1>3, <2>2
      <3>. QED BY <1>3, <2>2, <3>1
    <2>. QED BY <2>1, <2>2
  <1>. QED BY <1>2, <1>3, <1>4, <1>5 DEF TruthfulChannels

(* An ack, with the held fill it replays, keeps the invariant.              *)
LEMMA AcknowledgedInv ==
  ASSUME IInv, NEW o \in Orders, Acknowledged(o)
  PROVE  CreditedInv' /\ \A n \in Orders : unclaimed'[n] <= vfilled'[n]
  <1>1. vfilled' = vfilled /\ unclaimed' = [unclaimed EXCEPT ![o] = 0]
    BY DEF Acknowledged
  <1>2. \A n \in Orders : /\ unclaimed[n] \in Nat /\ vfilled[n] \in Nat
                         /\ unclaimed[n] <= vfilled[n]
    BY DEF IInv, TypeOK, NeverAheadOfVenue
  <1>3. \A n \in Orders : unclaimed'[n] <= vfilled'[n]
    BY <1>1, <1>2 DEF IInv, TypeOK
  <1>4. CASE unclaimed[o] > 0
    BY <1>1, <1>2, <1>3, <1>4, CreditInv DEF Acknowledged
  <1>5. CASE ~(unclaimed[o] > 0)
    <2>1. UNCHANGED <<mcum, nextHedge, pending, ob, attempts, ho, booked>>
      BY <1>5 DEF Acknowledged
    <2>. QED BY <1>1, <1>3, <2>1, SameObligations
             DEF CreditedInv, IInv, IdsAreFresh, NeverAheadOfVenue
  <1>. QED BY <1>3, <1>4, <1>5

(* IInv holds again once its parts do. *)
LEMMA Reassemble ==
  ASSUME TypeOK', CreditedInv', TruthfulChannels',
         \A n \in Orders : unclaimed'[n] <= vfilled'[n]
  PROVE  IInv'
  BY DEF IInv, CreditedInv, TruthfulChannels, NeverAheadOfVenue

(* A step of the venues or the executors leaves the engine's books alone. *)
LEMMA VenueStepInv ==
  ASSUME IInv, TypeOK', UNCHANGED engineVars, \A o \in Orders : vfilled[o] <= vfilled'[o]
  PROVE  CreditedInv' /\ \A n \in Orders : unclaimed'[n] <= vfilled'[n]
  <1>. USE DEF engineVars
  <1>1. LedgerIsTheHedge' /\ NakedIsTracked' /\ IdsAreFresh'
    BY SameObligations DEF IInv, IdsAreFresh
  <1>2. \A n \in Orders : vfilled[n] \in Nat /\ vfilled'[n] \in Nat
    BY DEF IInv, TypeOK
  <1>3. \A m \in Makers : mcum'[m] <= vfilled'[m]
    <2>1. \A m \in Makers : m \in Orders /\ mcum[m] \in Nat /\ mcum[m] <= vfilled[m]
      BY DEF IInv, TypeOK, NeverAheadOfVenue, Orders
    <2>. QED BY <1>2, <2>1
  <1>4. \A h \in attempts' : ho'[h].cum <= vfilled'[h]
    <2>1. \A h \in attempts : h \in Orders /\ ho[h].cum \in Nat /\ ho[h].cum <= vfilled[h]
      BY DEF IInv, TypeOK, NeverAheadOfVenue, Orders, AttemptRecords
    <2>. QED BY <1>2, <2>1
  <1>5. \A n \in Orders : unclaimed'[n] <= vfilled'[n]
    <2>1. \A n \in Orders : unclaimed[n] \in Nat /\ unclaimed[n] <= vfilled[n]
      BY DEF IInv, TypeOK, NeverAheadOfVenue
    <2>. QED BY <1>2, <2>1
  <1>. QED BY <1>1, <1>3, <1>4, <1>5 DEF CreditedInv

(* A step that leaves an obligation's counts alone leaves the books right. *)
LEMMA ClockStepInv ==
  ASSUME IInv, NEW c \in Ids, NEW r, ob' = [ob EXCEPT ![c] = r],
         r.owed = ob[c].owed, r.filled = ob[c].filled,
         UNCHANGED <<mcum, nextHedge, pending, attempts, ho, booked, vfilled>>
  PROVE  CreditedInv'
  <1>1. \A e \in Ids : ob'[e].owed = ob[e].owed /\ ob'[e].filled = ob[e].filled
    BY DEF IInv, TypeOK
  <1>. QED BY <1>1, SameObligations DEF CreditedInv, IInv, IdsAreFresh, NeverAheadOfVenue

(* The inductive invariant holds at the start and across every step. *)
THEOREM InitInv == Init => IInv
  <1>. SUFFICES ASSUME Init PROVE IInv
    OBVIOUS
  <1>1. TypeOK
    BY InitType
  <1>2. Minted = {}
    BY DEF Init, Minted, Obligation
  <1>3. \A v \in Venues : Len(chan[v]) = 0
    BY EmptySeq DEF Init
  <1>4. NeverAheadOfVenue
    BY <1>3 DEF Init, NeverAheadOfVenue, Orders
  <1>5. IdsAreFresh /\ LedgerIsTheHedge /\ NakedIsTracked
    BY <1>2 DEF Init, IdsAreFresh, LedgerIsTheHedge, NakedIsTracked
  <1>. QED BY <1>1, <1>4, <1>5 DEF IInv

(* Every step of the engine, its venues and its executors keeps the invariant. *)
THEOREM StepInv == IInv /\ [Next]_vars => IInv'
  <1>. SUFFICES ASSUME IInv, [Next]_vars PROVE IInv'
    OBVIOUS
  <1>a. TypeOK /\ TypeOK'
    BY StepType DEF IInv
  <1>b. TruthfulChannels
    BY DEF IInv, NeverAheadOfVenue, TruthfulChannels
  <1>c. \A o \in Orders : /\ vfilled[o] \in Nat /\ unclaimed[o] \in Nat
                         /\ unclaimed[o] <= vfilled[o]
    BY DEF IInv, TypeOK, NeverAheadOfVenue
  <1>d. ASSUME vfilled' = vfilled, chan' = chan PROVE TruthfulChannels'
    BY <1>b, <1>d DEF TruthfulChannels
  <1>e. ASSUME vfilled' = vfilled, unclaimed' = unclaimed
        PROVE  \A n \in Orders : unclaimed'[n] <= vfilled'[n]
    BY <1>c, <1>e
  <1>1. ASSUME NEW m \in Makers, MakerTrades(m) PROVE IInv'
    <2>1. \A o \in Orders : vfilled[o] <= vfilled'[o]
      BY <1>a, <1>1, <1>c DEF MakerTrades, TypeOK
    <2>2. UNCHANGED engineVars /\ chan' = chan
      BY <1>1 DEF MakerTrades
    <2>3. TruthfulChannels'
      <3>1. ASSUME NEW v \in Venues, NEW i \in 1..Len(chan[v])
            PROVE  chan[v][i].cum <= vfilled'[chan[v][i].oid]
        <4>1. chan[v][i] \in Msgs
          BY <1>a, ElementOfSeq DEF TypeOK
        <4>2. /\ chan[v][i].cum \in Nat /\ chan[v][i].oid \in Orders
              /\ chan[v][i].cum <= vfilled[chan[v][i].oid]
          BY <1>b, <4>1 DEF Msgs, Orders, TruthfulChannels
        <4>3. vfilled'[chan[v][i].oid] \in Nat
          BY <1>a, <4>2 DEF TypeOK
        <4>. QED BY <1>c, <2>1, <4>2, <4>3
      <3>. QED BY <2>2, <3>1 DEF TruthfulChannels
    <2>. QED BY <1>a, <2>1, <2>2, <2>3, VenueStepInv, Reassemble
  <1>2. ASSUME NEW m \in Makers, RecvMakerAck(m) PROVE IInv'
    <2>1. vfilled' = vfilled /\ chan' = chan /\ m \in Orders /\ Acknowledged(m)
      BY <1>2 DEF RecvMakerAck, Acknowledged, Orders
    <2>. QED BY <1>a, <1>d, <2>1, AcknowledgedInv, Reassemble
  <1>3. ASSUME NEW o \in Orders, NEW cum \in Nat, cum <= vfilled[o], FillReported(o, cum)
        PROVE  IInv'
    <2>1. vfilled' = vfilled /\ chan' = chan /\ unclaimed' = unclaimed /\ Credit(o, cum)
      BY <1>3 DEF FillReported
    <2>. QED BY <1>3, <1>a, <1>d, <1>e, <2>1, CreditInv, Reassemble
  <1>4. ASSUME NEW o \in Orders, NEW cum \in Nat, cum <= vfilled[o], FillHeld(o, cum)
        PROVE  IInv'
    <2>1. vfilled' = vfilled /\ chan' = chan
      BY <1>4 DEF FillHeld
    <2>2. \A n \in Orders : unclaimed'[n] <= vfilled'[n]
      BY <1>4, <1>a, <1>c, <2>1 DEF FillHeld, TypeOK, Greatest
    <2>3. CreditedInv'
      BY <1>4, <2>1, SameObligations
         DEF FillHeld, CreditedInv, IInv, IdsAreFresh, NeverAheadOfVenue
    <2>. QED BY <1>a, <1>d, <2>1, <2>2, <2>3, Reassemble
  <1>5. ASSUME NEW o \in Orders, HeldFillExpires(o) PROVE IInv'
    <2>1. vfilled' = vfilled /\ chan' = chan
      BY <1>5 DEF HeldFillExpires
    <2>2. \A n \in Orders : unclaimed'[n] <= vfilled'[n]
      BY <1>5, <1>a, <1>c, <2>1 DEF HeldFillExpires, TypeOK
    <2>3. CreditedInv'
      BY <1>5, <2>1, SameObligations
         DEF HeldFillExpires, CreditedInv, IInv, IdsAreFresh, NeverAheadOfVenue
    <2>. QED BY <1>a, <1>d, <2>1, <2>2, <2>3, Reassemble
  <1>6. ASSUME NEW v \in Venues, RecvAck(v) PROVE IInv'
    <2>1. /\ vfilled' = vfilled /\ chan[v] # <<>> /\ chan' = [chan EXCEPT ![v] = Tail(@)]
          /\ Acknowledged(Head(chan[v]).oid)
      BY <1>6 DEF RecvAck, Acknowledged
    <2>2. Head(chan[v]).oid \in Orders
      BY <1>a, <2>1, ChanHead DEF Msgs, Orders
    <2>3. TruthfulChannels'
      BY <1>a, <1>b, <2>1, TailTruthful
    <2>. QED BY <1>a, <2>1, <2>2, <2>3, AcknowledgedInv, Reassemble
  <1>7. ASSUME NEW v \in Venues, RecvFill(v) PROVE IInv'
    <2>1. /\ vfilled' = vfilled /\ chan[v] # <<>> /\ chan' = [chan EXCEPT ![v] = Tail(@)]
          /\ Credit(Head(chan[v]).oid, Head(chan[v]).cum) /\ unclaimed' = unclaimed
      BY <1>7 DEF RecvFill
    <2>2. Head(chan[v]).oid \in Orders /\ Head(chan[v]).cum \in Nat
      BY <1>a, <2>1, ChanHead DEF Msgs, Orders
    <2>3. TruthfulChannels' /\ Head(chan[v]).cum <= vfilled[Head(chan[v]).oid]
      BY <1>a, <1>b, <2>1, TailTruthful
    <2>. QED BY <1>a, <1>e, <2>1, <2>2, <2>3, CreditInv, Reassemble
  <1>8. ASSUME NEW v \in Venues, RecvMarketHalted(v) PROVE IInv'
    <2>. DEFINE c == ho[Head(chan[v]).oid].chain
    <2>1. /\ vfilled' = vfilled /\ chan[v] # <<>> /\ chan' = [chan EXCEPT ![v] = Tail(@)]
          /\ unclaimed' = unclaimed
          /\ UNCHANGED <<mcum, nextHedge, pending, attempts, ho, booked>>
      BY <1>8 DEF RecvMarketHalted
    <2>2. TruthfulChannels'
      BY <1>a, <1>b, <2>1, TailTruthful
    <2>3. CreditedInv'
      <3>1. CASE c \in pending
        <4>1. c \in Ids /\ ob[c] \in Obligations
          BY <1>a, <3>1 DEF TypeOK
        <4>2. ob' = [ob EXCEPT ![c] = [ob[c] EXCEPT !.parked = TRUE]]
          BY <1>8, <3>1 DEF RecvMarketHalted
        <4>3. /\ [ob[c] EXCEPT !.parked = TRUE].owed = ob[c].owed
              /\ [ob[c] EXCEPT !.parked = TRUE].filled = ob[c].filled
          BY <4>1 DEF Obligations
        <4>. HIDE DEF c
        <4>. QED BY <2>1, <4>1, <4>2, <4>3, ClockStepInv
      <3>2. CASE c \notin pending
        <4>1. ob' = ob
          BY <1>8, <3>2 DEF RecvMarketHalted
        <4>. QED BY <2>1, <4>1, SameObligations
                 DEF CreditedInv, IInv, IdsAreFresh, NeverAheadOfVenue
      <3>. QED BY <3>1, <3>2
    <2>. QED BY <1>a, <1>e, <2>1, <2>2, <2>3, Reassemble
  <1>9. ASSUME NEW c \in Ids, NEW r, Clock(c, r), r.owed = ob[c].owed, r.filled = ob[c].filled
        PROVE  IInv'
    <2>1. /\ vfilled' = vfilled /\ chan' = chan /\ unclaimed' = unclaimed
          /\ ob' = [ob EXCEPT ![c] = r]
          /\ UNCHANGED <<mcum, nextHedge, pending, attempts, ho, booked>>
      BY <1>9 DEF Clock
    <2>2. CreditedInv'
      BY <1>9, <2>1, ClockStepInv
    <2>. QED BY <1>a, <1>d, <1>e, <2>1, <2>2, Reassemble
  <1>10. ASSUME NEW c \in Ids, IntervalPasses(c) \/ HorizonPasses(c) \/ ParkExpires(c)
         PROVE  IInv'
    <2>1. ob[c] \in Obligations
      BY <1>a DEF TypeOK
    <2>2. CASE IntervalPasses(c)
      <3>. DEFINE r == [ob[c] EXCEPT !.sinceTry = @ + 1]
      <3>1. r.owed = ob[c].owed /\ r.filled = ob[c].filled
        BY <2>1 DEF Obligations
      <3>2. Clock(c, r)
        BY <2>2 DEF IntervalPasses
      <3>. HIDE DEF r
      <3>. QED BY <1>9, <3>1, <3>2
    <2>3. CASE HorizonPasses(c)
      <3>. DEFINE r == [ob[c] EXCEPT !.old = TRUE]
      <3>1. r.owed = ob[c].owed /\ r.filled = ob[c].filled
        BY <2>1 DEF Obligations
      <3>2. Clock(c, r)
        BY <2>3 DEF HorizonPasses
      <3>. HIDE DEF r
      <3>. QED BY <1>9, <3>1, <3>2
    <2>4. CASE ParkExpires(c)
      <3>. DEFINE r == [ob[c] EXCEPT !.parked = FALSE]
      <3>1. r.owed = ob[c].owed /\ r.filled = ob[c].filled
        BY <2>1 DEF Obligations
      <3>2. Clock(c, r)
        BY <2>4 DEF ParkExpires
      <3>. HIDE DEF r
      <3>. QED BY <1>9, <3>1, <3>2
    <2>. QED BY <1>10, <2>2, <2>3, <2>4
  <1>11. ASSUME NEW c \in Ids
         PROVE  Ticked(c).owed = ob[c].owed /\ Ticked(c).filled = ob[c].filled
    BY <1>a DEF TypeOK, Ticked, Obligations
  <1>12. ASSUME NEW c \in Ids, TickWaits(c) PROVE IInv'
    <2>1. /\ vfilled' = vfilled /\ chan' = chan /\ unclaimed' = unclaimed
          /\ UNCHANGED <<mcum, nextHedge, attempts, ho, booked>>
      BY <1>12 DEF TickWaits
    <2>2. ~(Missing(c) <= 0)
      <3>1. c \in Minted /\ ob[c].filled < ob[c].owed
        BY <1>12 DEF TickWaits, IInv, IdsAreFresh, NakedIsTracked
      <3>2. ob[c].owed \in Nat /\ ob[c].filled \in Nat
        BY <1>a DEF TypeOK, Obligations
      <3>. QED BY <3>1, <3>2 DEF Missing
    <2>3. pending' = pending /\ ob' = [ob EXCEPT ![c] = Ticked(c)]
      BY <1>12, <2>2 DEF TickWaits
    <2>4. CreditedInv'
      BY <1>11, <2>1, <2>3, ClockStepInv
    <2>. QED BY <1>a, <1>d, <1>e, <2>1, <2>4, Reassemble
  <1>13. ASSUME NEW c \in Ids, NEW sellBack \in BOOLEAN, TickPlaces(c, sellBack) PROVE IInv'
    <2>. DEFINE h == nextHedge + 1
                r == [Ticked(c) EXCEPT !.sinceTry = 0, !.latest = h]
    <2>1. /\ vfilled' = vfilled /\ chan' = chan /\ unclaimed' = unclaimed
          /\ h \in Ids /\ nextHedge' = h /\ attempts' = attempts \cup {h}
          /\ UNCHANGED <<mcum, pending, booked>>
          /\ ob' = [ob EXCEPT ![c] = r]
      BY <1>13 DEF TickPlaces
    <2>2. \A e \in Ids : ob'[e].owed = ob[e].owed /\ ob'[e].filled = ob[e].filled
      <3>1. Ticked(c) \in Obligations
        BY <1>a, ObligationFields DEF Ticked, TypeOK
      <3>2. r.owed = Ticked(c).owed /\ r.filled = Ticked(c).filled
        BY <3>1 DEF Obligations
      <3>. HIDE DEF r
      <3>. QED BY <1>a, <1>11, <2>1, <3>2 DEF TypeOK
    <2>3. LedgerIsTheHedge' /\ NakedIsTracked'
      BY <2>1, <2>2, SameObligations
    <2>4. IdsAreFresh'
      <3>1. Minted \subseteq 1..nextHedge /\ attempts \subseteq 1..nextHedge /\ nextHedge \in Nat
        BY <1>a DEF IInv, IdsAreFresh, TypeOK
      <3>. QED BY <2>1, <2>2, <3>1, SameObligations DEF IdsAreFresh
    <2>5. \A g \in attempts' : ho'[g].cum <= vfilled'[g]
      <3>1. PICK a : ho' = [ho EXCEPT ![h] = a] /\ a.cum = 0
        <4>. DEFINE v == IF sellBack THEN Home[ob[c].maker] ELSE Other(Home[ob[c].maker])
                    a == Attempt(c, v, Missing(c), sellBack, Skipped(c, h))
        <4>1. ho' = [ho EXCEPT ![h] = a]
          BY <1>13 DEF TickPlaces
        <4>2. a.cum = 0
          BY DEF Attempt
        <4>. HIDE DEF a
        <4>. QED BY <4>1, <4>2
      <3>2. \A g \in attempts : g \in Ids /\ ho[g].cum <= vfilled[g]
        BY <1>a DEF IInv, NeverAheadOfVenue, TypeOK
      <3>3. vfilled[h] \in Nat
        BY <1>c, <2>1 DEF Orders
      <3>. QED BY <1>a, <2>1, <3>1, <3>2, <3>3 DEF TypeOK
    <2>6. CreditedInv'
      BY <2>1, <2>3, <2>4, <2>5 DEF CreditedInv, IInv, NeverAheadOfVenue
    <2>. QED BY <1>a, <1>d, <1>e, <2>1, <2>6, Reassemble
  <1>14. ASSUME NEW v \in Venues, queue[v] # <<>>, NEW msgs \in Seq(Msgs), Served(v, msgs),
                \A o \in Orders : vfilled[o] <= vfilled'[o],
                \A i \in 1..Len(msgs) : msgs[i].cum <= vfilled'[msgs[i].oid]
         PROVE  IInv'
    <2>1. TruthfulChannels'
      BY <1>14, <1>a, <1>b, ServedTruthful
    <2>2. UNCHANGED engineVars
      BY <1>14 DEF Served
    <2>. QED BY <1>14, <1>a, <2>1, <2>2, VenueStepInv, Reassemble
  <1>15. ASSUME NEW v \in Venues, ExecUnreadable(v) PROVE IInv'
    <2>1. <<>> \in Seq(Msgs) /\ Len(<<>>) = 0
      OBVIOUS
    <2>2. vfilled' = vfilled /\ Served(v, <<>>) /\ queue[v] # <<>>
      BY <1>15 DEF ExecUnreadable
    <2>3. \A o \in Orders : vfilled[o] <= vfilled'[o]
      BY <1>c, <2>2
    <2>4. \A i \in 1..Len(<<>>) : <<>>[i].cum <= vfilled'[<<>>[i].oid]
      BY <2>1
    <2>. QED BY <1>14, <2>1, <2>2, <2>3, <2>4, Zenon
  <1>16. ASSUME NEW v \in Venues, ExecUnaccounted(v) PROVE IInv'
    <2>. DEFINE p == Head(queue[v]).prior
                g == Msg("fill", p, vfilled[p])
    <2>1. p \in Ids /\ vfilled[p] \in Nat
      BY <1>16, <1>a, QueueHead DEF ExecUnaccounted, Accounted, Cmds, TypeOK, Orders
    <2>2. g \in Msgs /\ g.cum = vfilled[g.oid]
      BY <2>1 DEF Msg, Msgs
    <2>3. vfilled' = vfilled /\ Served(v, <<g>>) /\ queue[v] # <<>>
      BY <1>16 DEF ExecUnaccounted
    <2>4. g.cum <= vfilled'[g.oid]
      BY <2>1, <2>2, <2>3 DEF Msg
    <2>. HIDE DEF g
    <2>5. <<g>> \in Seq(Msgs) /\ \A i \in 1..Len(<<g>>) : <<g>>[i].cum <= vfilled'[<<g>>[i].oid]
      BY <2>2, <2>4
    <2>6. \A o \in Orders : vfilled[o] <= vfilled'[o]
      BY <1>c, <2>3
    <2>. QED BY <1>14, <2>3, <2>5, <2>6, Zenon
  <1>17. ASSUME NEW v \in Venues, NEW halted \in BOOLEAN, ExecRefused(v, halted) PROVE IInv'
    <2>. DEFINE g == Msg("market_halted", Head(queue[v]).oid, 0)
                msgs == IF halted THEN <<g>> ELSE <<>>
    <2>1. Head(queue[v]).oid \in Ids
      BY <1>17, <1>a, QueueHead DEF ExecRefused, Cmds
    <2>2. g \in Msgs /\ g.cum = 0 /\ g.oid \in Orders
      BY <2>1 DEF Msg, Msgs, Orders
    <2>3. vfilled' = vfilled /\ Served(v, msgs) /\ queue[v] # <<>>
      BY <1>17 DEF ExecRefused
    <2>4. g.cum <= vfilled'[g.oid]
      BY <1>c, <2>2, <2>3
    <2>. HIDE DEF g
    <2>5. msgs \in Seq(Msgs) /\ \A i \in 1..Len(msgs) : msgs[i].cum <= vfilled'[msgs[i].oid]
      BY <2>2, <2>4
    <2>. HIDE DEF msgs
    <2>. QED BY <1>14, <1>c, <2>3, <2>5
  <1>18. ASSUME NEW v \in Venues, NEW filled \in Nat, queue[v] # <<>>,
                ExecPlaces(v, filled) \/ ExecAnswerLost(v, filled)
         PROVE  IInv'
    <2>. DEFINE h == Head(queue[v]).oid
                g == Msg("order_ack", h, 0)
    <2>1. h \in Ids
      BY <1>18, <1>a, QueueHead DEF Cmds
    <2>2. \A o \in Orders : vfilled[o] <= vfilled'[o] /\ vfilled'[o] \in Nat
      <3>1. vfilled' = [vfilled EXCEPT ![h] = @ + filled]
        BY <1>18 DEF ExecPlaces, ExecAnswerLost
      <3>. HIDE DEF h
      <3>. QED BY <1>a, <1>c, <3>1 DEF TypeOK
    <2>3. g \in Msgs /\ g.cum = 0 /\ g.oid \in Orders
      BY <2>1 DEF Msg, Msgs, Orders
    <2>4. g.cum <= vfilled'[g.oid]
      BY <2>2, <2>3
    <2>5. Served(v, <<g>>) \/ Served(v, <<>>)
      BY <1>18 DEF ExecPlaces, ExecAnswerLost
    <2>. HIDE DEF g
    <2>6. /\ <<g>> \in Seq(Msgs) /\ \A i \in 1..Len(<<g>>) : <<g>>[i].cum <= vfilled'[<<g>>[i].oid]
          /\ <<>> \in Seq(Msgs) /\ \A i \in 1..Len(<<>>) : <<>>[i].cum <= vfilled'[<<>>[i].oid]
      BY <2>3, <2>4
    <2>7. \A o \in Orders : vfilled[o] <= vfilled'[o]
      BY <2>2
    <2>. QED BY <1>14, <1>18, <2>5, <2>6, <2>7, Zenon
  <1>19. CASE UNCHANGED vars
    <2>1. UNCHANGED <<engineVars, vfilled, chan>>
      BY <1>19 DEF vars
    <2>2. \A o \in Orders : vfilled[o] <= vfilled'[o]
      BY <1>c, <2>1
    <2>. QED BY <1>a, <1>d, <2>1, <2>2, VenueStepInv, Reassemble
  <1>. QED
    BY NextCases, <1>a, <1>1, <1>2, <1>3, <1>4, <1>5, <1>6, <1>7, <1>8, <1>10, <1>12, <1>13,
       <1>15, <1>16, <1>17, <1>18, <1>19

-----------------------------------------------------------------------------
(* The theorems.                                                            *)

(* The inductive invariant is one: it holds of every behaviour. *)
THEOREM Invariance == Spec => []IInv
  BY InitInv, StepInv, PTL DEF Spec

(* Every variable keeps its type: no count of contracts goes negative.      *)
THEOREM TypeCorrect == Spec => []TypeOK
  <1>1. IInv => TypeOK
    BY DEF IInv
  <1>. QED BY Invariance, <1>1, PTL

(* I2 of hedge.rs: the ledger holds the hedge, up to what was owed.         *)
THEOREM LedgerCorrect == Spec => []LedgerIsTheHedge
  <1>1. IInv => LedgerIsTheHedge
    BY DEF IInv
  <1>. QED BY Invariance, <1>1, PTL

(* I3 of hedge.rs: an uncovered obligation is live, a live one uncovered.   *)
THEOREM NakedTracked == Spec => []NakedIsTracked
  <1>1. IInv => NakedIsTracked
    BY DEF IInv
  <1>. QED BY Invariance, <1>1, PTL

(* The engine never credits, holds or is told of a fill that did not happen. *)
THEOREM NeverAhead == Spec => []NeverAheadOfVenue
  <1>1. IInv => NeverAheadOfVenue
    BY DEF IInv
  <1>. QED BY Invariance, <1>1, PTL

-----------------------------------------------------------------------------
(* A covered obligation is covered for good.                                *)

(* What RetiredIsFinal says of one obligation and one step. *)
StaysRetired(c) ==
    /\ c \notin pending'
    /\ booked'[c] = booked[c]
    /\ \A h \in attempts' \ attempts : ho'[h].chain # c

(* Steps that retire, make and book nothing. *)
LEMMA QuietStays ==
  ASSUME NEW c \in Ids, c \notin pending, pending' \subseteq pending,
         attempts' = attempts, booked' = booked
  PROVE  StaysRetired(c)
  BY DEF StaysRetired

(* A late fill of a retired obligation's attempt books nothing against it.  *)
LEMMA CreditHedgeStays ==
  ASSUME TypeOK, NEW h \in Ids, NEW cum \in Nat, CreditHedge(h, cum),
         NEW c \in Ids, c \notin pending
  PROVE  StaysRetired(c)
  <1>. DEFINE e == ho[h].chain
              b == CreditBook(h, CreditDelta(h, cum))
  <1>1. e \in Ids /\ booked[c] \in Nat
    BY DEF TypeOK, AttemptRecords
  <1>2. pending' \subseteq pending /\ attempts' = attempts
    BY DEF CreditHedge
  <1>3. booked' = [booked EXCEPT ![e] = @ + b]
    BY DEF CreditHedge
  <1>4. e = c => b = 0
    BY DEF CreditBook
  <1>. HIDE DEF e, b
  <1>5. booked'[c] = booked[c]
    BY <1>1, <1>3, <1>4 DEF TypeOK
  <1>. QED BY <1>2, <1>5 DEF StaysRetired

(* An obligation is minted under an id no earlier obligation had.           *)
LEMMA CreditMakerStays ==
  ASSUME IInv, NEW m \in Makers, NEW cum \in Nat, CreditMaker(m, cum),
         NEW c \in Minted, c \notin pending
  PROVE  StaysRetired(c)
  <1>. DEFINE d == MakerDelta(m, cum)
              h == nextHedge + 1
              v == Other(Home[m])
  <1>1. TypeOK /\ IdsAreFresh /\ c \in Ids /\ booked' = booked
    BY DEF IInv, CreditMaker, Minted
  <1>2. CASE ~(d > 0 /\ m \in anchored)
    BY <1>1, <1>2, QuietStays DEF CreditMaker
  <1>3. CASE d > 0 /\ m \in anchored
    <2>1. MintAndPlace(m, d)
      BY <1>3 DEF CreditMaker
    <2>2. h \in Ids /\ h # c
      BY <1>1, <2>1 DEF MintAndPlace, IdsAreFresh, TypeOK
    <2>3. pending' = pending \cup {h}
      BY <2>1 DEF MintAndPlace
    <2>4. \/ attempts' = attempts
          \/ /\ attempts' = attempts \cup {h}
             /\ ho' = [ho EXCEPT ![h] = Attempt(h, v, d, FALSE, {})]
      BY <2>1 DEF MintAndPlace
    <2>5. Attempt(h, v, d, FALSE, {}).chain = h
      BY DEF Attempt
    <2>. HIDE DEF h, v, d
    <2>6. \A g \in attempts' \ attempts : ho'[g].chain # c
      BY <1>1, <2>2, <2>4, <2>5 DEF TypeOK
    <2>. QED BY <1>1, <2>2, <2>3, <2>6 DEF StaysRetired
  <1>. QED BY <1>2, <1>3

(* A credit leaves a retired obligation as it was.                          *)
LEMMA CreditStays ==
  ASSUME IInv, NEW o \in Orders, NEW cum \in Nat, Credit(o, cum),
         NEW c \in Minted, c \notin pending
  PROVE  StaysRetired(c)
  BY CreditHedgeStays, CreditMakerStays DEF Credit, Orders, IInv, Minted

(* An ack, with what it replays, leaves a retired obligation as it was.     *)
LEMMA AcknowledgedStays ==
  ASSUME IInv, NEW o \in Orders, Acknowledged(o), NEW c \in Minted, c \notin pending
  PROVE  StaysRetired(c)
  <1>1. unclaimed[o] \in Nat /\ c \in Ids
    BY DEF IInv, TypeOK, Minted
  <1>2. CASE unclaimed[o] > 0
    BY <1>1, <1>2, CreditStays DEF Acknowledged
  <1>3. CASE ~(unclaimed[o] > 0)
    BY <1>1, <1>3, QuietStays DEF Acknowledged
  <1>. QED BY <1>2, <1>3

(* The deadline places for live obligations only.                           *)
LEMMA TickPlacesStays ==
  ASSUME IInv, NEW e \in Ids, NEW sellBack \in BOOLEAN, TickPlaces(e, sellBack),
         NEW c \in Minted, c \notin pending
  PROVE  StaysRetired(c)
  <1>. DEFINE h == nextHedge + 1
              v == IF sellBack THEN Home[ob[e].maker] ELSE Other(Home[ob[e].maker])
              r == Attempt(e, v, Missing(e), sellBack, Skipped(e, h))
  <1>1. TypeOK /\ e # c
    BY DEF IInv, TickPlaces
  <1>2. /\ h \in Ids /\ pending' = pending /\ booked' = booked
        /\ attempts' = attempts \cup {h} /\ ho' = [ho EXCEPT ![h] = r]
    BY DEF TickPlaces
  <1>3. r.chain = e
    BY DEF Attempt
  <1>. HIDE DEF r, h
  <1>4. \A g \in attempts' \ attempts : ho'[g].chain # c
    BY <1>1, <1>2, <1>3 DEF TypeOK
  <1>. QED BY <1>2, <1>4 DEF StaysRetired

(* Every step leaves a retired obligation retired.                          *)
THEOREM StepRetired ==
  ASSUME IInv, [Next]_vars, NEW c \in Minted, c \notin pending
  PROVE  StaysRetired(c)
  <1>. USE DEF engineVars
  <1>a. TypeOK /\ c \in Ids
    BY DEF IInv, Minted
  <1>b. \A w \in Venues : chan[w] # <<>> => Head(chan[w]).oid \in Ids /\ Head(chan[w]).cum \in Nat
    BY <1>a, ChanHead DEF Msgs
  <1>1. CASE UNCHANGED engineVars
    BY <1>1, <1>a, QuietStays
  <1>2. ASSUME NEW m \in Makers, MakerTrades(m) \/ RecvMakerAck(m) PROVE StaysRetired(c)
    BY <1>1, <1>2, AcknowledgedStays DEF MakerTrades, RecvMakerAck, Orders
  <1>3. ASSUME NEW o \in Orders, NEW cum \in Nat, FillReported(o, cum) \/ FillHeld(o, cum)
        PROVE  StaysRetired(c)
    BY <1>3, <1>a, CreditStays, QuietStays DEF FillReported, FillHeld
  <1>4. ASSUME NEW o \in Orders, HeldFillExpires(o) PROVE StaysRetired(c)
    BY <1>4, <1>a, QuietStays DEF HeldFillExpires
  <1>5. ASSUME NEW v \in Venues, RecvAck(v) PROVE StaysRetired(c)
    BY <1>5, <1>b, AcknowledgedStays DEF RecvAck, Orders
  <1>6. ASSUME NEW v \in Venues, RecvFill(v) PROVE StaysRetired(c)
    BY <1>6, <1>b, CreditStays DEF RecvFill, Orders
  <1>7. ASSUME NEW v \in Venues, RecvMarketHalted(v) PROVE StaysRetired(c)
    BY <1>7, <1>a, QuietStays DEF RecvMarketHalted
  <1>8. ASSUME NEW e \in Ids,
               IntervalPasses(e) \/ HorizonPasses(e) \/ ParkExpires(e) \/ TickWaits(e)
        PROVE  StaysRetired(c)
    BY <1>8, <1>a, QuietStays DEF IntervalPasses, HorizonPasses, ParkExpires, Clock, TickWaits
  <1>9. ASSUME NEW e \in Ids, NEW sellBack \in BOOLEAN, TickPlaces(e, sellBack)
        PROVE  StaysRetired(c)
    BY <1>9, TickPlacesStays
  <1>10. ASSUME NEW v \in Venues, ExecUnreadable(v) \/ ExecUnaccounted(v)
         PROVE  StaysRetired(c)
    BY <1>10, <1>1 DEF ExecUnreadable, ExecUnaccounted, Served
  <1>11. ASSUME NEW v \in Venues, NEW halted \in BOOLEAN, ExecRefused(v, halted)
         PROVE  StaysRetired(c)
    BY <1>11, <1>1 DEF ExecRefused, Served
  <1>12. ASSUME NEW v \in Venues, NEW filled \in Nat,
                ExecPlaces(v, filled) \/ ExecAnswerLost(v, filled)
         PROVE  StaysRetired(c)
    BY <1>12, <1>1 DEF ExecPlaces, ExecAnswerLost, Served
  <1>13. CASE UNCHANGED vars
    BY <1>13, <1>1 DEF vars
  <1>. QED
    BY NextCases, <1>a, <1>2, <1>3, <1>4, <1>5, <1>6, <1>7, <1>8, <1>9, <1>10, <1>11,
       <1>12, <1>13

(* A covered obligation stays out of pending_hedges, nothing more is booked *)
(* for it and no further attempt is made for it, whatever frames come late. *)
THEOREM RetiredForGood == Spec => RetiredIsFinal
  <1>1. IInv /\ [Next]_vars
            => [\A c \in Minted \ pending :
                  /\ c \notin pending'
                  /\ booked'[c] = booked[c]
                  /\ \A h \in attempts' \ attempts : ho'[h].chain # c]_vars
    BY StepRetired DEF StaysRetired
  <1>. QED BY Invariance, <1>1, PTL DEF Spec, RetiredIsFinal

-----------------------------------------------------------------------------
(* What a step may do to the books: nothing, one of the two credits, or a   *)
(* new attempt.                                                             *)

(* The books, and what each obligation is for, stay as they are. *)
Quiet ==
    /\ UNCHANGED <<mcum, dropped, nextHedge, pending, attempts, ho, booked, extra>>
    /\ \A c \in Ids : /\ ob'[c].owed = ob[c].owed
                      /\ ob'[c].filled = ob[c].filled
                     /\ ob'[c].maker = ob[c].maker

(* An obligation whose flags or clock change is for what it was for. *)
LEMMA FlagsOnly ==
  ASSUME NEW r \in Obligations, NEW b, NEW i
  PROVE  \A s \in {[r EXCEPT !.parked = b], [r EXCEPT !.old = b], [r EXCEPT !.alarmed = b],
                   [r EXCEPT !.sinceTry = i]} :
            s.owed = r.owed /\ s.filled = r.filled /\ s.maker = r.maker
  BY DEF Obligations

(* One obligation replaced by another for the same thing. *)
LEMMA OneQuiet ==
  ASSUME TypeOK, NEW c \in Ids, NEW r, ob' = [ob EXCEPT ![c] = r],
         r.owed = ob[c].owed /\ r.filled = ob[c].filled /\ r.maker = ob[c].maker,
         UNCHANGED <<mcum, dropped, nextHedge, pending, attempts, ho, booked, extra>>
  PROVE  Quiet
  BY DEF TypeOK, Quiet

(* A fill attributed is one of the two credits. *)
LEMMA CreditKinds ==
  ASSUME NEW o \in Orders, NEW cum \in Nat, cum <= vfilled[o], Credit(o, cum)
  PROVE  \/ \E h \in Ids, k \in Nat : k <= vfilled[h] /\ CreditHedge(h, k)
         \/ \E m \in Makers, k \in Nat : k <= vfilled[m] /\ CreditMaker(m, k)
  BY DEF Credit, Orders

(* An ack replays a credit or leaves the books alone. *)
LEMMA AcknowledgedKinds ==
  ASSUME IInv, NEW o \in Orders, Acknowledged(o)
  PROVE  \/ Quiet
         \/ \E h \in Ids, k \in Nat : k <= vfilled[h] /\ CreditHedge(h, k)
         \/ \E m \in Makers, k \in Nat : k <= vfilled[m] /\ CreditMaker(m, k)
  <1>1. unclaimed[o] \in Nat /\ unclaimed[o] <= vfilled[o]
    BY DEF IInv, TypeOK, NeverAheadOfVenue
  <1>2. CASE unclaimed[o] > 0
    BY <1>1, <1>2, CreditKinds DEF Acknowledged
  <1>3. CASE ~(unclaimed[o] > 0)
    BY <1>3 DEF Acknowledged, Quiet
  <1>. QED BY <1>2, <1>3

(* Every step does one of four things to the books.                         *)
LEMMA BookSteps ==
  ASSUME IInv, [Next]_vars
  PROVE  \/ Quiet
         \/ \E h \in Ids, k \in Nat : k <= vfilled[h] /\ CreditHedge(h, k)
         \/ \E m \in Makers, k \in Nat : k <= vfilled[m] /\ CreditMaker(m, k)
         \/ \E c \in Ids, sellBack \in BOOLEAN : TickPlaces(c, sellBack)
  <1>. DEFINE Kinds == \/ Quiet
                       \/ \E h \in Ids, k \in Nat : k <= vfilled[h] /\ CreditHedge(h, k)
                       \/ \E m \in Makers, k \in Nat : k <= vfilled[m] /\ CreditMaker(m, k)
                       \/ \E c \in Ids, sellBack \in BOOLEAN : TickPlaces(c, sellBack)
  <1>. SUFFICES Kinds
    OBVIOUS
  <1>a. TypeOK /\ NeverAheadOfVenue
    BY DEF IInv
  <1>b. \A c \in Ids : ob[c] \in Obligations
    BY <1>a DEF TypeOK
  <1>1. CASE UNCHANGED engineVars
    BY <1>1 DEF engineVars, Quiet
  <1>2. ASSUME NEW m \in Makers, MakerTrades(m) \/ RecvMakerAck(m) PROVE Kinds
    BY <1>1, <1>2, AcknowledgedKinds DEF MakerTrades, RecvMakerAck, Orders
  <1>3. ASSUME NEW o \in Orders, NEW cum \in Nat, cum <= vfilled[o],
               FillReported(o, cum) \/ FillHeld(o, cum)
        PROVE  Kinds
    <2>1. CASE FillReported(o, cum)
      BY <1>3, <2>1, CreditKinds DEF FillReported
    <2>2. CASE FillHeld(o, cum)
      BY <2>2 DEF FillHeld, Quiet
    <2>. QED BY <1>3, <2>1, <2>2
  <1>4. ASSUME NEW o \in Orders, HeldFillExpires(o) PROVE Kinds
    BY <1>4 DEF HeldFillExpires, Quiet
  <1>5. ASSUME NEW v \in Venues, RecvAck(v) PROVE Kinds
    <2>1. Head(chan[v]).oid \in Orders
      BY <1>5, <1>a, ChanHead DEF RecvAck, Msgs, Orders
    <2>. QED BY <1>5, <2>1, AcknowledgedKinds DEF RecvAck
  <1>6. ASSUME NEW v \in Venues, RecvFill(v) PROVE Kinds
    <2>1. /\ Head(chan[v]).oid \in Orders /\ Head(chan[v]).cum \in Nat
          /\ Head(chan[v]).cum <= vfilled[Head(chan[v]).oid]
      <3>1. TruthfulChannels /\ vfilled \in [Orders -> Nat] /\ chan[v] # <<>>
        BY <1>6, <1>a DEF NeverAheadOfVenue, TruthfulChannels, TypeOK, RecvFill
      <3>2. chan[v] \in Seq(Msgs) /\ 1 \in 1..Len(chan[v]) /\ Head(chan[v]) = chan[v][1]
        BY <1>a, <3>1, EmptySeq DEF TypeOK
      <3>. QED BY <1>a, <3>1, <3>2, ChanHead DEF TruthfulChannels, Msgs, Orders
    <2>. QED BY <1>6, <2>1, CreditKinds DEF RecvFill
  <1>7. ASSUME NEW v \in Venues, RecvMarketHalted(v) PROVE Kinds
    <2>. DEFINE c == ho[Head(chan[v]).oid].chain
    <2>1. c \in Ids
      BY <1>7, <1>a, ChanHead DEF RecvMarketHalted, Msgs, TypeOK, AttemptRecords
    <2>2. ob' = ob \/ ob' = [ob EXCEPT ![c] = [ob[c] EXCEPT !.parked = TRUE]]
      BY <1>7 DEF RecvMarketHalted
    <2>3. UNCHANGED <<mcum, dropped, nextHedge, pending, attempts, ho, booked, extra>>
      BY <1>7 DEF RecvMarketHalted
    <2>. HIDE DEF c
    <2>4. CASE ob' = ob
      BY <2>3, <2>4 DEF Quiet
    <2>5. CASE ob' = [ob EXCEPT ![c] = [ob[c] EXCEPT !.parked = TRUE]]
      BY <1>a, <1>b, <2>1, <2>3, <2>5, FlagsOnly, OneQuiet
    <2>. QED BY <2>2, <2>4, <2>5
  <1>8. ASSUME NEW c \in Ids, IntervalPasses(c) \/ HorizonPasses(c) \/ ParkExpires(c)
        PROVE  Kinds
    <2>. DEFINE Rs == {[ob[c] EXCEPT !.parked = FALSE], [ob[c] EXCEPT !.old = TRUE],
                       [ob[c] EXCEPT !.sinceTry = ob[c].sinceTry + 1]}
    <2>1. \E r \in Rs : Clock(c, r)
      BY <1>8 DEF IntervalPasses, HorizonPasses, ParkExpires
    <2>2. \A r \in Rs : r.owed = ob[c].owed /\ r.filled = ob[c].filled /\ r.maker = ob[c].maker
      BY <1>b DEF Obligations
    <2>. HIDE DEF Rs
    <2>5. PICK r \in Rs : Clock(c, r)
      BY <2>1
    <2>3. /\ ob' = [ob EXCEPT ![c] = r]
          /\ UNCHANGED <<mcum, dropped, nextHedge, pending, attempts, ho, booked, extra>>
      BY <2>5 DEF Clock
    <2>4. Quiet
      BY <1>a, <2>2, <2>3, OneQuiet
    <2>. QED BY <2>4
  <1>9. ASSUME NEW c \in Ids, TickWaits(c) PROVE Kinds
    <2>1. ~(Missing(c) <= 0)
      <3>1. c \in Minted /\ ob[c].filled < ob[c].owed
        BY <1>9 DEF TickWaits, IInv, IdsAreFresh, NakedIsTracked
      <3>. QED BY <1>b, <3>1 DEF Missing, Obligations
    <2>2. Ticked(c).owed = ob[c].owed /\ Ticked(c).filled = ob[c].filled
          /\ Ticked(c).maker = ob[c].maker
      BY <1>b, FlagsOnly DEF Ticked
    <2>. QED BY <1>a, <1>9, <2>1, <2>2, OneQuiet DEF TickWaits
  <1>10. ASSUME NEW v \in Venues, ExecUnreadable(v) \/ ExecUnaccounted(v) PROVE Kinds
    BY <1>1, <1>10 DEF ExecUnreadable, ExecUnaccounted, Served
  <1>11. ASSUME NEW v \in Venues, NEW halted \in BOOLEAN, ExecRefused(v, halted) PROVE Kinds
    BY <1>1, <1>11 DEF ExecRefused, Served
  <1>12. ASSUME NEW v \in Venues, NEW filled \in Nat,
                ExecPlaces(v, filled) \/ ExecAnswerLost(v, filled)
         PROVE  Kinds
    BY <1>1, <1>12 DEF ExecPlaces, ExecAnswerLost, Served
  <1>13. CASE UNCHANGED vars
    BY <1>1, <1>13 DEF vars
  <1>. HIDE DEF Kinds
  <1>14. ASSUME NEW c \in Ids, NEW sellBack \in BOOLEAN, TickPlaces(c, sellBack) PROVE Kinds
    BY <1>14 DEF Kinds
  <1>. QED
    BY NextCases, <1>a, <1>2, <1>3, <1>4, <1>5, <1>6, <1>7, <1>8, <1>9, <1>10, <1>11,
       <1>12, <1>13, <1>14

-----------------------------------------------------------------------------
(* The books: credits add up, and obligations cover the fills accepted.     *)

CumOf  == [h \in Ids |-> ho[h].cum]
OwedOf == [c \in Ids |-> ob[c].owed]

(* An attempt not made has nothing to fill; an attempt made is of a minted  *)
(* obligation; the credits add up for every chain, minted or not; and what  *)
(* is live, or not yet minted, has not been over-hedged.                    *)
Unmade    == \A h \in Ids \ attempts : ho[h].qty = 0 /\ ho[h].cum = 0
OwnChain  == \A h \in attempts : ho[h].chain \in Minted
ChainsAddUp == \A c \in Ids : SumFunctionOnSet(CumOf, Chain(c)) = booked[c] + extra[c]
LiveNotOver == \A c \in Ids : (c \in pending \/ c \notin Minted) => extra[c] = 0

Books == Unmade /\ OwnChain /\ ChainsAddUp /\ LiveNotOver /\ ObligationsCoverFills
BInv  == IInv /\ Books

(* The sets summed over are finite. *)
LEMMA FiniteChains ==
  ASSUME TypeOK
  PROVE  /\ IsFiniteSet(Ids)
         /\ \A c : Chain(c) \subseteq Ids /\ IsFiniteSet(Chain(c))
         /\ \A m : MintedFor(m) \subseteq Ids /\ IsFiniteSet(MintedFor(m))
  <1>1. IsFiniteSet(Ids)
    BY BoundAssumption, FS_Interval DEF Ids
  <1>2. \A c : Chain(c) \subseteq Ids
    BY DEF Chain, TypeOK
  <1>3. \A m : MintedFor(m) \subseteq Ids
    BY DEF MintedFor, Minted
  <1>. QED BY <1>1, <1>2, <1>3, FS_Subset

(* The functions summed are counts. *)
LEMMA CountsOf ==
  ASSUME TypeOK
  PROVE  \A x \in Ids : CumOf[x] = ho[x].cum /\ CumOf[x] \in Nat
                       /\ OwedOf[x] = ob[x].owed /\ OwedOf[x] \in Nat
  BY DEF TypeOK, CumOf, OwedOf, AttemptRecords, Obligations

(* Before the first fill there is nothing to add up. *)
LEMMA InitBooks == Init => Books
  <1>. SUFFICES ASSUME Init PROVE Books
    OBVIOUS
  <1>1. Unmade
    BY DEF Init, Unmade, Attempt
  <1>2. Minted = {}
    BY DEF Init, Minted, Obligation
  <1>3. OwnChain
    BY DEF Init, OwnChain
  <1>4. ChainsAddUp
    <2>1. \A c : Chain(c) = {}
      BY DEF Init, Chain
    <2>2. \A c \in Ids : booked[c] = 0 /\ extra[c] = 0
      BY DEF Init
    <2>. QED BY <2>1, <2>2, SumEmpty DEF ChainsAddUp
  <1>5. LiveNotOver
    BY DEF Init, LiveNotOver
  <1>6. ObligationsCoverFills
    <2>1. \A m \in Makers : MintedFor(m) = {} /\ mcum[m] = 0 /\ dropped[m] = 0
      BY <1>2 DEF Init, MintedFor
    <2>. QED BY <2>1, SumEmpty DEF ObligationsCoverFills
  <1>. QED BY <1>1, <1>3, <1>4, <1>5, <1>6 DEF Books

(* Nothing changes in the sums when the books are left alone. *)
LEMMA QuietBooks ==
  ASSUME BInv, Quiet PROVE Books'
  <1>1. Minted' = Minted
    BY DEF Quiet, Minted
  <1>2. \A c : Chain(c)' = Chain(c)
    BY DEF Quiet, Chain
  <1>3. \A m : MintedFor(m)' = MintedFor(m)
    BY <1>1 DEF Quiet, MintedFor, Minted
  <1>4. CumOf' = CumOf /\ OwedOf' = OwedOf
    BY DEF Quiet, CumOf, OwedOf
  <1>5. Unmade' /\ OwnChain' /\ LiveNotOver'
    BY <1>1 DEF BInv, Books, Quiet, Unmade, OwnChain, LiveNotOver
  <1>6. ChainsAddUp'
    BY <1>2, <1>4 DEF BInv, Books, Quiet, ChainsAddUp
  <1>7. ObligationsCoverFills'
    <2>1. \A m \in Makers : mcum[m] = dropped[m] + SumFunctionOnSet(OwedOf, MintedFor(m))
      BY DEF BInv, Books, ObligationsCoverFills, OwedOf
    <2>2. \A m \in Makers : mcum'[m] = dropped'[m] + SumFunctionOnSet(OwedOf', MintedFor(m)')
      BY <1>3, <1>4, <2>1 DEF Quiet
    <2>. QED BY <2>2 DEF ObligationsCoverFills, OwedOf
  <1>. QED BY <1>5, <1>6, <1>7 DEF Books

(* The obligations minted, what they owe and for whom: unchanged by a       *)
(* credit to an attempt and by a new attempt.                               *)
LEMMA SameMinted ==
  ASSUME BInv, mcum' = mcum, dropped' = dropped,
         \A c \in Ids : ob'[c].owed = ob[c].owed /\ ob'[c].maker = ob[c].maker
  PROVE  Minted' = Minted /\ ObligationsCoverFills'
  <1>1. Minted' = Minted
    BY DEF Minted
  <1>2. \A m : MintedFor(m)' = MintedFor(m)
    BY <1>1 DEF MintedFor, Minted
  <1>3. OwedOf' = OwedOf
    BY DEF OwedOf
  <1>4. \A m \in Makers : mcum[m] = dropped[m] + SumFunctionOnSet(OwedOf, MintedFor(m))
    BY DEF BInv, Books, ObligationsCoverFills, OwedOf
  <1>5. \A m \in Makers : mcum'[m] = dropped'[m] + SumFunctionOnSet(OwedOf', MintedFor(m)')
    BY <1>2, <1>3, <1>4
  <1>. QED BY <1>1, <1>5 DEF ObligationsCoverFills, OwedOf

(* A credit adds to one attempt of a chain what it books and alarms.        *)
LEMMA CreditHedgeBooks ==
  ASSUME BInv, NEW h \in Ids, NEW k \in Nat, k <= vfilled[h], CreditHedge(h, k), TypeOK'
  PROVE  Books'
  <1>. DEFINE c == ho[h].chain
              d == CreditDelta(h, k)
              b == CreditBook(h, d)
  <1>a. IInv /\ TypeOK /\ Books
    BY DEF BInv, IInv
  <1>1. d \in Nat /\ b \in Nat /\ b <= d
    BY <1>a, CreditDeltaType, CreditBookType
  <1>2. h \notin attempts => d = 0
    BY <1>a DEF Books, Unmade, CreditDelta, Least, Greatest
  <1>3. c \in Ids
    BY <1>a DEF TypeOK, AttemptRecords
  <1>4. \A g \in Ids : /\ ho'[g].cum = IF g = h THEN ho[g].cum + d ELSE ho[g].cum
                       /\ ho'[g].chain = ho[g].chain /\ ho'[g].qty = ho[g].qty
    <2>. DEFINE r == [ho[h] EXCEPT !.cum = @ + d]
    <2>1. r.cum = ho[h].cum + d /\ r.chain = ho[h].chain /\ r.qty = ho[h].qty
      BY <1>a DEF TypeOK, AttemptRecords
    <2>2. ho' = [ho EXCEPT ![h] = r]
      BY DEF CreditHedge
    <2>. HIDE DEF r, d
    <2>. QED BY <1>a, <2>1, <2>2 DEF TypeOK
  <1>5. UNCHANGED <<mcum, dropped, nextHedge, attempts>>
    BY DEF CreditHedge
  <1>6. \A e \in Ids : ob'[e].owed = ob[e].owed /\ ob'[e].maker = ob[e].maker
    <2>. DEFINE r == [ob[c] EXCEPT !.filled = @ + d]
    <2>1. r.owed = ob[c].owed /\ r.maker = ob[c].maker
      BY <1>a, <1>3 DEF TypeOK, Obligations
    <2>2. ob' = ob \/ ob' = [ob EXCEPT ![c] = r]
      BY DEF CreditHedge
    <2>. HIDE DEF r, c
    <2>. QED BY <1>a, <1>3, <2>1, <2>2 DEF TypeOK
  <1>7. Minted' = Minted /\ ObligationsCoverFills'
    BY <1>5, <1>6, SameMinted
  <1>8. \A e \in Ids : /\ booked'[e] = IF e = c THEN booked[e] + b ELSE booked[e]
                       /\ extra'[e] = IF e = c THEN extra[e] + (d - b) ELSE extra[e]
    BY <1>a, <1>3 DEF CreditHedge, TypeOK
  <1>9. pending' = IF d > 0 /\ CreditDone(c, d) THEN pending \ {c} ELSE pending
    BY DEF CreditHedge
  <1>10. c \in pending /\ ~CreditDone(c, d) => b = d
    <2>1. ob[c].owed \in Nat /\ ob[c].filled \in Nat
      BY <1>a, <1>3 DEF TypeOK, Obligations
    <2>2. c \in pending => b = Least(d, Greatest(ob[c].owed - ob[c].filled, 0))
      BY DEF CreditBook, Missing
    <2>. HIDE DEF b, d, c
    <2>. QED BY <1>1, <2>1, <2>2 DEF CreditDone, Least, Greatest
  <1>. HIDE DEF c, d, b
  <1>11. Unmade' /\ OwnChain'
    <2>1. \A g \in attempts : g \in Ids
      BY <1>a DEF TypeOK
    <2>2. Unmade'
      <3>1. \A g \in Ids \ attempts : ho[g].qty = 0 /\ ho[g].cum = 0
        BY <1>a DEF Books, Unmade
      <3>2. \A g \in Ids \ attempts : ho'[g].qty = 0 /\ ho'[g].cum = 0
        BY <1>2, <1>4, <3>1
      <3>. QED BY <1>5, <3>2 DEF Unmade
    <2>. QED BY <1>a, <1>4, <1>5, <1>7, <2>1, <2>2 DEF Books, OwnChain
  <1>12. h \in attempts => c \in Minted
    BY <1>a DEF Books, OwnChain, c
  <1>13. LiveNotOver'
    <2>. SUFFICES ASSUME NEW e \in Ids, e \in pending' \/ e \notin Minted PROVE extra'[e] = 0
      BY <1>7 DEF LiveNotOver
    <2>1. e \in pending \/ e \notin Minted
      BY <1>9
    <2>2. extra[e] = 0
      BY <1>a, <2>1 DEF Books, LiveNotOver
    <2>3. CASE e # c
      BY <1>8, <2>2, <2>3
    <2>4. CASE e = c /\ h \notin attempts
      BY <1>1, <1>2, <1>8, <2>2, <2>4
    <2>5. CASE e = c /\ h \in attempts
      <3>1. c \in pending' /\ c \in pending
        BY <1>9, <1>12, <2>5
      <3>2. b = d
        <4>1. CASE d = 0
          BY <1>1, <4>1
        <4>2. CASE d # 0
          BY <1>1, <1>9, <1>10, <3>1, <4>2
        <4>. QED BY <4>1, <4>2
      <3>. QED BY <1>1, <1>8, <2>2, <2>5, <3>2
    <2>. QED BY <2>3, <2>4, <2>5
  <1>14. ChainsAddUp'
    <2>. SUFFICES ASSUME NEW e \in Ids
                  PROVE  SumFunctionOnSet(CumOf', Chain(e)') = booked'[e] + extra'[e]
      BY DEF ChainsAddUp
    <2>1. Chain(e)' = Chain(e)
      BY <1>a, <1>4, <1>5 DEF Chain, TypeOK
    <2>2. IsFiniteSet(Chain(e)) /\ Chain(e) \subseteq Ids
      BY <1>a, FiniteChains
    <2>3. \A x \in Ids : CumOf[x] \in Nat /\ CumOf'[x] \in Nat
                        /\ CumOf'[x] = (IF x = h THEN CumOf[x] + d ELSE CumOf[x])
      BY <1>a, <1>4, CountsOf DEF TypeOK, CumOf, AttemptRecords
    <2>4. SumFunctionOnSet(CumOf, Chain(e)) = booked[e] + extra[e]
      BY <1>a DEF Books, ChainsAddUp
    <2>5. booked[e] \in Nat /\ extra[e] \in Nat
      BY <1>a DEF TypeOK
    <2>6. CASE h \in Chain(e)
      <3>1. SumFunctionOnSet(CumOf', Chain(e)) = SumFunctionOnSet(CumOf, Chain(e)) - CumOf[h] + CumOf'[h]
        BY <2>2, <2>3, <2>6, SumChange
      <3>2. e = c
        BY <2>6 DEF Chain, c
      <3>3. CumOf[h] \in Nat /\ CumOf'[h] = CumOf[h] + d
        BY <2>3
      <3>4. booked'[e] + extra'[e] = booked[e] + extra[e] + d
        BY <1>1, <1>8, <2>5, <3>2
      <3>. QED BY <1>1, <2>1, <2>4, <2>5, <3>1, <3>3, <3>4
    <2>7. CASE h \notin Chain(e)
      <3>1. SumFunctionOnSet(CumOf', Chain(e)) = SumFunctionOnSet(CumOf, Chain(e))
        BY <2>2, <2>3, <2>7, SumSame
      <3>2. e = c => d = 0 /\ b = 0
        BY <1>1, <1>2, <2>7 DEF Chain, c
      <3>. QED BY <1>8, <2>1, <2>4, <2>5, <3>1, <3>2
    <2>. QED BY <2>6, <2>7
  <1>. QED BY <1>7, <1>11, <1>13, <1>14 DEF Books

(* A new attempt, with nothing credited to it, adds nothing to its chain.   *)
LEMMA NewAttemptAddsUp ==
  ASSUME BInv, NEW h \in Ids, h \notin attempts, NEW a, a.cum = 0,
         attempts' = attempts \cup {h}, ho' = [ho EXCEPT ![h] = a],
         booked' = booked, extra' = extra
  PROVE  ChainsAddUp'
  <1>a. TypeOK /\ ChainsAddUp
    BY DEF BInv, IInv, Books
  <1>. SUFFICES ASSUME NEW c \in Ids
                PROVE  SumFunctionOnSet(CumOf', Chain(c)') = booked'[c] + extra'[c]
    BY DEF ChainsAddUp
  <1>1. \A x \in Ids : ho'[x] = IF x = h THEN a ELSE ho[x]
    BY <1>a DEF TypeOK
  <1>2. CumOf'[h] = 0 /\ \A x \in Ids : x # h => CumOf'[x] = CumOf[x]
    BY <1>1 DEF CumOf
  <1>3. IsFiniteSet(Chain(c)) /\ Chain(c) \subseteq Ids /\ h \notin Chain(c)
    BY <1>a, FiniteChains DEF Chain
  <1>4. Chain(c)' = IF a.chain = c THEN Chain(c) \cup {h} ELSE Chain(c)
    BY <1>a, <1>1 DEF Chain, TypeOK
  <1>5. SumFunctionOnSet(CumOf', Chain(c)) = SumFunctionOnSet(CumOf, Chain(c))
    BY <1>2, <1>3, SumSame
  <1>6. \A x \in Chain(c) : CumOf'[x] \in Nat
    BY <1>a, <1>2, <1>3, CountsOf
  <1>7. SumFunctionOnSet(CumOf', Chain(c)) \in Nat
    BY <1>3, <1>6, SumType
  <1>8. SumFunctionOnSet(CumOf', Chain(c) \cup {h}) = SumFunctionOnSet(CumOf', Chain(c)) + 0
    BY <1>2, <1>3, <1>6, SumAdd
  <1>9. SumFunctionOnSet(CumOf', Chain(c)') = SumFunctionOnSet(CumOf, Chain(c))
    BY <1>4, <1>5, <1>7, <1>8
  <1>. QED BY <1>a, <1>9 DEF ChainsAddUp

(* A retry adds an attempt to a live chain, and changes no count.           *)
LEMMA TickPlacesBooks ==
  ASSUME BInv, NEW c \in Ids, NEW sellBack \in BOOLEAN, TickPlaces(c, sellBack)
  PROVE  Books'
  <1>. DEFINE h == nextHedge + 1
              v == IF sellBack THEN Home[ob[c].maker] ELSE Other(Home[ob[c].maker])
              a == Attempt(c, v, Missing(c), sellBack, Skipped(c, h))
              r == [Ticked(c) EXCEPT !.sinceTry = 0, !.latest = h]
  <1>a. IInv /\ TypeOK /\ Books
    BY DEF BInv, IInv
  <1>1. /\ h \in Ids /\ attempts' = attempts \cup {h} /\ ho' = [ho EXCEPT ![h] = a]
        /\ UNCHANGED <<mcum, dropped, pending, booked, extra>>
        /\ c \in pending /\ ob' = [ob EXCEPT ![c] = r]
    BY DEF TickPlaces
  <1>2. a.cum = 0 /\ a.chain = c
    BY DEF Attempt
  <1>3. h \notin attempts /\ c \in Minted
    BY <1>a, <1>1 DEF IInv, IdsAreFresh, TypeOK
  <1>4. r.owed = ob[c].owed /\ r.maker = ob[c].maker
    BY <1>a DEF Ticked, TypeOK, Obligations
  <1>. HIDE DEF h, a, r
  <1>5. \A e \in Ids : ob'[e].owed = ob[e].owed /\ ob'[e].maker = ob[e].maker
    BY <1>a, <1>1, <1>4 DEF TypeOK
  <1>6. Minted' = Minted /\ ObligationsCoverFills'
    BY <1>1, <1>5, SameMinted
  <1>7. ChainsAddUp'
    BY <1>1, <1>2, <1>3, NewAttemptAddsUp
  <1>8. \A x \in Ids : ho'[x] = IF x = h THEN a ELSE ho[x]
    BY <1>a, <1>1 DEF TypeOK
  <1>9. Unmade' /\ OwnChain' /\ LiveNotOver'
    <2>1. attempts \subseteq Ids
      BY <1>a DEF TypeOK
    <2>. QED BY <1>a, <1>1, <1>2, <1>3, <1>6, <1>8, <2>1
         DEF Books, Unmade, OwnChain, LiveNotOver
  <1>. QED BY <1>6, <1>7, <1>9 DEF Books

(* A maker's fill is owed by the obligation minted for it, or is dropped.   *)
LEMMA CreditMakerBooks ==
  ASSUME BInv, NEW m \in Makers, NEW k \in Nat, k <= vfilled[m], CreditMaker(m, k)
  PROVE  Books'
  <1>. DEFINE d == MakerDelta(m, k)
              h == nextHedge + 1
              a == Attempt(h, Other(Home[m]), d, FALSE, {})
  <1>a. IInv /\ TypeOK /\ Books
    BY DEF BInv, IInv
  <1>b. d \in Nat
    BY <1>a, MakerDeltaType
  <1>1. \A n \in Makers :
           /\ mcum'[n] = IF n = m THEN mcum[n] + d ELSE mcum[n]
           /\ dropped'[n] = IF n = m /\ m \notin anchored THEN dropped[n] + d ELSE dropped[n]
           /\ mcum[n] \in Nat /\ dropped[n] \in Nat
    BY <1>a, <1>b DEF CreditMaker, TypeOK
  <1>2. booked' = booked /\ extra' = extra
    BY DEF CreditMaker
  <1>3. \A n \in Makers : mcum[n] = dropped[n] + SumFunctionOnSet(OwedOf, MintedFor(n))
    BY <1>a DEF Books, ObligationsCoverFills, OwedOf
  <1>c. \A n : IsFiniteSet(MintedFor(n)) /\ MintedFor(n) \subseteq Ids
    BY <1>a, FiniteChains
  <1>d. \A n : SumFunctionOnSet(OwedOf, MintedFor(n)) \in Nat
    BY <1>a, <1>c, CountsOf, SumType
  <1>4. CASE ~(d > 0 /\ m \in anchored)
    <2>1. UNCHANGED <<nextHedge, pending, ob, attempts, ho>>
      BY <1>4 DEF CreditMaker
    <2>2. Minted' = Minted /\ OwedOf' = OwedOf
      BY <2>1 DEF Minted, OwedOf
    <2>3. (\A n : MintedFor(n)' = MintedFor(n)) /\ (\A c : Chain(c)' = Chain(c)) /\ CumOf' = CumOf
      BY <2>1, <2>2 DEF MintedFor, Chain, CumOf
    <2>4. \A n \in Makers : mcum'[n] = dropped'[n] + SumFunctionOnSet(OwedOf', MintedFor(n)')
      BY <1>1, <1>3, <1>4, <1>b, <1>d, <2>2, <2>3
    <2>5. ObligationsCoverFills'
      BY <2>4 DEF ObligationsCoverFills, OwedOf
    <2>6. Unmade' /\ OwnChain' /\ LiveNotOver' /\ ChainsAddUp'
      BY <1>a, <1>2, <2>1, <2>2, <2>3 DEF Books, Unmade, OwnChain, LiveNotOver, ChainsAddUp
    <2>. QED BY <2>5, <2>6 DEF Books
  <1>5. CASE d > 0 /\ m \in anchored
    <2>1. MintAndPlace(m, d)
      BY <1>5 DEF CreditMaker
    <2>2. h \in Ids /\ pending' = pending \cup {h}
      BY <2>1 DEF MintAndPlace
    <2>3. h \notin Minted /\ h \notin attempts /\ h \notin pending
      BY <1>a, <2>2 DEF IInv, IdsAreFresh, TypeOK
    <2>4. PICK l \in {0, h} : ob' = [ob EXCEPT ![h] = Obligation(m, d, l)]
      BY <2>1 DEF MintAndPlace
    <2>5. Obligation(m, d, l).owed = d /\ Obligation(m, d, l).maker = m
      BY DEF Obligation
    <2>6. \A e \in Ids : /\ ob'[e].owed = IF e = h THEN d ELSE ob[e].owed
                         /\ ob'[e].maker = IF e = h THEN m ELSE ob[e].maker
      BY <1>a, <2>2, <2>4, <2>5 DEF TypeOK
    <2>7. \/ attempts' = attempts /\ ho' = ho
          \/ attempts' = attempts \cup {h} /\ ho' = [ho EXCEPT ![h] = a]
      BY <2>1 DEF MintAndPlace
    <2>8. a.cum = 0 /\ a.chain = h
      BY DEF Attempt
    <2>. HIDE DEF a, h, d
    <2>9. Minted' = Minted \cup {h}
      BY <1>5, <2>2, <2>6 DEF Minted
    <2>10. \A n : MintedFor(n)' = IF n = m THEN MintedFor(n) \cup {h} ELSE MintedFor(n)
      BY <2>2, <2>3, <2>6, <2>9 DEF MintedFor, Minted
    <2>11. \A x \in Ids : /\ OwedOf[x] \in Nat
                          /\ OwedOf'[x] = IF x = h THEN d ELSE OwedOf[x]
      BY <1>a, <2>6, CountsOf DEF OwedOf
    <2>12. \A n \in Makers : SumFunctionOnSet(OwedOf', MintedFor(n)) = SumFunctionOnSet(OwedOf, MintedFor(n))
      <3>. SUFFICES ASSUME NEW n \in Makers
                    PROVE  SumFunctionOnSet(OwedOf', MintedFor(n)) = SumFunctionOnSet(OwedOf, MintedFor(n))
        OBVIOUS
      <3>1. \A x \in MintedFor(n) : OwedOf'[x] = OwedOf[x]
        BY <2>3, <2>11 DEF MintedFor, Minted
      <3>. QED BY <1>c, <3>1, SumSame
    <2>13. SumFunctionOnSet(OwedOf', MintedFor(m) \cup {h}) = SumFunctionOnSet(OwedOf, MintedFor(m)) + d
      <3>1. h \notin MintedFor(m) /\ OwedOf'[h] = d
        BY <2>2, <2>3, <2>11 DEF MintedFor
      <3>2. \A x \in MintedFor(m) : OwedOf'[x] \in Nat
        BY <1>b, <1>c, <2>11
      <3>3. SumFunctionOnSet(OwedOf', MintedFor(m) \cup {h}) = SumFunctionOnSet(OwedOf', MintedFor(m)) + d
        BY <1>b, <1>c, <3>1, <3>2, SumAdd
      <3>. QED BY <2>12, <3>3
    <2>14. ObligationsCoverFills'
      <3>1. \A n \in Makers : mcum'[n] = dropped'[n] + SumFunctionOnSet(OwedOf', MintedFor(n)')
        <4>. SUFFICES ASSUME NEW n \in Makers
                      PROVE  mcum'[n] = dropped'[n] + SumFunctionOnSet(OwedOf', MintedFor(n)')
          OBVIOUS
        <4>1. CASE n = m
          <5>1. SumFunctionOnSet(OwedOf', MintedFor(m)') = SumFunctionOnSet(OwedOf, MintedFor(m)) + d
            BY <2>10, <2>13
          <5>2. mcum'[m] = mcum[m] + d /\ dropped'[m] = dropped[m] /\ dropped[m] \in Nat
            BY <1>1, <1>5
          <5>3. mcum[m] = dropped[m] + SumFunctionOnSet(OwedOf, MintedFor(m))
            BY <1>3
          <5>. QED BY <1>b, <1>d, <4>1, <5>1, <5>2, <5>3
        <4>2. CASE n # m
          BY <1>1, <1>3, <2>10, <2>12, <4>2
        <4>. QED BY <4>1, <4>2
      <3>. QED BY <3>1 DEF ObligationsCoverFills, OwedOf
    <2>15. Unmade' /\ OwnChain' /\ LiveNotOver'
      <3>1. \A x \in Ids : ho'[x] = ho[x] \/ (x = h /\ x \in attempts' /\ ho'[x] = a)
        BY <1>a, <2>2, <2>7 DEF TypeOK
      <3>2. attempts \subseteq attempts' /\ attempts' \subseteq attempts \cup {h} /\ attempts \subseteq Ids
        BY <1>a, <2>7 DEF TypeOK
      <3>3. Unmade'
        BY <1>a, <3>1, <3>2 DEF Books, Unmade
      <3>4. OwnChain'
        <4>1. \A g \in attempts : ho'[g].chain \in Minted'
          BY <1>a, <2>3, <2>9, <3>1, <3>2 DEF Books, OwnChain
        <4>2. h \in attempts' => ho'[h].chain \in Minted'
          BY <1>a, <2>2, <2>3, <2>7, <2>8, <2>9 DEF TypeOK
        <4>. QED BY <3>2, <4>1, <4>2 DEF OwnChain
      <3>5. LiveNotOver'
        BY <1>a, <1>2, <2>2, <2>3, <2>9 DEF Books, LiveNotOver
      <3>. QED BY <3>3, <3>4, <3>5
    <2>16. ChainsAddUp'
      <3>1. CASE attempts' = attempts /\ ho' = ho
        BY <1>a, <1>2, <3>1 DEF Books, ChainsAddUp, Chain, CumOf
      <3>2. CASE attempts' = attempts \cup {h} /\ ho' = [ho EXCEPT ![h] = a]
        BY <1>2, <2>2, <2>3, <2>8, <3>2, NewAttemptAddsUp
      <3>. QED BY <2>7, <3>1, <3>2
    <2>. QED BY <2>14, <2>15, <2>16 DEF Books
  <1>. QED BY <1>4, <1>5

(* Every step keeps the books. *)
LEMMA StepBooks == BInv /\ [Next]_vars => BInv'
  <1>. SUFFICES ASSUME BInv, [Next]_vars PROVE BInv'
    OBVIOUS
  <1>1. IInv /\ IInv' /\ TypeOK'
    BY StepInv DEF BInv, IInv
  <1>2. Books'
    BY <1>1, BookSteps, QuietBooks, CreditHedgeBooks, CreditMakerBooks, TickPlacesBooks
  <1>. QED BY <1>1, <1>2 DEF BInv

(* The books hold with the inductive invariant they extend.                 *)
THEOREM BooksInvariance == Spec => []BInv
  <1>1. Init => BInv
    BY InitInv, InitBooks DEF BInv
  <1>. QED BY <1>1, StepBooks, PTL DEF Spec

(* No credit is counted twice and none is lost: over a chain's attempts,    *)
(* what the engine credited is what it booked plus what it alarmed.         *)
THEOREM CreditsBalance == Spec => []CreditsAddUp
  <1>1. BInv => CreditsAddUp
    BY DEF BInv, Books, ChainsAddUp, CreditsAddUp, CumOf, Minted
  <1>. QED BY BooksInvariance, <1>1, PTL

(* I4 of hedge.rs: every accepted contract of a maker is owed by one        *)
(* obligation, or was dropped for want of an anchor.                        *)
THEOREM FillsCovered == Spec => []ObligationsCoverFills
  <1>1. BInv => ObligationsCoverFills
    BY DEF BInv, Books
  <1>. QED BY BooksInvariance, <1>1, PTL

-----------------------------------------------------------------------------
(* Why a chain cannot be over-hedged while every attempt was checked.       *)

(* No attempt of the chain was queued past a filled one it could not ask    *)
(* about.                                                                   *)
Clean(c) == \A h \in Chain(c) : \A b \in ho[h].skipped : vfilled[b] = 0

(* Attempt h is backed: if its chain is clean, everything its predecessors  *)
(* filled has been credited, and what it asked for fits in what is left.    *)
Before(h) == {b \in Chain(ho[h].chain) : b < h}
Backed(h) ==
    Clean(ho[h].chain)
      => /\ \A b \in Before(h) : vfilled[b] <= ho[b].cum
         /\ ho[h].qty + SumFunctionOnSet(vfilled, Before(h)) <= ob[ho[h].chain].owed

(* The venue has taken attempt h, so far as anyone can tell.                *)
AckFor(h) ==
    \E v \in Venues : \E i \in 1..Len(chan[v]) :
        chan[v][i].kind = "order_ack" /\ chan[v][i].oid = h
Placed(h) == vfilled[h] > 0 \/ h \in named \/ AckFor(h)

QueuedSound(cmd) ==
    /\ cmd.oid \in attempts
    /\ ~Placed(cmd.oid)
    /\ Accounted(cmd) => Backed(cmd.oid)

WithinQty    == \A h \in Ids : vfilled[h] <= ho[h].qty
PlacedBacked == \A h \in Ids : Placed(h) => h \in attempts /\ Backed(h)
Queued(cmd)  == \E v \in Venues : \E i \in 1..Len(queue[v]) : queue[v][i] = cmd
QueuedBacked == \A cmd \in Cmds : Queued(cmd) => QueuedSound(cmd)
QueuedOnce   == \A v, w \in Venues : \A i \in 1..Len(queue[v]), j \in 1..Len(queue[w]) :
                   queue[v][i].oid = queue[w][j].oid => v = w /\ i = j
Asked(h)     == \A b \in Before(h) : b \in named \/ b \in ho[h].skipped
AllAsked     == \A h \in attempts : Asked(h)

Attempted == WithinQty /\ PlacedBacked /\ QueuedBacked /\ QueuedOnce /\ AllAsked
OInv      == BInv /\ Attempted

(* The initial state: no attempt at all. *)
LEMMA InitAttempted == Init => Attempted
  <1>. SUFFICES ASSUME Init PROVE Attempted
    OBVIOUS
  <1>1. /\ \A h \in Ids : vfilled[h] = 0 /\ ho[h].qty = 0
        /\ named = {} /\ attempts = {}
        /\ \A v \in Venues : chan[v] = <<>> /\ queue[v] = <<>>
    BY DEF Init, Orders, Attempt
  <1>2. WithinQty /\ AllAsked
    BY <1>1 DEF WithinQty, AllAsked
  <1>3. PlacedBacked
    BY <1>1 DEF PlacedBacked, Placed, AckFor
  <1>4. QueuedBacked /\ QueuedOnce
    BY <1>1 DEF QueuedBacked, Queued, QueuedOnce
  <1>. QED BY <1>2, <1>3, <1>4 DEF Attempted

(* What every step does to the attempts already made: it may credit them    *)
(* more, and fill one that no one has named.                                *)
Grows ==
    /\ \A b \in attempts : /\ b \in attempts'
                           /\ ho'[b].chain = ho[b].chain /\ ho'[b].qty = ho[b].qty
                          /\ ho'[b].skipped = ho[b].skipped
                          /\ ho[b].cum <= ho'[b].cum
    /\ \A b \in attempts' \ attempts : b > nextHedge
    /\ \A c \in Minted : ob'[c].owed = ob[c].owed
    /\ named \subseteq named'
    /\ \A b \in Ids : /\ vfilled[b] <= vfilled'[b]
                      /\ vfilled'[b] = vfilled[b] \/ b \notin named

(* The chain of an attempt made, below it, does not change. *)
LEMMA SameBefore ==
  ASSUME OInv, TypeOK', Grows, NEW h \in attempts
  PROVE  Before(h)' = Before(h) /\ Before(h) \subseteq attempts /\ ho'[h].chain = ho[h].chain
  <1>a. IInv /\ TypeOK /\ IdsAreFresh /\ attempts \subseteq Ids /\ nextHedge \in Nat
    BY DEF OInv, BInv, IInv, TypeOK
  <1>1. h <= nextHedge /\ h \in Nat
    BY <1>a DEF IdsAreFresh, Ids
  <1>2. \A b \in Ids : b \in attempts' /\ b < h => b \in attempts
    BY <1>a, <1>1 DEF Grows, Ids
  <1>3. attempts' \subseteq Ids
    BY DEF TypeOK
  <1>. QED BY <1>2, <1>3 DEF Before, Chain, Grows

(* An attempt that is backed stays backed.                                  *)
LEMMA BackedStays ==
  ASSUME OInv, TypeOK', Grows, NEW h \in attempts, Backed(h)
  PROVE  Backed(h)'
  <1>. DEFINE c == ho[h].chain
  <1>a. TypeOK /\ c \in Ids /\ c \in Minted /\ attempts \subseteq Ids
    BY DEF OInv, BInv, IInv, Books, OwnChain, TypeOK, AttemptRecords
  <1>b. \A b \in Ids : vfilled[b] \in Nat /\ vfilled'[b] \in Nat /\ vfilled[b] <= vfilled'[b]
    BY <1>a DEF TypeOK, Grows, Orders
  <1>1. ho'[h].chain = c /\ ho'[h].qty = ho[h].qty /\ ho'[h].skipped = ho[h].skipped
        /\ h \in attempts' /\ ob'[c].owed = ob[c].owed
    BY <1>a DEF Grows
  <1>2. Before(h)' = Before(h) /\ Before(h) \subseteq attempts
    BY SameBefore
  <1>3. SUFFICES ASSUME Clean(c)'
                 PROVE  /\ \A b \in Before(h) : vfilled'[b] <= ho'[b].cum
                        /\ ho[h].qty + SumFunctionOnSet(vfilled', Before(h)) <= ob[c].owed
    BY <1>1, <1>2 DEF Backed
  <1>4. \A g \in attempts : ho[g].chain = c => \A b \in ho[g].skipped : vfilled'[b] = 0
    BY <1>3 DEF Clean, Chain, Grows
  <1>5. Clean(c)
    <2>1. \A g \in attempts : ho[g].skipped \subseteq Ids
      BY <1>a DEF TypeOK, AttemptRecords
    <2>. QED BY <1>b, <1>4, <2>1 DEF Clean, Chain
  <1>6. \A b \in Before(h) : vfilled'[b] = vfilled[b]
    <2>1. \A b \in Before(h) : b \in named \/ b \in ho[h].skipped
      BY DEF OInv, Attempted, AllAsked, Asked
    <2>2. \A b \in ho[h].skipped : vfilled'[b] = 0
      BY <1>4
    <2>. QED BY <1>a, <1>b, <1>2, <2>1, <2>2 DEF Grows
  <1>7. SumFunctionOnSet(vfilled', Before(h)) = SumFunctionOnSet(vfilled, Before(h))
    BY <1>a, <1>2, <1>6, SumSame, FiniteChains, FS_Subset DEF Before
  <1>8. /\ \A b \in Before(h) : vfilled[b] <= ho[b].cum
        /\ ho[h].qty + SumFunctionOnSet(vfilled, Before(h)) <= ob[c].owed
    BY <1>5 DEF Backed
  <1>9. \A b \in Before(h) : /\ ho[b].cum \in Nat /\ ho'[b].cum \in Nat
                             /\ ho[b].cum <= ho'[b].cum /\ vfilled[b] \in Nat
    BY <1>a, <1>b, <1>2 DEF Grows, TypeOK, AttemptRecords
  <1>10. \A b \in Before(h) : vfilled'[b] <= ho'[b].cum
    BY <1>6, <1>8, <1>9
  <1>. QED BY <1>7, <1>8, <1>10

-----------------------------------------------------------------------------
(* Messages and commands.                                                   *)

(* Taking a message off a channel adds no ack.                              *)
LEMMA TailAcks ==
  ASSUME TypeOK, NEW v \in Venues, chan[v] # <<>>, chan' = [chan EXCEPT ![v] = Tail(@)]
  PROVE  \A h : AckFor(h)' => AckFor(h)
  <1>1. chan[v] \in Seq(Msgs)
    BY DEF TypeOK
  <1>2. /\ Len(Tail(chan[v])) = Len(chan[v]) - 1 /\ Len(chan[v]) \in Nat
        /\ \A i \in 1..Len(Tail(chan[v])) : Tail(chan[v])[i] = chan[v][i + 1]
    BY <1>1, HeadTailProperties, LenProperties
  <1>3. \A w \in Venues : chan'[w] = IF w = v THEN Tail(chan[v]) ELSE chan[w]
    BY DEF TypeOK
  <1>4. \A i \in 1..Len(Tail(chan[v])) : i + 1 \in 1..Len(chan[v])
    BY <1>2
  <1>. QED BY <1>2, <1>3, <1>4 DEF AckFor

(* An ack at the head of a channel is an ack.                               *)
LEMMA HeadIsAck ==
  ASSUME TypeOK, NEW v \in Venues, chan[v] # <<>>, Head(chan[v]).kind = "order_ack"
  PROVE  AckFor(Head(chan[v]).oid)
  <1>1. chan[v] \in Seq(Msgs)
    BY DEF TypeOK
  <1>2. 1 \in 1..Len(chan[v]) /\ Head(chan[v]) = chan[v][1]
    BY <1>1, EmptySeq
  <1>. QED BY <1>2 DEF AckFor

(* The command at the head of a queue is queued. *)
LEMMA HeadIsQueued ==
  ASSUME TypeOK, NEW v \in Venues, queue[v] # <<>>
  PROVE  Head(queue[v]) \in Cmds /\ Queued(Head(queue[v]))
  <1>1. queue[v] \in Seq(Cmds)
    BY DEF TypeOK
  <1>2. 1 \in 1..Len(queue[v]) /\ Head(queue[v]) = queue[v][1]
    BY <1>1, EmptySeq
  <1>. QED BY <1>2, QueueHead DEF Queued

(* Serving a command leaves the others queued, each once.                   *)
LEMMA TailQueued ==
  ASSUME TypeOK, QueuedOnce, NEW v \in Venues, queue[v] # <<>>,
         queue' = [queue EXCEPT ![v] = Tail(@)]
  PROVE  /\ QueuedOnce'
         /\ \A cmd : Queued(cmd)' => Queued(cmd) /\ cmd.oid # Head(queue[v]).oid
  <1>1. queue[v] \in Seq(Cmds)
    BY DEF TypeOK
  <1>2. /\ Len(Tail(queue[v])) = Len(queue[v]) - 1 /\ Len(queue[v]) \in Nat
        /\ \A i \in 1..Len(Tail(queue[v])) : Tail(queue[v])[i] = queue[v][i + 1]
    BY <1>1, HeadTailProperties, LenProperties
  <1>3. \A w \in Venues : queue'[w] = IF w = v THEN Tail(queue[v]) ELSE queue[w]
    BY DEF TypeOK
  <1>4. \A i \in 1..Len(Tail(queue[v])) : i + 1 \in 1..Len(queue[v]) /\ i + 1 # 1 /\ i \in Nat
    BY <1>2
  <1>5. 1 \in 1..Len(queue[v]) /\ Head(queue[v]) = queue[v][1]
    BY <1>1, EmptySeq
  <1>6. ASSUME NEW w \in Venues, NEW i \in 1..Len(queue'[w])
        PROVE  \E j \in 1..Len(queue[w]) : /\ queue'[w][i] = queue[w][j]
                                           /\ j = IF w = v THEN i + 1 ELSE i
                                           /\ queue[w][j].oid # Head(queue[v]).oid
    <2>1. CASE w = v
      <3>1. i \in 1..Len(Tail(queue[v])) /\ queue'[w][i] = queue[v][i + 1]
        BY <1>2, <1>3, <2>1
      <3>2. i + 1 \in 1..Len(queue[v]) /\ i + 1 # 1
        BY <1>4, <3>1
      <3>3. queue[v][i + 1].oid # queue[v][1].oid
        BY <1>5, <3>2 DEF QueuedOnce
      <3>. QED BY <1>5, <2>1, <3>1, <3>2, <3>3
    <2>2. CASE w # v
      BY <1>3, <1>5, <2>2 DEF QueuedOnce
    <2>. QED BY <2>1, <2>2
  <1>7. QueuedOnce'
    <2>. SUFFICES ASSUME NEW w \in Venues, NEW x \in Venues,
                         NEW i \in 1..Len(queue'[w]), NEW j \in 1..Len(queue'[x]),
                         queue'[w][i].oid = queue'[x][j].oid
                  PROVE  w = x /\ i = j
      BY DEF QueuedOnce
    <2>1. PICK k \in 1..Len(queue[w]) : /\ queue'[w][i] = queue[w][k]
                                       /\ k = IF w = v THEN i + 1 ELSE i
      BY <1>6
    <2>2. PICK l \in 1..Len(queue[x]) : /\ queue'[x][j] = queue[x][l]
                                       /\ l = IF x = v THEN j + 1 ELSE j
      BY <1>6
    <2>3. w = x /\ k = l
      BY <2>1, <2>2 DEF QueuedOnce
    <2>4. i \in Int /\ j \in Int
      OBVIOUS
    <2>5. CASE w = v
      <3>1. i + 1 = j + 1
        BY <2>1, <2>2, <2>3, <2>5
      <3>. QED BY <2>3, <2>4, <3>1
    <2>6. CASE w # v
      <3>1. i = j
        BY <2>1, <2>2, <2>3, <2>6
      <3>. QED BY <2>3, <3>1
    <2>. QED BY <2>5, <2>6
  <1>8. ASSUME NEW cmd, Queued(cmd)' PROVE Queued(cmd) /\ cmd.oid # Head(queue[v]).oid
    <2>1. PICK w \in Venues : \E i \in 1..Len(queue'[w]) : queue'[w][i] = cmd
      BY <1>8 DEF Queued
    <2>2. PICK i \in 1..Len(queue'[w]) : queue'[w][i] = cmd
      BY <2>1
    <2>3. PICK j \in 1..Len(queue[w]) : queue'[w][i] = queue[w][j]
                                       /\ queue[w][j].oid # Head(queue[v]).oid
      BY <1>6
    <2>. QED BY <2>2, <2>3 DEF Queued
  <1>. QED BY <1>7, <1>8

(* A command queued under a fresh id is queued once.                        *)
LEMMA AppendQueued ==
  ASSUME TypeOK, QueuedOnce, NEW v \in Venues, NEW new \in Cmds,
         queue' = [queue EXCEPT ![v] = Append(@, new)],
         \A cmd \in Cmds : Queued(cmd) => cmd.oid # new.oid
  PROVE  /\ QueuedOnce'
         /\ \A cmd : Queued(cmd)' => Queued(cmd) \/ cmd = new
  <1>1. queue[v] \in Seq(Cmds)
    BY DEF TypeOK
  <1>2. /\ Len(Append(queue[v], new)) = Len(queue[v]) + 1 /\ Len(queue[v]) \in Nat
        /\ \A i \in 1..Len(queue[v]) : Append(queue[v], new)[i] = queue[v][i]
        /\ Append(queue[v], new)[Len(queue[v]) + 1] = new
    BY <1>1, AppendProperties, LenProperties
  <1>3. \A w \in Venues : queue'[w] = IF w = v THEN Append(queue[v], new) ELSE queue[w]
    BY DEF TypeOK
  <1>4. ASSUME NEW w \in Venues, NEW i \in 1..Len(queue'[w])
        PROVE  \/ i \in 1..Len(queue[w]) /\ queue'[w][i] = queue[w][i]
               \/ w = v /\ i = Len(queue[v]) + 1 /\ queue'[w][i] = new
    BY <1>2, <1>3
  <1>5. \A w \in Venues : \A i \in 1..Len(queue[w]) : queue[w][i].oid # new.oid
    <2>. SUFFICES ASSUME NEW w \in Venues, NEW i \in 1..Len(queue[w])
                  PROVE  queue[w][i].oid # new.oid
      OBVIOUS
    <2>1. queue[w][i] \in Cmds
      BY DEF TypeOK
    <2>. QED BY <2>1 DEF Queued
  <1>6. QueuedOnce'
    <2>. SUFFICES ASSUME NEW w \in Venues, NEW x \in Venues,
                         NEW i \in 1..Len(queue'[w]), NEW j \in 1..Len(queue'[x]),
                         queue'[w][i].oid = queue'[x][j].oid
                  PROVE  w = x /\ i = j
      BY DEF QueuedOnce
    <2>. QED BY <1>4, <1>5 DEF QueuedOnce
  <1>7. ASSUME NEW cmd, Queued(cmd)' PROVE Queued(cmd) \/ cmd = new
    <2>1. PICK w \in Venues : \E i \in 1..Len(queue'[w]) : queue'[w][i] = cmd
      BY <1>7 DEF Queued
    <2>. QED BY <1>4, <2>1 DEF Queued
  <1>. QED BY <1>6, <1>7

(* Messages sent add the acks among them.                                   *)
LEMMA ServedAcks ==
  ASSUME TypeOK, NEW v \in Venues, NEW msgs \in Seq(Msgs), Served(v, msgs), NEW h, AckFor(h)'
  PROVE  \/ AckFor(h)
         \/ \E i \in 1..Len(msgs) : msgs[i].kind = "order_ack" /\ msgs[i].oid = h
  <1>1. chan[v] \in Seq(Msgs)
    BY DEF TypeOK
  <1>2. /\ Len(chan[v] \o msgs) = Len(chan[v]) + Len(msgs)
        /\ Len(chan[v]) \in Nat /\ Len(msgs) \in Nat
        /\ \A i \in 1..(Len(chan[v]) + Len(msgs)) :
              (chan[v] \o msgs)[i] = IF i <= Len(chan[v]) THEN chan[v][i]
                                     ELSE msgs[i - Len(chan[v])]
    BY <1>1, ConcatProperties, LenProperties
  <1>3. \A w \in Venues : chan'[w] = IF w = v THEN chan[v] \o msgs ELSE chan[w]
    BY DEF Served, TypeOK
  <1>4. PICK w \in Venues : \E i \in 1..Len(chan'[w]) :
           chan'[w][i].kind = "order_ack" /\ chan'[w][i].oid = h
    BY DEF AckFor
  <1>5. CASE w # v
    BY <1>3, <1>4, <1>5 DEF AckFor
  <1>6. CASE w = v
    <2>1. PICK i \in 1..(Len(chan[v]) + Len(msgs)) :
             (chan[v] \o msgs)[i].kind = "order_ack" /\ (chan[v] \o msgs)[i].oid = h
      BY <1>2, <1>3, <1>4, <1>6
    <2>2. CASE i <= Len(chan[v])
      <3>1. i \in 1..Len(chan[v]) /\ (chan[v] \o msgs)[i] = chan[v][i]
        BY <1>2, <2>2
      <3>. QED BY <2>1, <3>1 DEF AckFor
    <2>3. CASE ~(i <= Len(chan[v]))
      <3>1. i - Len(chan[v]) \in 1..Len(msgs)
            /\ (chan[v] \o msgs)[i] = msgs[i - Len(chan[v])]
        BY <1>2, <2>3
      <3>. QED BY <2>1, <3>1
    <2>. QED BY <2>2, <2>3
  <1>. QED BY <1>5, <1>6

-----------------------------------------------------------------------------
(* What each step does to the attempts, by kind.                            *)

(* Nothing is placed by this step. *)
NonePlaced ==
    /\ named \subseteq named'
    /\ \A b \in Ids : vfilled'[b] = vfilled[b] /\ (Placed(b)' => Placed(b))

(* The executor of v takes the command at the head of its queue.            *)
Serves(v) ==
    LET h == Head(queue[v]).oid
    IN  /\ queue[v] # <<>>
        /\ queue' = [queue EXCEPT ![v] = Tail(@)]
        /\ UNCHANGED engineVars
        /\ \E filled \in 0..ho[h].qty :
              \A b \in Ids : vfilled'[b] = vfilled[b] + IF b = h THEN filled ELSE 0
        /\ \A b \in Ids : Placed(b)' => Placed(b) \/ (b = h /\ Accounted(Head(queue[v])))

Kept == NonePlaced /\ attempts' = attempts /\ queue' = queue
Made == NonePlaced /\ (\/ \E m \in Makers, q \in Nat : q > 0 /\ MintAndPlace(m, q)
                       \/ \E c \in Ids, sellBack \in BOOLEAN : TickPlaces(c, sellBack))

(* A credit makes an attempt only by minting an obligation.                 *)
LEMMA CreditAttempts ==
  ASSUME TypeOK, NEW o \in Orders, NEW cum \in Nat, Credit(o, cum)
  PROVE  \/ attempts' = attempts /\ queue' = queue
         \/ \E m \in Makers, q \in Nat : q > 0 /\ MintAndPlace(m, q)
  <1>1. CASE o \in Makers
    <2>1. CreditMaker(o, cum) /\ MakerDelta(o, cum) \in Nat
      BY <1>1, MakerDeltaType DEF Credit
    <2>. QED BY <1>1, <2>1 DEF CreditMaker
  <1>2. CASE o \notin Makers
    BY <1>2 DEF Credit, CreditHedge
  <1>. QED BY <1>1, <1>2

(* With the venues unmoved, nothing new named but what is acked, and no ack *)
(* sent, nothing is placed. *)
LEMMA NothingPlaced ==
  ASSUME TypeOK, \A b \in Ids : vfilled'[b] = vfilled[b],
         named \subseteq named', \A b \in Ids : b \in named' \ named => AckFor(b),
         \A b : AckFor(b)' => AckFor(b)
  PROVE  NonePlaced
  BY DEF NonePlaced, Placed

(* An ack places nothing that its message had not placed.                   *)
LEMMA AcknowledgedKept ==
  ASSUME TypeOK, NEW o \in Orders, Acknowledged(o), o \in Ids => AckFor(o),
         \A b : AckFor(b)' => AckFor(b)
  PROVE  Kept \/ Made
  <1>1. NonePlaced
    BY NothingPlaced DEF Acknowledged
  <1>2. unclaimed[o] \in Nat
    BY DEF TypeOK
  <1>3. CASE unclaimed[o] > 0
    BY <1>1, <1>2, <1>3, CreditAttempts DEF Acknowledged, Kept, Made
  <1>4. CASE ~(unclaimed[o] > 0)
    BY <1>1, <1>4 DEF Acknowledged, Kept
  <1>. QED BY <1>3, <1>4

(* The same channels hold the same acks. *)
LEMMA SameAcks == chan' = chan => \A b : AckFor(b)' => AckFor(b)
  BY DEF AckFor

(* Serving a command that places, or tells, what the code lets it.          *)
LEMMA ServedServes ==
  ASSUME TypeOK, NEW v \in Venues, queue[v] # <<>>, NEW msgs \in Seq(Msgs), Served(v, msgs),
         NEW filled \in 0..ho[Head(queue[v]).oid].qty,
         \/ vfilled' = [vfilled EXCEPT ![Head(queue[v]).oid] = @ + filled]
         \/ vfilled' = vfilled /\ filled = 0,
         \A i \in 1..Len(msgs) : msgs[i].kind = "order_ack"
                                   => /\ msgs[i].oid = Head(queue[v]).oid
                                      /\ Accounted(Head(queue[v])),
         filled # 0 => Accounted(Head(queue[v]))
  PROVE  Serves(v)
  <1>. DEFINE h == Head(queue[v]).oid
  <1>1. h \in Ids /\ h \in Orders
    BY QueueHead DEF Cmds, Orders
  <1>2. /\ vfilled'[h] = vfilled[h] + filled
        /\ \A b \in Ids : b # h => vfilled'[b] = vfilled[b]
    <2>1. vfilled[h] \in Nat
      BY <1>1 DEF TypeOK
    <2>. HIDE DEF h
    <2>2. CASE vfilled' = vfilled /\ filled = 0
      BY <2>1, <2>2
    <2>3. CASE vfilled' = [vfilled EXCEPT ![h] = @ + filled]
      BY <1>1, <2>3 DEF TypeOK, Orders
    <2>. QED BY <2>2, <2>3 DEF h
  <1>3. named' = named
    BY DEF Served, engineVars
  <1>a. filled # 0 => Accounted(Head(queue[v]))
    OBVIOUS
  <1>4. \A b : AckFor(b)' => AckFor(b) \/ (b = h /\ Accounted(Head(queue[v])))
    BY ServedAcks
  <1>5. \A b \in Ids : vfilled'[b] = vfilled[b] + IF b = h THEN filled ELSE 0
    BY <1>1, <1>2 DEF TypeOK, Orders
  <1>6. \A b \in Ids : b # h \/ filled = 0 => vfilled'[b] = vfilled[b]
    BY <1>1, <1>2 DEF TypeOK, Orders
  <1>. HIDE DEF h
  <1>7. \A b \in Ids : Placed(b)' => Placed(b) \/ (b = h /\ Accounted(Head(queue[v])))
    BY <1>a, <1>3, <1>4, <1>6 DEF Placed
  <1>. QED BY <1>1, <1>5, <1>7 DEF Serves, Served, h

(* Every step keeps the attempts, makes one, or serves a command.           *)
LEMMA AttemptSteps ==
  ASSUME IInv, [Next]_vars
  PROVE  Kept \/ Made \/ \E v \in Venues : Serves(v)
  <1>. DEFINE Kinds == Kept \/ Made \/ \E v \in Venues : Serves(v)
  <1>. SUFFICES Kinds
    OBVIOUS
  <1>a. TypeOK
    BY DEF IInv
  <1>b. vfilled' = vfilled /\ named' = named /\ chan' = chan => NonePlaced
    BY <1>a, NothingPlaced, SameAcks
  <1>1. ASSUME NEW m \in Makers, MakerTrades(m) PROVE Kinds
    <2>1. \A b \in Ids : vfilled'[b] = vfilled[b]
      BY <1>1, <1>a, MakersAssumption DEF MakerTrades, TypeOK, Orders
    <2>. QED BY <1>1, <1>a, <2>1, NothingPlaced, SameAcks DEF MakerTrades, engineVars, Kept
  <1>2. ASSUME NEW m \in Makers, RecvMakerAck(m) PROVE Kinds
    BY <1>2, <1>a, AcknowledgedKept, SameAcks, MakersAssumption DEF RecvMakerAck, Orders
  <1>3. ASSUME NEW o \in Orders, NEW cum \in Nat, FillReported(o, cum) PROVE Kinds
    BY <1>3, <1>a, <1>b, CreditAttempts DEF FillReported, Kept, Made
  <1>4. ASSUME NEW o \in Orders, NEW cum \in Nat, FillHeld(o, cum) PROVE Kinds
    BY <1>4, <1>b DEF FillHeld, Kept
  <1>5. ASSUME NEW o \in Orders, HeldFillExpires(o) PROVE Kinds
    BY <1>5, <1>b DEF HeldFillExpires, Kept
  <1>6. ASSUME NEW v \in Venues, RecvAck(v) PROVE Kinds
    <2>1. Head(chan[v]).oid \in Orders /\ AckFor(Head(chan[v]).oid)
      BY <1>6, <1>a, ChanHead, HeadIsAck DEF RecvAck, Msgs, Orders
    <2>2. \A b : AckFor(b)' => AckFor(b)
      BY <1>6, <1>a, TailAcks DEF RecvAck
    <2>. QED BY <1>6, <1>a, <2>1, <2>2, AcknowledgedKept DEF RecvAck
  <1>7. ASSUME NEW v \in Venues, RecvFill(v) PROVE Kinds
    <2>1. Head(chan[v]).oid \in Orders /\ Head(chan[v]).cum \in Nat
      BY <1>7, <1>a, ChanHead DEF RecvFill, Msgs, Orders
    <2>2. \A b : AckFor(b)' => AckFor(b)
      BY <1>7, <1>a, TailAcks DEF RecvFill
    <2>3. NonePlaced
      BY <1>7, <1>a, <2>2, NothingPlaced DEF RecvFill
    <2>. QED BY <1>7, <1>a, <2>1, <2>3, CreditAttempts DEF RecvFill, Kept, Made
  <1>8. ASSUME NEW v \in Venues, RecvMarketHalted(v) PROVE Kinds
    <2>1. \A b : AckFor(b)' => AckFor(b)
      BY <1>8, <1>a, TailAcks DEF RecvMarketHalted
    <2>. QED BY <1>8, <1>a, <2>1, NothingPlaced DEF RecvMarketHalted, Kept
  <1>9. ASSUME NEW c \in Ids,
               IntervalPasses(c) \/ HorizonPasses(c) \/ ParkExpires(c) \/ TickWaits(c)
        PROVE  Kinds
    BY <1>9, <1>b DEF IntervalPasses, HorizonPasses, ParkExpires, Clock, TickWaits, Kept
  <1>10. ASSUME NEW c \in Ids, NEW sellBack \in BOOLEAN, TickPlaces(c, sellBack) PROVE Kinds
    <2>1. vfilled' = vfilled /\ named' = named /\ chan' = chan
      BY <1>10 DEF TickPlaces
    <2>. QED BY <1>10, <1>b, <2>1 DEF Made
  <1>11. \A v \in Venues : queue[v] # <<>> =>
           /\ Head(queue[v]).oid \in Ids /\ ho[Head(queue[v]).oid].qty \in Nat
           /\ 0 \in 0..ho[Head(queue[v]).oid].qty
    <2>. SUFFICES ASSUME NEW v \in Venues, queue[v] # <<>>
                  PROVE  Head(queue[v]).oid \in Ids /\ ho[Head(queue[v]).oid].qty \in Nat
      OBVIOUS
    <2>1. Head(queue[v]).oid \in Ids
      BY <1>a, QueueHead DEF Cmds
    <2>. QED BY <1>a, <2>1 DEF TypeOK, AttemptRecords
  <1>12. ASSUME NEW v \in Venues, ExecUnreadable(v) PROVE Kinds
    <2>1. <<>> \in Seq(Msgs) /\ \A i \in 1..Len(<<>>) : <<>>[i].kind # "order_ack"
      OBVIOUS
    <2>2. queue[v] # <<>> /\ Served(v, <<>>) /\ vfilled' = vfilled
      BY <1>12 DEF ExecUnreadable
    <2>3. Serves(v)
      BY <1>a, <1>11, <2>1, <2>2, ServedServes
    <2>. QED BY <2>3
  <1>13. ASSUME NEW v \in Venues, ExecUnaccounted(v) PROVE Kinds
    <2>. DEFINE p == Head(queue[v]).prior
                g == Msg("fill", p, vfilled[p])
    <2>1. p \in Ids /\ vfilled[p] \in Nat
      BY <1>13, <1>a, QueueHead DEF ExecUnaccounted, Accounted, Cmds, TypeOK, Orders
    <2>2. g \in Msgs /\ g.kind = "fill"
      BY <2>1 DEF Msg, Msgs
    <2>3. queue[v] # <<>> /\ Served(v, <<g>>) /\ vfilled' = vfilled
      BY <1>13 DEF ExecUnaccounted
    <2>. HIDE DEF g
    <2>4. <<g>> \in Seq(Msgs) /\ \A i \in 1..Len(<<g>>) : <<g>>[i].kind # "order_ack"
      BY <2>2
    <2>5. Serves(v)
      BY <1>a, <1>11, <2>3, <2>4, ServedServes
    <2>. QED BY <2>5
  <1>14. ASSUME NEW v \in Venues, NEW halted \in BOOLEAN, ExecRefused(v, halted) PROVE Kinds
    <2>. DEFINE g == Msg("market_halted", Head(queue[v]).oid, 0)
                msgs == IF halted THEN <<g>> ELSE <<>>
    <2>1. queue[v] # <<>> /\ Served(v, msgs) /\ vfilled' = vfilled
      BY <1>14 DEF ExecRefused
    <2>2. g \in Msgs /\ g.kind = "market_halted"
      BY <1>11, <2>1 DEF Msg, Msgs
    <2>. HIDE DEF g
    <2>4. msgs \in Seq(Msgs) /\ \A i \in 1..Len(msgs) : msgs[i].kind # "order_ack"
      BY <2>2
    <2>. HIDE DEF msgs
    <2>5. Serves(v)
      BY <1>a, <1>11, <2>1, <2>4, ServedServes
    <2>. QED BY <2>5
  <1>15. ASSUME NEW v \in Venues, queue[v] # <<>>,
                NEW filled \in 0..ho[Head(queue[v]).oid].qty,
                ExecPlaces(v, filled) \/ ExecAnswerLost(v, filled)
         PROVE  Kinds
    <2>. DEFINE h == Head(queue[v]).oid
                g == Msg("order_ack", h, 0)
    <2>1. /\ Served(v, <<g>>) \/ Served(v, <<>>)
          /\ Accounted(Head(queue[v])) /\ vfilled' = [vfilled EXCEPT ![h] = @ + filled]
      BY <1>15 DEF ExecPlaces, ExecAnswerLost
    <2>2. g \in Msgs /\ g.oid = h
      BY <1>11, <1>15 DEF Msg, Msgs
    <2>. HIDE DEF g
    <2>3. /\ <<g>> \in Seq(Msgs) /\ \A i \in 1..Len(<<g>>) : <<g>>[i].oid = h
          /\ <<>> \in Seq(Msgs) /\ \A i \in 1..Len(<<>>) : <<>>[i].oid = h
      BY <2>2
    <2>4. Serves(v)
      BY <1>a, <1>15, <2>1, <2>3, ServedServes
    <2>. QED BY <2>4
  <1>16. CASE UNCHANGED vars
    BY <1>16, <1>b DEF vars, engineVars, Kept
  <1>. HIDE DEF Kinds
  <1>17. CASE Next
    <2>1. \A o \in Orders : \A cum \in 1..vfilled[o] : cum \in Nat
      OBVIOUS
    <2>. QED BY <1>17, <2>1, <1>1, <1>2, <1>3, <1>4, <1>5, <1>6, <1>7, <1>8, <1>9, <1>10, <1>12,
                <1>13, <1>14, <1>15, Zenon DEF Next
  <1>. QED BY <1>16, <1>17

(* A credit leaves what an attempt is for as it was.                        *)
LEMMA CreditGrows ==
  ASSUME IInv, NEW h \in Ids, NEW k \in Nat, CreditHedge(h, k)
  PROVE  /\ attempts' = attempts
         /\ \A b \in Ids : /\ ho'[b].chain = ho[b].chain /\ ho'[b].qty = ho[b].qty
                           /\ ho'[b].skipped = ho[b].skipped /\ ho[b].cum <= ho'[b].cum
         /\ \A e \in Ids : ob'[e].owed = ob[e].owed
  <1>. DEFINE c == ho[h].chain
              d == CreditDelta(h, k)
  <1>a. TypeOK /\ d \in Nat /\ c \in Ids
    BY CreditDeltaType DEF IInv, TypeOK, AttemptRecords
  <1>1. \A b \in Ids : /\ ho'[b].chain = ho[b].chain /\ ho'[b].qty = ho[b].qty
                       /\ ho'[b].skipped = ho[b].skipped /\ ho[b].cum <= ho'[b].cum
    <2>. DEFINE r == [ho[h] EXCEPT !.cum = @ + d]
    <2>1. /\ r.cum >= ho[h].cum /\ r.chain = ho[h].chain /\ r.qty = ho[h].qty
          /\ r.skipped = ho[h].skipped /\ \A b \in Ids : ho[b].cum \in Nat
      BY <1>a DEF TypeOK, AttemptRecords
    <2>2. ho' = [ho EXCEPT ![h] = r]
      BY DEF CreditHedge
    <2>. HIDE DEF r, d
    <2>. QED BY <1>a, <2>1, <2>2 DEF TypeOK
  <1>2. \A e \in Ids : ob'[e].owed = ob[e].owed
    <2>. DEFINE r == [ob[c] EXCEPT !.filled = @ + d]
    <2>1. r.owed = ob[c].owed
      BY <1>a DEF TypeOK, Obligations
    <2>2. ob' = ob \/ ob' = [ob EXCEPT ![c] = r]
      BY DEF CreditHedge
    <2>. HIDE DEF r, c
    <2>. QED BY <1>a, <2>1, <2>2 DEF TypeOK
  <1>. QED BY <1>1, <1>2 DEF CreditHedge

(* A new attempt, or obligation, leaves the others as they were.            *)
LEMMA MintGrows ==
  ASSUME IInv, NEW m \in Makers, NEW q \in Nat, MintAndPlace(m, q)
  PROVE  \E h, a, o :
            /\ h \in Ids /\ h = nextHedge + 1 /\ h \notin Minted /\ h \notin attempts
            /\ a = Attempt(h, Other(Home[m]), q, FALSE, {}) /\ o.owed = q
            /\ attempts' \subseteq attempts \cup {h} /\ attempts \subseteq attempts'
            /\ ob' = [ob EXCEPT ![h] = o]
            /\ \/ attempts' = attempts /\ ho' = ho /\ queue' = queue
               \/ /\ attempts' = attempts \cup {h} /\ ho' = [ho EXCEPT ![h] = a]
                  /\ Dispatch(Other(Home[m]), Cmd(h, 0, 0))
  <1>. DEFINE h == nextHedge + 1
              a == Attempt(h, Other(Home[m]), q, FALSE, {})
  <1>1. h \in Ids /\ h \notin Minted /\ h \notin attempts
    BY DEF IInv, IdsAreFresh, TypeOK, MintAndPlace
  <1>2. \E o : o.owed = q /\ ob' = [ob EXCEPT ![h] = o]
    <2>1. \A l : Obligation(m, q, l).owed = q
      BY DEF Obligation
    <2>2. ob' = [ob EXCEPT ![h] = Obligation(m, q, h)] \/ ob' = [ob EXCEPT ![h] = Obligation(m, q, 0)]
      BY DEF MintAndPlace
    <2>. HIDE DEF h
    <2>. QED BY <2>1, <2>2
  <1>3. \/ attempts' = attempts /\ ho' = ho /\ queue' = queue
        \/ /\ attempts' = attempts \cup {h} /\ ho' = [ho EXCEPT ![h] = a]
           /\ Dispatch(Other(Home[m]), Cmd(h, 0, 0))
    BY DEF MintAndPlace
  <1>. HIDE DEF h, a
  <1>. QED BY <1>1, <1>2, <1>3 DEF h, a

(* The same of a retry. *)
LEMMA RetryGrows ==
  ASSUME IInv, NEW c \in Ids, NEW sellBack \in BOOLEAN, TickPlaces(c, sellBack)
  PROVE  \E h, v, a :
            /\ h \in Ids /\ v \in Venues /\ h = nextHedge + 1 /\ h \notin Minted /\ h \notin attempts
            /\ a.chain = c /\ a.qty = Missing(c) /\ a.skipped = Skipped(c, h)
            /\ attempts' = attempts \cup {h} /\ ho' = [ho EXCEPT ![h] = a]
            /\ \A e \in Ids : ob'[e].owed = ob[e].owed
            /\ Dispatch(v, Cmd(h, Superseded(c, h),
                               IF Superseded(c, h) = 0 THEN 0 ELSE ho[Superseded(c, h)].cum))
  <1>. DEFINE h == nextHedge + 1
              v == IF sellBack THEN Home[ob[c].maker] ELSE Other(Home[ob[c].maker])
              a == Attempt(c, v, Missing(c), sellBack, Skipped(c, h))
              r == [Ticked(c) EXCEPT !.sinceTry = 0, !.latest = h]
              p == Superseded(c, h)
  <1>a. TypeOK
    BY DEF IInv
  <1>1. h \in Ids /\ h \notin Minted /\ h \notin attempts
    BY DEF IInv, IdsAreFresh, TypeOK, TickPlaces
  <1>2. v \in Venues
    BY <1>a, MakersAssumption, OtherIsVenue DEF TypeOK, Obligations
  <1>3. a.chain = c /\ a.qty = Missing(c) /\ a.skipped = Skipped(c, h)
    BY DEF Attempt
  <1>4. /\ attempts' = attempts \cup {h} /\ ho' = [ho EXCEPT ![h] = a]
        /\ ob' = [ob EXCEPT ![c] = r]
        /\ Dispatch(v, Cmd(h, p, IF p = 0 THEN 0 ELSE ho[p].cum))
    BY DEF TickPlaces
  <1>5. r.owed = ob[c].owed
    BY <1>a DEF Ticked, TypeOK, Obligations
  <1>. HIDE DEF h, v, a, r
  <1>6. \A e \in Ids : ob'[e].owed = ob[e].owed
    BY <1>a, <1>4, <1>5 DEF TypeOK
  <1>. QED BY <1>1, <1>2, <1>3, <1>4, <1>6 DEF h

(* Every step grows the attempts. *)
LEMMA StepGrows ==
  ASSUME OInv, [Next]_vars, TypeOK'
  PROVE  Grows
  <1>a. IInv /\ TypeOK /\ attempts \subseteq Ids /\ Minted \subseteq Ids /\ nextHedge \in Nat
    BY DEF OInv, BInv, IInv, TypeOK, Minted
  <1>b. \A b \in Ids : ho[b].cum \in Nat /\ vfilled[b] \in Nat
    BY <1>a DEF TypeOK, AttemptRecords, Orders
  <1>. DEFINE Books3 ==
          /\ \A b \in attempts : /\ b \in attempts'
                                 /\ ho'[b].chain = ho[b].chain /\ ho'[b].qty = ho[b].qty
                                /\ ho'[b].skipped = ho[b].skipped
                                /\ ho[b].cum <= ho'[b].cum
          /\ \A b \in attempts' \ attempts : b > nextHedge
          /\ \A c \in Minted : ob'[c].owed = ob[c].owed
  <1>1. Books3
    <2>1. CASE Quiet
      BY <1>a, <1>b, <2>1 DEF Quiet
    <2>2. ASSUME NEW h \in Ids, NEW k \in Nat, CreditHedge(h, k) PROVE Books3
      BY <1>a, <2>2, CreditGrows
    <2>3. ASSUME NEW m \in Makers, NEW q \in Nat, MintAndPlace(m, q) PROVE Books3
      <3>1. PICK h, a, o :
               /\ h \in Ids /\ h = nextHedge + 1 /\ h \notin Minted /\ h \notin attempts
               /\ attempts' \subseteq attempts \cup {h} /\ attempts \subseteq attempts'
               /\ ob' = [ob EXCEPT ![h] = o]
               /\ ho' = ho \/ ho' = [ho EXCEPT ![h] = a]
        BY <1>a, <2>3, MintGrows
      <3>2. \A b \in attempts : ho'[b] = ho[b]
        BY <1>a, <3>1 DEF TypeOK
      <3>3. \A e \in Minted : ob'[e] = ob[e]
        BY <1>a, <3>1 DEF TypeOK
      <3>. QED BY <1>a, <1>b, <3>1, <3>2, <3>3
    <2>4. ASSUME NEW m \in Makers, NEW k \in Nat, CreditMaker(m, k) PROVE Books3
      <3>1. CASE UNCHANGED <<nextHedge, pending, ob, attempts, ho, queue>>
        BY <1>a, <1>b, <3>1
      <3>2. CASE MintAndPlace(m, MakerDelta(m, k))
        BY <1>a, <2>3, <3>2, MakerDeltaType
      <3>. HIDE DEF Books3
      <3>. QED BY <2>4, <3>1, <3>2 DEF CreditMaker
    <2>5. ASSUME NEW c \in Ids, NEW sellBack \in BOOLEAN, TickPlaces(c, sellBack) PROVE Books3
      <3>1. PICK h, a :
               /\ h \in Ids /\ h = nextHedge + 1 /\ h \notin attempts
               /\ attempts' = attempts \cup {h} /\ ho' = [ho EXCEPT ![h] = a]
               /\ \A e \in Ids : ob'[e].owed = ob[e].owed
        BY <1>a, <2>5, RetryGrows
      <3>2. \A b \in attempts : ho'[b] = ho[b] /\ ho[b].cum \in Nat
        BY <1>a, <1>b, <3>1 DEF TypeOK
      <3>3. attempts' = attempts \cup {h} /\ h > nextHedge
        BY <1>a, <3>1
      <3>4. \A e \in Minted : ob'[e].owed = ob[e].owed
        BY <1>a, <3>1
      <3>. QED BY <3>2, <3>3, <3>4
    <2>. HIDE DEF Books3
    <2>. QED BY <1>a, BookSteps, <2>1, <2>2, <2>4, <2>5
  <1>2. /\ named \subseteq named'
        /\ \A b \in Ids : /\ vfilled[b] <= vfilled'[b]
                          /\ vfilled'[b] = vfilled[b] \/ b \notin named
    <2>1. CASE NonePlaced
      BY <1>b, <2>1 DEF NonePlaced
    <2>2. ASSUME NEW v \in Venues, Serves(v)
          PROVE  /\ named \subseteq named'
                 /\ \A b \in Ids : /\ vfilled[b] <= vfilled'[b]
                                   /\ vfilled'[b] = vfilled[b] \/ b \notin named
      <3>. DEFINE h == Head(queue[v]).oid
      <3>1. named' = named /\ queue[v] # <<>>
        BY <2>2 DEF Serves, engineVars
      <3>2. QueuedSound(Head(queue[v]))
        BY <1>a, <3>1, HeadIsQueued DEF OInv, Attempted, QueuedBacked
      <3>3. h \notin named
        BY <3>2 DEF QueuedSound, Placed
      <3>4. h \in Ids /\ ho[h].qty \in Nat
        BY <1>a, <3>1, QueueHead DEF Cmds, TypeOK, AttemptRecords
      <3>5. PICK filled \in 0..ho[h].qty :
               \A b \in Ids : vfilled'[b] = vfilled[b] + IF b = h THEN filled ELSE 0
        BY <2>2 DEF Serves
      <3>. HIDE DEF h
      <3>. QED BY <1>b, <3>1, <3>3, <3>4, <3>5
    <2>. QED BY <1>a, <2>1, <2>2, AttemptSteps DEF Kept, Made
  <1>. QED BY <1>1, <1>2 DEF Grows

-----------------------------------------------------------------------------
(* The attempts' invariant is kept.                                         *)

(* No attempt fills beyond what it asked for.                               *)
LEMMA StepWithinQty ==
  ASSUME OInv, [Next]_vars, TypeOK', Grows
  PROVE  WithinQty'
  <1>a. IInv /\ TypeOK /\ WithinQty /\ Unmade
    BY DEF OInv, BInv, IInv, Attempted, Books
  <1>b. \A b \in Ids : /\ ho[b].qty \in Nat /\ ho'[b].qty \in Nat
                       /\ vfilled[b] \in Nat /\ vfilled'[b] \in Nat
    BY <1>a DEF TypeOK, AttemptRecords, Orders
  <1>1. \A b \in Ids : /\ b \in attempts => ho'[b].qty = ho[b].qty
                       /\ b \notin attempts => vfilled[b] = 0
                       /\ vfilled[b] <= ho[b].qty
    BY <1>a, <1>b DEF Grows, WithinQty, Unmade
  <1>2. CASE NonePlaced
    BY <1>b, <1>1, <1>2 DEF NonePlaced, WithinQty
  <1>3. ASSUME NEW v \in Venues, Serves(v) PROVE WithinQty'
    <2>. DEFINE h == Head(queue[v]).oid
    <2>1. queue[v] # <<>>
      BY <1>3 DEF Serves
    <2>2. QueuedSound(Head(queue[v])) /\ h \in Ids
      BY <1>a, <2>1, HeadIsQueued DEF OInv, Attempted, QueuedBacked, Cmds
    <2>3. h \in attempts /\ vfilled[h] = 0
      BY <1>b, <2>2 DEF QueuedSound, Placed
    <2>4. PICK filled \in 0..ho[h].qty :
             \A b \in Ids : vfilled'[b] = vfilled[b] + IF b = h THEN filled ELSE 0
      BY <1>3 DEF Serves
    <2>. HIDE DEF h
    <2>5. \A b \in Ids : vfilled'[b] <= ho'[b].qty
      <3>. SUFFICES ASSUME NEW b \in Ids PROVE vfilled'[b] <= ho'[b].qty
        OBVIOUS
      <3>1. CASE b = h
        BY <1>b, <1>1, <2>2, <2>3, <2>4, <3>1
      <3>2. CASE b # h
        BY <1>b, <1>1, <2>4, <3>2
      <3>. QED BY <3>1, <3>2
    <2>. QED BY <2>5 DEF WithinQty
  <1>. QED BY <1>a, <1>2, <1>3, AttemptSteps DEF Kept, Made

(* The first attempt of an obligation asks for all of it.                   *)
LEMMA MintBacked ==
  ASSUME OInv, TypeOK', Grows, NonePlaced,
         NEW m \in Makers, NEW q \in Nat, MintAndPlace(m, q),
         NEW h \in attempts' \ attempts
  PROVE  /\ h = nextHedge + 1
         /\ Asked(h)' /\ Backed(h)'
         /\ \E v \in Venues : Dispatch(v, Cmd(h, 0, 0))
  <1>a. IInv /\ TypeOK /\ OwnChain /\ attempts \subseteq Ids
    BY DEF OInv, BInv, IInv, Books, TypeOK
  <1>1. PICK g, a, o :
            /\ g \in Ids /\ g = nextHedge + 1 /\ g \notin Minted /\ g \notin attempts
            /\ a = Attempt(g, Other(Home[m]), q, FALSE, {}) /\ o.owed = q
            /\ attempts' \subseteq attempts \cup {g} /\ attempts \subseteq attempts'
            /\ ob' = [ob EXCEPT ![g] = o]
            /\ \/ attempts' = attempts /\ ho' = ho /\ queue' = queue
               \/ /\ attempts' = attempts \cup {g} /\ ho' = [ho EXCEPT ![g] = a]
                  /\ Dispatch(Other(Home[m]), Cmd(g, 0, 0))
    BY <1>a, MintGrows
  <1>2. /\ h = g /\ attempts' = attempts \cup {h} /\ ho' = [ho EXCEPT ![h] = a]
        /\ Dispatch(Other(Home[m]), Cmd(h, 0, 0))
    BY <1>1
  <1>3. a.chain = h /\ a.qty = q /\ a.skipped = {}
    BY <1>1, <1>2 DEF Attempt
  <1>4. ho'[h] = a /\ ob'[h].owed = q
    BY <1>a, <1>1, <1>2 DEF TypeOK
  <1>5. Before(h)' = {}
    <2>1. \A b \in attempts : ho'[b].chain # h
      <3>1. \A b \in attempts : ho'[b].chain \in Minted
        BY <1>a DEF OwnChain, Grows
      <3>2. h \notin Minted
        BY <1>1, <1>2
      <3>. QED BY <3>1, <3>2
    <2>2. h \in Int /\ ~(h < h)
      BY <1>1, <1>2 DEF Ids
    <2>. QED BY <1>2, <1>3, <1>4, <2>1, <2>2 DEF Before, Chain
  <1>6. Asked(h)'
    BY <1>5 DEF Asked
  <1>7. Backed(h)'
    <2>1. q + SumFunctionOnSet(vfilled', {}) <= q
      BY SumEmpty
    <2>. QED BY <1>3, <1>4, <1>5, <2>1 DEF Backed
  <1>8. Other(Home[m]) \in Venues
    BY MakersAssumption, OtherIsVenue
  <1>. QED BY <1>1, <1>2, <1>6, <1>7, <1>8

(* What a live obligation has been credited, over its chain. *)
LEMMA CreditedToLive ==
  ASSUME OInv, NEW c \in pending
  PROVE  /\ SumFunctionOnSet(CumOf, Chain(c)) = ob[c].filled
         /\ ob[c].filled < ob[c].owed /\ c \in Ids /\ c \in Minted
         /\ ob[c].filled \in Nat /\ ob[c].owed \in Nat
  <1>1. TypeOK /\ c \in Minted /\ c \in Ids
    BY DEF OInv, BInv, IInv, IdsAreFresh, Minted
  <1>2. ob[c].filled \in Nat /\ ob[c].owed \in Nat /\ booked[c] \in Nat
    BY <1>1 DEF TypeOK, Obligations
  <1>3. ob[c].filled < ob[c].owed
    BY <1>1 DEF OInv, BInv, IInv, NakedIsTracked
  <1>4. booked[c] = Least(ob[c].filled, ob[c].owed)
    BY <1>1 DEF OInv, BInv, IInv, LedgerIsTheHedge
  <1>5. booked[c] = ob[c].filled
    BY <1>2, <1>3, <1>4 DEF Least
  <1>6. SumFunctionOnSet(CumOf, Chain(c)) = booked[c] + extra[c] /\ extra[c] = 0
    BY <1>1 DEF OInv, BInv, Books, ChainsAddUp, LiveNotOver
  <1>. QED BY <1>1, <1>2, <1>3, <1>5, <1>6

(* The attempt a retry is checked against: named, and no named one is later. *)
LEMMA SupersededIsLatest ==
  ASSUME TypeOK, NEW c, NEW h \in Ids
  PROVE  LET p == Superseded(c, h)
         IN  \/ p = 0 /\ Earlier(c, h) \cap named = {}
             \/ p \in Earlier(c, h) \cap named /\ \A d \in Earlier(c, h) \cap named : d <= p
  <1>. DEFINE known == Earlier(c, h) \cap named
  <1>1. CASE known = {}
    BY <1>1 DEF Superseded
  <1>2. CASE known # {}
    <2>1. known \subseteq Ids
      BY DEF Earlier, TypeOK
    <2>2. \E b \in known : \A d \in known : d <= b
      <3>. HIDE DEF known
      <3>1. IsFiniteSet(known)
        BY <2>1, FiniteChains, FS_Subset
      <3>2. known \subseteq Int
        BY <2>1 DEF Ids
      <3>. QED BY <1>2, <3>1, <3>2, GreatestOfSet
    <2>3. Superseded(c, h) = CHOOSE b \in known : \A d \in known : d <= b
      BY <2>2 DEF Superseded
    <2>. HIDE DEF known
    <2>4. /\ (CHOOSE b \in known : \A d \in known : d <= b) \in known
          /\ \A d \in known : d <= CHOOSE b \in known : \A d2 \in known : d2 <= b
      BY <2>2
    <2>. QED BY <2>3, <2>4 DEF known
  <1>. QED BY <1>1, <1>2

(* A clean chain, with what it is checked against accounted for, has been   *)
(* credited all that it filled: the unnamed attempts filled nothing, and    *)
(* the latest named one was itself placed over what came before it.         *)
LEMMA AllCredited ==
  ASSUME OInv, NEW c \in Ids, NEW h \in Ids, \A b \in attempts : b < h,
         Clean(c), \A b \in Earlier(c, h) \ named : vfilled[b] = 0,
         LET p == Superseded(c, h) IN p # 0 => vfilled[p] <= ho[p].cum
  PROVE  \A b \in Chain(c) : vfilled[b] <= ho[b].cum
  <1>. DEFINE p == Superseded(c, h)
  <1>a. TypeOK /\ attempts \subseteq Ids /\ Ids \subseteq Int /\ 0 \notin Ids
    BY DEF OInv, BInv, IInv, TypeOK, Ids
  <1>. SUFFICES ASSUME NEW b \in Chain(c) PROVE vfilled[b] <= ho[b].cum
    OBVIOUS
  <1>1. b \in Earlier(c, h) /\ b \in Ids /\ ho[b].cum \in Nat
    BY <1>a DEF Chain, Earlier, TypeOK, AttemptRecords
  <1>2. CASE b \notin named
    BY <1>1, <1>2
  <1>3. CASE b \in named
    <2>1. p \in Earlier(c, h) \cap named /\ b <= p
      BY <1>a, <1>1, <1>3, SupersededIsLatest
    <2>2. p \in Ids /\ p # 0 /\ ho[p].chain = c /\ p \in named
      BY <1>a, <2>1 DEF Earlier
    <2>. HIDE DEF p
    <2>3. CASE b = p
      BY <2>2, <2>3 DEF p
    <2>4. CASE b # p
      <3>1. b < p
        BY <1>1, <1>a, <2>1, <2>2, <2>4
      <3>2. b \in Before(p)
        BY <2>2, <3>1 DEF Before
      <3>3. Backed(p)
        BY <2>2 DEF OInv, Attempted, PlacedBacked, Placed
      <3>. QED BY <2>2, <3>2, <3>3 DEF Backed
    <2>. QED BY <2>3, <2>4
  <1>. QED BY <1>2, <1>3

(* A retry asks for what is missing: with its prior accounted for, what the *)
(* chain has filled and what the retry asks for fit in what is owed.        *)
LEMMA RetryBacked ==
  ASSUME OInv, TypeOK', Grows, NonePlaced,
         NEW c \in Ids, NEW sellBack \in BOOLEAN, TickPlaces(c, sellBack),
         NEW h \in attempts' \ attempts
  PROVE  /\ h = nextHedge + 1
         /\ Asked(h)'
         /\ \E v \in Venues, p \in Ids \cup {0}, k \in Nat :
               /\ Dispatch(v, Cmd(h, p, k))
               /\ (p # 0 => vfilled'[p] <= k) => Backed(h)'
  <1>a. IInv /\ TypeOK /\ attempts \subseteq Ids /\ Ids \subseteq Int /\ 0 \notin Ids /\ IdsAreFresh
    BY DEF OInv, BInv, IInv, TypeOK, Ids
  <1>1. PICK g, v, a :
            /\ g \in Ids /\ v \in Venues /\ g = nextHedge + 1 /\ g \notin Minted /\ g \notin attempts
            /\ a.chain = c /\ a.qty = Missing(c) /\ a.skipped = Skipped(c, g)
            /\ attempts' = attempts \cup {g} /\ ho' = [ho EXCEPT ![g] = a]
            /\ \A e \in Ids : ob'[e].owed = ob[e].owed
            /\ Dispatch(v, Cmd(g, Superseded(c, g),
                               IF Superseded(c, g) = 0 THEN 0 ELSE ho[Superseded(c, g)].cum))
    BY <1>a, RetryGrows
  <1>. DEFINE p == Superseded(c, h)
              k == IF p = 0 THEN 0 ELSE ho[p].cum
  <1>2. h = g /\ h \in Ids
    BY <1>1
  <1>3. /\ attempts' = attempts \cup {h} /\ ho'[h] = a
        /\ \A b \in attempts : ho'[b] = ho[b]
    BY <1>a, <1>1, <1>2 DEF TypeOK
  <1>4. \A b \in attempts : b < h
    BY <1>a, <1>1, <1>2 DEF IdsAreFresh, TypeOK
  <1>5. Before(h)' = Chain(c) /\ Earlier(c, h) = Chain(c)
    <2>1. ~(h < h)
      BY <1>a, <1>2
    <2>. QED BY <1>1, <1>3, <1>4, <2>1 DEF Before, Chain, Earlier
  <1>6. Asked(h)'
    BY <1>1, <1>2, <1>3, <1>5 DEF Asked, Skipped, NonePlaced
  <1>7. p \in Ids \cup {0} /\ k \in Nat
    <2>1. p \in Ids \cup {0}
      BY <1>a, <1>2, SupersededIsKnown
    <2>. QED BY <1>a, <2>1 DEF TypeOK, AttemptRecords
  <1>8. \A b \in Ids : vfilled'[b] = vfilled[b]
    BY DEF NonePlaced
  <1>9. ASSUME p # 0 => vfilled'[p] <= k PROVE Backed(h)'
    <2>1. SUFFICES ASSUME Clean(ho[h].chain)'
                   PROVE  /\ \A b \in Chain(c) : vfilled'[b] <= ho'[b].cum
                          /\ Missing(c) + SumFunctionOnSet(vfilled', Chain(c)) <= ob[c].owed
      BY <1>1, <1>3, <1>5 DEF Backed
    <2>2. \A b \in Earlier(c, h) \ named : vfilled[b] = 0
      <3>1. \A b \in a.skipped : vfilled'[b] = 0
        BY <1>1, <1>3, <2>1 DEF Clean, Chain
      <3>. QED BY <1>1, <1>2, <1>8, <1>a, <3>1 DEF Skipped, Earlier
    <2>3. Clean(c)
      <3>1. \A b \in Chain(c) : \A x \in ho[b].skipped : vfilled'[x] = 0
        BY <1>1, <1>3, <2>1 DEF Clean, Chain
      <3>2. \A b \in Chain(c) : ho[b].skipped \subseteq Ids
        BY <1>a DEF Chain, TypeOK, AttemptRecords
      <3>. QED BY <1>8, <3>1, <3>2 DEF Clean
    <2>4. p # 0 => vfilled[p] <= ho[p].cum
      BY <1>7, <1>8, <1>9
    <2>5. \A b \in Chain(c) : vfilled[b] <= ho[b].cum
      BY <1>2, <1>4, <2>2, <2>3, <2>4, AllCredited
    <2>6. Chain(c) \subseteq attempts /\ Chain(c) \subseteq Ids /\ IsFiniteSet(Chain(c))
      BY <1>a, FiniteChains DEF Chain
    <2>7. \A b \in Chain(c) : vfilled'[b] <= ho'[b].cum
      BY <1>3, <1>8, <2>5, <2>6
    <2>8. \A b \in Chain(c) : /\ vfilled'[b] \in Nat /\ CumOf[b] \in Nat
                              /\ vfilled'[b] <= CumOf[b]
      BY <1>a, <1>8, <2>5, <2>6, CountsOf DEF TypeOK, Orders
    <2>9. SumFunctionOnSet(vfilled', Chain(c)) <= SumFunctionOnSet(CumOf, Chain(c))
      BY <2>6, <2>8, SumMonotonic
    <2>10. SumFunctionOnSet(vfilled', Chain(c)) \in Nat
      BY <2>6, <2>8, SumType
    <2>11. c \in pending
      BY DEF TickPlaces
    <2>12. /\ SumFunctionOnSet(CumOf, Chain(c)) = ob[c].filled
           /\ ob[c].filled \in Nat /\ ob[c].owed \in Nat
      BY <2>11, CreditedToLive
    <2>. QED BY <2>7, <2>9, <2>10, <2>12 DEF Missing
  <1>10. Dispatch(v, Cmd(h, p, k))
    BY <1>1, <1>2
  <1>. QED BY <1>1, <1>2, <1>6, <1>7, <1>9, <1>10

(* A placed attempt stays one made and backed; a new one is at the head of  *)
(* its executor's queue, with its prior accounted for.                      *)
LEMMA StepPlacedBacked ==
  ASSUME OInv, [Next]_vars, TypeOK', Grows
  PROVE  PlacedBacked'
  <1>a. IInv /\ TypeOK /\ PlacedBacked
    BY DEF OInv, BInv, IInv, Attempted
  <1>1. ASSUME NEW h \in Ids, Placed(h) PROVE h \in attempts' /\ Backed(h)'
    <2>1. h \in attempts /\ Backed(h)
      BY <1>a, <1>1 DEF PlacedBacked
    <2>2. Backed(h)'
      BY <2>1, BackedStays
    <2>. QED BY <2>1, <2>2 DEF Grows
  <1>2. CASE NonePlaced
    BY <1>1, <1>2 DEF NonePlaced, PlacedBacked
  <1>3. ASSUME NEW v \in Venues, Serves(v) PROVE PlacedBacked'
    <2>1. queue[v] # <<>>
      BY <1>3 DEF Serves
    <2>2. PICK cmd \in Cmds : cmd = Head(queue[v]) /\ Queued(cmd)
      BY <1>a, <2>1, HeadIsQueued
    <2>3. QueuedSound(cmd)
      BY <2>2 DEF OInv, Attempted, QueuedBacked
    <2>4. SUFFICES ASSUME NEW h \in Ids, Placed(h)' PROVE h \in attempts' /\ Backed(h)'
      BY DEF PlacedBacked
    <2>5. Placed(h) \/ (h = cmd.oid /\ Accounted(cmd))
      BY <1>3, <2>2, <2>4 DEF Serves
    <2>6. CASE h = cmd.oid /\ Accounted(cmd)
      <3>1. h \in attempts /\ Backed(h)
        BY <2>3, <2>6 DEF QueuedSound
      <3>2. Backed(h)'
        BY <3>1, BackedStays
      <3>. QED BY <3>1, <3>2 DEF Grows
    <2>. QED BY <1>1, <2>5, <2>6
  <1>. QED BY <1>a, <1>2, <1>3, AttemptSteps DEF Kept, Made

(* A command that stays queued stays sound.                                 *)
LEMMA QueuedStays ==
  ASSUME OInv, TypeOK', Grows, NEW cmd \in Cmds, QueuedSound(cmd), ~Placed(cmd.oid)'
  PROVE  QueuedSound(cmd)'
  <1>1. cmd.oid \in attempts /\ cmd.oid \in attempts'
    BY DEF QueuedSound, Grows
  <1>2. TypeOK
    BY DEF OInv, BInv, IInv
  <1>3. Accounted(cmd)' => Accounted(cmd)
    <2>1. CASE cmd.prior = 0
      BY <2>1 DEF Accounted
    <2>2. CASE cmd.prior # 0
      <3>1. cmd.prior \in Ids /\ cmd.credited \in Nat
        BY <2>2 DEF Cmds
      <3>2. /\ vfilled[cmd.prior] \in Nat /\ vfilled'[cmd.prior] \in Nat
            /\ vfilled[cmd.prior] <= vfilled'[cmd.prior]
        BY <1>2, <3>1 DEF Grows, TypeOK, Orders
      <3>. QED BY <3>1, <3>2 DEF Accounted
    <2>. QED BY <2>1, <2>2
  <1>4. ASSUME Accounted(cmd)' PROVE Backed(cmd.oid)'
    <2>. DEFINE h == cmd.oid
    <2>1. h \in attempts /\ Backed(h)
      BY <1>1, <1>3, <1>4 DEF QueuedSound
    <2>2. \A g \in attempts : Backed(g) => Backed(g)'
      BY BackedStays
    <2>. HIDE DEF h
    <2>. QED BY <2>1, <2>2 DEF h
  <1>. QED BY <1>1, <1>4 DEF QueuedSound

(* The queues after a step that makes an attempt: its command may join.     *)
LEMMA MadeQueues ==
  ASSUME OInv, TypeOK', Grows, NonePlaced, NEW h \in Ids, h \in attempts', h \notin attempts,
         NEW v \in Venues, NEW p \in Ids \cup {0}, NEW k \in Nat,
         Dispatch(v, Cmd(h, p, k)), (p # 0 => vfilled'[p] <= k) => Backed(h)'
  PROVE  QueuedBacked' /\ QueuedOnce'
  <1>. DEFINE new == Cmd(h, p, k)
  <1>a. TypeOK /\ QueuedOnce /\ QueuedBacked /\ PlacedBacked
    BY DEF OInv, BInv, IInv, Attempted
  <1>1. new \in Cmds /\ new.oid = h /\ new.prior = p /\ new.credited = k
    BY DEF Cmd, Cmds
  <1>2. \A cmd \in Cmds : Queued(cmd) => cmd.oid # h
    BY <1>a DEF QueuedBacked, QueuedSound
  <1>. HIDE DEF new
  <1>3. /\ QueuedOnce'
        /\ \A cmd : Queued(cmd)' => Queued(cmd) \/ cmd = new
    <2>1. CASE queue' = queue
      BY <1>a, <2>1 DEF QueuedOnce, Queued
    <2>2. CASE queue' = [queue EXCEPT ![v] = Append(@, new)]
      BY <1>1, <1>2, <1>a, <2>2, AppendQueued
    <2>. QED BY <2>1, <2>2 DEF Dispatch, new
  <1>4. ASSUME NEW cmd \in Cmds, Queued(cmd)' PROVE QueuedSound(cmd)'
    <2>1. CASE Queued(cmd)
      <3>1. QueuedSound(cmd)
        BY <1>a, <2>1 DEF QueuedBacked
      <3>2. ~Placed(cmd.oid)'
        <4>1. cmd.oid \in Ids /\ ~Placed(cmd.oid)
          BY <3>1 DEF QueuedSound, Cmds
        <4>2. \A b \in Ids : Placed(b)' => Placed(b)
          BY DEF NonePlaced
        <4>. DEFINE g == cmd.oid
        <4>3. g \in Ids /\ ~Placed(g)
          BY <4>1
        <4>. HIDE DEF g
        <4>4. ~Placed(g)'
          BY <4>2, <4>3
        <4>. QED BY <4>4 DEF g
      <3>. QED BY <3>1, <3>2, QueuedStays
    <2>2. CASE cmd = new
      <3>1. ~Placed(h)'
        BY <1>a DEF NonePlaced, PlacedBacked
      <3>2. Accounted(cmd)' => Backed(h)'
        BY <1>1, <2>2 DEF Accounted
      <3>3. cmd.oid = h
        BY <1>1, <2>2
      <3>. QED BY <3>1, <3>2, <3>3 DEF QueuedSound
    <2>. QED BY <1>3, <1>4, <2>1, <2>2
  <1>. QED BY <1>3, <1>4 DEF QueuedBacked

(* Every attempt has asked after those before it, those made and a new one. *)
LEMMA StepAllAsked ==
  ASSUME OInv, TypeOK', Grows, \A h \in attempts' \ attempts : Asked(h)'
  PROVE  AllAsked'
  <1>1. ASSUME NEW h \in attempts PROVE Asked(h)'
    <2>1. Before(h)' = Before(h) /\ Before(h) \subseteq attempts
      BY SameBefore
    <2>2. Asked(h)
      BY DEF OInv, Attempted, AllAsked
    <2>. QED BY <2>1, <2>2 DEF Asked, Grows
  <1>. QED BY <1>1 DEF AllAsked

(* Every step keeps the attempts' invariant.                                *)
LEMMA StepAttempted ==
  ASSUME OInv, [Next]_vars, TypeOK'
  PROVE  Attempted'
  <1>a. IInv /\ TypeOK /\ QueuedOnce /\ QueuedBacked
    BY DEF OInv, BInv, IInv, Attempted
  <1>b. Grows
    BY StepGrows
  <1>c. WithinQty' /\ PlacedBacked'
    BY <1>b, StepWithinQty, StepPlacedBacked
  <1>. DEFINE Goal == QueuedBacked' /\ QueuedOnce' /\ AllAsked'
  <1>1. ASSUME Kept PROVE Goal
    <2>1. QueuedOnce' /\ AllAsked'
      BY <1>a, <1>b, <1>1, StepAllAsked DEF Kept, QueuedOnce
    <2>2. ASSUME NEW cmd \in Cmds, Queued(cmd)' PROVE QueuedSound(cmd)'
      <3>1. QueuedSound(cmd) /\ cmd.oid \in Ids
        BY <1>1, <1>a, <2>2 DEF Kept, Queued, QueuedBacked, Cmds
      <3>2. \A g \in Ids : ~Placed(g) => ~Placed(g)'
        BY <1>1 DEF Kept, NonePlaced
      <3>. DEFINE g == cmd.oid
      <3>3. g \in Ids /\ ~Placed(g)
        BY <3>1 DEF QueuedSound
      <3>. HIDE DEF g
      <3>4. ~Placed(g)'
        BY <3>2, <3>3
      <3>. QED BY <1>b, <3>1, <3>4, QueuedStays DEF g
    <2>. QED BY <2>1, <2>2 DEF QueuedBacked
  <1>2. ASSUME NonePlaced, NEW m \in Makers, NEW q \in Nat, MintAndPlace(m, q) PROVE Goal
    <2>1. \A h \in attempts' \ attempts : Asked(h)'
      BY <1>b, <1>2, MintBacked
    <2>2. AllAsked'
      BY <1>b, <2>1, StepAllAsked
    <2>3. CASE attempts' = attempts
      <3>1. queue' = queue
        <4>1. PICK h, a :
                 /\ h \notin attempts
                 /\ \/ attempts' = attempts /\ ho' = ho /\ queue' = queue
                    \/ /\ attempts' = attempts \cup {h} /\ ho' = [ho EXCEPT ![h] = a]
                       /\ Dispatch(Other(Home[m]), Cmd(h, 0, 0))
          BY <1>a, <1>2, MintGrows
        <4>. QED BY <2>3, <4>1
      <3>. QED BY <1>1, <1>2, <2>3, <3>1 DEF Kept
    <2>4. ASSUME NEW h \in attempts' \ attempts PROVE QueuedBacked' /\ QueuedOnce'
      <3>1. Backed(h)' /\ \E v \in Venues : Dispatch(v, Cmd(h, 0, 0))
        BY <1>b, <1>2, MintBacked
      <3>2. h \in Ids
        BY DEF TypeOK
      <3>. QED BY <1>b, <1>2, <3>1, <3>2, MadeQueues
    <2>5. attempts \subseteq attempts'
      BY <1>b DEF Grows
    <2>. QED BY <2>2, <2>3, <2>4, <2>5
  <1>3. ASSUME NonePlaced, NEW c \in Ids, NEW sellBack \in BOOLEAN, TickPlaces(c, sellBack)
        PROVE  Goal
    <2>1. \A h \in attempts' \ attempts : Asked(h)'
      BY <1>b, <1>3, RetryBacked
    <2>2. AllAsked'
      BY <1>b, <2>1, StepAllAsked
    <2>3. PICK h : h \in attempts' /\ h \notin attempts
      <3>1. PICK h : h \notin attempts /\ attempts' = attempts \cup {h}
        BY <1>a, <1>3, RetryGrows
      <3>. QED BY <3>1
    <2>4. PICK v \in Venues, p \in Ids \cup {0}, k \in Nat :
             /\ Dispatch(v, Cmd(h, p, k))
             /\ (p # 0 => vfilled'[p] <= k) => Backed(h)'
      BY <1>b, <1>3, <2>3, RetryBacked
    <2>5. h \in Ids
      BY <2>3 DEF TypeOK
    <2>6. QueuedBacked' /\ QueuedOnce'
      BY <1>b, <1>3, <2>3, <2>4, <2>5, MadeQueues
    <2>. QED BY <2>2, <2>6
  <1>4. ASSUME NEW v \in Venues, Serves(v) PROVE Goal
    <2>1. attempts' = attempts /\ queue[v] # <<>> /\ queue' = [queue EXCEPT ![v] = Tail(@)]
      BY <1>4 DEF Serves, engineVars
    <2>2. AllAsked'
      BY <1>b, <2>1, StepAllAsked
    <2>3. /\ QueuedOnce'
          /\ \A cmd : Queued(cmd)' => Queued(cmd) /\ cmd.oid # Head(queue[v]).oid
      BY <1>a, <2>1, TailQueued
    <2>4. ASSUME NEW cmd \in Cmds, Queued(cmd)' PROVE QueuedSound(cmd)'
      <3>1. QueuedSound(cmd) /\ cmd.oid \in Ids /\ cmd.oid # Head(queue[v]).oid
        BY <1>a, <2>3, <2>4 DEF QueuedBacked, Cmds
      <3>2. \A g \in Ids : ~Placed(g) /\ g # Head(queue[v]).oid => ~Placed(g)'
        BY <1>4 DEF Serves
      <3>. DEFINE g == cmd.oid
      <3>3. g \in Ids /\ ~Placed(g) /\ g # Head(queue[v]).oid
        BY <3>1 DEF QueuedSound
      <3>. HIDE DEF g
      <3>4. ~Placed(g)'
        BY <3>2, <3>3
      <3>. QED BY <1>b, <3>1, <3>4, QueuedStays DEF g
    <2>. QED BY <2>2, <2>3, <2>4 DEF QueuedBacked
  <1>. HIDE DEF Goal
  <1>5. Goal
    <2>1. CASE Made
      BY <1>2, <1>3, <2>1 DEF Made
    <2>2. CASE Kept
      BY <1>1, <2>2 DEF Goal
    <2>. QED BY <1>a, <1>4, <2>1, <2>2, AttemptSteps
  <1>. QED BY <1>5, <1>c DEF Goal, Attempted

(* The strengthened invariant holds in every reachable state. *)
THEOREM AttemptsInvariance == Spec => []OInv
  <1>1. Init => OInv
    BY InitInv, InitBooks, InitAttempted DEF OInv, BInv
  <1>2. OInv /\ [Next]_vars => OInv'
    <2>. SUFFICES ASSUME OInv, [Next]_vars PROVE OInv'
      OBVIOUS
    <2>1. BInv'
      BY StepBooks DEF OInv
    <2>2. TypeOK'
      BY <2>1 DEF BInv, IInv
    <2>3. Attempted'
      BY <2>2, StepAttempted
    <2>. QED BY <2>1, <2>3 DEF OInv
  <1>. QED BY <1>1, <1>2, PTL DEF Spec

(* A clean chain is within what its obligation owes: its last filled        *)
(* attempt fits, with all that was filled before it.                        *)
LEMMA CleanIsCovered ==
  ASSUME OInv, NEW c \in Minted, Clean(c)
  PROVE  AtVenue(c) <= ob[c].owed
  <1>. DEFINE F == {h \in Chain(c) : vfilled[h] > 0}
  <1>a. TypeOK /\ Ids \subseteq Int /\ c \in Ids
    BY DEF OInv, BInv, IInv, Ids, Minted
  <1>b. /\ Chain(c) \subseteq Ids /\ IsFiniteSet(Chain(c))
        /\ \A h \in Chain(c) : ho[h].chain = c /\ h \in attempts
    BY <1>a, FiniteChains DEF Chain, TypeOK
  <1>c. /\ \A h \in Ids : vfilled[h] \in Nat /\ ho[h].qty \in Nat
        /\ ob[c].owed \in Nat
    BY <1>a DEF TypeOK, Orders, AttemptRecords, Obligations
  <1>1. F \subseteq Chain(c) /\ \A h \in Chain(c) \ F : vfilled[h] = 0
    BY <1>b, <1>c
  <1>2. IsFiniteSet(F)
    BY <1>b, <1>1, FS_Subset
  <1>3. CASE F = {}
    <2>1. SumFunctionOnSet(vfilled, Chain(c)) = 0
      BY <1>b, <1>c, <1>1, <1>3, SumSupport, SumEmpty
    <2>. QED BY <1>c, <2>1 DEF AtVenue
  <1>4. CASE F # {}
    <2>1. PICK h \in F : \A g \in F : g <= h
      <3>. HIDE DEF F
      <3>. QED BY <1>a, <1>b, <1>1, <1>2, <1>4, GreatestOfSet
    <2>2. h \in Ids /\ h \in Chain(c) /\ vfilled[h] > 0 /\ ho[h].chain = c
      BY <1>b
    <2>3. Backed(h)
      BY <2>2 DEF OInv, Attempted, PlacedBacked, Placed
    <2>4. ho[h].qty + SumFunctionOnSet(vfilled, Before(h)) <= ob[c].owed
      BY <2>2, <2>3 DEF Backed
    <2>5. vfilled[h] <= ho[h].qty
      BY <2>2 DEF OInv, Attempted, WithinQty
    <2>6. Before(h) \subseteq Chain(c) /\ h \notin Before(h)
      BY <1>a, <2>2 DEF Before
    <2>7. IsFiniteSet(Before(h)) /\ IsFiniteSet(Before(h) \cup {h})
      BY <1>b, <2>6, FS_Subset, FS_AddElement
    <2>8. F \subseteq Before(h) \cup {h}
      <3>. SUFFICES ASSUME NEW g \in F, g # h PROVE g < h /\ g \in Chain(c)
        BY <2>2 DEF Before
      <3>1. g <= h /\ g \in Int /\ h \in Int
        BY <1>a, <1>b, <2>1, <2>2
      <3>. QED BY <3>1
    <2>9. SumFunctionOnSet(vfilled, Chain(c)) = SumFunctionOnSet(vfilled, Before(h) \cup {h})
      <3>1. Before(h) \cup {h} \subseteq Chain(c)
        BY <2>2, <2>6
      <3>2. \A g \in Chain(c) \ (Before(h) \cup {h}) : vfilled[g] = 0
        BY <1>1, <2>8
      <3>. QED BY <1>b, <1>c, <3>1, <3>2, SumSupport
    <2>10. SumFunctionOnSet(vfilled, Before(h) \cup {h})
             = SumFunctionOnSet(vfilled, Before(h)) + vfilled[h]
      BY <1>b, <1>c, <2>2, <2>6, <2>7, SumAdd
    <2>11. SumFunctionOnSet(vfilled, Before(h)) \in Nat
      BY <1>b, <1>c, <2>6, <2>7, SumType
    <2>. QED BY <1>c, <2>2, <2>4, <2>5, <2>9, <2>10, <2>11 DEF AtVenue
  <1>. QED BY <1>3, <1>4

(* A chain that is over-hedged is not clean.                                *)
LEMMA OverHedge == OInv => OverHedgeNeedsSkippedAttempt
  <1>. SUFFICES ASSUME OInv, NEW c \in Minted, AtVenue(c) > ob[c].owed
                PROVE  PassedUnseen(c)
    BY DEF OverHedgeNeedsSkippedAttempt
  <1>1. TypeOK /\ c \in Ids
    BY DEF OInv, BInv, IInv, Minted
  <1>2. /\ Chain(c) \subseteq Ids /\ IsFiniteSet(Chain(c))
        /\ \A h \in Chain(c) : ho[h].skipped \subseteq Ids
        /\ \A b \in Ids : vfilled[b] \in Nat
    BY <1>1, FiniteChains DEF Chain, TypeOK, Orders, AttemptRecords
  <1>3. AtVenue(c) \in Nat /\ ob[c].owed \in Nat
    BY <1>1, <1>2, SumType DEF AtVenue, TypeOK, Obligations
  <1>4. ~Clean(c)
    BY <1>3, CleanIsCovered
  <1>. QED BY <1>2, <1>4 DEF Clean, PassedUnseen

(* However the feed, the acks and the executors interleave, the venues hold *)
(* more of a hedge than was owed only if some attempt was queued past an    *)
(* earlier one that filled and could not be asked about.                    *)
THEOREM OverHedgeIsSkippedAttempt == Spec => []OverHedgeNeedsSkippedAttempt
  BY AttemptsInvariance, OverHedge, PTL

(* A maker order never trades beyond its size.                              *)
WithinSize == \A m \in Makers : vfilled[m] <= Size[m]

(* Only its own trades move a maker order, one contract at a time, up to its size. *)
LEMMA StepWithinSize ==
  ASSUME IInv, WithinSize, [Next]_vars
  PROVE  WithinSize'
  <1>a. TypeOK /\ \A m \in Makers : vfilled[m] \in Nat /\ Size[m] \in Nat /\ m \in Orders
    BY MakersAssumption DEF IInv, TypeOK, Orders
  <1>1. CASE vfilled' = vfilled
    BY <1>1 DEF WithinSize
  <1>2. ASSUME NEW m \in Makers, MakerTrades(m) PROVE WithinSize'
    BY <1>2, <1>a DEF MakerTrades, WithinSize, TypeOK
  <1>3. ASSUME NEW v \in Venues, NEW filled, queue[v] # <<>>,
               vfilled' = [vfilled EXCEPT ![Head(queue[v]).oid] = @ + filled]
        PROVE  WithinSize'
    <2>1. Head(queue[v]).oid \in Ids
      BY <1>3, <1>a, QueueHead DEF Cmds
    <2>. QED BY <1>3, <1>a, <2>1, MakersAssumption DEF WithinSize, TypeOK
  <1>4. CASE Next
    BY <1>1, <1>2, <1>3, <1>4 DEF Next, RecvMakerAck, Acknowledged, FillReported, FillHeld,
       HeldFillExpires, RecvAck, RecvFill, RecvMarketHalted, IntervalPasses, HorizonPasses,
       ParkExpires, Clock, TickWaits, TickPlaces, ExecUnreadable, ExecUnaccounted, ExecRefused,
       ExecPlaces, ExecAnswerLost
  <1>5. CASE UNCHANGED vars
    BY <1>1, <1>5 DEF vars
  <1>. QED BY <1>4, <1>5

(* A fill that beat its order_ack is credited to the count held by the step *)
(* that reads the ack.                                                      *)
THEOREM HeldFillsAreReplayed == Spec => HeldFillIsReplayed
  <1>. DEFINE Replays(o) ==
          unclaimed[o] > 0 /\ o \in named' \ named
            => IF o \in Makers THEN mcum'[o] >= unclaimed[o] ELSE ho'[o].cum >= unclaimed[o]
  <1>1. ASSUME OInv, WithinSize, NEW o \in Orders, Acknowledged(o), unclaimed[o] > 0 PROVE Replays(o)
    <2>a. TypeOK /\ unclaimed[o] \in Nat /\ unclaimed[o] <= vfilled[o] /\ vfilled[o] \in Nat
      BY <1>1 DEF OInv, BInv, IInv, TypeOK, NeverAheadOfVenue
    <2>1. Credit(o, unclaimed[o])
      BY <1>1 DEF Acknowledged
    <2>2. CASE o \in Makers
      <3>1. /\ mcum[o] \in Nat /\ Size[o] \in Nat /\ vfilled[o] <= Size[o]
            /\ mcum' = [mcum EXCEPT ![o] = @ + MakerDelta(o, unclaimed[o])]
        BY <1>1, <2>a, <2>1, <2>2, MakersAssumption
           DEF Credit, CreditMaker, TypeOK, WithinSize
      <3>2. mcum'[o] = mcum[o] + MakerDelta(o, unclaimed[o])
        BY <2>a, <2>2, <3>1 DEF TypeOK
      <3>3. mcum'[o] >= unclaimed[o]
        BY <2>a, <3>1, <3>2 DEF MakerDelta, Least, Greatest
      <3>. QED BY <2>2, <3>3
    <2>3. CASE o \notin Makers
      <3>1. o \in Ids
        BY <2>3 DEF Orders
      <3>. DEFINE d == CreditDelta(o, unclaimed[o])
                  r == [ho[o] EXCEPT !.cum = @ + d]
      <3>2. /\ ho[o] \in AttemptRecords /\ vfilled[o] <= ho[o].qty /\ d \in Nat
            /\ ho' = [ho EXCEPT ![o] = r]
        BY <1>1, <2>a, <2>1, <2>3, <3>1, CreditDeltaType
           DEF Credit, CreditHedge, TypeOK, OInv, Attempted, WithinQty
      <3>3. r.cum = ho[o].cum + d /\ ho[o].cum \in Nat /\ ho[o].qty \in Nat
        BY <3>2 DEF AttemptRecords
      <3>4. ho'[o] = r
        <4>. HIDE DEF r
        <4>. QED BY <2>a, <3>1, <3>2 DEF TypeOK
      <3>5. r.cum >= unclaimed[o]
        <4>. HIDE DEF r
        <4>. QED BY <2>a, <3>2, <3>3 DEF CreditDelta, Least, Greatest
      <3>. QED BY <2>3, <3>4, <3>5
    <2>. QED BY <2>2, <2>3
  <1>2. ASSUME OInv, WithinSize, [Next]_vars PROVE \A o \in Orders : Replays(o)
    <2>a. TypeOK
      BY <1>2 DEF OInv, BInv, IInv
    <2>. SUFFICES ASSUME NEW o \in Orders, unclaimed[o] > 0, o \in named' \ named PROVE Acknowledged(o)
      BY <1>1, <1>2
    <2>1. ASSUME NEW p \in Orders, Acknowledged(p) PROVE Acknowledged(o)
      BY <2>1 DEF Acknowledged
    <2>2. ASSUME NEW m \in Makers, RecvMakerAck(m) PROVE Acknowledged(o)
      BY <2>1, <2>2 DEF RecvMakerAck, Orders
    <2>3. ASSUME NEW v \in Venues, RecvAck(v) PROVE Acknowledged(o)
      BY <2>1, <2>3, <2>a, ChanHead DEF RecvAck, Msgs, Orders
    <2>. QED BY <1>2, <2>2, <2>3 DEF Next, MakerTrades, FillReported, FillHeld,
       HeldFillExpires, RecvFill, RecvMarketHalted, IntervalPasses, HorizonPasses,
       ParkExpires, Clock, TickWaits, TickPlaces, ExecUnreadable, ExecUnaccounted, ExecRefused,
       ExecPlaces, ExecAnswerLost, Served, engineVars, vars
  <1>3. Init => WithinSize
    BY MakersAssumption DEF Init, WithinSize, Orders
  <1>4. Spec => []WithinSize
    <2>1. OInv /\ WithinSize /\ [Next]_vars => WithinSize'
      BY StepWithinSize DEF OInv, BInv
    <2>. QED BY <1>3, <2>1, AttemptsInvariance, PTL DEF Spec
  <1>5. [Next]_vars /\ OInv /\ WithinSize => [\A o \in Orders : Replays(o)]_vars
    BY <1>2
  <1>. QED BY <1>4, <1>5, AttemptsInvariance, PTL DEF Spec, HeldFillIsReplayed

-----------------------------------------------------------------------------
(* The refinement of HedgeContract.                                         *)

(* An attempt was only ever queued past earlier ones of its own chain, and  *)
(* no alarm was raised for an obligation that does not exist.               *)
PassedOwn     == \A h \in attempts : ho[h].skipped \subseteq Chain(ho[h].chain)
AlarmedMinted == Alarmed \subseteq Minted
RInv          == OInv /\ PassedOwn /\ AlarmedMinted

(* What the state of the contract is made of.                               *)
LEMMA MarketType ==
  ASSUME OInv
  PROVE  /\ TypeOK /\ IInv /\ BInv
         /\ \A c \in Ids : /\ Chain(c) \subseteq Ids /\ IsFiniteSet(Chain(c))
                           /\ AtVenue(c) \in Nat
         /\ \A b \in Ids : /\ vfilled[b] \in Nat
                           /\ b \notin attempts => vfilled[b] = 0
  <1>1. TypeOK /\ IInv /\ BInv /\ WithinQty /\ Unmade
    BY DEF OInv, BInv, IInv, Attempted, Books
  <1>2. \A b \in Ids : /\ vfilled[b] \in Nat /\ ho[b].qty \in Nat
                       /\ b \notin attempts => vfilled[b] = 0
    BY <1>1 DEF TypeOK, Orders, AttemptRecords, WithinQty, Unmade
  <1>3. ASSUME NEW c \in Ids
        PROVE  Chain(c) \subseteq Ids /\ IsFiniteSet(Chain(c)) /\ AtVenue(c) \in Nat
    BY <1>1, <1>2, FiniteChains, SumType DEF AtVenue
  <1>. QED BY <1>1, <1>2, <1>3

(* Nothing trades, no attempt is made and none changes what it is for.      *)
LEMMA SameMarket ==
  ASSUME OInv, \A b \in Ids : vfilled'[b] = vfilled[b], attempts' = attempts,
         \A b \in Ids : ho'[b].chain = ho[b].chain /\ ho'[b].skipped = ho[b].skipped
  PROVE  Traded' = Traded /\ Blind' = Blind
  <1>1. attempts \subseteq Ids /\ \A b \in attempts : ho[b].skipped \subseteq Ids
    BY MarketType DEF TypeOK, AttemptRecords
  <1>2. \A c : Chain(c)' = Chain(c)
    BY <1>1 DEF Chain
  <1>3. \A c \in Ids : AtVenue(c)' = AtVenue(c)
    <2>. SUFFICES ASSUME NEW c \in Ids
                  PROVE SumFunctionOnSet(vfilled', Chain(c)) = SumFunctionOnSet(vfilled, Chain(c))
      BY <1>2 DEF AtVenue
    <2>1. IsFiniteSet(Chain(c)) /\ \A b \in Chain(c) : vfilled[b] = vfilled'[b]
      BY MarketType
    <2>. QED BY <2>1, SumSame
  <1>4. \A c : PassedUnseen(c)' <=> PassedUnseen(c)
    BY <1>1, <1>2 DEF PassedUnseen, Chain
  <1>. QED BY <1>3, <1>4 DEF Traded, Blind

(* A new attempt has traded nothing, and may have been queued blind.        *)
LEMMA NewAttemptMarket ==
  ASSUME OInv, \A b \in Ids : vfilled'[b] = vfilled[b],
         NEW h \in Ids, h \notin attempts, NEW a, NEW c \in Ids, a.chain = c, a.skipped \subseteq Ids,
         attempts' = attempts \cup {h}, ho' = [ho EXCEPT ![h] = a]
  PROVE  /\ Traded' = Traded
         /\ Blind' \in {Blind, Blind \cup {c}}
         /\ a.skipped = {} => Blind' = Blind
  <1>1. attempts \subseteq Ids /\ \A b \in attempts : ho[b].skipped \subseteq Ids /\ ho'[b] = ho[b]
    BY MarketType DEF TypeOK, AttemptRecords
  <1>2. ho'[h] = a
    BY MarketType DEF TypeOK
  <1>3. /\ \A e \in Ids : e # c => Chain(e)' = Chain(e)
        /\ Chain(c)' = Chain(c) \cup {h} /\ h \notin Chain(c)
    BY <1>1, <1>2 DEF Chain
  <1>4. \A e \in Ids : AtVenue(e)' = AtVenue(e)
    <2>. SUFFICES ASSUME NEW e \in Ids
                  PROVE SumFunctionOnSet(vfilled', Chain(e)') = SumFunctionOnSet(vfilled, Chain(e))
      BY DEF AtVenue
    <2>1. /\ IsFiniteSet(Chain(e)) /\ vfilled[h] = 0
          /\ \A b \in Chain(e) : vfilled[b] = vfilled'[b] /\ vfilled'[b] \in Nat
      BY MarketType
    <2>2. SumFunctionOnSet(vfilled', Chain(e)) = SumFunctionOnSet(vfilled, Chain(e))
      BY <2>1, SumSame
    <2>3. CASE e = c
      <3>1. vfilled'[h] = 0 /\ h \notin Chain(e) /\ Chain(e)' = Chain(e) \cup {h}
        BY <1>3, <2>1, <2>3
      <3>2. SumFunctionOnSet(vfilled', Chain(e) \cup {h})
              = SumFunctionOnSet(vfilled', Chain(e)) + vfilled'[h]
        BY <2>1, <3>1, SumAdd
      <3>3. SumFunctionOnSet(vfilled', Chain(e)) \in Nat
        BY <2>1, SumType
      <3>. QED BY <2>2, <3>1, <3>2, <3>3
    <2>. QED BY <1>3, <2>2, <2>3
  <1>5. \A e \in Ids : e # c => (PassedUnseen(e)' <=> PassedUnseen(e))
    BY <1>1, <1>3 DEF PassedUnseen, Chain
  <1>6. PassedUnseen(c) => PassedUnseen(c)'
    BY <1>1, <1>3 DEF PassedUnseen, Chain
  <1>7. a.skipped = {} /\ PassedUnseen(c)' => PassedUnseen(c)
    BY <1>1, <1>2, <1>3 DEF PassedUnseen, Chain
  <1>. QED BY <1>4, <1>5, <1>6, <1>7 DEF Traded, Blind

(* A command served trades for the chain of its attempt, or for none.       *)
LEMMA ServesMarket ==
  ASSUME OInv, PassedOwn, NEW v \in Venues, Serves(v)
  PROVE  \/ Traded' = Traded /\ Blind' = Blind
         \/ \E c \in Minted :
               /\ Traded'[c] > Traded[c]
               /\ Traded' = [Traded EXCEPT ![c] = Traded'[c]]
               /\ Blind' \in {Blind, Blind \cup {c}}
  <1>1. queue[v] # <<>> /\ UNCHANGED engineVars
    BY DEF Serves
  <1>2. PICK h \in attempts : h = Head(queue[v]).oid
    <2>1. TypeOK /\ Head(queue[v]) \in Cmds /\ Queued(Head(queue[v]))
      BY <1>1, MarketType, HeadIsQueued
    <2>. QED BY <2>1 DEF OInv, Attempted, QueuedBacked, QueuedSound
  <1>3. PICK c \in Minted : c = ho[h].chain
    BY DEF OInv, BInv, Books, OwnChain
  <1>4. \A b \in attempts : ho[b].chain \in Ids /\ ho[b].skipped \subseteq Ids /\ b \in Ids
    BY MarketType DEF TypeOK, AttemptRecords
  <1>5. ho' = ho /\ attempts' = attempts
    BY <1>1 DEF engineVars
  <1>6. PICK filled \in 0..ho[h].qty :
           \A b \in Ids : vfilled'[b] = vfilled[b] + IF b = h THEN filled ELSE 0
    BY <1>2 DEF Serves
  <1>7. h \in Ids /\ c \in Ids /\ ho[h].qty \in Nat /\ h \in Chain(c)
    BY <1>3, <1>4, MarketType DEF TypeOK, AttemptRecords, Chain
  <1>8. CASE filled = 0
    <2>1. \A b \in Ids : vfilled'[b] = vfilled[b]
      BY <1>6, <1>8, MarketType
    <2>. QED BY <1>5, <2>1, SameMarket
  <1>9. CASE filled # 0
    <2>1. /\ \A b \in Ids : /\ vfilled[b] \in Nat /\ vfilled'[b] \in Nat
                            /\ b # h => vfilled'[b] = vfilled[b]
          /\ vfilled'[h] > vfilled[h]
      BY <1>6, <1>7, <1>9, MarketType
    <2>2. \A e : Chain(e)' = Chain(e)
      BY <1>5 DEF Chain
    <2>3. \A e \in Ids : e # c => h \notin Chain(e)
      BY <1>3 DEF Chain
    <2>4. \A e \in Ids : e # c => AtVenue(e)' = AtVenue(e)
      <3>. SUFFICES ASSUME NEW e \in Ids, e # c
                    PROVE SumFunctionOnSet(vfilled', Chain(e)) = SumFunctionOnSet(vfilled, Chain(e))
        BY <2>2 DEF AtVenue
      <3>1. IsFiniteSet(Chain(e)) /\ \A b \in Chain(e) : vfilled[b] = vfilled'[b]
        BY <2>1, <2>3, MarketType
      <3>. QED BY <3>1, SumSame
    <2>5. AtVenue(c)' > AtVenue(c)
      <3>1. /\ IsFiniteSet(Chain(c)) /\ AtVenue(c) \in Nat
            /\ \A b \in Chain(c) : vfilled[b] \in Nat /\ vfilled'[b] \in Nat
            /\ \A b \in Chain(c) \ {h} : vfilled[b] = vfilled'[b]
        BY <1>7, <2>1, MarketType
      <3>2. SumFunctionOnSet(vfilled', Chain(c))
              = SumFunctionOnSet(vfilled, Chain(c)) - vfilled[h] + vfilled'[h]
        BY <1>7, <3>1, SumChange
      <3>3. AtVenue(c)' = AtVenue(c) - vfilled[h] + vfilled'[h]
        BY <2>2, <3>2 DEF AtVenue
      <3>. QED BY <1>7, <2>1, <3>1, <3>3
    <2>6. Traded'[c] > Traded[c] /\ Traded' = [Traded EXCEPT ![c] = Traded'[c]]
      BY <1>7, <2>4, <2>5 DEF Traded
    <2>7. \A e \in Ids : e # c => (PassedUnseen(e)' <=> PassedUnseen(e))
      <3>1. \A e \in Ids : \A g \in Chain(e) : ho[g].skipped \subseteq Chain(e)
        BY DEF PassedOwn, Chain
      <3>2. \A e \in Ids : e # c =>
               \A g \in Chain(e) : \A b \in ho[g].skipped : b \in Ids /\ vfilled'[b] = vfilled[b]
        BY <2>1, <2>3, <3>1, MarketType
      <3>. QED BY <1>5, <2>2, <3>2 DEF PassedUnseen
    <2>8. PassedUnseen(c) => PassedUnseen(c)'
      <3>1. \A g \in Chain(c) : \A b \in ho[g].skipped :
               vfilled[b] \in Nat /\ vfilled'[b] \in Nat /\ vfilled[b] <= vfilled'[b]
        <4>1. \A b \in Ids : vfilled[b] \in Nat /\ vfilled'[b] \in Nat /\ vfilled[b] <= vfilled'[b]
          BY <2>1
        <4>. QED BY <1>4, <4>1 DEF Chain
      <3>. QED BY <1>5, <2>2, <3>1 DEF PassedUnseen
    <2>9. Blind' \in {Blind, Blind \cup {c}}
      BY <1>7, <2>7, <2>8 DEF Blind
    <2>. QED BY <2>6, <2>9
  <1>. QED BY <1>8, <1>9

-----------------------------------------------------------------------------
(* What a step is to the contract.                                          *)

Untraded == \A o \in Orders : vfilled'[o] = vfilled[o]
Unmoved == UNCHANGED <<Sold, mcum, dropped, Owes, Whose, booked, extra, Alarmed>>

Debited  == \E h \in Ids, k \in Nat : k <= vfilled[h] /\ CreditHedge(h, k)
Answered == \E m \in Makers, k \in Nat : k <= vfilled[m] /\ CreditMaker(m, k)

PromiseKinds ==
    \/ \E m \in Makers : MakerTrades(m)
    \/ Unmoved /\ \E v \in Venues : Serves(v)
    \/ /\ Untraded
       /\ \/ Debited \/ Answered
          \/ \E c \in Ids : TickWaits(c) \/ \E sellBack \in BOOLEAN : TickPlaces(c, sellBack)
          \/ Unmoved /\ UNCHANGED <<attempts, ho>>

(* The park and the clocks of an obligation are no part of what it is for. *)
LEMMA ClocksOnly ==
  ASSUME NEW r \in Obligations, NEW b, NEW i
  PROVE  \A s \in {[r EXCEPT !.parked = b], [r EXCEPT !.old = b], [r EXCEPT !.sinceTry = i]} :
            s.owed = r.owed /\ s.maker = r.maker /\ s.alarmed = r.alarmed
  BY DEF Obligations

(* A flag or the clock of one obligation changes, its alarm does not. *)
LEMMA OneUnmoved ==
  ASSUME TypeOK, NEW c \in Ids, NEW r, ob' = [ob EXCEPT ![c] = r],
         r.owed = ob[c].owed /\ r.maker = ob[c].maker /\ r.alarmed = ob[c].alarmed,
         vfilled' = vfilled, UNCHANGED <<mcum, dropped, booked, extra>>
  PROVE  Unmoved
  <1>1. \A e \in Ids : /\ ob'[e].owed = ob[e].owed /\ ob'[e].maker = ob[e].maker
                       /\ ob'[e].alarmed = ob[e].alarmed
    BY DEF TypeOK
  <1>. QED BY <1>1 DEF Unmoved, Sold, Owes, Whose, Alarmed

(* An ack replays a credit, or names its order and no more. *)
LEMMA AcknowledgedMoves ==
  ASSUME IInv, NEW o \in Orders, Acknowledged(o)
  PROVE  PromiseKinds
  <1>1. unclaimed[o] \in Nat /\ unclaimed[o] <= vfilled[o] /\ vfilled' = vfilled
    BY DEF IInv, TypeOK, NeverAheadOfVenue, Acknowledged
  <1>2. CASE unclaimed[o] > 0
    BY <1>1, <1>2, CreditKinds DEF Acknowledged, PromiseKinds, Untraded, Debited, Answered
  <1>3. CASE ~(unclaimed[o] > 0)
    <2>1. UNCHANGED <<vfilled, mcum, dropped, ob, booked, extra, attempts, ho>>
      BY <1>1, <1>3 DEF Acknowledged
    <2>2. Unmoved
      BY <2>1 DEF Unmoved, Sold, Owes, Whose, Alarmed
    <2>. QED BY <2>1, <2>2 DEF PromiseKinds, Untraded
  <1>. QED BY <1>2, <1>3

(* Every step is one of these.                                              *)
LEMMA PromiseSteps ==
  ASSUME OInv, [Next]_vars
  PROVE  PromiseKinds
  <1>a. TypeOK /\ IInv /\ TruthfulChannels
    BY MarketType DEF IInv, NeverAheadOfVenue, TruthfulChannels
  <1>b. \A c \in Ids : ob[c] \in Obligations
    BY <1>a DEF TypeOK
  <1>c. UNCHANGED <<vfilled, mcum, dropped, ob, booked, extra, attempts, ho>> => PromiseKinds
    BY DEF PromiseKinds, Untraded, Unmoved, Sold, Owes, Whose, Alarmed
  <1>1. ASSUME NEW m \in Makers, MakerTrades(m) \/ RecvMakerAck(m) PROVE PromiseKinds
    <2>1. CASE MakerTrades(m)
      BY <2>1 DEF PromiseKinds, Untraded
    <2>2. CASE RecvMakerAck(m)
      BY <1>a, <2>2, AcknowledgedMoves DEF RecvMakerAck, Orders
    <2>. QED BY <1>1, <2>1, <2>2
  <1>2. ASSUME NEW o \in Orders, NEW cum \in Nat, cum <= vfilled[o],
               FillReported(o, cum) \/ FillHeld(o, cum)
        PROVE  PromiseKinds
    <2>1. CASE FillReported(o, cum)
      BY <1>2, <2>1, CreditKinds DEF FillReported, PromiseKinds, Untraded, Debited, Answered
    <2>2. CASE FillHeld(o, cum)
      BY <1>c, <2>2 DEF FillHeld
    <2>. QED BY <1>2, <2>1, <2>2
  <1>3. ASSUME NEW o \in Orders, HeldFillExpires(o) PROVE PromiseKinds
    BY <1>c, <1>3 DEF HeldFillExpires
  <1>4. ASSUME NEW v \in Venues, RecvAck(v) PROVE PromiseKinds
    BY <1>a, <1>4, ChanHead, AcknowledgedMoves DEF RecvAck, Msgs, Orders
  <1>5. ASSUME NEW v \in Venues, RecvFill(v) PROVE PromiseKinds
    <2>1. /\ Head(chan[v]).oid \in Orders /\ Head(chan[v]).cum \in Nat
          /\ Head(chan[v]).cum <= vfilled[Head(chan[v]).oid]
      <3>1. vfilled \in [Orders -> Nat] /\ chan[v] # <<>>
        BY <1>5, <1>a DEF TypeOK, RecvFill
      <3>2. chan[v] \in Seq(Msgs) /\ 1 \in 1..Len(chan[v]) /\ Head(chan[v]) = chan[v][1]
        BY <1>a, <3>1, EmptySeq DEF TypeOK
      <3>. QED BY <1>a, <3>1, <3>2, ChanHead DEF TruthfulChannels, Msgs, Orders
    <2>2. vfilled' = vfilled /\ Credit(Head(chan[v]).oid, Head(chan[v]).cum)
      BY <1>5 DEF RecvFill
    <2>. QED BY <2>1, <2>2, CreditKinds DEF PromiseKinds, Untraded, Debited, Answered
  <1>6. ASSUME NEW v \in Venues, RecvMarketHalted(v) PROVE PromiseKinds
    <2>1. PICK c \in Ids : c = ho[Head(chan[v]).oid].chain
      BY <1>6, <1>a, ChanHead DEF RecvMarketHalted, Msgs, TypeOK, AttemptRecords
    <2>2. ob' = ob \/ ob' = [ob EXCEPT ![c] = [ob[c] EXCEPT !.parked = TRUE]]
      BY <1>6, <2>1 DEF RecvMarketHalted
    <2>3. UNCHANGED <<vfilled, mcum, dropped, attempts, ho, booked, extra>>
      BY <1>6 DEF RecvMarketHalted
    <2>. DEFINE r == [ob[c] EXCEPT !.parked = TRUE]
    <2>4. r.owed = ob[c].owed /\ r.maker = ob[c].maker /\ r.alarmed = ob[c].alarmed
      BY <1>b, ClocksOnly
    <2>. HIDE DEF r
    <2>5. CASE ob' = [ob EXCEPT ![c] = r]
      BY <1>a, <2>3, <2>4, <2>5, OneUnmoved DEF PromiseKinds, Untraded
    <2>. QED BY <1>c, <2>2, <2>3, <2>5 DEF r
  <1>7. ASSUME NEW c \in Ids, IntervalPasses(c) \/ HorizonPasses(c) \/ ParkExpires(c)
        PROVE  PromiseKinds
    <2>1. PICK r : /\ r \in {[ob[c] EXCEPT !.parked = FALSE], [ob[c] EXCEPT !.old = TRUE],
                             [ob[c] EXCEPT !.sinceTry = @ + 1]}
                   /\ Clock(c, r)
      BY <1>7 DEF IntervalPasses, HorizonPasses, ParkExpires
    <2>2. r.owed = ob[c].owed /\ r.maker = ob[c].maker /\ r.alarmed = ob[c].alarmed
      <3>1. ob[c] \in Obligations
        BY <1>b
      <3>2. CASE r = [ob[c] EXCEPT !.parked = FALSE]
        BY <3>1, <3>2, ClocksOnly
      <3>3. CASE r = [ob[c] EXCEPT !.old = TRUE]
        BY <3>1, <3>3, ClocksOnly
      <3>4. CASE r = [ob[c] EXCEPT !.sinceTry = @ + 1]
        BY <3>1, <3>4, ClocksOnly
      <3>. QED BY <2>1, <3>2, <3>3, <3>4
    <2>3. /\ ob' = [ob EXCEPT ![c] = r]
          /\ UNCHANGED <<vfilled, mcum, dropped, attempts, ho, booked, extra>>
      BY <2>1 DEF Clock
    <2>. QED BY <1>a, <2>2, <2>3, OneUnmoved DEF PromiseKinds, Untraded
  <1>8. ASSUME NEW c \in Ids, TickWaits(c) PROVE PromiseKinds
    BY <1>8 DEF TickWaits, PromiseKinds, Untraded
  <1>9. ASSUME NEW c \in Ids, NEW sellBack \in BOOLEAN, TickPlaces(c, sellBack)
        PROVE  PromiseKinds
    BY <1>9 DEF TickPlaces, PromiseKinds, Untraded
  <1>10. ASSUME NEW v \in Venues, NEW filled \in Nat, queue[v] # <<>>,
                ExecPlaces(v, filled) \/ ExecAnswerLost(v, filled)
         PROVE  PromiseKinds
    <2>1. PICK h \in Ids : h = Head(queue[v]).oid
      BY <1>a, <1>10, QueueHead DEF Cmds
    <2>2. \A m \in Makers : vfilled'[m] = vfilled[m]
      <3>1. vfilled' = [vfilled EXCEPT ![h] = @ + filled]
        BY <1>10, <2>1, Zenon DEF ExecPlaces, ExecAnswerLost
      <3>. QED BY <1>a, <3>1, MakersAssumption DEF TypeOK, Orders
    <2>3. UNCHANGED engineVars
      BY <1>10 DEF ExecPlaces, ExecAnswerLost, Served
    <2>4. UNCHANGED <<mcum, dropped, ob, booked, extra, attempts, ho>>
      BY <2>3 DEF engineVars
    <2>5. Unmoved
      <3>1. Sold' = Sold
        BY <2>2 DEF Sold
      <3>2. Owes' = Owes /\ Whose' = Whose /\ Alarmed' = Alarmed
        BY <2>4 DEF Owes, Whose, Alarmed
      <3>. QED BY <2>4, <3>1, <3>2 DEF Unmoved
    <2>6. Kept \/ Made \/ \E w \in Venues : Serves(w)
      BY <1>a, AttemptSteps
    <2>7. NonePlaced => Untraded
      BY <2>2 DEF NonePlaced, Untraded, Orders
    <2>. QED BY <2>4, <2>5, <2>6, <2>7 DEF PromiseKinds, Kept, Made
  <1>11. ASSUME NEW v \in Venues, ExecUnreadable(v) \/ ExecUnaccounted(v) PROVE PromiseKinds
    BY <1>c, <1>11 DEF ExecUnreadable, ExecUnaccounted, Served, engineVars
  <1>12. ASSUME NEW v \in Venues, NEW halted \in BOOLEAN, ExecRefused(v, halted)
         PROVE  PromiseKinds
    BY <1>c, <1>12 DEF ExecRefused, Served, engineVars
  <1>13. CASE UNCHANGED vars
    BY <1>c, <1>13 DEF vars, engineVars
  <1>. QED
    BY NextCases, <1>a, <1>1, <1>2, <1>3, <1>4, <1>5, <1>6, <1>7, <1>8, <1>9, <1>10,
       <1>11, <1>12, <1>13
-----------------------------------------------------------------------------
(* Each kind of step is a move of the contract.                             *)

(* A trade of a maker order. *)
LEMMA SellPromise ==
  ASSUME OInv, NEW m \in Makers, MakerTrades(m)
  PROVE  Contract!Move
  <1>a. TypeOK /\ m \in Orders /\ m \notin Ids
    BY MarketType, MakersAssumption DEF Orders
  <1>1. vfilled' = [vfilled EXCEPT ![m] = @ + 1] /\ UNCHANGED engineVars
    BY DEF MakerTrades
  <1>2. Sold' = [Sold EXCEPT ![m] = @ + 1]
    BY <1>a, <1>1, MakersAssumption DEF TypeOK, Sold, Orders
  <1>3. UNCHANGED <<mcum, dropped, ob, booked, extra, attempts, ho>>
    BY <1>1 DEF engineVars
  <1>4. Owes' = Owes /\ Whose' = Whose /\ Alarmed' = Alarmed
    BY <1>3 DEF Owes, Whose, Alarmed
  <1>5. \A b \in Ids : vfilled'[b] = vfilled[b]
    BY <1>a, <1>1 DEF TypeOK, Orders
  <1>6. Traded' = Traded /\ Blind' = Blind
    BY <1>3, <1>5, SameMarket
  <1>7. Contract!Sell(m)
    BY <1>2, <1>3, <1>4, <1>6 DEF Contract!Sell
  <1>. QED BY <1>7 DEF Contract!Move

(* The same facts of the state a step leads to.                             *)
LEMMA OverHedgeNext == OInv' => OverHedgeNeedsSkippedAttempt'
  BY OverHedge, PTL

VenueCounts == \A c \in Ids : AtVenue(c) \in Nat
LEMMA VenueCounted == OInv => VenueCounts
  BY MarketType DEF VenueCounts

LEMMA VenueCountedNext == OInv' => VenueCounts'
  BY VenueCounted, PTL

(* A command served trades for one obligation, or is a stutter.             *)
LEMMA TradePromise ==
  ASSUME OInv, OInv', PassedOwn, Unmoved, NEW v \in Venues, Serves(v)
  PROVE  Contract!Move \/ UNCHANGED Contract!promised
  <1>1. UNCHANGED <<Sold, mcum, dropped, Owes, Whose, booked, extra, Alarmed>>
    BY DEF Unmoved
  <1>2. CASE Traded' = Traded /\ Blind' = Blind
    BY <1>1, <1>2 DEF Contract!promised
  <1>3. ASSUME NEW c \in Minted,
               Traded'[c] > Traded[c], Traded' = [Traded EXCEPT ![c] = Traded'[c]],
               Blind' \in {Blind, Blind \cup {c}}
        PROVE  Contract!Move
    <2>1. c \in Ids /\ Owes[c] > 0
      BY DEF Minted, Owes
    <2>2. Traded'[c] <= Owes[c] \/ c \in Blind'
      <3>1. c \in Minted' /\ ob'[c].owed = ob[c].owed /\ ob[c].owed \in Nat
        BY <1>1, <2>1, MarketType DEF Minted, Owes, TypeOK, Obligations
      <3>2. Traded'[c] = AtVenue(c)' /\ AtVenue(c)' \in Nat
        BY <2>1, VenueCountedNext DEF Traded, VenueCounts
      <3>3. AtVenue(c)' > ob'[c].owed => PassedUnseen(c)'
        BY <3>1, OverHedgeNext DEF OverHedgeNeedsSkippedAttempt
      <3>. QED BY <2>1, <3>1, <3>2, <3>3 DEF Owes, Blind
    <2>3. Contract!Trade(c)
      BY <1>1, <1>3, <2>1, <2>2 DEF Contract!Trade
    <2>. QED BY <2>1, <2>3 DEF Contract!Move
  <1>. QED BY <1>2, <1>3, ServesMarket

(* What is booked and alarmed for a chain is no more than traded for it.    *)
SettledWithin == \A c \in Ids : /\ booked[c] \in Nat /\ extra[c] \in Nat
                                /\ booked[c] + extra[c] <= AtVenue(c)
LEMMA Settled == OInv => SettledWithin
  <1>. SUFFICES ASSUME OInv, NEW c \in Ids
                PROVE  /\ booked[c] \in Nat /\ extra[c] \in Nat
                       /\ booked[c] + extra[c] <= AtVenue(c)
    BY DEF SettledWithin
  <1>1. TypeOK /\ NeverAheadOfVenue /\ ChainsAddUp
    BY MarketType DEF OInv, BInv, IInv, Books
  <1>2. \A b \in Chain(c) : CumOf[b] \in Nat /\ vfilled[b] \in Nat /\ CumOf[b] <= vfilled[b]
    <2>. SUFFICES ASSUME NEW b \in Chain(c)
                  PROVE  CumOf[b] \in Nat /\ vfilled[b] \in Nat /\ CumOf[b] <= vfilled[b]
      OBVIOUS
    <2>1. b \in Ids /\ b \in attempts
      BY MarketType DEF Chain
    <2>2. CumOf[b] \in Nat /\ CumOf[b] = ho[b].cum /\ vfilled[b] \in Nat
      BY <1>1, <2>1, CountsOf, MarketType
    <2>. QED BY <1>1, <2>1, <2>2 DEF NeverAheadOfVenue
  <1>3. SumFunctionOnSet(CumOf, Chain(c)) <= SumFunctionOnSet(vfilled, Chain(c))
    BY <1>2, MarketType, SumMonotonic
  <1>4. booked[c] \in Nat /\ extra[c] \in Nat
    BY <1>1 DEF TypeOK
  <1>. QED BY <1>1, <1>3, <1>4 DEF ChainsAddUp, AtVenue

LEMMA SettledNext == OInv' => SettledWithin'
  BY Settled, PTL

(* A debt is naked in the contract as long as it is in pending_hedges.      *)
LEMMA PendingIsNaked ==
  ASSUME OInv
  PROVE  /\ \A c \in pending : c \in Ids /\ c \in Minted /\ Contract!Naked(c)
         /\ \A c \in Minted : /\ ob[c].owed \in Nat /\ ob[c].filled \in Nat
                              /\ booked[c] = Least(ob[c].filled, ob[c].owed)
                              /\ c \in pending <=> ob[c].filled < ob[c].owed
  <1>1. TypeOK /\ IdsAreFresh /\ LedgerIsTheHedge /\ NakedIsTracked
    BY MarketType DEF IInv
  <1>2. \A c \in Minted : /\ c \in Ids /\ ob[c].owed \in Nat /\ ob[c].filled \in Nat
                          /\ booked[c] = Least(ob[c].filled, ob[c].owed)
                          /\ c \in pending <=> ob[c].filled < ob[c].owed
    BY <1>1 DEF TypeOK, Obligations, LedgerIsTheHedge, NakedIsTracked, Minted
  <1>3. \A c \in pending : c \in Ids /\ c \in Minted /\ booked[c] < Owes[c]
    <2>. SUFFICES ASSUME NEW c \in pending PROVE c \in Ids /\ c \in Minted /\ booked[c] < Owes[c]
      OBVIOUS
    <2>1. c \in Minted
      BY <1>1 DEF IdsAreFresh
    <2>2. PICK f \in Nat, w \in Nat :
             f = ob[c].filled /\ w = ob[c].owed /\ booked[c] = Least(f, w) /\ f < w
      BY <1>2, <2>1
    <2>3. booked[c] < w
      BY <2>2 DEF Least
    <2>. QED BY <1>2, <2>1, <2>2, <2>3 DEF Owes
  <1>. QED BY <1>2, <1>3 DEF Contract!Naked

(* A frame of an attempt's fill settles some of what traded.                *)
LEMMA SettlePromise ==
  ASSUME OInv, OInv', Untraded, NEW h \in Ids, NEW k \in Nat, CreditHedge(h, k)
  PROVE  Contract!Move \/ UNCHANGED Contract!promised
  <1>a. TypeOK /\ IInv /\ \A b \in Ids : ho[b] \in AttemptRecords /\ ob[b] \in Obligations
    BY MarketType DEF TypeOK
  <1>b. \A o \in Orders : vfilled'[o] = vfilled[o]
    BY DEF Untraded
  <1>1. PICK c \in Ids, d \in Nat, n \in Nat :
           c = ho[h].chain /\ d = CreditDelta(h, k) /\ n = CreditBook(h, d) /\ n <= d
    BY <1>a, CreditDeltaType, CreditBookType DEF AttemptRecords
  <1>2. /\ booked' = [booked EXCEPT ![c] = @ + n]
        /\ extra' = [extra EXCEPT ![c] = @ + (d - n)]
        /\ UNCHANGED <<mcum, dropped, attempts>>
    BY <1>1, Zenon DEF CreditHedge
  <1>3. \A e \in Ids : /\ ob'[e].owed = ob[e].owed /\ ob'[e].maker = ob[e].maker
                       /\ ob'[e].alarmed = ob[e].alarmed
    <2>. DEFINE r == [ob[c] EXCEPT !.filled = @ + d]
    <2>1. r.owed = ob[c].owed /\ r.maker = ob[c].maker /\ r.alarmed = ob[c].alarmed
      BY <1>a DEF Obligations
    <2>2. ob' = ob \/ ob' = [ob EXCEPT ![c] = r]
      BY <1>1 DEF CreditHedge
    <2>. HIDE DEF r
    <2>. QED BY <1>a, <2>1, <2>2 DEF TypeOK
  <1>4. Owes' = Owes /\ Whose' = Whose /\ Alarmed' = Alarmed
    BY <1>3 DEF Owes, Whose, Alarmed
  <1>5. Sold' = Sold
    BY <1>b DEF Sold, Orders
  <1>6. Traded' = Traded /\ Blind' = Blind
    BY <1>a, <1>b, <1>2, CreditGrows, SameMarket DEF Orders
  <1>7. CASE d = 0
    <2>1. booked' = booked /\ extra' = extra
      BY <1>a, <1>1, <1>2, <1>7 DEF TypeOK
    <2>. QED BY <1>2, <1>4, <1>5, <1>6, <2>1 DEF Contract!promised
  <1>8. CASE d > 0
    <2>1. c \in Minted
      <3>1. h \notin attempts => ho[h].qty = 0 /\ ho[h].cum = 0
        BY DEF OInv, BInv, Books, Unmade
      <3>2. h \in attempts
        BY <1>1, <1>8, <3>1 DEF CreditDelta, Least, Greatest
      <3>. QED BY <1>1, <3>2 DEF OInv, BInv, Books, OwnChain
    <2>2. /\ booked[c] \in Nat /\ extra[c] \in Nat
          /\ booked'[c] = booked[c] + n /\ extra'[c] = extra[c] + (d - n)
      BY <1>a, <1>2 DEF TypeOK
    <2>3. Traded[c] \in Nat /\ booked[c] + extra[c] + d <= Traded[c]
      <3>1. booked'[c] + extra'[c] <= AtVenue(c)'
        BY SettledNext DEF SettledWithin
      <3>2. Traded[c] = AtVenue(c)' /\ Traded[c] \in Nat
        BY <1>6, MarketType DEF Traded
      <3>. QED BY <1>1, <2>2, <3>1, <3>2
    <2>4. PICK f \in Nat, w \in Nat :
             /\ f = ob[c].filled /\ w = ob[c].owed /\ w = Owes[c]
             /\ booked[c] = Least(f, w)
             /\ c \in pending <=> f < w
      BY <2>1, PendingIsNaked DEF Owes
    <2>5. n = IF c \in pending THEN Least(d, Greatest(w - f, 0)) ELSE 0
      BY <1>1, <2>4, Zenon DEF CreditBook, Missing
    <2>6. booked[c] + n <= w /\ (d - n > 0 => booked[c] + n = w)
      <3>1. PICK held \in Nat : held = booked[c]
        BY <2>2
      <3>2. CASE c \in pending
        <4>1. f < w /\ held = Least(f, w) /\ n = Least(d, Greatest(w - f, 0))
          BY <2>4, <2>5, <3>1, <3>2
        <4>2. held + n <= w /\ (d - n > 0 => held + n = w)
          BY <1>1, <4>1 DEF Least, Greatest
        <4>. QED BY <3>1, <4>2
      <3>3. CASE c \notin pending
        <4>1. ~(f < w) /\ held = Least(f, w) /\ n = 0
          BY <2>4, <2>5, <3>1, <3>3
        <4>2. held + n <= w /\ (d - n > 0 => held + n = w)
          BY <1>1, <4>1 DEF Least, Greatest
        <4>. QED BY <3>1, <4>2
      <3>. QED BY <3>2, <3>3
    <2>7. n \in 0..Traded[c] /\ d - n \in 0..Traded[c]
      BY <1>1, <2>2, <2>3
    <2>8. PICK x \in 0..Traded[c] : x = d - n
      BY <2>7
    <2>9. n + x > 0 /\ booked[c] + extra[c] + n + x <= Traded[c]
      BY <1>1, <1>8, <2>2, <2>3, <2>8
    <2>10. Contract!Settle(c, n, x)
      BY <1>2, <1>4, <1>5, <1>6, <2>4, <2>6, <2>8, <2>9 DEF Contract!Settle
    <2>. QED BY <2>7, <2>10 DEF Contract!Move
  <1>. QED BY <1>1, <1>7, <1>8

(* A frame of a maker order's fill: owed by a new obligation, or given up.  *)
LEMMA AnswerPromise ==
  ASSUME OInv, AlarmedMinted, Untraded, NEW m \in Makers, NEW k \in Nat, k <= vfilled[m],
         CreditMaker(m, k)
  PROVE  Contract!Move \/ UNCHANGED Contract!promised
  <1>a. TypeOK /\ IInv /\ \A b \in Ids : b \in Orders
    BY MarketType DEF Orders
  <1>b. \A o \in Orders : vfilled'[o] = vfilled[o]
    BY DEF Untraded
  <1>c. m \in Orders /\ Sold[m] = vfilled[m] /\ vfilled[m] \in Nat /\ mcum[m] \in Nat
    BY <1>a DEF Orders, Sold, TypeOK
  <1>1. PICK d \in Nat : d = MakerDelta(m, k) /\ (d > 0 => mcum[m] + d <= k)
    BY <1>a, MakerDeltaType
  <1>2. /\ mcum' = [mcum EXCEPT ![m] = @ + d] /\ UNCHANGED <<booked, extra>>
        /\ dropped' = [dropped EXCEPT ![m] = IF m \in anchored THEN @ ELSE @ + d]
        /\ IF d > 0 /\ m \in anchored
           THEN MintAndPlace(m, d)
           ELSE UNCHANGED <<nextHedge, pending, ob, attempts, ho, queue>>
    BY <1>1, Zenon DEF CreditMaker
  <1>3. Sold' = Sold
    BY <1>b DEF Sold, Orders
  <1>4. d > 0 => d \in 1..Sold[m] /\ mcum[m] + d <= Sold[m]
    BY <1>c, <1>1
  <1>5. CASE ~(d > 0 /\ m \in anchored)
    <2>1. UNCHANGED <<ob, attempts, ho>>
      BY <1>2, <1>5
    <2>2. Owes' = Owes /\ Whose' = Whose /\ Alarmed' = Alarmed
      BY <2>1 DEF Owes, Whose, Alarmed
    <2>3. Traded' = Traded /\ Blind' = Blind
      BY <1>a, <1>b, <2>1, SameMarket
    <2>4. CASE d = 0
      <3>1. mcum' = mcum /\ dropped' = dropped
        BY <1>a, <1>2, <2>4 DEF TypeOK
      <3>. QED BY <1>2, <1>3, <2>2, <2>3, <3>1 DEF Contract!promised
    <2>5. CASE d # 0
      <3>1. d > 0 /\ dropped' = [dropped EXCEPT ![m] = @ + d]
        <4>1. d > 0
          BY <2>5
        <4>2. m \notin anchored
          BY <1>5, <4>1
        <4>. QED BY <1>2, <4>1, <4>2, Zenon
      <3>2. Contract!Forgo(m, d)
        BY <1>2, <1>3, <1>4, <2>2, <2>3, <3>1 DEF Contract!Forgo, Contract!Answer
      <3>. QED BY <1>4, <3>1, <3>2 DEF Contract!Move
    <2>. QED BY <2>4, <2>5
  <1>6. CASE d > 0 /\ m \in anchored
    <2>1. MintAndPlace(m, d) /\ dropped' = dropped
      BY <1>a, <1>2, <1>6 DEF TypeOK
    <2>2. PICK c \in Ids : /\ c = nextHedge + 1 /\ c \notin Minted /\ c \notin attempts
      BY <1>a, <2>1 DEF IInv, IdsAreFresh, TypeOK, MintAndPlace
    <2>3. PICK l : ob' = [ob EXCEPT ![c] = Obligation(m, d, l)]
      BY <2>1, <2>2 DEF MintAndPlace
    <2>4. \/ UNCHANGED <<attempts, ho>>
          \/ /\ attempts' = attempts \cup {c}
             /\ ho' = [ho EXCEPT ![c] = Attempt(c, Other(Home[m]), d, FALSE, {})]
      BY <2>1, <2>2 DEF MintAndPlace
    <2>5. Chain(c) = {}
      BY <2>2 DEF Chain, OInv, BInv, Books, OwnChain
    <2>6. Traded[c] = 0 /\ c \notin Blind
      BY <2>5, SumEmpty DEF Traded, AtVenue, Blind, PassedUnseen
    <2>7. Owes[c] = 0 /\ booked[c] = 0 /\ extra[c] = 0 /\ c \notin Alarmed
      <3>1. ob[c].owed \in Nat
        BY <1>a DEF TypeOK, Obligations
      <3>2. booked[c] = 0 /\ extra[c] = 0
        BY <1>a, <2>2 DEF IInv, IdsAreFresh, OInv, BInv, Books, LiveNotOver
      <3>3. ~(ob[c].owed > 0)
        BY <2>2 DEF Minted
      <3>4. ob[c].owed = 0
        BY <3>1, <3>3
      <3>5. c \notin Alarmed
        BY <2>2 DEF AlarmedMinted
      <3>. QED BY <3>2, <3>4, <3>5 DEF Owes
    <2>8. Owes' = [Owes EXCEPT ![c] = d] /\ Whose' = [Whose EXCEPT ![c] = m] /\ Alarmed' = Alarmed
      <3>. DEFINE r == Obligation(m, d, l)
      <3>1. r.owed = d /\ r.maker = m /\ ~r.alarmed
        BY DEF Obligation
      <3>. HIDE DEF r
      <3>2. \A e \in Ids : ob'[e] = IF e = c THEN r ELSE ob[e]
        BY <1>a, <2>3 DEF TypeOK, r
      <3>3. ~ob[c].alarmed
        BY <2>7 DEF Alarmed
      <3>4. Owes' = [Owes EXCEPT ![c] = d]
        BY <3>1, <3>2 DEF Owes
      <3>5. Whose' = [Whose EXCEPT ![c] = m]
        BY <3>1, <3>2 DEF Whose
      <3>6. Alarmed' = Alarmed
        BY <3>1, <3>2, <3>3 DEF Alarmed
      <3>. QED BY <3>4, <3>5, <3>6
    <2>9. Traded' = Traded /\ Blind' = Blind
      <3>1. CASE UNCHANGED <<attempts, ho>>
        BY <1>a, <1>b, <3>1, SameMarket
      <3>2. CASE /\ attempts' = attempts \cup {c}
                 /\ ho' = [ho EXCEPT ![c] = Attempt(c, Other(Home[m]), d, FALSE, {})]
        <4>. DEFINE a == Attempt(c, Other(Home[m]), d, FALSE, {})
        <4>1. a.chain = c /\ a.skipped = {}
          BY DEF Attempt
        <4>. HIDE DEF a
        <4>2. attempts' = attempts \cup {c} /\ ho' = [ho EXCEPT ![c] = a] /\ a.skipped \subseteq Ids
          BY <3>2, <4>1 DEF a
        <4>. QED BY <1>a, <1>b, <2>2, <4>1, <4>2, NewAttemptMarket
      <3>. QED BY <2>4, <3>1, <3>2
    <2>10. Contract!Owe(m, d, c)
      BY <1>2, <1>3, <1>4, <1>6, <2>1, <2>6, <2>7, <2>8, <2>9 DEF Contract!Owe, Contract!Answer
    <2>. QED BY <1>4, <1>6, <2>10 DEF Contract!Move
  <1>. QED BY <1>5, <1>6

(* A tick changes nothing of an obligation but its alarm, its retry clock   *)
(* and its latest attempt.                                                  *)
LEMMA TickedKeeps ==
  ASSUME TypeOK, NEW c \in Ids, NEW h, NEW r,
         r = Ticked(c) \/ r = [Ticked(c) EXCEPT !.sinceTry = 0, !.latest = h]
  PROVE  r.owed = ob[c].owed /\ r.maker = ob[c].maker /\ (ob[c].alarmed => r.alarmed)
  <1>1. ob[c] \in Obligations
    BY DEF TypeOK
  <1>2. CASE r = Ticked(c)
    BY <1>1, <1>2 DEF Ticked, Obligations
  <1>3. CASE r = [Ticked(c) EXCEPT !.sinceTry = 0, !.latest = h]
    BY <1>1, <1>3 DEF Ticked, Obligations
  <1>. QED BY <1>2, <1>3

(* The deadline of an obligation, whatever the plan was.                    *)
LEMMA ChasePromise ==
  ASSUME OInv, Untraded, NEW c \in Ids,
         TickWaits(c) \/ \E sellBack \in BOOLEAN : TickPlaces(c, sellBack)
  PROVE  Contract!Move
  <1>a. TypeOK /\ IInv /\ \A b \in Ids : vfilled'[b] = vfilled[b]
    BY MarketType DEF Untraded, Orders
  <1>1. Sold' = Sold
    BY DEF Untraded, Sold, Orders
  <1>2. /\ c \in pending /\ c \in Minted /\ Contract!Naked(c)
        /\ UNCHANGED <<mcum, dropped, booked, extra>>
    BY PendingIsNaked DEF TickWaits, TickPlaces
  <1>3. PICK r : /\ ob' = [ob EXCEPT ![c] = r]
                 /\ \/ r = Ticked(c)
                    \/ r = [Ticked(c) EXCEPT !.sinceTry = 0, !.latest = nextHedge + 1]
    <2>1. Missing(c) > 0 /\ Missing(c) \in Int
      <3>1. PICK f \in Nat, w \in Nat : f = ob[c].filled /\ w = ob[c].owed /\ f < w
        BY <1>2, PendingIsNaked
      <3>. QED BY <3>1 DEF Missing
    <2>2. CASE TickWaits(c)
      <3>1. ~(Missing(c) <= 0)
        BY <2>1
      <3>2. ob' = [ob EXCEPT ![c] = Ticked(c)]
        BY <2>2, <3>1, Zenon DEF TickWaits
      <3>. QED BY <3>2
    <2>3. CASE \E sellBack \in BOOLEAN : TickPlaces(c, sellBack)
      <3>1. ob' = [ob EXCEPT ![c] = [Ticked(c) EXCEPT !.sinceTry = 0, !.latest = nextHedge + 1]]
        BY <2>3, Zenon DEF TickPlaces
      <3>. QED BY <3>1, Zenon
    <2>. QED BY <2>2, <2>3
  <1>4. r.owed = ob[c].owed /\ r.maker = ob[c].maker /\ (ob[c].alarmed => r.alarmed)
    BY <1>a, <1>3, TickedKeeps
  <1>5. \A e \in Ids : ob'[e] = IF e = c THEN r ELSE ob[e]
    BY <1>a, <1>3 DEF TypeOK
  <1>6. Owes' = Owes /\ Whose' = Whose
    BY <1>4, <1>5 DEF Owes, Whose
  <1>7. Alarmed' \in {Alarmed, Alarmed \cup {c}}
    BY <1>4, <1>5 DEF Alarmed
  <1>8. Traded' = Traded /\ Blind' \in {Blind, Blind \cup {c}}
    <2>1. CASE TickWaits(c)
      <3>1. UNCHANGED <<attempts, ho>>
        BY <2>1 DEF TickWaits
      <3>. QED BY <1>a, <3>1, SameMarket
    <2>2. ASSUME NEW sellBack \in BOOLEAN, TickPlaces(c, sellBack)
          PROVE  Traded' = Traded /\ Blind' \in {Blind, Blind \cup {c}}
      <3>1. PICK g, a : /\ g \in Ids /\ g \notin attempts
                        /\ a.chain = c /\ a.skipped = Skipped(c, g)
                        /\ attempts' = attempts \cup {g} /\ ho' = [ho EXCEPT ![g] = a]
        BY <1>a, <2>2, RetryGrows
      <3>2. a.skipped \subseteq Ids
        BY <1>a, <3>1 DEF Skipped, Earlier, TypeOK
      <3>. QED BY <1>a, <3>1, <3>2, NewAttemptMarket
    <2>. QED BY <2>1, <2>2
  <1>9. Contract!Chase(c)
    BY <1>1, <1>2, <1>6, <1>7, <1>8 DEF Contract!Chase
  <1>. QED BY <1>9 DEF Contract!Move

(* Every step is a move of the contract, or nothing to it.                  *)
LEMMA NextPromise ==
  ASSUME RInv, OInv', [Next]_vars
  PROVE  Contract!Move \/ UNCHANGED Contract!promised
  <1>a. OInv /\ PassedOwn /\ AlarmedMinted /\ \A b \in Ids : b \in Orders
    BY DEF RInv, Orders
  <1>1. ASSUME NEW m \in Makers, MakerTrades(m) PROVE Contract!Move
    BY <1>a, <1>1, SellPromise
  <1>2. ASSUME Unmoved, NEW v \in Venues, Serves(v)
        PROVE  Contract!Move \/ UNCHANGED Contract!promised
    BY <1>a, <1>2, TradePromise
  <1>3. ASSUME Untraded, Debited PROVE Contract!Move \/ UNCHANGED Contract!promised
    BY <1>a, <1>3, SettlePromise DEF Debited
  <1>4. ASSUME Untraded, Answered PROVE Contract!Move \/ UNCHANGED Contract!promised
    BY <1>a, <1>4, AnswerPromise DEF Answered
  <1>5. ASSUME Untraded, NEW c \in Ids,
               TickWaits(c) \/ \E sellBack \in BOOLEAN : TickPlaces(c, sellBack)
        PROVE  Contract!Move
    BY <1>a, <1>5, ChasePromise
  <1>6. ASSUME Untraded, Unmoved, UNCHANGED <<attempts, ho>>
        PROVE  UNCHANGED Contract!promised
    <2>1. Traded' = Traded /\ Blind' = Blind
      BY <1>a, <1>6, SameMarket DEF Untraded
    <2>. QED BY <1>6, <2>1 DEF Unmoved, Contract!promised
  <1>. QED BY <1>a, PromiseSteps, <1>1, <1>2, <1>3, <1>4, <1>5, <1>6, Zenon DEF PromiseKinds

(* What the contract alarms, it owes.                                       *)
LEMMA MoveAlarms ==
  ASSUME OInv, AlarmedMinted, Contract!Move \/ UNCHANGED Contract!promised
  PROVE  AlarmedMinted'
  <1>1. /\ Minted = {c \in Ids : Owes[c] > 0} /\ Minted' = {c \in Ids : Owes'[c] > 0}
        /\ \A c \in Ids : Owes[c] \in Nat /\ booked[c] \in Nat
        /\ DOMAIN Owes = Ids
    BY MarketType DEF Minted, Owes, TypeOK, Obligations
  <1>2. CASE Owes' = Owes /\ Alarmed' = Alarmed
    BY <1>1, <1>2 DEF AlarmedMinted
  <1>3. ASSUME NEW m \in Makers, NEW n \in 1..Sold[m], NEW c \in Ids, Contract!Owe(m, n, c)
        PROVE  AlarmedMinted'
    <2>1. Alarmed' = Alarmed /\ Owes' = [Owes EXCEPT ![c] = n] /\ n > 0
      BY <1>3 DEF Contract!Owe, Contract!Answer
    <2>2. \A e \in Ids : Owes[e] > 0 => Owes'[e] > 0
      BY <1>1, <2>1
    <2>. QED BY <1>1, <2>1, <2>2 DEF AlarmedMinted
  <1>4. ASSUME NEW c \in Ids, Contract!Chase(c) PROVE AlarmedMinted'
    <2>1. Alarmed' \subseteq Alarmed \cup {c} /\ Owes' = Owes /\ booked[c] < Owes[c]
      BY <1>4 DEF Contract!Chase, Contract!Naked
    <2>2. Owes[c] > 0
      BY <1>1, <2>1
    <2>. QED BY <1>1, <2>1, <2>2 DEF AlarmedMinted
  <1>5. \/ Owes' = Owes /\ Alarmed' = Alarmed
        \/ \E m \in Makers : \E n \in 1..Sold[m] : \E c \in Ids : Contract!Owe(m, n, c)
        \/ \E c \in Ids : Contract!Chase(c)
    BY DEF Contract!Move, Contract!promised, Contract!Sell, Contract!Forgo, Contract!Answer,
           Contract!Trade, Contract!Settle
  <1>. QED BY <1>2, <1>3, <1>4, <1>5

(* An attempt is queued past attempts of its own chain alone.               *)
LEMMA StepPassedOwn ==
  ASSUME OInv, PassedOwn, [Next]_vars, TypeOK'
  PROVE  PassedOwn'
  <1>a. TypeOK /\ IInv /\ Grows
    BY MarketType, StepGrows
  <1>1. \A c : Chain(c) \subseteq Chain(c)'
    BY <1>a DEF Grows, Chain
  <1>2. \A h \in attempts : \A c : c = ho'[h].chain => ho'[h].skipped \subseteq Chain(c)'
    <2>. SUFFICES ASSUME NEW h \in attempts, NEW c, c = ho'[h].chain
                  PROVE  ho'[h].skipped \subseteq Chain(c)'
      OBVIOUS
    <2>1. ho'[h].skipped = ho[h].skipped /\ ho[h].chain = c
      BY <1>a DEF Grows
    <2>2. ho[h].skipped \subseteq Chain(c)
      BY <2>1 DEF PassedOwn
    <2>. QED BY <1>1, <2>1, <2>2
  <1>3. ASSUME NEW m \in Makers, NEW q \in Nat, MintAndPlace(m, q), NEW g \in attempts' \ attempts
        PROVE  ho'[g].skipped = {}
    <2>1. PICK h, a : /\ h \in Ids /\ a = Attempt(h, Other(Home[m]), q, FALSE, {})
                      /\ attempts' \subseteq attempts \cup {h}
                      /\ \/ attempts' = attempts
                         \/ ho' = [ho EXCEPT ![h] = a]
      BY <1>a, <1>3, MintGrows
    <2>2. g = h /\ ho'[h] = a
      BY <1>a, <2>1 DEF TypeOK
    <2>. QED BY <2>1, <2>2 DEF Attempt
  <1>4. ASSUME NEW c \in Ids, NEW sellBack \in BOOLEAN, TickPlaces(c, sellBack),
               NEW g \in attempts' \ attempts
        PROVE  ho'[g].skipped \subseteq Chain(ho'[g].chain)
    <2>1. PICK h, a : /\ h \in Ids /\ a.chain = c /\ a.skipped = Skipped(c, h)
                      /\ attempts' = attempts \cup {h} /\ ho' = [ho EXCEPT ![h] = a]
      BY <1>a, <1>4, RetryGrows
    <2>2. g = h /\ ho'[h] = a
      BY <1>a, <2>1 DEF TypeOK
    <2>3. Skipped(c, h) \subseteq Chain(c)
      BY DEF Skipped, Earlier, Chain
    <2>. QED BY <2>1, <2>2, <2>3
  <1>5. \A g \in attempts' \ attempts : \A c : c = ho'[g].chain => ho'[g].skipped \subseteq Chain(c)'
    <2>1. Kept \/ Made \/ \E v \in Venues : Serves(v)
      BY <1>a, AttemptSteps
    <2>2. CASE attempts' = attempts
      BY <2>2
    <2>3. ASSUME Made, NEW g \in attempts' \ attempts, NEW c, c = ho'[g].chain
          PROVE  ho'[g].skipped \subseteq Chain(c)'
      <3>1. CASE ho'[g].skipped = {}
        BY <3>1
      <3>2. CASE ho'[g].skipped \subseteq Chain(c)
        BY <1>1, <3>2
      <3>. QED BY <1>3, <1>4, <2>3, <3>1, <3>2 DEF Made
    <2>. QED BY <2>1, <2>2, <2>3 DEF Kept, Serves, engineVars
  <1>6. \A h \in attempts' : \A c : c = ho'[h].chain => ho'[h].skipped \subseteq Chain(c)'
    BY <1>2, <1>5
  <1>7. PassedOwn' <=> \A h \in attempts' : \A c : c = ho'[h].chain => ho'[h].skipped \subseteq Chain(c)'
    BY DEF PassedOwn, Chain
  <1>. QED BY <1>6, <1>7

(* The state the contract begins in.                                        *)
LEMMA InitPromise == Init => Contract!Begin /\ PassedOwn /\ AlarmedMinted
  <1>. SUFFICES ASSUME Init PROVE Contract!Begin /\ PassedOwn /\ AlarmedMinted
    OBVIOUS
  <1>1. attempts = {} /\ \A c : Chain(c) = {}
    BY DEF Init, Chain
  <1>2. Traded = [c \in Ids |-> 0] /\ Blind = {}
    BY <1>1, SumEmpty DEF Traded, AtVenue, Blind, PassedUnseen
  <1>3. PICK m \in Makers : \A c \in Ids : ob[c] = Obligation(m, 0, 0)
    BY MakersAssumption DEF Init
  <1>4. Owes = [c \in Ids |-> 0] /\ Whose \in [Ids -> Makers] /\ Alarmed = {}
    BY <1>3 DEF Obligation, Owes, Whose, Alarmed
  <1>5. /\ Sold = [m0 \in Makers |-> 0] /\ mcum = [m0 \in Makers |-> 0]
        /\ dropped = [m0 \in Makers |-> 0]
        /\ booked = [c \in Ids |-> 0] /\ extra = [c \in Ids |-> 0]
    BY MakersAssumption DEF Init, Sold, Orders
  <1>6. PassedOwn /\ AlarmedMinted
    BY <1>1, <1>4 DEF PassedOwn, AlarmedMinted
  <1>. QED BY <1>2, <1>4, <1>5, <1>6 DEF Contract!Begin

(* The engine, the executors and the feed implement HedgeContract, for any  *)
(* makers and sizes, under every loss, delay, duplication and reordering:   *)
(* each contract of a maker fill is answered at most once, nothing is       *)
(* booked but what traded for it and up to what is owed, the rest of what   *)
(* traded is alarmed, a covered obligation is chased and alarmed no more,   *)
(* and more than it owes trades for it only if it was chased blind.         *)
THEOREM HedgeAnswersForFills == Spec => AnswersForFills
  <1>1. Init => Contract!Begin /\ PassedOwn /\ AlarmedMinted
    BY InitPromise
  <1>2. OInv /\ PassedOwn /\ AlarmedMinted /\ OInv' /\ [Next]_vars
          => PassedOwn' /\ AlarmedMinted' /\ [Contract!Move]_(Contract!promised)
    <2>. SUFFICES ASSUME OInv, PassedOwn, AlarmedMinted, OInv', [Next]_vars
                  PROVE  PassedOwn' /\ AlarmedMinted' /\ [Contract!Move]_(Contract!promised)
      OBVIOUS
    <2>1. Contract!Move \/ UNCHANGED Contract!promised
      BY NextPromise DEF RInv
    <2>2. AlarmedMinted'
      BY <2>1, MoveAlarms
    <2>3. PassedOwn'
      BY StepPassedOwn DEF OInv, BInv, IInv
    <2>. QED BY <2>1, <2>2, <2>3
  <1>. QED BY <1>1, <1>2, AttemptsInvariance, PTL DEF Spec, AnswersForFills, Contract!Promise
=============================================================================
