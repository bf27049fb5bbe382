----------------------------- MODULE MakerExit -----------------------------
(***************************************************************************)
(* The maker exit: closing hedged lots by resting one leg and hedging what *)
(* filled, across crashes (maker_exit/lot.rs and maker_exit/batch.rs).     *)
(*                                                                         *)
(* A lot is an amount held on both venues.  To exit it the process RESTS   *)
(* one leg; what fills of it must then be closed on the other venue by a   *)
(* HEDGE, an immediate-or-cancel order, and each hedge is booked in the    *)
(* ledger.  Lots of one price are grouped and rested as one order, owned   *)
(* by the oldest of them.  Each owner keeps its exit in a checkpoint file  *)
(* that is written before every side effect.                               *)
(*                                                                         *)
(* Two drivers advance an exit: the PASS, which walks the owners, plans    *)
(* new exits and places them, and the REACTOR, woken by the events of an   *)
(* owner's books and fills.  An owner is locked while it is advanced, and  *)
(* only then: pc[l] # "idle" is the lock of owner l.                       *)
(*                                                                         *)
(* Lots are numbered from the oldest.  All of them are on one market.      *)
(***************************************************************************)
EXTENDS Naturals, FiniteSets, Functions

CONSTANTS
    NLots,
    Open,         \* contracts each lot holds
    Total,        \* and all of them together
    Prices,       \* the prices a pass may rest at
    Scenes,       \* what the books may make worth doing, see below
    MaxReceipts,  \* bound on the orders ever sent
    MaxStarts     \* bound on the starts of the process

Lots     == 1..NLots
Receipts == 1..MaxReceipts

ASSUME LotsAssumption    == NLots \in Nat /\ Open \in [Lots -> Nat]
ASSUME TotalAssumption   == Total \in Nat /\ Total = SumFunction(Open)
ASSUME ReceiptAssumption == MaxReceipts \in Nat
(* A scene bounds a behaviour: the lots whose exit the books make worth    *)
(* doing, how much of a lot they take, the shapes its exits may have, the  *)
(* lots a pass may cross instead of resting, and the orders it may send.   *)
Shapes == {"RestKalshi", "RestPmUs"}
ASSUME SceneAssumption ==
    Scenes \subseteq [lots : SUBSET Lots, depth : Nat, shapes : SUBSET Shapes,
                      crosses : SUBSET Lots, orders : 0..MaxReceipts]

(* The key of a group: members share the price and the shape, and a cross  *)
(* is a group of its own (cross is then the lot, and 0 otherwise).         *)
Keys == [price : Prices, shape : Shapes, cross : Lots \cup {0}]

RestVenue(key)  == IF key.shape = "RestKalshi" THEN "kalshi" ELSE "pmus"
CloseVenue(key) == IF key.shape = "RestKalshi" THEN "pmus" ELSE "kalshi"

VARIABLES
    ord,      \* the venues' orders, one for each receipt
    covered,  \* history: contracts the venues closed against each rest
    next,     \* the last receipt made
    ledger,   \* closes booked: contracts of a lot under a receipt
    file,     \* the checkpoint file of each owner
    mem,      \* the exit each owner holds in memory
    pc,       \* where the task that holds the owner's lock is
    by,       \* whose task that is: "pass", "event", or "none"
    latched,  \* owners that hold back fresh exits of their market
    pass,     \* the pass: its phase, and what it has gathered
    scene,    \* what the books make worth doing in this behaviour
    starts,   \* how often the process has started
    swept     \* receipts made before this start's clean PM-US sweep

venue == <<ord, covered>>
disk  == <<ledger, file>>
task  == <<mem, pc, by, latched>>
vars  == <<ord, covered, next, ledger, file, mem, pc, by, latched, pass,
           scene, starts, swept>>

---------------------------------------------------------------------------
(* Data.                                                                   *)

(* No exit, and no order.  `final` says that `filled` has been read.       *)
Free == [rest |-> 0, restKnown |-> FALSE, key |-> [price |-> 0, shape |-> "",
         cross |-> 0], members |-> [l \in Lots |-> 0], regroup |-> FALSE,
         final |-> FALSE, filled |-> 0, hedged |-> 0, hedge |-> 0,
         hedgeKnown |-> FALSE]

NoOrder == [st |-> "none", cum |-> 0, qty |-> 0, at |-> "", rest |-> 0,
            ioc |-> FALSE, old |-> FALSE]

NoPlan  == [qty |-> 0, key |-> Free.key]

Sum(f) == SumFunction(f)

Busy(l) == mem[l].rest # 0

MembersOf(s) == {m \in Lots : s.members[m] > 0}

Lower(x, y) == IF x < y THEN x ELSE y
Minus(x, y) == IF x > y THEN x - y ELSE 0

(* What the ledger says a lot still holds.                                 *)
Booked(l) == Sum([r \in Receipts |-> ledger[r][l]])
OpenLeft(l) == Minus(Open[l], Booked(l))

(* allocate: the contracts of member m among those numbered offset + 1 to  *)
(* offset + qty, the members laid out oldest first.                        *)
Before(s, m) == Sum([k \in 1..(m - 1) |-> s.members[k]])

Allocated(s, offset, qty, m) ==
    LET first == Before(s, m)
    IN  Minus(Lower(first + s.members[m], offset + qty),
              Lower(first + s.members[m], first + Minus(offset, first)))

---------------------------------------------------------------------------
(* The venues (external).                                                  *)

(* A request in flight reaches the venue: an order that may rest does, an  *)
(* immediate-or-cancel order trades what it can and is gone.               *)
Land(r) ==
    /\ ord[r].st = "flight"
    /\ \/ /\ ~ord[r].ioc
          /\ ord' = [ord EXCEPT ![r].st = "live"]
          /\ UNCHANGED covered
       \/ /\ ord[r].ioc
          /\ \E n \in 0..Total :
                /\ n <= ord[r].qty
                /\ ord' = [ord EXCEPT ![r].st = "done", ![r].cum = n]
                /\ covered' = IF ord[r].rest = 0 THEN covered
                               ELSE [covered EXCEPT ![ord[r].rest] = @ + n]
    /\ UNCHANGED <<next, disk, task, pass, scene, starts, swept>>

Fill(r) ==
    /\ ord[r].st = "live"
    /\ ord' = [ord EXCEPT ![r].cum = @ + 1,
                          ![r].st = IF ord[r].cum + 1 = ord[r].qty
                                    THEN "done" ELSE "live"]
    /\ UNCHANGED <<covered, next, disk, task, pass, scene, starts, swept>>

(* A resting order goes without being asked: its market closes, or a sweep *)
(* of the engine takes it.                                                 *)
Expire(r) ==
    /\ ord[r].st = "live"
    /\ ord' = [ord EXCEPT ![r].st = "done"]
    /\ UNCHANGED <<covered, next, disk, task, pass, scene, starts, swept>>

(* ABSENT_IS_PROOF_AFTER_S passes after a place whose answer was lost.     *)
(* ASSUMED: by then the request has landed or never will, and the order    *)
(* list shows what has landed.                                             *)
Age(r) ==
    /\ \E l \in Lots : mem[l].rest = r /\ ~mem[l].restKnown /\ pc[l] = "idle"
    /\ ord[r].st # "flight"
    /\ ord[r].at = "kalshi"
    /\ ~ord[r].old
    /\ ord' = [ord EXCEPT ![r].old = TRUE]
    /\ UNCHANGED <<covered, next, disk, task, pass, scene, starts, swept>>

---------------------------------------------------------------------------
(* What every step of a task is made of.                                   *)

(* checkpoint: memory and file agree.  A checkpoint that cannot be written *)
(* exits the process, which is Restart before this step.                   *)
Checkpoint(l, s) ==
    /\ mem' = [mem EXCEPT ![l] = s]
    /\ file' = [file EXCEPT ![l] = s]

Remember(l, s) ==
    /\ mem' = [mem EXCEPT ![l] = s]
    /\ UNCHANGED file

(* Who holds the lock of an owner, and where; `idle` lets it go.           *)
Lock(l, who, at) ==
    /\ pc' = [pc EXCEPT ![l] = at]
    /\ by' = [by EXCEPT ![l] = who]

Goto(l, at) == Lock(l, IF at = "idle" THEN "none" ELSE by[l], at)

(* The task is done with the owner: an error latches it, an owner with     *)
(* nothing left is unlatched, and the checkpoint is written either way     *)
(* (manage_with).                                                          *)
Park(l, s) ==
    /\ Checkpoint(l, s)
    /\ Goto(l, "idle")
    /\ latched' = latched \cup {l}

Release(l) ==
    /\ Checkpoint(l, Free)
    /\ Goto(l, "idle")
    /\ latched' = latched \ {l}

Step(l, from) ==
    /\ pc[l] = from
    /\ UNCHANGED <<pass, scene, starts, swept>>

(* Where the advance of an exit has something to ask.                      *)
Resume(s) == IF ~s.restKnown THEN "recover"
             ELSE IF ~s.final THEN "rest"
             ELSE IF s.hedge # 0 THEN "hedge" ELSE "owed"

Landed(r) == ord[r].st \in {"live", "done"}

(* The cumulative count of an order is only taken when it can change no    *)
(* more (terminal_filled_qty).                                             *)
Terminal(r) == ord[r].st = "done"

---------------------------------------------------------------------------
(* place_group, after its first checkpoint: the answer to the place.       *)

Placed(l) ==
    LET s == mem[l] IN
    /\ Step(l, "placing")
    /\ Landed(s.rest)
    /\ Checkpoint(l, [s EXCEPT !.restKnown = TRUE])
    /\ Goto(l, IF s.key.cross = 0 THEN "idle" ELSE "rest")
    /\ UNCHANGED <<venue, next, ledger, latched>>

(* Only an explicit business rejection proves that no order was accepted.  *)
PlaceRefused(l) ==
    /\ Step(l, "placing")
    /\ ord[mem[l].rest].st = "flight"
    /\ ord' = [ord EXCEPT ![mem[l].rest].st = "none"]
    /\ Checkpoint(l, Free)
    /\ Goto(l, "idle")
    /\ UNCHANGED <<covered, next, ledger, latched>>

MutPlaceUnknownSilent(l) ==    \* the reservation is kept, the market not held
    LET s == mem[l] IN
    /\ Step(l, "placing")
    /\ Checkpoint(l, s)
    /\ Goto(l, IF s.key.cross = 0 THEN "idle" ELSE "recover")
    /\ UNCHANGED <<venue, next, ledger, latched>>

PlaceUnknown(l) ==
    LET s == mem[l] IN
    /\ Step(l, "placing")
    /\ Checkpoint(l, s)
    /\ latched' = latched \cup {l}
    /\ Goto(l, IF s.key.cross = 0 THEN "idle" ELSE "recover")
    /\ UNCHANGED <<venue, next, ledger>>

---------------------------------------------------------------------------
(* advance: the rest.                                                      *)

(* recover: a lost place that provably neither rests nor filled.  Kalshi   *)
(* has no order of that client id long after its list could lag; PM-US has *)
(* swept its book clean since, and its history shows no trade.             *)
ProvablyNothing(r) ==
    \/ ord[r].at = "kalshi" /\ ord[r].old /\ ~Landed(r)
    \/ ord[r].at = "pmus" /\ r <= swept /\ ord[r].cum = 0

(* recover: an order is found by its client id, which PM-US does not keep. *)
CanFind(r) == ord[r].at = "kalshi" /\ Landed(r)

RecoverRest(l) ==
    LET s == mem[l] IN
    /\ Step(l, "recover")
    /\ \/ /\ CanFind(s.rest)
          /\ Checkpoint(l, [s EXCEPT !.restKnown = TRUE])
          /\ Goto(l, "rest")
          /\ UNCHANGED latched
       \/ ProvablyNothing(s.rest) /\ Release(l)
       \/ Park(l, s)
    /\ UNCHANGED <<venue, next, ledger>>

(* terminal: what the rest filled, taken once it can fill no more.         *)
TakeFills(l) ==
    LET s == mem[l] IN
    /\ Terminal(s.rest)
    /\ Checkpoint(l, [s EXCEPT !.final = TRUE, !.filled = ord[s.rest].cum])
    /\ Goto(l, "owed")
    /\ UNCHANGED <<ord, latched>>

(* The cancel, whose outcome is not looked at.                             *)
Pull(l) ==
    /\ ord' \in {ord, [ord EXCEPT ![mem[l].rest].st = "done"]}
    /\ Goto(l, "pulled")
    /\ UNCHANGED <<mem, file, latched>>

(* A live rest is kept while nothing of it filled, it still pays and       *)
(* nobody asked to regroup it.  That read of its fills may lag them.       *)
Keep(l) ==
    /\ ~mem[l].regroup /\ mem[l].key.cross = 0
    /\ latched' = latched \ {l}
    /\ Checkpoint(l, mem[l])
    /\ Goto(l, "idle")
    /\ UNCHANGED ord

(* A book event that makes the rest stale cancels before it reads.         *)
LookAtRest(l) ==
    /\ Step(l, "rest")
    /\ \/ by[l] = "event" /\ ~mem[l].regroup /\ mem[l].key.cross = 0 /\ Pull(l)
       \/ TakeFills(l)
       \/ ~Terminal(mem[l].rest) /\ (Keep(l) \/ Pull(l))
       \/ Park(l, mem[l]) /\ UNCHANGED ord
    /\ UNCHANGED <<covered, next, ledger>>

ReadPulled(l) ==
    /\ Step(l, "pulled")
    /\ TakeFills(l) \/ (Park(l, mem[l]) /\ UNCHANGED ord)
    /\ UNCHANGED <<covered, next, ledger>>

---------------------------------------------------------------------------
(* advance: the hedge.                                                     *)

Settled(l) ==
    /\ Step(l, "owed")
    /\ mem[l].hedged = mem[l].filled
    /\ Release(l)
    /\ UNCHANGED <<venue, next, ledger>>

(* The hedge is for all that is owed; its receipt is saved before it goes. *)
SendHedge(l) ==
    LET s == mem[l]  h == next + 1 IN
    /\ Step(l, "owed")
    /\ s.hedged # s.filled
    /\ h <= scene.orders
    /\ next' = h
    /\ ord' = [ord EXCEPT ![h] = [NoOrder EXCEPT !.st = "flight",
                 !.qty = s.filled - s.hedged, !.at = CloseVenue(s.key),
                 !.rest = s.rest, !.ioc = TRUE]]
    /\ Checkpoint(l, [s EXCEPT !.hedge = h, !.hedgeKnown = FALSE])
    /\ Goto(l, "hedging")
    /\ UNCHANGED <<covered, ledger, latched>>

(* No view, or no price this trigger may hedge at.                         *)
NoPrice(l) ==
    /\ Step(l, "owed")
    /\ mem[l].hedged # mem[l].filled
    /\ Park(l, mem[l])
    /\ UNCHANGED <<venue, next, ledger>>

HedgeTaken(l) ==
    LET s == mem[l] IN
    /\ Step(l, "hedging")
    /\ Landed(s.hedge)
    /\ Checkpoint(l, [s EXCEPT !.hedgeKnown = TRUE])
    /\ Goto(l, "hedge")
    /\ UNCHANGED <<venue, next, ledger, latched>>

HedgeRefused(l) ==
    LET s == mem[l] IN
    /\ Step(l, "hedging")
    /\ ord[s.hedge].st = "flight"
    /\ ord' = [ord EXCEPT ![s.hedge].st = "none"]
    /\ Park(l, [s EXCEPT !.hedge = 0])
    /\ UNCHANGED <<covered, next, ledger>>

MutHedgeUnknownRefused(l) ==    \* a timeout taken for a rejection
    /\ Step(l, "hedging")
    /\ Park(l, [mem[l] EXCEPT !.hedge = 0])
    /\ UNCHANGED <<venue, next, ledger>>

HedgeUnknown(l) ==
    /\ Step(l, "hedging")
    /\ Park(l, mem[l])
    /\ UNCHANGED <<venue, next, ledger>>

(* recover and terminal of the hedge.  A lost hedge is never given up; the *)
(* id it is found by is not saved until the task ends.                     *)
AskHedge(l) ==
    LET s == mem[l] IN
    /\ Step(l, "hedge")
    /\ \/ /\ ~s.hedgeKnown /\ CanFind(s.hedge)
          /\ Remember(l, [s EXCEPT !.hedgeKnown = TRUE])
          /\ UNCHANGED <<pc, by, latched>>
       \/ /\ s.hedgeKnown /\ Terminal(s.hedge)
          /\ Goto(l, "book")
          /\ UNCHANGED <<mem, file, latched>>
       \/ Park(l, s)
    /\ UNCHANGED <<venue, next, ledger>>

(* The members an answered hedge is booked for, and what each gets.        *)
Share(s, m) == Allocated(s, s.hedged, ord[s.hedge].cum, m)

MutUnkeyed(s) == {m \in Lots : Share(s, m) > 0}    \* no key to tell a row by

Unbooked(s) ==
    {m \in Lots : Share(s, m) > 0 /\ ledger[s.hedge][m] = 0}

(* append_basket, oldest member first: a key the ledger already has is not *)
(* booked again.                                                           *)
Book(l) ==
    LET s == mem[l] IN
    /\ Step(l, "book")
    /\ \E m \in Unbooked(s) :
        /\ \A k \in Unbooked(s) : m <= k
        /\ \/ /\ ledger' = [ledger EXCEPT ![s.hedge][m] = @ + Share(s, m)]
              /\ UNCHANGED <<mem, file, pc, by, latched>>
           \/ Park(l, s) /\ UNCHANGED ledger
    /\ UNCHANGED <<venue, next>>

MutForgetKeeps(l) ==    \* counts the hedge and does not forget its receipt
    LET s == mem[l]
        t == [s EXCEPT !.hedged = @ + ord[s.hedge].cum] IN
    /\ Step(l, "book")
    /\ Unbooked(s) = {}
    /\ IF t.hedged = t.filled
       THEN Checkpoint(l, t) /\ Goto(l, "owed") /\ UNCHANGED latched
       ELSE Park(l, t)
    /\ UNCHANGED <<venue, next, ledger>>

(* All rows are durable: the receipt is forgotten, and what it left short  *)
(* stays owed.                                                             *)
Forget(l) ==
    LET s == mem[l]
        t == [s EXCEPT !.hedged = @ + ord[s.hedge].cum, !.hedge = 0,
                       !.hedgeKnown = FALSE] IN
    /\ Step(l, "book")
    /\ Unbooked(s) = {}
    /\ IF t.hedged = t.filled
       THEN Checkpoint(l, t) /\ Goto(l, "owed") /\ UNCHANGED latched
       ELSE Park(l, t)
    /\ UNCHANGED <<venue, next, ledger>>

Advance(l) ==
    \/ Placed(l) \/ PlaceRefused(l) \/ PlaceUnknown(l)
    \/ RecoverRest(l) \/ LookAtRest(l) \/ ReadPulled(l)
    \/ Settled(l) \/ SendHedge(l) \/ NoPrice(l)
    \/ HedgeTaken(l) \/ HedgeRefused(l) \/ HedgeUnknown(l)
    \/ AskHedge(l) \/ Book(l) \/ Forget(l)

---------------------------------------------------------------------------
(* Taking an owner up: the pass at its turn, the reactor on an event.  A   *)
(* fill event always acts, so what a book event leaves to the pass does    *)
(* not narrow what an event may do (react).                                *)
PassFree == \A l \in Lots : by[l] # "pass"

Manage(l) ==
    /\ pc[l] = "idle" /\ Busy(l)
    /\ \E who \in {"pass", "event"} :
        /\ who = "pass" => PassFree
        /\ Lock(l, who, Resume(mem[l]))
    /\ UNCHANGED <<venue, next, disk, mem, latched, pass, scene, starts, swept>>

---------------------------------------------------------------------------
(* The pass: what it plans and places.  It waits for the owner it advances.*)

NoPlans == [l \in Lots |-> NoPlan]

(* reservations: read one owner after another, but only the pass reserves, *)
(* so what has been let go of meanwhile is all a single look could miss,   *)
(* and a lot that is found reserved for no reason is only not planned.     *)
MutOwnersOnly == {l \in Lots : Busy(l)}    \* members of a group not reserved

Reserved == UNION {MembersOf(mem[l]) : l \in Lots}

(* cycle: a plan is sized by the ledger as it is read here.                *)
PassPlans(l) ==
    /\ pass.at = "plan"
    /\ l \in pass.todo /\ pc[l] = "idle"
    /\ \E p \in {NoPlan} \cup [qty : 1..Total, key : Keys] :
        /\ p # NoPlan => /\ p.qty <= OpenLeft(l)
                         /\ ~Busy(l)
                         /\ l \notin pass.reserved
                         /\ latched = {}
                         /\ l \in scene.lots /\ p.qty <= scene.depth
                         /\ p.key.shape \in scene.shapes
                         /\ p.key.cross \in {0} \cup (scene.crosses \cap {l})
        /\ pass' = [pass EXCEPT !.todo = @ \ {l}, !.plans[l] = p]
    /\ UNCHANGED <<venue, next, disk, task, scene, starts, swept>>

PassTurns ==
    /\ PassFree
    /\ \/ /\ pass.at = "plan" /\ pass.todo = {}
          /\ pass' = [pass EXCEPT !.at = "place", !.reserved = {}]
       \/ /\ pass.at = "place" /\ pass.plans = NoPlans
          /\ pass' = [pass EXCEPT !.at = "plan", !.todo = Lots,
                                  !.reserved = Reserved]
    /\ UNCHANGED <<venue, next, disk, task, scene, starts, swept>>

(* The group of a planned lot, and the owner that rests at its price.      *)
Group(l) ==
    {m \in Lots : pass.plans[m].qty > 0 /\ pass.plans[m].key = pass.plans[l].key}
Incumbent(key, l) == Busy(l) /\ mem[l].key = key /\ key.cross = 0
Drop(g) == [m \in Lots |-> IF m \in g THEN NoPlan ELSE pass.plans[m]]

(* New arrivals join after the incumbent is cancelled and repriced.        *)
Regroup(l) ==
    /\ pass.at = "place" /\ PassFree
    /\ pc[l] = "idle"
    /\ \E m \in Lots : /\ pass.plans[m].qty > 0
                       /\ Incumbent(pass.plans[m].key, l)
                       /\ pass' = [pass EXCEPT !.plans = Drop(Group(m))]
    /\ mem' = [mem EXCEPT ![l].regroup = TRUE]
    /\ Lock(l, "pass", Resume(mem[l]))
    /\ UNCHANGED <<venue, next, disk, latched, scene, starts, swept>>

(* The group is chosen: it has no incumbent and its market is not latched. *)
ChooseGroup(l) ==
    /\ pass.at = "place" /\ PassFree
    /\ pass.plans[l].qty > 0
    /\ \A m \in Lots : ~Incumbent(pass.plans[l].key, m)
    /\ pass' = IF latched = {}
               THEN [pass EXCEPT !.at = "lock", !.todo = Group(l)]
               ELSE [pass EXCEPT !.plans = Drop(Group(l))]
    /\ UNCHANGED <<venue, next, disk, task, scene, starts, swept>>

(* place_group under the lock of the oldest member, up to the answer, or   *)
(* not, when that member has become busy or no longer pays.                *)
PlaceGroup(l) ==
    LET r == next + 1
        s == [Free EXCEPT !.rest = r, !.key = pass.plans[l].key,
                !.members = [m \in Lots |-> IF m \in pass.todo
                                            THEN pass.plans[m].qty ELSE 0]]
    IN
    /\ pass.at = "lock"
    /\ l \in pass.todo /\ \A m \in pass.todo : l <= m
    /\ pc[l] = "idle"
    /\ pass' = [pass EXCEPT !.at = "place", !.todo = {},
                            !.plans = Drop(pass.todo)]
    /\ \/ /\ ~Busy(l)
          /\ r <= scene.orders
          /\ next' = r
          /\ ord' = [ord EXCEPT ![r] = [NoOrder EXCEPT !.st = "flight",
                       !.qty = Sum(s.members), !.at = RestVenue(s.key),
                       !.ioc = s.key.cross # 0]]
          /\ Checkpoint(l, s)
          /\ Lock(l, "pass", "placing")
       \/ UNCHANGED <<next, ord, mem, file, pc, by>>
    /\ UNCHANGED <<covered, ledger, latched, scene, starts, swept>>

---------------------------------------------------------------------------
(* The process dies, at any point, and starts again: every busy owner is   *)
(* loaded from its file and latched, after a sweep that leaves the venues  *)
(* in `clean` with no order of ours.  ASSUMED: a request of the dead       *)
(* process lands before that sweep or not at all.                          *)
PassInit == [at |-> "place", todo |-> {}, reserved |-> {}, plans |-> NoPlans]

Swept(o, clean) ==
    IF o.st = "flight" THEN [o EXCEPT !.st = "none"]
    ELSE IF o.st = "live" /\ o.at \in clean THEN [o EXCEPT !.st = "done"]
    ELSE o

Restart ==
    /\ starts < MaxStarts
    /\ starts' = starts + 1
    /\ \E clean \in SUBSET {"kalshi", "pmus"} :
        /\ ord' = [r \in Receipts |-> Swept(ord[r], clean)]
        /\ swept' = IF "pmus" \in clean THEN next ELSE 0
    /\ mem' = file
    /\ latched' = {l \in Lots : file[l].rest # 0}
    /\ pc' = [l \in Lots |-> "idle"]
    /\ by' = [l \in Lots |-> "none"]
    /\ pass' = PassInit
    /\ UNCHANGED <<covered, next, disk, scene>>

Init ==
    /\ ord = [r \in Receipts |-> NoOrder]
    /\ covered = [r \in Receipts |-> 0]
    /\ next = 0
    /\ ledger = [r \in Receipts |-> [l \in Lots |-> 0]]
    /\ file = [l \in Lots |-> Free]
    /\ mem = [l \in Lots |-> Free]
    /\ pc = [l \in Lots |-> "idle"]
    /\ by = [l \in Lots |-> "none"]
    /\ latched = {}
    /\ pass = PassInit
    /\ scene \in Scenes
    /\ starts = 1
    /\ swept = 0

Next ==
    \/ \E r \in Receipts : Land(r) \/ Fill(r) \/ Expire(r) \/ Age(r)
    \/ \E l \in Lots : Advance(l) \/ Manage(l)
    \/ \E l \in Lots : PassPlans(l) \/ Regroup(l) \/ ChooseGroup(l)
                       \/ PlaceGroup(l)
    \/ PassTurns
    \/ Restart

Spec == Init /\ [][Next]_vars

---------------------------------------------------------------------------
(* Properties.                                                             *)

(* Every variable has its type; no order trades past its quantity, and no  *)
(* exit counts more hedged than its rest filled.                           *)
States == [rest : {0} \cup Receipts, restKnown : BOOLEAN,
           key : Keys \cup {Free.key}, members : [Lots -> Nat],
           regroup : BOOLEAN, final : BOOLEAN, filled : Nat, hedged : Nat,
           hedge : {0} \cup Receipts, hedgeKnown : BOOLEAN]
OrderStates == [st : {"none", "flight", "live", "done"}, cum : Nat, qty : Nat,
                at : {"", "kalshi", "pmus"}, rest : {0} \cup Receipts,
                ioc : BOOLEAN, old : BOOLEAN]
Places == {"idle", "placing", "recover", "rest", "pulled", "owed", "hedging",
           "hedge", "book"}

TypeOK ==
    /\ ord \in [Receipts -> OrderStates]
    /\ covered \in [Receipts -> Nat]
    /\ next \in {0} \cup Receipts
    /\ ledger \in [Receipts -> [Lots -> Nat]]
    /\ file \in [Lots -> States] /\ mem \in [Lots -> States]
    /\ pc \in [Lots -> Places]
    /\ by \in [Lots -> {"none", "pass", "event"}]
    /\ latched \subseteq Lots
    /\ \A r \in Receipts : ord[r].cum <= ord[r].qty
    /\ \A l \in Lots : mem[l].hedged <= mem[l].filled
    /\ pass.at \in {"plan", "place", "lock"}
    /\ pass.todo \subseteq Lots /\ pass.reserved \subseteq Lots
    /\ pass.plans \in [Lots -> [qty : Nat, key : Keys \cup {Free.key}]]
    /\ scene \in Scenes
    /\ starts \in Nat /\ swept \in {0} \cup Receipts

(* The promise: whatever is lost, delayed, refused or crashed, a rest only *)
(* has contracts closed once it can trade no more, never more than it      *)
(* traded, and is let go of when it is dead and all of them are closed.    *)
Held == {mem[l].rest : l \in Lots} \ {0}
LetGo == {r \in 1..next : ord[r].rest = 0 /\ \A l \in Lots : mem[l].rest # r}
MayTrade == {r \in Receipts : ord[r].rest = 0 /\ ord[r].st \in {"flight", "live"}}
Traded == [r \in Receipts |-> IF ord[r].rest = 0 THEN ord[r].cum ELSE 0]

Contract == INSTANCE ExitContract WITH
    Rests <- Receipts, held <- Held, gone <- LetGo, open <- MayTrade,
    traded <- Traded, closed <- covered

KeepsPromise == Contract!Promise

(* Whatever is lost, delayed or crashed, the venues never close more       *)
(* against a rest than it has filled: a second hedge is never sent while   *)
(* the first may still fill (recover "could hedge twice").                 *)
NeverOverHedged == \A r \in Receipts : covered[r] <= ord[r].cum

(* An order that no lot speaks for any more is dead at its venue, and all  *)
(* it filled is closed: no crash, lost answer or release leaves a resting  *)
(* order or a leg that nobody works on.                                    *)
LetGoIsClosed ==
    \A r \in LetGo : ord[r].st \in {"none", "done"} /\ covered[r] = ord[r].cum

(* The ledger books of a hedge what it filled, each contract once, however *)
(* often the booking is taken up again after a failed append or a crash;   *)
(* and for an order let go of, all that it filled is booked.               *)
BookedFor(r) ==
    Sum([h \in {h \in Receipts : ord[h].rest = r} |-> Sum(ledger[h])])
BookedExactly ==
    /\ \A h \in Receipts : Sum(ledger[h]) <= ord[h].cum
    /\ \A l \in Lots : mem[l].hedge # 0 =>
            \A m \in Lots : ledger[mem[l].hedge][m] \in {0, Share(mem[l], m)}
    /\ \A r \in LetGo : BookedFor(r) = ord[r].cum

(* What is closed of a lot and what an exit still holds of it never exceed *)
(* what the lot had, so no lot is sold twice: not by two groups, and not   *)
(* by a plan made from a ledger that another exit has written since.       *)
BookedUnder(s, m) ==
    Sum([h \in {h \in Receipts : s.rest # 0 /\ ord[h].rest = s.rest}
            |-> ledger[h][m]])
NeverBeyondOpen ==
    \A m \in Lots :
        Booked(m) + Sum([l \in Lots |-> Minus(mem[l].members[m],
                                              BookedUnder(mem[l], m))])
            <= Open[m]

(* No lot is in two exits, the case reservations() stops the process on.   *)
ReservedOnce ==
    \A l, k \in Lots : l # k => MembersOf(mem[l]) \cap MembersOf(mem[k]) = {}

(* An owner nobody is advancing whose rest is uncertain, or whose hedge is *)
(* owed, holds back fresh exits of its market, in this run of the process  *)
(* and the next.                                                           *)
UncertainIsLatched ==
    \A l \in Lots :
        (pc[l] = "idle" /\ Busy(l) /\ (mem[l].final \/ ~mem[l].restKnown))
            => l \in latched

=============================================================================
