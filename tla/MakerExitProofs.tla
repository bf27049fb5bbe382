-------------------------- MODULE MakerExitProofs --------------------------
(***************************************************************************)
(* Proofs about the maker exit, for any number of lots, orders and starts: *)
(* the venues never close more against a rest than it filled, what a lot   *)
(* lets go of is dead and closed, no lot is in two exits, an uncertain     *)
(* exit holds its market back, every close is booked once, and no lot is   *)
(* sold twice.                                                             *)
(***************************************************************************)
EXTENDS MakerExit, SumProofs

(* Types.  The quantity of a rest is a sum over its members.               *)
AnyKey == Keys \cup {Free.key}
Quantities == Nat \cup {Sum(f) : f \in [Lots -> Nat]}
Exits == [rest : {0} \cup Receipts, restKnown : BOOLEAN, key : AnyKey,
          members : [Lots -> Nat], regroup : BOOLEAN, final : BOOLEAN,
          filled : Nat, hedged : Nat, hedge : {0} \cup Receipts,
          hedgeKnown : BOOLEAN]
Orders == [st : {"none", "flight", "live", "done"}, cum : Nat,
           qty : Quantities, at : {"", "kalshi", "pmus"},
           rest : {0} \cup Receipts, ioc : BOOLEAN, old : BOOLEAN]
Passes == [at : {"plan", "place", "lock"}, todo : SUBSET Lots,
           reserved : SUBSET Lots, plans : [Lots -> [qty : Nat, key : AnyKey]]]

Typed ==
    /\ ord \in [Receipts -> Orders] /\ covered \in [Receipts -> Nat]
    /\ next \in 0..MaxReceipts /\ swept \in 0..next
    /\ file \in [Lots -> Exits] /\ mem \in [Lots -> Exits]
    /\ pc \in [Lots -> Places]
    /\ latched \subseteq Lots
    /\ pass \in Passes
    /\ scene \in Scenes

(* The file of an owner may only miss the id of a hedge and a wish to      *)
(* regroup.                                                                *)
SameExit(f, s) ==
    /\ f.rest = s.rest /\ f.restKnown = s.restKnown /\ f.key = s.key
    /\ f.members = s.members /\ f.final = s.final /\ f.filled = s.filled
    /\ f.hedged = s.hedged /\ f.hedge = s.hedge

Filed == \A l \in Lots : SameExit(file[l], mem[l])

(* Orders that nobody speaks for can change nothing any more.              *)
OrderOK(r) ==
    /\ r > next => ord[r] = NoOrder /\ covered[r] = 0
    /\ ord[r].rest # 0 => /\ ord[r].ioc /\ ord[r].st # "live"
                          /\ covered[r] = 0
    /\ ord[r].st \in {"none", "flight"} => ord[r].cum = 0
    /\ ord[r].old => ord[r].st # "flight"
    /\ r <= swept /\ ord[r].at = "pmus" => ord[r].st \in {"none", "done"}

OrdersOK == \A r \in Receipts : OrderOK(r)

(* What an exit holds, against what the venues know of its orders.         *)
ExitOK(s) ==
    /\ s.rest = 0 => s.hedge = 0 /\ s.members = Free.members
    /\ s.rest # 0 => s.rest <= next /\ ord[s.rest].rest = 0
    /\ s.rest # 0 /\ ~s.final => /\ s.hedge = 0 /\ s.hedged = 0
                                 /\ covered[s.rest] = 0
    /\ s.rest # 0 /\ s.final => /\ s.restKnown
                                /\ ord[s.rest].st = "done"
                                /\ s.filled = ord[s.rest].cum
    /\ s.rest # 0 /\ s.hedge = 0 => covered[s.rest] = s.hedged
    /\ s.rest # 0 /\ s.hedge # 0 =>
        /\ s.hedge <= next
        /\ ord[s.hedge].rest = s.rest
        /\ ord[s.hedge].qty = s.filled - s.hedged
        /\ ord[s.hedge].cum <= ord[s.hedge].qty
        /\ covered[s.rest] = s.hedged + ord[s.hedge].cum
    /\ s.hedged <= s.filled

ExitsOK == \A l \in Lots : ExitOK(mem[l])

OneOwner == \A l, k \in Lots :
    l # k /\ mem[l].rest # 0 => mem[l].rest # mem[k].rest

(* A hedge on its way is the one its owner waits for.                      *)
NoneStray == \A h \in Receipts :
    ord[h].st = "flight" /\ ord[h].rest # 0 => \E l \in Lots : mem[l].hedge = h

(* Where a task can be with what it holds.                                 *)
TaskOK(at, s) ==
    /\ at # "idle" => s.rest # 0
    /\ at \in {"placing", "recover"} => ~s.restKnown
    /\ at \in {"rest", "pulled"} => s.restKnown /\ ~s.final
    /\ at = "owed" => s.final /\ s.hedge = 0
    /\ at \in {"hedging", "hedge", "book"} => s.hedge # 0
    /\ at = "book" => ord[s.hedge].st = "done"

TasksOK == \A l \in Lots : TaskOK(pc[l], mem[l])

Money == /\ Filed /\ OrdersOK /\ ExitsOK /\ OneOwner /\ NoneStray
         /\ LetGoIsClosed /\ TasksOK

(* A lot in a plan is in no exit, and stays so until its group is placed.  *)
PlansOK ==
    /\ \A l \in Lots : pass.plans[l].qty > 0 => l \notin Reserved
    /\ pass.at = "plan" => Reserved \subseteq pass.reserved
    /\ pass.at = "lock" => \A l \in pass.todo : pass.plans[l].qty > 0

IInv == /\ Typed /\ Money /\ UncertainIsLatched /\ ReservedOnce /\ PlansOK

---------------------------------------------------------------------------
(* Steps of the task that holds the lock of an owner.                      *)

Dead(r) == ord[r].st \in {"none", "done"} /\ covered[r] = ord[r].cum

(* The exit of one owner changes, and no order does.                       *)
LEMMA ExitMoves ==
    ASSUME Typed, Money, NEW l \in Lots, NEW s \in Exits, NEW f \in Exits,
           NEW at \in Places,
           mem' = [mem EXCEPT ![l] = s], file' = [file EXCEPT ![l] = f],
           pc' = [pc EXCEPT ![l] = at],
           UNCHANGED <<ord, covered, next, swept>>,
           SameExit(f, s), ExitOK(s), TaskOK(at, s),
           s.rest = mem[l].rest \/ (s.rest = 0 /\ Dead(mem[l].rest)),
           \/ s.hedge = mem[l].hedge
           \/ mem[l].hedge = 0
           \/ ord[mem[l].hedge].st # "flight"
    PROVE  Money'
<1>1. /\ mem \in [Lots -> Exits] /\ file \in [Lots -> Exits]
      /\ pc \in [Lots -> Places]
  BY DEF Typed
<1>2. /\ mem'[l] = s /\ file'[l] = f /\ pc'[l] = at
      /\ \A k \in Lots \ {l} : /\ mem'[k] = mem[k] /\ file'[k] = file[k]
                               /\ pc'[k] = pc[k]
  BY <1>1
<1>3. Filed'
  BY <1>2 DEF Money, Filed, SameExit
<1>4. OrdersOK'
  BY DEF Money, OrdersOK, OrderOK
<1>5. ExitsOK'
  <2>1. ExitOK(s)'
    BY DEF ExitOK
  <2>2. ASSUME NEW k \in Lots \ {l} PROVE ExitOK(mem[k])'
    BY <1>2 DEF Money, ExitsOK, ExitOK
  <2> QED BY <1>2, <2>1, <2>2 DEF ExitsOK, ExitOK
<1>6. OneOwner'
  BY <1>2 DEF Money, OneOwner
<1>7. NoneStray'
  <2> SUFFICES ASSUME NEW h \in Receipts, ord[h].st = "flight", ord[h].rest # 0
               PROVE  \E k \in Lots : mem'[k].hedge = h
    BY DEF NoneStray
  <2>1. PICK k \in Lots : mem[k].hedge = h
    BY DEF Money, NoneStray
  <2>2. CASE k # l
    BY <1>2, <2>1, <2>2
  <2>3. CASE k = l
    <3>1. h # 0
      BY DEF Receipts
    <3>2. s.hedge = h
      BY <2>1, <2>3, <3>1
    <3> QED BY <1>2, <3>2
  <2> QED BY <2>2, <2>3
<1>8. LetGoIsClosed'
  <2> SUFFICES ASSUME NEW r \in 1..next, ord[r].rest = 0,
                      \A k \in Lots : mem'[k].rest # r
               PROVE  ord[r].st \in {"none", "done"} /\ covered[r] = ord[r].cum
    BY DEF LetGoIsClosed, LetGo
  <2>1. CASE mem[l].rest = r
    <3>1. r # 0
      BY DEF Typed
    <3>2. s.rest # r
      BY <1>2
    <3> QED BY <2>1, <3>1, <3>2 DEF Dead
  <2>2. CASE mem[l].rest # r
    <3>1. \A k \in Lots : mem[k].rest # r
      BY <1>2, <2>2
    <3> QED BY <3>1 DEF Money, LetGoIsClosed, LetGo
  <2> QED BY <2>1, <2>2
<1>9. TasksOK'
  <2>1. TaskOK(at, s)'
    BY DEF TaskOK
  <2>2. ASSUME NEW k \in Lots \ {l} PROVE TaskOK(pc[k], mem[k])'
    BY <1>2 DEF Money, TasksOK, TaskOK
  <2> QED BY <1>2, <2>1, <2>2 DEF TasksOK, TaskOK
<1> QED BY <1>3, <1>4, <1>5, <1>6, <1>7, <1>8, <1>9 DEF Money

(* What is reserved can only shrink while no group is placed.              *)
LEMMA ReservesLess ==
    ASSUME Typed, ReservedOnce, PlansOK, UNCHANGED pass,
           \A k \in Lots : mem'[k].members \in {mem[k].members, Free.members}
    PROVE  ReservedOnce' /\ PlansOK'
<1>1. \A k \in Lots : MembersOf(mem'[k]) \subseteq MembersOf(mem[k])
  BY DEF MembersOf, Free
<1>2. \A k \in Lots : MembersOf(mem[k])' = MembersOf(mem'[k])
  BY DEF MembersOf
<1>3. ReservedOnce'
  BY <1>1, <1>2 DEF ReservedOnce
<1>4. Reserved' \subseteq Reserved
  BY <1>1, <1>2 DEF Reserved
<1>5. PlansOK'
  BY <1>4 DEF PlansOK
<1> QED BY <1>3, <1>5

(* Both, with the types and the latch: what a task may do in one step.     *)
LEMMA TaskMoves ==
    ASSUME IInv, NEW l \in Lots, NEW s \in Exits, NEW f \in Exits,
           NEW at \in Places,
           mem' = [mem EXCEPT ![l] = s], file' = [file EXCEPT ![l] = f],
           pc' = [pc EXCEPT ![l] = at],
           UNCHANGED <<ord, covered, next, swept, pass, scene>>,
           SameExit(f, s), ExitOK(s), TaskOK(at, s),
           s.rest = mem[l].rest \/ (s.rest = 0 /\ Dead(mem[l].rest)),
           \/ s.hedge = mem[l].hedge
           \/ mem[l].hedge = 0
           \/ ord[mem[l].hedge].st # "flight",
           s.members \in {mem[l].members, Free.members},
           latched' \in {latched, latched \cup {l}, latched \ {l}},
           at = "idle" /\ s.rest # 0 /\ (s.final \/ ~s.restKnown) => l \in latched'
    PROVE  IInv'
<1>1. Typed /\ Money /\ UncertainIsLatched /\ ReservedOnce /\ PlansOK
  BY DEF IInv
<1>2. Typed'
  BY <1>1 DEF Typed
<1>3. Money'
  BY <1>1, ExitMoves
<1>4. /\ mem'[l] = s /\ pc'[l] = at
      /\ \A k \in Lots \ {l} : mem'[k] = mem[k] /\ pc'[k] = pc[k]
  BY <1>1 DEF Typed
<1>5. UncertainIsLatched'
  <2> SUFFICES ASSUME NEW k \in Lots, pc'[k] = "idle", mem'[k].rest # 0,
                      mem'[k].final \/ ~mem'[k].restKnown
               PROVE  k \in latched'
    BY DEF UncertainIsLatched, Busy
  <2>1. CASE k = l
    BY <1>4, <2>1
  <2>2. CASE k # l
    <3>1. k \in latched
      BY <1>1, <1>4, <2>2 DEF UncertainIsLatched, Busy
    <3> QED BY <2>2, <3>1
  <2> QED BY <2>1, <2>2
<1>6. \A k \in Lots : mem'[k].members \in {mem[k].members, Free.members}
  BY <1>4
<1>7. ReservedOnce' /\ PlansOK'
  BY <1>1, <1>6, ReservesLess
<1> QED BY <1>2, <1>3, <1>5, <1>7 DEF IInv

(* No exit is an exit in order. *)
LEMMA FreeIsAnExit == Free \in Exits /\ ExitOK(Free) /\ TaskOK("idle", Free)
<1>1. [l \in Lots |-> 0] \in [Lots -> Nat]
  OBVIOUS
<1>2. Free \in Exits
  BY <1>1 DEF Free, Exits, AnyKey
<1>3. Free.rest = 0 /\ Free.hedge = 0 /\ Free.hedged = 0 /\ Free.filled = 0
  BY DEF Free
<1>4. ExitOK(Free) /\ TaskOK("idle", Free)
  BY <1>3 DEF ExitOK, TaskOK
<1> QED BY <1>2, <1>4

(* An exit agrees with itself. *)
LEMMA SameIsSame == \A s : SameExit(s, s)
BY DEF SameExit

(* The lock is let go with an exit that is as good as it was.              *)
LEMMA ParkSafe ==
    ASSUME IInv, NEW l \in Lots, NEW s \in Exits, Park(l, s), ExitOK(s),
           UNCHANGED <<ord, covered, next, swept, pass, scene>>,
           s.rest = mem[l].rest, s.members = mem[l].members,
           s.hedge = mem[l].hedge \/ ord[mem[l].hedge].st # "flight"
    PROVE  IInv'
<1>1. TaskOK("idle", s) /\ SameExit(s, s)
  BY DEF TaskOK, SameExit
<1>2. /\ mem' = [mem EXCEPT ![l] = s] /\ file' = [file EXCEPT ![l] = s]
      /\ pc' = [pc EXCEPT ![l] = "idle"] /\ latched' = latched \cup {l}
  BY DEF Park, Checkpoint, Goto, Lock
<1>3. "idle" \in Places
  BY DEF Places
<1> QED BY <1>1, <1>2, <1>3, TaskMoves

(* The lock is let go with nothing left. *)
LEMMA ReleaseSafe ==
    ASSUME IInv, NEW l \in Lots, Release(l), mem[l].hedge = 0,
           UNCHANGED <<ord, covered, next, swept, pass, scene>>,
           Dead(mem[l].rest)
    PROVE  IInv'
<1>1. TaskOK("idle", Free) /\ SameExit(Free, Free) /\ Free \in Exits /\ ExitOK(Free)
  BY FreeIsAnExit, SameIsSame
<1>2. /\ mem' = [mem EXCEPT ![l] = Free] /\ file' = [file EXCEPT ![l] = Free]
      /\ pc' = [pc EXCEPT ![l] = "idle"] /\ latched' = latched \ {l}
  BY DEF Release, Checkpoint, Goto, Lock
<1>3. "idle" \in Places /\ Free.rest = 0
  BY DEF Places, Free
<1> QED BY <1>1, <1>2, <1>3, TaskMoves

(* What the invariant says of an owner and of the task on it.              *)
LEMMA OwnerFacts ==
    ASSUME IInv, NEW l \in Lots
    PROVE  /\ mem[l] \in Exits /\ ExitOK(mem[l]) /\ TaskOK(pc[l], mem[l])
           /\ SameExit(file[l], mem[l]) /\ file[l] \in Exits
           /\ mem[l].rest # 0 => mem[l].rest \in Receipts
           /\ mem[l].hedge # 0 => mem[l].hedge \in Receipts
BY DEF IInv, Typed, Money, ExitsOK, TasksOK, Filed, Exits

(* The answer to the place: the order was taken. *)
LEMMA PlacedSafe ==
    ASSUME IInv, NEW l \in Lots, Placed(l) PROVE IInv'
<1> DEFINE s == [mem[l] EXCEPT !.restKnown = TRUE]
           at == IF mem[l].key.cross = 0 THEN "idle" ELSE "rest"
<1>1. /\ mem[l] \in Exits /\ ExitOK(mem[l]) /\ TaskOK("placing", mem[l])
  BY OwnerFacts DEF Placed, Step
<1>2. s \in Exits /\ at \in Places
  BY <1>1 DEF Exits, Places
<1>3. /\ s.rest = mem[l].rest /\ s.members = mem[l].members
      /\ s.hedge = mem[l].hedge /\ s.final = mem[l].final
      /\ s.filled = mem[l].filled /\ s.hedged = mem[l].hedged /\ s.restKnown
  BY <1>1 DEF Exits
<1>4. ~mem[l].final /\ mem[l].rest # 0
  BY <1>1 DEF TaskOK, ExitOK
<1>5. ExitOK(s) /\ TaskOK(at, s)
  BY <1>1, <1>3, <1>4 DEF ExitOK, TaskOK
<1>6. /\ mem' = [mem EXCEPT ![l] = s] /\ file' = [file EXCEPT ![l] = s]
      /\ pc' = [pc EXCEPT ![l] = at] /\ latched' = latched
      /\ UNCHANGED <<ord, covered, next, swept, pass, scene>>
  BY DEF Placed, Step, Checkpoint, Goto, Lock, venue
<1> HIDE DEF s, at
<1> QED BY <1>2, <1>3, <1>4, <1>5, <1>6, SameIsSame, TaskMoves

(* The answer to the place: nobody can tell. *)
LEMMA PlaceUnknownSafe ==
    ASSUME IInv, NEW l \in Lots, PlaceUnknown(l) PROVE IInv'
<1> DEFINE at == IF mem[l].key.cross = 0 THEN "idle" ELSE "recover"
<1>1. /\ mem[l] \in Exits /\ ExitOK(mem[l]) /\ TaskOK("placing", mem[l])
  BY OwnerFacts DEF PlaceUnknown, Step
<1>2. at \in Places /\ TaskOK(at, mem[l])
  BY <1>1 DEF Places, TaskOK
<1>3. /\ mem' = [mem EXCEPT ![l] = mem[l]] /\ file' = [file EXCEPT ![l] = mem[l]]
      /\ pc' = [pc EXCEPT ![l] = at] /\ latched' = latched \cup {l}
      /\ UNCHANGED <<ord, covered, next, swept, pass, scene>>
  BY DEF PlaceUnknown, Step, Checkpoint, Goto, Lock, venue
<1> HIDE DEF at
<1> QED BY <1>1, <1>2, <1>3, SameIsSame, TaskMoves

(* A lost place that is given up filled nothing and cannot fill.           *)
LEMMA NothingIsDead ==
    ASSUME IInv, NEW l \in Lots, mem[l].rest # 0, ~mem[l].final,
           ProvablyNothing(mem[l].rest)
    PROVE  Dead(mem[l].rest)
<1>1. /\ mem[l].rest \in Receipts /\ ExitOK(mem[l]) /\ mem[l].rest \in 1..next
  BY OwnerFacts DEF ExitOK, Receipts, IInv, Typed
<1>2. covered[mem[l].rest] = 0
  BY <1>1 DEF ExitOK
<1>3. OrderOK(mem[l].rest) /\ ord[mem[l].rest] \in Orders
  BY <1>1 DEF IInv, Money, OrdersOK, Typed
<1>4. CASE ord[mem[l].rest].old /\ ~Landed(mem[l].rest)
  BY <1>2, <1>3, <1>4 DEF OrderOK, Orders, Landed, Dead
<1>5. CASE /\ ord[mem[l].rest].at = "pmus" /\ mem[l].rest <= swept
           /\ ord[mem[l].rest].cum = 0
  BY <1>2, <1>3, <1>5 DEF OrderOK, Dead
<1> QED BY <1>4, <1>5 DEF ProvablyNothing

(* A lost place is found, given up or left. *)
LEMMA RecoverSafe ==
    ASSUME IInv, NEW l \in Lots, RecoverRest(l) PROVE IInv'
<1> DEFINE s == [mem[l] EXCEPT !.restKnown = TRUE]
<1>1. /\ mem[l] \in Exits /\ ExitOK(mem[l]) /\ TaskOK("recover", mem[l])
      /\ UNCHANGED <<ord, covered, next, swept, pass, scene>>
  BY OwnerFacts DEF RecoverRest, Step, venue
<1>2. ~mem[l].final /\ mem[l].rest # 0 /\ mem[l].hedge = 0
  BY <1>1 DEF TaskOK, ExitOK
<1>3. CASE Checkpoint(l, s) /\ Goto(l, "rest") /\ UNCHANGED latched
  <2>1. s \in Exits /\ "rest" \in Places
    BY <1>1 DEF Exits, Places
  <2>2. /\ s.rest = mem[l].rest /\ s.members = mem[l].members
        /\ s.hedge = mem[l].hedge /\ s.final = mem[l].final
        /\ s.filled = mem[l].filled /\ s.hedged = mem[l].hedged /\ s.restKnown
    BY <1>1 DEF Exits
  <2>3. ExitOK(s) /\ TaskOK("rest", s)
    BY <1>1, <1>2, <2>2 DEF ExitOK, TaskOK
  <2>4. /\ mem' = [mem EXCEPT ![l] = s] /\ file' = [file EXCEPT ![l] = s]
        /\ pc' = [pc EXCEPT ![l] = "rest"] /\ latched' = latched
    BY <1>3 DEF Checkpoint, Goto, Lock
  <2> HIDE DEF s
  <2> QED BY <1>1, <2>1, <2>2, <2>3, <2>4, SameIsSame, TaskMoves
<1>4. CASE ProvablyNothing(mem[l].rest) /\ Release(l)
  BY <1>1, <1>2, <1>4, NothingIsDead, ReleaseSafe
<1>5. CASE Park(l, mem[l])
  BY <1>1, <1>5, ParkSafe
<1> QED BY <1>3, <1>4, <1>5 DEF RecoverRest

(* What a dead rest filled is taken. *)
LEMMA TakeFillsSafe ==
    ASSUME IInv, NEW l \in Lots, pc[l] \in {"rest", "pulled"}, TakeFills(l),
           UNCHANGED <<covered, next, swept, pass, scene>>
    PROVE  IInv'
<1> DEFINE s == [mem[l] EXCEPT !.final = TRUE, !.filled = ord[mem[l].rest].cum]
<1>1. /\ mem[l] \in Exits /\ ExitOK(mem[l]) /\ TaskOK(pc[l], mem[l])
      /\ mem[l].rest # 0 /\ mem[l].rest \in Receipts
  BY OwnerFacts DEF TaskOK
<1>2. ~mem[l].final /\ mem[l].restKnown /\ mem[l].hedge = 0 /\ mem[l].hedged = 0
  BY <1>1 DEF TaskOK, ExitOK
<1>3. ord[mem[l].rest].cum \in Nat
  BY <1>1 DEF IInv, Typed, Orders
<1>4. s \in Exits /\ "owed" \in Places
  BY <1>1, <1>3 DEF Exits, Places
<1>5. /\ s.rest = mem[l].rest /\ s.members = mem[l].members
      /\ s.hedge = 0 /\ s.final /\ s.restKnown /\ s.hedged = 0
      /\ s.filled = ord[mem[l].rest].cum
  BY <1>1, <1>2 DEF Exits
<1>6. ord[mem[l].rest].st = "done"
  BY DEF TakeFills, Terminal
<1>7. ExitOK(s) /\ TaskOK("owed", s)
  BY <1>1, <1>2, <1>3, <1>5, <1>6 DEF ExitOK, TaskOK
<1>8. /\ mem' = [mem EXCEPT ![l] = s] /\ file' = [file EXCEPT ![l] = s]
      /\ pc' = [pc EXCEPT ![l] = "owed"] /\ latched' = latched
      /\ UNCHANGED ord
  BY DEF TakeFills, Checkpoint, Goto, Lock
<1> HIDE DEF s
<1> QED BY <1>2, <1>4, <1>5, <1>7, <1>8, SameIsSame, TaskMoves

(* A live rest is kept. *)
LEMMA KeepSafe ==
    ASSUME IInv, NEW l \in Lots, pc[l] = "rest", Keep(l),
           UNCHANGED <<covered, next, swept, pass, scene>>
    PROVE  IInv'
<1>1. /\ mem[l] \in Exits /\ ExitOK(mem[l]) /\ TaskOK("rest", mem[l])
  BY OwnerFacts
<1>2. "idle" \in Places /\ TaskOK("idle", mem[l])
  BY DEF Places, TaskOK
<1>3. /\ mem' = [mem EXCEPT ![l] = mem[l]] /\ file' = [file EXCEPT ![l] = mem[l]]
      /\ pc' = [pc EXCEPT ![l] = "idle"] /\ latched' = latched \ {l}
      /\ UNCHANGED ord
  BY DEF Keep, Checkpoint, Goto, Lock
<1>4. mem[l].restKnown /\ ~mem[l].final
  BY <1>1 DEF TaskOK
<1> QED BY <1>1, <1>2, <1>3, <1>4, SameIsSame, TaskMoves

(* Nothing is owed: the exit is let go. *)
LEMMA SettledSafe ==
    ASSUME IInv, NEW l \in Lots, Settled(l) PROVE IInv'
<1>1. /\ mem[l] \in Exits /\ ExitOK(mem[l]) /\ TaskOK("owed", mem[l])
      /\ UNCHANGED <<ord, covered, next, swept, pass, scene>>
      /\ mem[l].hedged = mem[l].filled /\ Release(l)
  BY OwnerFacts DEF Settled, Step, venue
<1>2. mem[l].final /\ mem[l].rest # 0 /\ mem[l].hedge = 0
  BY <1>1 DEF TaskOK
<1>3. Dead(mem[l].rest)
  BY <1>1, <1>2 DEF ExitOK, Dead
<1> QED BY <1>1, <1>2, <1>3, ReleaseSafe

(* What a task does that only parks its owner as it is.                    *)
LEMMA ParkAsIs ==
    ASSUME IInv, NEW l \in Lots, Park(l, mem[l]),
           UNCHANGED <<ord, covered, next, swept, pass, scene>>
    PROVE  IInv'
BY OwnerFacts, ParkSafe

(* The hedge is answered. *)
LEMMA HedgeTakenSafe ==
    ASSUME IInv, NEW l \in Lots, HedgeTaken(l) PROVE IInv'
<1> DEFINE s == [mem[l] EXCEPT !.hedgeKnown = TRUE]
<1>1. /\ mem[l] \in Exits /\ ExitOK(mem[l]) /\ TaskOK("hedging", mem[l])
  BY OwnerFacts DEF HedgeTaken, Step
<1>2. s \in Exits /\ "hedge" \in Places
  BY <1>1 DEF Exits, Places
<1>3. /\ s.rest = mem[l].rest /\ s.members = mem[l].members
      /\ s.hedge = mem[l].hedge /\ s.final = mem[l].final
      /\ s.filled = mem[l].filled /\ s.hedged = mem[l].hedged
      /\ s.restKnown = mem[l].restKnown
  BY <1>1 DEF Exits
<1>4. ExitOK(s) /\ TaskOK("hedge", s)
  BY <1>1, <1>3 DEF ExitOK, TaskOK
<1>5. /\ mem' = [mem EXCEPT ![l] = s] /\ file' = [file EXCEPT ![l] = s]
      /\ pc' = [pc EXCEPT ![l] = "hedge"] /\ latched' = latched
      /\ UNCHANGED <<ord, covered, next, swept, pass, scene>>
  BY DEF HedgeTaken, Step, Checkpoint, Goto, Lock, venue
<1> HIDE DEF s
<1> QED BY <1>2, <1>3, <1>4, <1>5, SameIsSame, TaskMoves

(* A lost hedge is asked for, or an answered one found dead. *)
LEMMA AskHedgeSafe ==
    ASSUME IInv, NEW l \in Lots, AskHedge(l) PROVE IInv'
<1> DEFINE s == [mem[l] EXCEPT !.hedgeKnown = TRUE]
<1>1. /\ mem[l] \in Exits /\ ExitOK(mem[l]) /\ TaskOK("hedge", mem[l])
      /\ file[l] \in Exits /\ SameExit(file[l], mem[l]) /\ pc[l] = "hedge"
      /\ UNCHANGED <<ord, covered, next, swept, pass, scene>>
      /\ mem \in [Lots -> Exits] /\ file \in [Lots -> Exits]
      /\ pc \in [Lots -> Places]
  BY OwnerFacts DEF AskHedge, Step, venue, IInv, Typed
<1>2. CASE Remember(l, s) /\ UNCHANGED <<pc, latched>>
  <2>1. s \in Exits /\ "hedge" \in Places
    BY <1>1 DEF Exits, Places
  <2>2. /\ s.rest = mem[l].rest /\ s.members = mem[l].members
        /\ s.hedge = mem[l].hedge /\ s.final = mem[l].final
        /\ s.filled = mem[l].filled /\ s.hedged = mem[l].hedged
        /\ s.restKnown = mem[l].restKnown /\ s.key = mem[l].key
    BY <1>1 DEF Exits
  <2>3. ExitOK(s) /\ TaskOK("hedge", s) /\ SameExit(file[l], s)
    BY <1>1, <2>2 DEF ExitOK, TaskOK, SameExit
  <2>4. mem' = [mem EXCEPT ![l] = s] /\ file' = file /\ pc' = pc
    BY <1>2 DEF Remember
  <2>5. file' = [file EXCEPT ![l] = file[l]] /\ pc' = [pc EXCEPT ![l] = "hedge"]
    BY <1>1, <2>4
  <2> HIDE DEF s
  <2> QED BY <1>1, <1>2, <2>1, <2>2, <2>3, <2>4, <2>5, TaskMoves
<1>3. CASE Terminal(mem[l].hedge) /\ Goto(l, "book") /\ UNCHANGED <<mem, file, latched>>
  <2>1. "book" \in Places /\ TaskOK("book", mem[l])
    BY <1>1, <1>3 DEF Places, TaskOK, Terminal
  <2>2. /\ mem' = [mem EXCEPT ![l] = mem[l]] /\ file' = [file EXCEPT ![l] = file[l]]
        /\ pc' = [pc EXCEPT ![l] = "book"]
    BY <1>1, <1>3 DEF Goto, Lock
  <2> QED BY <1>1, <1>3, <2>1, <2>2, TaskMoves
<1>4. CASE Park(l, mem[l])
  BY <1>1, <1>4, ParkAsIs
<1> QED BY <1>2, <1>3, <1>4 DEF AskHedge

(* A row is booked. *)
LEMMA BookSafe ==
    ASSUME IInv, NEW l \in Lots, Book(l) PROVE IInv'
<1>1. UNCHANGED <<ord, covered, next, swept, pass, scene>>
  BY DEF Book, Step, venue
<1>2. CASE Park(l, mem[l])
  BY <1>1, <1>2, ParkAsIs
<1>3. CASE UNCHANGED <<mem, file, pc, by, latched>>
  <2>1. Typed' /\ Money' /\ UncertainIsLatched' /\ ReservedOnce' /\ PlansOK'
    BY <1>1, <1>3 DEF IInv, Typed, Money, Filed, OrdersOK, OrderOK, ExitsOK,
       ExitOK, OneOwner, NoneStray, LetGoIsClosed, LetGo, TasksOK, TaskOK,
       UncertainIsLatched, Busy, ReservedOnce, PlansOK, Reserved, MembersOf
  <2> QED BY <2>1 DEF IInv
<1> QED BY <1>2, <1>3 DEF Book

(* A booked hedge is forgotten. *)
LEMMA ForgetSafe ==
    ASSUME IInv, NEW l \in Lots, Forget(l) PROVE IInv'
<1> DEFINE s == mem[l]
           t == [s EXCEPT !.hedged = @ + ord[s.hedge].cum, !.hedge = 0,
                          !.hedgeKnown = FALSE]
<1>1. /\ s \in Exits /\ ExitOK(s) /\ TaskOK("book", s)
      /\ s.hedge # 0 => s.hedge \in Receipts
      /\ UNCHANGED <<ord, covered, next, swept, pass, scene>>
  BY OwnerFacts DEF Forget, Step, venue
<1>2. s.hedge # 0 /\ s.rest # 0 /\ ord[s.hedge].st = "done"
  BY <1>1 DEF TaskOK
<1>3. s.final
  BY <1>1, <1>2 DEF ExitOK
<1>4. ord[s.hedge].cum \in Nat /\ s.hedged \in Nat /\ s.filled \in Nat
  BY <1>1, <1>2 DEF IInv, Typed, Orders, Exits
<1>5. t \in Exits
  <2>1. s.hedged + ord[s.hedge].cum \in Nat
    BY <1>4
  <2>2. 0 \in {0} \cup Receipts /\ FALSE \in BOOLEAN
    OBVIOUS
  <2> QED BY <1>1, <2>1, <2>2 DEF Exits
<1>6. /\ t.rest = s.rest /\ t.members = s.members /\ t.hedge = 0 /\ t.final
      /\ t.restKnown = s.restKnown /\ t.filled = s.filled
      /\ t.hedged = s.hedged + ord[s.hedge].cum
  BY <1>1, <1>3 DEF Exits
<1>7. /\ ord[s.hedge].cum <= s.filled - s.hedged
      /\ covered[s.rest] = s.hedged + ord[s.hedge].cum
      /\ s.restKnown /\ ord[s.rest].st = "done" /\ s.filled = ord[s.rest].cum
      /\ s.rest <= next /\ ord[s.rest].rest = 0
  BY <1>1, <1>2, <1>3 DEF ExitOK
<1>8. t.hedged <= t.filled
  BY <1>4, <1>6, <1>7
<1>9. ExitOK(t)
  BY <1>2, <1>6, <1>7, <1>8 DEF ExitOK
<1>10. TaskOK("owed", t) /\ "owed" \in Places
  BY <1>2, <1>6 DEF TaskOK, Places
<1>11. CASE Checkpoint(l, t) /\ Goto(l, "owed") /\ UNCHANGED latched
  <2>1. /\ mem' = [mem EXCEPT ![l] = t] /\ file' = [file EXCEPT ![l] = t]
        /\ pc' = [pc EXCEPT ![l] = "owed"] /\ latched' = latched
    BY <1>11 DEF Checkpoint, Goto, Lock
  <2>2. ord[mem[l].hedge].st # "flight" /\ t.rest = mem[l].rest
        /\ t.members = mem[l].members
    BY <1>2, <1>6
  <2> HIDE DEF s, t
  <2> QED BY <1>1, <1>5, <1>9, <1>10, <2>1, <2>2, SameIsSame, TaskMoves
<1>12. CASE Park(l, t)
  <2>1. ord[mem[l].hedge].st # "flight" /\ t.rest = mem[l].rest
        /\ t.members = mem[l].members
    BY <1>2, <1>6
  <2> HIDE DEF s, t
  <2> QED BY <1>1, <1>5, <1>9, <1>12, <2>1, ParkSafe
<1> QED BY <1>11, <1>12 DEF Forget

(* An owner is locked where its exit has something to ask. *)
LEMMA ManageSafe ==
    ASSUME IInv, NEW l \in Lots, Manage(l) PROVE IInv'
<1> DEFINE at == Resume(mem[l])
<1>1. /\ mem[l] \in Exits /\ ExitOK(mem[l]) /\ mem[l].rest # 0
      /\ file[l] \in Exits /\ SameExit(file[l], mem[l])
      /\ UNCHANGED <<ord, covered, next, swept, pass, scene, mem, file, latched>>
      /\ mem \in [Lots -> Exits] /\ file \in [Lots -> Exits]
  BY OwnerFacts DEF Manage, Busy, venue, disk, IInv, Typed
<1>2. at \in Places /\ TaskOK(at, mem[l]) /\ at # "idle"
  BY <1>1 DEF Resume, Places, TaskOK
<1>3. pc' = [pc EXCEPT ![l] = at]
  BY DEF Manage, Lock
<1>4. mem' = [mem EXCEPT ![l] = mem[l]] /\ file' = [file EXCEPT ![l] = file[l]]
  BY <1>1
<1> HIDE DEF at
<1> QED BY <1>1, <1>2, <1>3, <1>4, TaskMoves

(* Regroup: the wish is not in the file until the next checkpoint.         *)
LEMMA RegroupMoney ==
    ASSUME IInv, NEW l \in Lots, Regroup(l)
    PROVE  Typed' /\ Money' /\ UncertainIsLatched' /\ MembersOf(mem[l])' = MembersOf(mem[l])
           /\ \A k \in Lots : mem'[k].members = mem[k].members
<1> DEFINE at == Resume(mem[l])
           s  == [mem[l] EXCEPT !.regroup = TRUE]
<1>1. /\ mem[l] \in Exits /\ ExitOK(mem[l]) /\ mem[l].rest # 0
      /\ file[l] \in Exits /\ SameExit(file[l], mem[l])
      /\ UNCHANGED <<ord, covered, next, swept, scene, file, latched>>
      /\ mem \in [Lots -> Exits] /\ file \in [Lots -> Exits]
      /\ pc \in [Lots -> Places] /\ Typed /\ Money
  BY OwnerFacts DEF Regroup, Incumbent, Busy, venue, disk, IInv, Typed
<1>2. at \in Places /\ TaskOK(at, mem[l]) /\ at # "idle"
  BY <1>1 DEF Resume, Places, TaskOK
<1>3. pc' = [pc EXCEPT ![l] = at] /\ mem' = [mem EXCEPT ![l] = s]
  BY <1>1 DEF Regroup, Lock
<1>4. s \in Exits
  BY <1>1 DEF Exits
<1>5. /\ s.rest = mem[l].rest /\ s.members = mem[l].members
      /\ s.hedge = mem[l].hedge /\ s.final = mem[l].final
      /\ s.filled = mem[l].filled /\ s.hedged = mem[l].hedged
      /\ s.restKnown = mem[l].restKnown /\ s.key = mem[l].key
  BY <1>1 DEF Exits
<1>6. ExitOK(s) /\ TaskOK(at, s) /\ SameExit(file[l], s)
  BY <1>1, <1>2, <1>5 DEF ExitOK, TaskOK, SameExit
<1>7. file' = [file EXCEPT ![l] = file[l]]
  BY <1>1
<1> HIDE DEF at, s
<1>8. Money'
  BY <1>1, <1>2, <1>3, <1>4, <1>5, <1>6, <1>7, ExitMoves
<1>9. mem' \in [Lots -> Exits] /\ pc' \in [Lots -> Places]
  BY <1>1, <1>2, <1>3, <1>4
<1>10. pass' \in Passes
  <2>1. PICK m \in Lots : pass' = [pass EXCEPT !.plans = Drop(Group(m))]
    BY DEF Regroup
  <2>2. NoPlan \in [qty : Nat, key : AnyKey]
    BY DEF NoPlan, AnyKey
  <2>3. Drop(Group(m)) \in [Lots -> [qty : Nat, key : AnyKey]]
    BY <1>1, <2>2 DEF Drop, Typed, Passes
  <2> QED BY <1>1, <2>1, <2>3 DEF Typed, Passes
<1>11. Typed'
  BY <1>1, <1>9, <1>10 DEF Typed
<1>12. /\ mem'[l] = s /\ pc'[l] = at
       /\ \A k \in Lots \ {l} : mem'[k] = mem[k] /\ pc'[k] = pc[k]
  BY <1>1, <1>3
<1>13. UncertainIsLatched'
  BY <1>1, <1>2, <1>12 DEF UncertainIsLatched, Busy, IInv
<1>14. \A k \in Lots : mem'[k].members = mem[k].members
  BY <1>5, <1>12
<1>15. MembersOf(mem[l])' = MembersOf(mem[l])
  BY <1>14 DEF MembersOf
<1> QED BY <1>8, <1>11, <1>13, <1>14, <1>15
---------------------------------------------------------------------------
(* The orders of one owner change, and perhaps its exit with them.         *)

Own(l) == {mem[l].rest, mem[l].hedge} \cup (next + 1)..next'

(* The order an exit waits for moves, and the exit with it. *)
LEMMA OwnMoves ==
    ASSUME Typed, Money, NEW l \in Lots,
           mem' \in [Lots -> Exits], ord' \in [Receipts -> Orders],
           covered' \in [Receipts -> Nat],
           next' \in {next, next + 1}, next' \in 0..MaxReceipts, swept' = swept,
           \A k \in Lots \ {l} : /\ mem'[k] = mem[k] /\ file'[k] = file[k]
                                 /\ pc'[k] = pc[k],
           \A r \in Receipts \ Own(l) : ord'[r] = ord[r] /\ covered'[r] = covered[r],
           \A r \in Receipts \cap Own(l) :
                /\ OrderOK(r)'
                /\ r <= next => ord'[r].rest = ord[r].rest
                /\ ord'[r].st = "flight" /\ ord'[r].rest # 0 => mem'[l].hedge = r
                /\ r > next => ord'[r].rest # 0 \/ mem'[l].rest = r,
           SameExit(file[l], mem[l])', ExitOK(mem[l])', TaskOK(pc[l], mem[l])',
           \/ mem'[l].rest = mem[l].rest
           \/ /\ mem'[l].rest = 0
              /\ ord'[mem[l].rest].st \in {"none", "done"}
              /\ covered'[mem[l].rest] = ord'[mem[l].rest].cum
           \/ mem[l].rest = 0 /\ mem'[l].rest = next + 1 /\ next' = next + 1
    PROVE  Money'
<1>1. /\ mem \in [Lots -> Exits] /\ ord \in [Receipts -> Orders]
      /\ next \in 0..MaxReceipts /\ MaxReceipts \in Nat
      /\ \A k \in Lots : mem[k].rest \in {0} \cup Receipts
      /\ \A k \in Lots : mem[k].hedge \in {0} \cup Receipts
      /\ \A k \in Lots : ExitOK(mem[k])
  BY ReceiptAssumption DEF Typed, Money, ExitsOK, Exits
<1>2. ASSUME NEW k \in Lots \ {l}
      PROVE  /\ mem[k].rest # 0 => mem[k].rest \in Receipts \ Own(l)
             /\ mem[k].hedge # 0 => mem[k].hedge \in Receipts \ Own(l)
  <2>1. ExitOK(mem[k]) /\ ExitOK(mem[l])
    BY <1>1
  <2>2. mem[k].rest # 0 => mem[k].rest # mem[l].rest
    BY DEF Money, OneOwner
  <2>3. mem[k].rest # 0 => mem[k].rest <= next /\ mem[k].rest # mem[l].hedge
    BY <2>1 DEF ExitOK
  <2>4. mem[k].hedge # 0 => /\ mem[k].hedge <= next /\ mem[k].hedge # mem[l].hedge
                            /\ mem[k].hedge # mem[l].rest
    BY <2>1, <2>2 DEF ExitOK
  <2> QED BY <1>1, <2>2, <2>3, <2>4 DEF Own, Receipts
<1>3. Filed'
  BY DEF Money, Filed, SameExit
<1>4. OrdersOK'
  <2> SUFFICES ASSUME NEW r \in Receipts \ Own(l) PROVE OrderOK(r)'
    BY DEF OrdersOK
  <2>1. OrderOK(r) /\ ord'[r] = ord[r] /\ covered'[r] = covered[r]
    BY DEF Money, OrdersOK
  <2>2. r > next' => r > next
    BY <1>1 DEF Receipts
  <2> QED BY <2>1, <2>2 DEF OrderOK
<1>5. ExitsOK'
  <2> SUFFICES ASSUME NEW k \in Lots \ {l} PROVE ExitOK(mem[k])'
    BY DEF ExitsOK
  <2>1. mem'[k] = mem[k] /\ ExitOK(mem[k])
    BY <1>1
  <2>2. mem[k].rest # 0 => /\ ord'[mem[k].rest] = ord[mem[k].rest]
                           /\ covered'[mem[k].rest] = covered[mem[k].rest]
    BY <1>2
  <2>3. mem[k].hedge # 0 => ord'[mem[k].hedge] = ord[mem[k].hedge]
    BY <1>2
  <2>4. \A r \in {mem[k].rest, mem[k].hedge} : r # 0 /\ r <= next => r <= next'
    BY <1>1 DEF Receipts
  <2> QED BY <2>1, <2>2, <2>3, <2>4 DEF ExitOK
<1>6. OneOwner'
  <2>1. \A k \in Lots \ {l} : mem[k].rest # 0 => mem[k].rest # next + 1
    BY <1>1 DEF ExitOK, Receipts
  <2> QED BY <2>1 DEF Money, OneOwner
<1>7. NoneStray'
  <2> SUFFICES ASSUME NEW h \in Receipts, ord'[h].st = "flight", ord'[h].rest # 0
               PROVE  \E k \in Lots : mem'[k].hedge = h
    BY DEF NoneStray
  <2>1. CASE h \in Own(l)
    BY <2>1
  <2>2. CASE h \notin Own(l)
    <3>1. PICK k \in Lots : mem[k].hedge = h
      BY <2>2 DEF Money, NoneStray
    <3>2. k # l
      BY <2>2, <3>1 DEF Own
    <3> QED BY <3>1, <3>2
  <2> QED BY <2>1, <2>2
<1>8. LetGoIsClosed'
  <2> SUFFICES ASSUME NEW r \in 1..next', ord'[r].rest = 0,
                      \A k \in Lots : mem'[k].rest # r
               PROVE  ord'[r].st \in {"none", "done"} /\ covered'[r] = ord'[r].cum
    BY DEF LetGoIsClosed, LetGo
  <2>1. r \in Receipts
    BY <1>1 DEF Receipts
  <2>2. CASE r > next
    <3>1. r \in (next + 1)..next'
      BY <1>1, <2>2
    <3>2. r \in Receipts \cap Own(l)
      BY <2>1, <3>1 DEF Own
    <3>3. ord'[r].rest # 0 \/ mem'[l].rest = r
      BY <2>2, <3>2
    <3>4. mem'[l].rest # r /\ ord'[r].rest = 0
      OBVIOUS
    <3> QED BY <3>3, <3>4
  <2>3. CASE r <= next /\ r = mem[l].rest
    BY <2>1, <2>3 DEF Receipts
  <2>4. CASE r <= next /\ r # mem[l].rest /\ r = mem[l].hedge
    <3>1. ord[r].rest = mem[l].rest /\ mem[l].rest # 0
      BY <1>1, <2>1, <2>4 DEF ExitOK, Receipts
    <3> QED BY <2>1, <2>4, <3>1 DEF Own
  <2>5. CASE r <= next /\ r \notin Own(l)
    <3>1. \A k \in Lots : mem[k].rest # r
      BY <2>5 DEF Own
    <3> QED BY <1>1, <2>1, <2>5, <3>1 DEF Money, LetGoIsClosed, LetGo
  <2>6. r \in 1..next \/ r > next
    BY <1>1
  <2>7. r <= next => r \notin (next + 1)..next'
    BY <1>1
  <2> QED BY <2>2, <2>3, <2>4, <2>5, <2>6, <2>7 DEF Own
<1>9. TasksOK'
  <2> SUFFICES ASSUME NEW k \in Lots \ {l} PROVE TaskOK(pc[k], mem[k])'
    BY DEF TasksOK
  <2>1. mem'[k] = mem[k] /\ pc'[k] = pc[k] /\ TaskOK(pc[k], mem[k])
    BY DEF Money, TasksOK
  <2>2. mem[k].hedge # 0 => ord'[mem[k].hedge] = ord[mem[k].hedge]
    BY <1>2
  <2> QED BY <2>1, <2>2 DEF TaskOK
<1> QED BY <1>3, <1>4, <1>5, <1>6, <1>7, <1>8, <1>9 DEF Money

(* A venue steps: one order changes that some owner speaks for.            *)
LEMMA VenueMoves ==
    ASSUME IInv, NEW r \in Receipts, NEW o \in Orders,
           ord' = [ord EXCEPT ![r] = o], o.rest = ord[r].rest,
           ord[r].st = "done" => o.st = "done" /\ o.cum = ord[r].cum,
           o.st \in {"none", "flight"} => o.cum = 0,
           o.old => o.st # "flight",
           o.st # "flight", o.at = ord[r].at, o.ioc = ord[r].ioc,
           r <= swept /\ o.at = "pmus" => o.st \in {"none", "done"},
           ord[r].rest # 0 => o.st # "live",
           r <= next,
           UNCHANGED <<covered, next, swept, mem, file, latched, pass, scene>>,
           NEW l \in Lots, mem[l].rest = r,
           NEW at \in Places, pc' = [pc EXCEPT ![l] = at], TaskOK(at, mem[l]),
           at = "idle" => pc[l] = "idle"
    PROVE  IInv'
<1>1. /\ mem[l] \in Exits /\ ExitOK(mem[l])
      /\ SameExit(file[l], mem[l]) /\ r # 0
  BY OwnerFacts DEF Receipts
<1>2. /\ Typed /\ Money /\ ord \in [Receipts -> Orders] /\ pc \in [Lots -> Places]
      /\ mem \in [Lots -> Exits] /\ next \in 0..MaxReceipts
      /\ covered \in [Receipts -> Nat]
  BY DEF IInv, Typed
<1>3. /\ ord'[r] = o /\ \A q \in Receipts \ {r} : ord'[q] = ord[q]
      /\ ord' \in [Receipts -> Orders] /\ pc' \in [Lots -> Places]
  BY <1>2
<1>4. ord[r].rest = 0
  BY <1>1 DEF ExitOK
<1>5. OrderOK(r) /\ \A q \in Receipts : OrderOK(q)
  BY DEF IInv, Money, OrdersOK
<1>6. OrderOK(r)'
  <2>1. ord'[r] = o /\ next' = next /\ swept' = swept /\ o.rest = 0
    BY <1>3, <1>4
  <2>2. ~(r > next')
    BY <1>2, <2>1 DEF Receipts
  <2>3. /\ o.rest # 0 => o.ioc /\ o.st # "live" /\ covered[r] = 0
        /\ o.st \in {"none", "flight"} => o.cum = 0
        /\ o.old => o.st # "flight"
        /\ r <= swept /\ o.at = "pmus" => o.st \in {"none", "done"}
    BY <1>4
  <2> QED BY <2>1, <2>2, <2>3 DEF OrderOK
<1>7. ASSUME NEW q \in Receipts, q # r PROVE OrderOK(q)' /\ ord'[q] = ord[q]
  <2>1. ord'[q] = ord[q] /\ OrderOK(q)
    BY <1>3, <1>5, <1>7
  <2> QED BY <2>1 DEF OrderOK
<1>8. mem[l].hedge # 0 => mem[l].hedge \in Receipts \ {r}
  BY <1>1, <1>4 DEF ExitOK, Exits
<1>9. ExitOK(mem[l])'
  <2>1. mem'[l] = mem[l] /\ ord'[r] = o /\ covered' = covered /\ next' = next
    BY <1>3
  <2>2. mem[l].hedge # 0 => ord'[mem[l].hedge] = ord[mem[l].hedge]
    BY <1>3, <1>8
  <2> QED BY <1>1, <1>4, <2>1, <2>2 DEF ExitOK
<1>10. TaskOK(pc[l], mem[l])'
  <2>1. pc'[l] = at /\ mem'[l] = mem[l]
    BY <1>2
  <2>2. mem[l].hedge # 0 => ord'[mem[l].hedge] = ord[mem[l].hedge]
    BY <1>3, <1>8
  <2> QED BY <2>1, <2>2 DEF TaskOK
<1>11. ASSUME NEW q \in Receipts \cap Own(l)
       PROVE  /\ OrderOK(q)'
              /\ q <= next => ord'[q].rest = ord[q].rest
              /\ ord'[q].st = "flight" /\ ord'[q].rest # 0 => mem'[l].hedge = q
              /\ q > next => ord'[q].rest # 0 \/ mem'[l].rest = q
  <2>1. q \in {mem[l].rest, mem[l].hedge} /\ q <= next
    BY <1>1, <1>2 DEF Own, ExitOK, Receipts
  <2>2. q = r \/ q = mem[l].hedge
    BY <2>1
  <2> QED BY <1>2, <1>3, <1>4, <1>6, <1>7, <2>1, <2>2 DEF Receipts
<1>12. \A q \in Receipts \ Own(l) : ord'[q] = ord[q] /\ covered'[q] = covered[q]
  BY <1>3 DEF Own
<1>13. \A k \in Lots \ {l} : mem'[k] = mem[k] /\ file'[k] = file[k] /\ pc'[k] = pc[k]
  BY <1>2
<1>14. SameExit(file[l], mem[l])'
  BY <1>1 DEF SameExit
<1>15. Money'
  BY <1>2, <1>3, <1>9, <1>10, <1>11, <1>12, <1>13, <1>14, OwnMoves
<1>16. Typed'
  BY <1>2, <1>3 DEF Typed
<1>17. UncertainIsLatched'
  <2>1. \A k \in Lots : pc'[k] = "idle" => pc[k] = "idle"
    BY <1>2, <1>13
  <2> QED BY <2>1 DEF IInv, UncertainIsLatched, Busy
<1>18. ReservedOnce' /\ PlansOK'
  BY ReservesLess DEF IInv
<1> QED BY <1>15, <1>16, <1>17, <1>18 DEF IInv
(* Somebody speaks for an order that may still trade.                      *)
LEMMA Spoken ==
    ASSUME IInv, NEW r \in Receipts, ord[r].st \in {"live", "flight"}
    PROVE  /\ r <= next /\ OrderOK(r) /\ ord[r] \in Orders
           /\ ord[r].rest = 0 => \E l \in Lots : mem[l].rest = r
           /\ ord[r].rest # 0 => \E l \in Lots : mem[l].hedge = r
<1>1. OrderOK(r) /\ ord[r] \in Orders /\ next \in 0..MaxReceipts
  BY DEF IInv, Money, OrdersOK, Typed
<1>2. r <= next
  <2>1. NoOrder.st = "none"
    BY DEF NoOrder
  <2>2. r > next => ord[r] = NoOrder
    BY <1>1 DEF OrderOK
  <2>3. ~(r > next)
    BY <2>1, <2>2
  <2> QED BY <1>1, <2>3 DEF Receipts
<1>3. ord[r].rest = 0 => \E l \in Lots : mem[l].rest = r
  BY <1>1, <1>2 DEF IInv, Money, LetGoIsClosed, LetGo, Receipts
<1>4. ord[r].rest # 0 => \E l \in Lots : mem[l].hedge = r
  BY <1>1 DEF IInv, Money, NoneStray, OrderOK
<1> QED BY <1>1, <1>2, <1>3, <1>4

(* VenueMoves when no task moves with it.                                  *)
LEMMA VenueAlone ==
    ASSUME IInv, NEW r \in Receipts, NEW o \in Orders,
           ord' = [ord EXCEPT ![r] = o], o.rest = ord[r].rest,
           ord[r].st = "done" => o.st = "done" /\ o.cum = ord[r].cum,
           o.st \in {"none", "flight"} => o.cum = 0,
           o.old => o.st # "flight",
           o.st # "flight", o.at = ord[r].at, o.ioc = ord[r].ioc,
           r <= swept /\ o.at = "pmus" => o.st \in {"none", "done"},
           ord[r].rest # 0 => o.st # "live",
           r <= next, \E l \in Lots : mem[l].rest = r,
           UNCHANGED <<covered, next, swept, mem, file, pc, latched, pass, scene>>
    PROVE  IInv'
<1>1. PICK l \in Lots : mem[l].rest = r
  OBVIOUS
<1>2. TaskOK(pc[l], mem[l]) /\ pc \in [Lots -> Places]
  BY DEF IInv, Typed, Money, TasksOK
<1>3. pc[l] \in Places /\ pc' = [pc EXCEPT ![l] = pc[l]]
  BY <1>2
<1> QED BY <1>1, <1>2, <1>3, VenueMoves

(* A resting order fills. *)
LEMMA FillSafe ==
    ASSUME IInv, NEW r \in Receipts, Fill(r) PROVE IInv'
<1> DEFINE c == ord[r].cum + 1
           v == IF ord[r].cum + 1 = ord[r].qty THEN "done" ELSE "live"
           o == [ord[r] EXCEPT !.cum = c, !.st = v]
<1>1. /\ ord[r].st = "live"
      /\ UNCHANGED <<covered, next, swept, mem, file, pc, latched, pass, scene>>
  BY DEF Fill, disk, task
<1>2. /\ r <= next /\ OrderOK(r) /\ ord[r] \in Orders
      /\ ord[r].rest = 0 => \E l \in Lots : mem[l].rest = r
  BY <1>1, Spoken
<1>3. ord[r].rest = 0
  BY <1>1, <1>2 DEF OrderOK
<1>4. c \in Nat /\ v \in {"done", "live"}
  <2>1. ord[r].cum \in Nat
    BY <1>2 DEF Orders
  <2>2. v \in {"done", "live"}
    BY Zenon
  <2> QED BY <2>1, <2>2
<1>5. /\ o \in Orders
      /\ o.rest = ord[r].rest /\ o.st \in {"done", "live"} /\ o.at = ord[r].at
      /\ o.ioc = ord[r].ioc
  <2> HIDE DEF c, v
  <2> QED BY <1>2, <1>4 DEF Orders
<1>6. ~(r <= swept /\ ord[r].at = "pmus")
  BY <1>1, <1>2 DEF OrderOK
<1>7. ord \in [Receipts -> Orders]
  BY DEF IInv, Typed
<1>8. ord' = [ord EXCEPT ![r] = o]
  BY <1>7 DEF Fill
<1> HIDE DEF o
<1> QED BY <1>1, <1>2, <1>3, <1>5, <1>6, <1>8, VenueAlone

(* A resting order goes. *)
LEMMA ExpireSafe ==
    ASSUME IInv, NEW r \in Receipts, Expire(r) PROVE IInv'
<1> DEFINE o == [ord[r] EXCEPT !.st = "done"]
<1>1. /\ ord[r].st = "live"
      /\ UNCHANGED <<covered, next, swept, mem, file, pc, latched, pass, scene>>
  BY DEF Expire, disk, task
<1>2. /\ r <= next /\ OrderOK(r) /\ ord[r] \in Orders
      /\ ord[r].rest = 0 => \E l \in Lots : mem[l].rest = r
  BY <1>1, Spoken
<1>3. ord[r].rest = 0
  BY <1>1, <1>2 DEF OrderOK
<1>4. /\ o \in Orders
      /\ o.rest = ord[r].rest /\ o.st = "done" /\ o.at = ord[r].at
      /\ o.ioc = ord[r].ioc
  BY <1>2 DEF Orders
<1>5. ord' = [ord EXCEPT ![r] = o]
  BY DEF Expire, IInv, Typed
<1> HIDE DEF o
<1> QED BY <1>1, <1>2, <1>3, <1>4, <1>5, VenueAlone

(* A lost place has been lost long enough. *)
LEMMA AgeSafe ==
    ASSUME IInv, NEW r \in Receipts, Age(r) PROVE IInv'
<1> DEFINE o == [ord[r] EXCEPT !.old = TRUE]
<1>1. PICK l \in Lots : mem[l].rest = r
  BY DEF Age
<1>2. /\ UNCHANGED <<covered, next, swept, mem, file, pc, latched, pass, scene>>
      /\ ord[r].st # "flight" /\ r # 0
  BY DEF Age, disk, task, Receipts
<1>3. r <= next /\ ord[r].rest = 0 /\ OrderOK(r) /\ ord[r] \in Orders
  BY <1>1, <1>2, OwnerFacts DEF ExitOK, IInv, Money, OrdersOK, Typed
<1>4. /\ o \in Orders
      /\ o.rest = ord[r].rest /\ o.st = ord[r].st /\ o.cum = ord[r].cum
      /\ o.at = ord[r].at /\ o.ioc = ord[r].ioc
  BY <1>3 DEF Orders
<1>5. ord' = [ord EXCEPT ![r] = o]
  BY DEF Age, IInv, Typed
<1>6. /\ r <= swept /\ ord[r].at = "pmus" => ord[r].st \in {"none", "done"}
      /\ ord[r].st \in {"none", "flight"} => ord[r].cum = 0
  BY <1>3 DEF OrderOK
<1> HIDE DEF o
<1> QED BY <1>1, <1>2, <1>3, <1>4, <1>5, <1>6, VenueAlone

(* A rest arrives. *)
LEMMA LandRestSafe ==
    ASSUME IInv, NEW r \in Receipts, Land(r), ord[r].rest = 0 PROVE IInv'
<1>1. /\ ord[r].st = "flight"
      /\ UNCHANGED <<covered, next, swept, mem, file, pc, latched, pass, scene>>
  BY DEF Land, disk, task
<1>2. /\ r <= next /\ OrderOK(r) /\ ord[r] \in Orders
      /\ \E l \in Lots : mem[l].rest = r
  BY <1>1, Spoken
<1>3. ~(r <= swept /\ ord[r].at = "pmus")
  BY <1>1, <1>2 DEF OrderOK
<1>4. CASE ord' = [ord EXCEPT ![r].st = "live"]
  <2> DEFINE o == [ord[r] EXCEPT !.st = "live"]
  <2>1. /\ o \in Orders /\ o.rest = ord[r].rest /\ o.st = "live"
        /\ o.at = ord[r].at /\ o.ioc = ord[r].ioc
    BY <1>2 DEF Orders
  <2>2. ord' = [ord EXCEPT ![r] = o]
    BY <1>4 DEF IInv, Typed
  <2> HIDE DEF o
  <2> QED BY <1>1, <1>2, <1>3, <2>1, <2>2, VenueAlone
<1>5. ASSUME NEW n \in 0..Total,
             ord' = [ord EXCEPT ![r].st = "done", ![r].cum = n]
      PROVE  IInv'
  <2> DEFINE o == [ord[r] EXCEPT !.st = "done", !.cum = n]
  <2>1. n \in Nat
    BY TotalAssumption
  <2>2. /\ o \in Orders /\ o.rest = ord[r].rest /\ o.st = "done"
        /\ o.at = ord[r].at /\ o.ioc = ord[r].ioc
    BY <1>2, <2>1 DEF Orders
  <2>3. ord' = [ord EXCEPT ![r] = o]
    BY <1>5 DEF IInv, Typed
  <2> HIDE DEF o
  <2> QED BY <1>1, <1>2, <2>2, <2>3, VenueAlone
<1> QED BY <1>4, <1>5 DEF Land
(* OwnMoves for a task that leaves what is reserved as it is, or less.     *)
LEMMA OwnTaskMoves ==
    ASSUME IInv, NEW l \in Lots, NEW s \in Exits, NEW f \in Exits,
           NEW at \in Places,
           mem' = [mem EXCEPT ![l] = s], file' = [file EXCEPT ![l] = f],
           pc' = [pc EXCEPT ![l] = at],
           Money', ord' \in [Receipts -> Orders], covered' \in [Receipts -> Nat],
           next' \in {next, next + 1}, next' \in 0..MaxReceipts,
           UNCHANGED <<swept, pass, scene>>,
           s.members \in {mem[l].members, Free.members},
           latched' \in {latched, latched \cup {l}},
           at = "idle" /\ s.rest # 0 /\ (s.final \/ ~s.restKnown) => l \in latched'
    PROVE  IInv'
<1>1. Typed /\ UncertainIsLatched /\ ReservedOnce /\ PlansOK
  BY DEF IInv
<1>2. Typed'
  <2>1. swept \in 0..next'
    BY <1>1 DEF Typed
  <2> QED BY <1>1, <2>1 DEF Typed
<1>3. /\ mem'[l] = s /\ pc'[l] = at
      /\ \A k \in Lots \ {l} : mem'[k] = mem[k] /\ pc'[k] = pc[k]
  BY <1>1 DEF Typed
<1>4. UncertainIsLatched'
  <2> SUFFICES ASSUME NEW k \in Lots, pc'[k] = "idle", mem'[k].rest # 0,
                      mem'[k].final \/ ~mem'[k].restKnown
               PROVE  k \in latched'
    BY DEF UncertainIsLatched, Busy
  <2>1. CASE k = l
    BY <1>3, <2>1
  <2>2. CASE k # l
    <3>1. k \in latched
      BY <1>1, <1>3, <2>2 DEF UncertainIsLatched, Busy
    <3> QED BY <2>2, <3>1
  <2> QED BY <2>1, <2>2
<1>5. \A k \in Lots : mem'[k].members \in {mem[k].members, Free.members}
  BY <1>3
<1>6. ReservedOnce' /\ PlansOK'
  BY <1>1, <1>5, ReservesLess
<1> QED BY <1>2, <1>4, <1>6 DEF IInv

(* A hedge trades: what it closes is counted against its rest.             *)
LEMMA LandHedgeSafe ==
    ASSUME IInv, NEW r \in Receipts, Land(r), ord[r].rest # 0 PROVE IInv'
<1>1. /\ ord[r].st = "flight" /\ r # 0
      /\ UNCHANGED <<next, swept, mem, file, pc, latched, pass, scene>>
  BY DEF Land, disk, task, Receipts
<1>2. /\ r <= next /\ OrderOK(r) /\ ord[r] \in Orders
      /\ \E l \in Lots : mem[l].hedge = r
  BY <1>1, Spoken
<1>3. PICK l \in Lots : mem[l].hedge = r
  BY <1>2
<1>4. /\ mem[l] \in Exits /\ ExitOK(mem[l]) /\ TaskOK(pc[l], mem[l])
      /\ SameExit(file[l], mem[l])
  BY OwnerFacts
<1> DEFINE q == mem[l].rest
<1>5. q # 0 /\ q \in Receipts
  BY <1>1, <1>3, <1>4, OwnerFacts DEF ExitOK
<1>6. /\ ord[r].rest = q /\ q <= next /\ ord[q].rest = 0 /\ r # q
      /\ ord[r].qty = mem[l].filled - mem[l].hedged
      /\ covered[q] = mem[l].hedged + ord[r].cum
      /\ mem[l].final /\ mem[l].restKnown /\ ord[q].st = "done"
      /\ mem[l].filled = ord[q].cum
  BY <1>1, <1>3, <1>4, <1>5 DEF ExitOK
<1>7. ord[r].cum = 0 /\ ord[r].ioc /\ covered[r] = 0 /\ ~(r <= swept /\ ord[r].at = "pmus")
  BY <1>1, <1>2 DEF OrderOK
<1>8. PICK n \in 0..Total : /\ n <= ord[r].qty
                            /\ ord' = [ord EXCEPT ![r].st = "done", ![r].cum = n]
                            /\ covered' = [covered EXCEPT ![ord[r].rest] = @ + n]
  BY <1>7 DEF Land
<1>9. n \in Nat
  BY TotalAssumption
<1>10. /\ Typed /\ Money /\ ord \in [Receipts -> Orders]
       /\ covered \in [Receipts -> Nat] /\ next \in 0..MaxReceipts
       /\ \A k \in Receipts : OrderOK(k)
  BY DEF IInv, Typed, Money, OrdersOK
<1>11. /\ ord' \in [Receipts -> Orders]
       /\ \A k \in Receipts \ {r} : ord'[k] = ord[k]
       /\ ord'[r].st = "done" /\ ord'[r].cum = n /\ ord'[r].rest = ord[r].rest
       /\ ord'[r].qty = ord[r].qty /\ ord'[r].ioc = ord[r].ioc
       /\ ord'[r].at = ord[r].at /\ ord'[r].old = ord[r].old
  <2> DEFINE o == [ord[r] EXCEPT !.st = "done", !.cum = n]
  <2>1. /\ o \in Orders /\ o.st = "done" /\ o.cum = n /\ o.rest = ord[r].rest
        /\ o.qty = ord[r].qty /\ o.ioc = ord[r].ioc /\ o.at = ord[r].at
        /\ o.old = ord[r].old
    BY <1>2, <1>9 DEF Orders
  <2>2. ord' = [ord EXCEPT ![r] = o]
    BY <1>8, <1>10
  <2> HIDE DEF o
  <2> QED BY <1>10, <2>1, <2>2
<1>12. /\ covered' = [covered EXCEPT ![q] = covered[q] + n]
       /\ covered[q] + n \in Nat
  <2>1. covered[q] \in Nat
    BY <1>5, <1>10
  <2>2. covered' = [covered EXCEPT ![q] = covered[q] + n]
    BY <1>6, <1>8
  <2> QED BY <1>9, <2>1, <2>2
<1>13. /\ covered' \in [Receipts -> Nat] /\ covered'[q] = covered[q] + n
       /\ \A k \in Receipts \ {q} : covered'[k] = covered[k]
  BY <1>5, <1>10, <1>12
<1>14. OrderOK(r)'
  <2>1. covered'[r] = 0
    BY <1>6, <1>7, <1>13
  <2>2. ~(r > next')
    BY <1>1, <1>2, <1>10 DEF Receipts
  <2> QED BY <1>1, <1>6, <1>7, <1>11, <2>1, <2>2 DEF OrderOK
<1>15. OrderOK(q)'
  <2>1. ord'[q] = ord[q] /\ OrderOK(q)
    BY <1>5, <1>6, <1>10, <1>11
  <2>2. ~(q > next')
    BY <1>1, <1>5, <1>6, <1>10 DEF Receipts
  <2> QED BY <1>1, <1>6, <2>1, <2>2 DEF OrderOK
<1>16. Own(l) = {q, r}
  <2>1. (next + 1)..next' = {}
    BY <1>1, <1>10
  <2> QED BY <1>3, <2>1 DEF Own
<1>17. ExitOK(mem[l])'
  <2>1. mem'[l] = mem[l] /\ next' = next
    BY <1>1
  <2>2. covered'[q] = mem[l].hedged + n
    BY <1>4, <1>6, <1>7, <1>13 DEF Exits
  <2>3. ord'[q] = ord[q]
    BY <1>5, <1>6, <1>11
  <2>4. n <= ord'[r].qty /\ ord'[r].qty = mem[l].filled - mem[l].hedged
    BY <1>6, <1>8, <1>11
  <2>5. mem[l].hedged <= mem[l].filled
    BY <1>4 DEF ExitOK
  <2> QED BY <1>1, <1>2, <1>3, <1>5, <1>6, <1>11, <2>1, <2>2, <2>3, <2>4, <2>5
          DEF ExitOK
<1>18. TaskOK(pc[l], mem[l])'
  BY <1>1, <1>3, <1>4, <1>11 DEF TaskOK
<1>19. SameExit(file[l], mem[l])'
  BY <1>1, <1>4 DEF SameExit
<1>20. \A k \in Receipts \ Own(l) : ord'[k] = ord[k] /\ covered'[k] = covered[k]
  BY <1>11, <1>13, <1>16
<1>21. ASSUME NEW k \in Receipts \cap Own(l)
       PROVE  /\ OrderOK(k)'
              /\ k <= next => ord'[k].rest = ord[k].rest
              /\ ord'[k].st = "flight" /\ ord'[k].rest # 0 => mem'[l].hedge = k
              /\ k > next => ord'[k].rest # 0 \/ mem'[l].rest = k
  <2>1. CASE k = q
    BY <1>1, <1>5, <1>6, <1>11, <1>15, <2>1
  <2>2. CASE k = r
    BY <1>1, <1>3, <1>5, <1>6, <1>11, <1>14, <2>2
  <2> QED BY <1>16, <1>21, <2>1, <2>2
<1>22. /\ mem \in [Lots -> Exits] /\ mem' = mem /\ next' = next
       /\ swept' = swept
  BY <1>1 DEF IInv, Typed
<1>23. Money'
  <2> HIDE DEF q
  <2> QED BY <1>1, <1>10, <1>11, <1>13, <1>17, <1>18, <1>19, <1>20, <1>21, <1>22,
          OwnMoves
<1>24. Typed' /\ UncertainIsLatched'
  BY <1>1, <1>11, <1>13 DEF IInv, Typed, UncertainIsLatched, Busy
<1>25. ReservedOnce' /\ PlansOK'
  BY <1>1, ReservesLess DEF IInv
<1> QED BY <1>23, <1>24, <1>25 DEF IInv

(* A rest is cancelled. *)
LEMMA PullSafe ==
    ASSUME IInv, NEW l \in Lots, pc[l] = "rest", Pull(l),
           UNCHANGED <<covered, next, swept, pass, scene>>
    PROVE  IInv'
<1>1. /\ mem[l] \in Exits /\ ExitOK(mem[l]) /\ TaskOK("rest", mem[l])
      /\ SameExit(file[l], mem[l]) /\ file[l] \in Exits
  BY OwnerFacts
<1>2. /\ mem[l].rest # 0 /\ mem[l].rest \in Receipts
      /\ "pulled" \in Places /\ TaskOK("pulled", mem[l])
  BY <1>1, OwnerFacts DEF TaskOK, Places
<1>3. /\ pc' = [pc EXCEPT ![l] = "pulled"] /\ UNCHANGED <<mem, file, latched>>
      /\ ord \in [Receipts -> Orders]
      /\ mem \in [Lots -> Exits] /\ file \in [Lots -> Exits]
  BY DEF Pull, Goto, Lock, IInv, Typed
<1>4. CASE ord' = ord
  <2>1. mem' = [mem EXCEPT ![l] = mem[l]] /\ file' = [file EXCEPT ![l] = file[l]]
    BY <1>3
  <2> QED BY <1>1, <1>2, <1>3, <1>4, <2>1, TaskMoves
<1>5. CASE ord' = [ord EXCEPT ![mem[l].rest].st = "done"]
  <2> DEFINE r == mem[l].rest
             o == [ord[r] EXCEPT !.st = "done"]
  <2>1. ord[r] \in Orders /\ ord[r].rest = 0 /\ r <= next
    BY <1>1, <1>2, <1>3 DEF ExitOK
  <2>2. /\ o \in Orders /\ o.st = "done" /\ o.rest = ord[r].rest
        /\ o.at = ord[r].at /\ o.ioc = ord[r].ioc /\ o.cum = ord[r].cum
    BY <2>1 DEF Orders
  <2>3. ord' = [ord EXCEPT ![r] = o]
    BY <1>3, <1>5
  <2>4. r \in Receipts /\ mem[l].rest = r
    BY <1>2
  <2> HIDE DEF r, o
  <2> QED BY <1>2, <1>3, <2>1, <2>2, <2>3, <2>4, VenueMoves
<1> QED BY <1>4, <1>5 DEF Pull

(* A rest is looked at. *)
LEMMA LookAtRestSafe ==
    ASSUME IInv, NEW l \in Lots, LookAtRest(l) PROVE IInv'
<1>1. pc[l] = "rest" /\ UNCHANGED <<covered, next, swept, pass, scene>>
  BY DEF LookAtRest, Step
<1>2. TakeFills(l) \/ Keep(l) \/ Pull(l) \/ (Park(l, mem[l]) /\ UNCHANGED ord)
  BY DEF LookAtRest
<1> QED BY <1>1, <1>2, TakeFillsSafe, KeepSafe, PullSafe, ParkAsIs

(* A rest is read again after its cancel. *)
LEMMA ReadPulledSafe ==
    ASSUME IInv, NEW l \in Lots, ReadPulled(l) PROVE IInv'
<1>1. pc[l] = "pulled" /\ UNCHANGED <<covered, next, swept, pass, scene>>
  BY DEF ReadPulled, Step
<1>2. TakeFills(l) \/ (Park(l, mem[l]) /\ UNCHANGED ord)
  BY DEF ReadPulled
<1> QED BY <1>1, <1>2, TakeFillsSafe, ParkAsIs
(* A hedge is sent. *)
LEMMA SendHedgeSafe ==
    ASSUME IInv, NEW l \in Lots, SendHedge(l) PROVE IInv'
<1>0. PICK h, q : h = next + 1 /\ q = mem[l].rest
  OBVIOUS
<1> DEFINE owed == mem[l].filled - mem[l].hedged
           o == [NoOrder EXCEPT !.st = "flight", !.qty = owed,
                    !.at = CloseVenue(mem[l].key), !.rest = q, !.ioc = TRUE]
           s == [mem[l] EXCEPT !.hedge = h, !.hedgeKnown = FALSE]
<1>1. /\ mem[l] \in Exits /\ ExitOK(mem[l]) /\ TaskOK("owed", mem[l])
      /\ UNCHANGED <<covered, swept, pass, scene, latched>>
      /\ next' = h /\ h <= scene.orders
  BY <1>0, OwnerFacts DEF SendHedge, Step
<1>2. q # 0 /\ q \in Receipts /\ mem[l].final /\ mem[l].hedge = 0
  BY <1>0, <1>1, OwnerFacts DEF TaskOK
<1>3. /\ Typed /\ Money /\ ord \in [Receipts -> Orders] /\ next \in 0..MaxReceipts
      /\ covered \in [Receipts -> Nat] /\ scene \in Scenes /\ swept \in 0..next
      /\ mem \in [Lots -> Exits] /\ file \in [Lots -> Exits]
      /\ pc \in [Lots -> Places] /\ \A k \in Receipts : OrderOK(k)
  BY DEF IInv, Typed, Money, OrdersOK
<1>4. scene.orders \in 0..MaxReceipts /\ MaxReceipts \in Nat
  BY <1>3, SceneAssumption, ReceiptAssumption
<1>5. h \in Receipts /\ h \in 0..MaxReceipts /\ h > next /\ h # 0
  BY <1>0, <1>1, <1>3, <1>4 DEF Receipts
<1>6. owed \in Nat /\ mem[l].hedged \in Nat /\ mem[l].filled \in Nat
  <2>1. mem[l].hedged \in Nat /\ mem[l].filled \in Nat /\ mem[l].hedged <= mem[l].filled
    BY <1>1 DEF Exits, ExitOK
  <2> QED BY <2>1
<1>7. CloseVenue(mem[l].key) \in {"kalshi", "pmus"}
  BY DEF CloseVenue
<1>8. /\ o \in Orders /\ o.st = "flight" /\ o.qty = owed /\ o.rest = q /\ o.ioc
      /\ o.cum = 0 /\ ~o.old
  <2> HIDE DEF owed
  <2> QED BY <1>2, <1>6, <1>7 DEF Orders, NoOrder, Quantities
<1>9. /\ s \in Exits /\ s.rest = q /\ s.members = mem[l].members /\ s.hedge = h
      /\ s.final = mem[l].final /\ s.filled = mem[l].filled
      /\ s.hedged = mem[l].hedged /\ s.restKnown = mem[l].restKnown
  BY <1>0, <1>1, <1>5 DEF Exits
<1>10. /\ mem' = [mem EXCEPT ![l] = s] /\ file' = [file EXCEPT ![l] = s]
       /\ pc' = [pc EXCEPT ![l] = "hedging"] /\ ord' = [ord EXCEPT ![h] = o]
       /\ "hedging" \in Places
  BY <1>0 DEF SendHedge, Checkpoint, Goto, Lock, Places
<1> HIDE DEF owed, o, s
<1>11. /\ ord' \in [Receipts -> Orders] /\ ord'[h] = o
       /\ \A k \in Receipts \ {h} : ord'[k] = ord[k]
       /\ mem' \in [Lots -> Exits] /\ mem'[l] = s /\ file'[l] = s
       /\ pc'[l] = "hedging"
       /\ \A k \in Lots \ {l} : /\ mem'[k] = mem[k] /\ file'[k] = file[k]
                                /\ pc'[k] = pc[k]
  BY <1>3, <1>5, <1>8, <1>9, <1>10
<1>12. /\ q <= next /\ ord[q].rest = 0 /\ covered[q] = mem[l].hedged
       /\ mem[l].restKnown /\ ord[q].st = "done" /\ mem[l].filled = ord[q].cum
       /\ mem[l].hedged <= mem[l].filled
  BY <1>0, <1>1, <1>2 DEF ExitOK
<1>13. h # q /\ next' = next + 1 /\ next' \in 0..MaxReceipts
  BY <1>0, <1>1, <1>2, <1>3, <1>5, <1>12 DEF Receipts
<1>14. Own(l) \cap Receipts \subseteq {q, h}
  <2>1. (next + 1)..next' = {h}
    BY <1>0, <1>1, <1>3
  <2>2. 0 \notin Receipts
    BY DEF Receipts
  <2> QED BY <1>0, <1>2, <2>1, <2>2 DEF Own
<1>15. OrderOK(h)'
  <2>1. covered'[h] = 0
    BY <1>1, <1>3, <1>5 DEF OrderOK
  <2>2. ~(h > next') /\ ~(h <= swept')
    BY <1>0, <1>1, <1>3, <1>5
  <2> QED BY <1>8, <1>11, <2>1, <2>2 DEF OrderOK
<1>16. OrderOK(q)'
  <2>1. ord'[q] = ord[q] /\ OrderOK(q)
    BY <1>2, <1>3, <1>11, <1>13
  <2>2. ~(q > next')
    BY <1>2, <1>3, <1>12, <1>13 DEF Receipts
  <2> QED BY <1>1, <1>12, <2>1, <2>2 DEF OrderOK
<1>17. ASSUME NEW k \in Receipts \cap Own(l)
       PROVE  /\ OrderOK(k)'
              /\ k <= next => ord'[k].rest = ord[k].rest
              /\ ord'[k].st = "flight" /\ ord'[k].rest # 0 => mem'[l].hedge = k
              /\ k > next => ord'[k].rest # 0 \/ mem'[l].rest = k
  <2>1. CASE k = q
    BY <1>2, <1>9, <1>11, <1>12, <1>13, <1>16, <2>1
  <2>2. CASE k = h
    <3>1. ~(h <= next)
      BY <1>0, <1>3
    <3> QED BY <1>2, <1>8, <1>9, <1>11, <1>15, <2>2, <3>1
  <2> QED BY <1>14, <1>17, <2>1, <2>2
<1>18. \A k \in Receipts \ Own(l) : ord'[k] = ord[k] /\ covered'[k] = covered[k]
  <2>1. h \in Own(l)
    BY <1>0, <1>1, <1>3 DEF Own
  <2> QED BY <1>1, <1>11, <2>1
<1>19. ExitOK(mem[l])'
  <2>1. ord'[q] = ord[q] /\ covered' = covered /\ q <= next' /\ h <= next'
    BY <1>0, <1>1, <1>2, <1>3, <1>11, <1>12, <1>13 DEF Receipts
  <2>2. /\ ord'[h].cum <= ord'[h].qty /\ ord'[h].rest = q
        /\ covered[q] = mem[l].hedged + ord'[h].cum
        /\ ord'[h].qty = mem[l].filled - mem[l].hedged
    BY <1>6, <1>8, <1>11, <1>12 DEF owed
  <2>3. /\ mem'[l].rest = q /\ mem'[l].hedge = h /\ mem'[l].final
        /\ mem'[l].filled = mem[l].filled /\ mem'[l].hedged = mem[l].hedged
        /\ mem'[l].restKnown
    BY <1>2, <1>9, <1>11, <1>12
  <2> QED BY <1>2, <1>5, <1>12, <2>1, <2>2, <2>3 DEF ExitOK
<1>20. TaskOK(pc[l], mem[l])' /\ SameExit(file[l], mem[l])'
  BY <1>2, <1>5, <1>9, <1>11 DEF TaskOK, SameExit
<1>21. mem'[l].rest = mem[l].rest
  BY <1>0, <1>9, <1>11
<1>22. next' \in {next, next + 1} /\ covered' \in [Receipts -> Nat] /\ swept' = swept
  BY <1>1, <1>3, <1>13
<1>23. Money'
  BY <1>3, <1>11, <1>13, <1>17, <1>18, <1>19, <1>20, <1>21, <1>22, OwnMoves
<1> QED BY <1>1, <1>9, <1>10, <1>11, <1>13, <1>22, <1>23, OwnTaskMoves
(* A hedge the venue refused: nothing of it was accepted.                  *)
LEMMA HedgeRefusedSafe ==
    ASSUME IInv, NEW l \in Lots, HedgeRefused(l) PROVE IInv'
<1>0. PICK h, q : h = mem[l].hedge /\ q = mem[l].rest
  OBVIOUS
<1> DEFINE o == [ord[h] EXCEPT !.st = "none"]
           s == [mem[l] EXCEPT !.hedge = 0]
<1>1. /\ mem[l] \in Exits /\ ExitOK(mem[l]) /\ TaskOK("hedging", mem[l])
      /\ UNCHANGED <<covered, next, swept, pass, scene>>
      /\ ord[h].st = "flight"
  BY <1>0, OwnerFacts DEF HedgeRefused, Step
<1>2. h # 0 /\ q # 0 /\ h \in Receipts /\ q \in Receipts
  BY <1>0, <1>1, OwnerFacts DEF TaskOK
<1>3. /\ Typed /\ Money /\ ord \in [Receipts -> Orders] /\ next \in 0..MaxReceipts
      /\ covered \in [Receipts -> Nat]
      /\ mem \in [Lots -> Exits] /\ file \in [Lots -> Exits]
      /\ pc \in [Lots -> Places] /\ OrderOK(h) /\ OrderOK(q)
  BY <1>2 DEF IInv, Typed, Money, OrdersOK
<1>4. /\ ord[h].rest = q /\ ord[q].rest = 0 /\ h # q /\ h <= next /\ q <= next
      /\ mem[l].final /\ mem[l].restKnown /\ ord[q].st = "done"
      /\ mem[l].filled = ord[q].cum /\ mem[l].hedged <= mem[l].filled
      /\ covered[q] = mem[l].hedged + ord[h].cum
  BY <1>0, <1>1, <1>2 DEF ExitOK
<1>5. ord[h].cum = 0 /\ covered[q] = mem[l].hedged
  <2>1. ord[h].cum = 0
    BY <1>1, <1>3 DEF OrderOK
  <2> QED BY <1>1, <1>4, <2>1 DEF Exits
<1>6. ord[h] \in Orders
  BY <1>2, <1>3
<1>7. /\ o \in Orders /\ o.st = "none" /\ o.rest = q /\ o.cum = 0
      /\ o.ioc = ord[h].ioc /\ o.old = ord[h].old /\ o.at = ord[h].at
  BY <1>4, <1>5, <1>6 DEF Orders
<1>8. /\ s \in Exits /\ s.rest = q /\ s.members = mem[l].members /\ s.hedge = 0
      /\ s.final = mem[l].final /\ s.filled = mem[l].filled
      /\ s.hedged = mem[l].hedged /\ s.restKnown = mem[l].restKnown
  BY <1>0, <1>1 DEF Exits
<1>9. /\ mem' = [mem EXCEPT ![l] = s] /\ file' = [file EXCEPT ![l] = s]
      /\ pc' = [pc EXCEPT ![l] = "idle"] /\ ord' = [ord EXCEPT ![h] = o]
      /\ latched' = latched \cup {l} /\ "idle" \in Places
  BY <1>0, <1>3 DEF HedgeRefused, Park, Checkpoint, Goto, Lock, Places
<1> HIDE DEF o, s
<1>10. /\ ord' \in [Receipts -> Orders] /\ ord'[h] = o
       /\ \A k \in Receipts \ {h} : ord'[k] = ord[k]
       /\ mem' \in [Lots -> Exits] /\ mem'[l] = s /\ file'[l] = s
       /\ pc'[l] = "idle"
       /\ \A k \in Lots \ {l} : /\ mem'[k] = mem[k] /\ file'[k] = file[k]
                                /\ pc'[k] = pc[k]
  BY <1>2, <1>3, <1>7, <1>8, <1>9
<1>11. Own(l) \cap Receipts = {q, h}
  <2>1. (next + 1)..next' = {}
    BY <1>1, <1>3
  <2> QED BY <1>0, <1>2, <2>1 DEF Own
<1>12. OrderOK(h)'
  <2>1. ~(h > next')
    BY <1>1, <1>2, <1>3, <1>4 DEF Receipts
  <2>2. ord[h].rest # 0 => ord[h].ioc /\ covered[h] = 0
    BY <1>3 DEF OrderOK
  <2> QED BY <1>1, <1>4, <1>7, <1>10, <2>1, <2>2 DEF OrderOK
<1>13. OrderOK(q)'
  <2>1. ord'[q] = ord[q]
    BY <1>2, <1>4, <1>10
  <2> QED BY <1>1, <1>3, <2>1 DEF OrderOK
<1>14. ASSUME NEW k \in Receipts \cap Own(l)
       PROVE  /\ OrderOK(k)'
              /\ k <= next => ord'[k].rest = ord[k].rest
              /\ ord'[k].st = "flight" /\ ord'[k].rest # 0 => mem'[l].hedge = k
              /\ k > next => ord'[k].rest # 0 \/ mem'[l].rest = k
  <2>1. CASE k = q
    BY <1>2, <1>4, <1>8, <1>10, <1>13, <2>1
  <2>2. CASE k = h
    BY <1>2, <1>4, <1>7, <1>10, <1>12, <2>2
  <2> QED BY <1>11, <1>14, <2>1, <2>2
<1>15. \A k \in Receipts \ Own(l) : ord'[k] = ord[k] /\ covered'[k] = covered[k]
  BY <1>1, <1>2, <1>10, <1>11
<1>16. ExitOK(mem[l])'
  <2>1. ord'[q] = ord[q] /\ covered' = covered /\ next' = next
    BY <1>1, <1>2, <1>4, <1>10
  <2>2. /\ mem'[l].rest = q /\ mem'[l].hedge = 0 /\ mem'[l].final
        /\ mem'[l].filled = mem[l].filled /\ mem'[l].hedged = mem[l].hedged
        /\ mem'[l].restKnown
    BY <1>4, <1>8, <1>10
  <2> QED BY <1>2, <1>4, <1>5, <2>1, <2>2 DEF ExitOK
<1>17. TaskOK(pc[l], mem[l])' /\ SameExit(file[l], mem[l])'
  BY <1>10 DEF TaskOK, SameExit
<1>18. mem'[l].rest = mem[l].rest
  BY <1>0, <1>8, <1>10
<1>19. /\ next' \in {next, next + 1} /\ next' \in 0..MaxReceipts
       /\ covered' \in [Receipts -> Nat] /\ swept' = swept
  BY <1>1, <1>3
<1>20. Money'
  BY <1>3, <1>10, <1>14, <1>15, <1>16, <1>17, <1>18, <1>19, OwnMoves
<1> QED BY <1>1, <1>8, <1>9, <1>10, <1>19, <1>20, OwnTaskMoves

(* A rest the venue refused: its exit is forgotten.                        *)
LEMMA PlaceRefusedSafe ==
    ASSUME IInv, NEW l \in Lots, PlaceRefused(l) PROVE IInv'
<1>0. PICK q : q = mem[l].rest
  OBVIOUS
<1> DEFINE o == [ord[q] EXCEPT !.st = "none"]
<1>1. /\ mem[l] \in Exits /\ ExitOK(mem[l]) /\ TaskOK("placing", mem[l])
      /\ UNCHANGED <<covered, next, swept, pass, scene, latched>>
      /\ ord[q].st = "flight"
  BY <1>0, OwnerFacts DEF PlaceRefused, Step
<1>2. q # 0 /\ q \in Receipts /\ ~mem[l].restKnown
  BY <1>0, <1>1, OwnerFacts DEF TaskOK
<1>3. /\ Typed /\ Money /\ ord \in [Receipts -> Orders] /\ next \in 0..MaxReceipts
      /\ covered \in [Receipts -> Nat]
      /\ mem \in [Lots -> Exits] /\ file \in [Lots -> Exits]
      /\ pc \in [Lots -> Places] /\ OrderOK(q)
  BY <1>2 DEF IInv, Typed, Money, OrdersOK
<1>4. ord[q].rest = 0 /\ q <= next /\ covered[q] = 0 /\ mem[l].hedge = 0
  BY <1>0, <1>1, <1>2 DEF ExitOK
<1>5. ord[q].cum = 0 /\ ord[q] \in Orders
  BY <1>1, <1>2, <1>3 DEF OrderOK
<1>6. /\ o \in Orders /\ o.st = "none" /\ o.rest = 0 /\ o.cum = 0
      /\ o.old = ord[q].old /\ o.at = ord[q].at
  BY <1>4, <1>5 DEF Orders
<1>7. /\ mem' = [mem EXCEPT ![l] = Free] /\ file' = [file EXCEPT ![l] = Free]
      /\ pc' = [pc EXCEPT ![l] = "idle"] /\ ord' = [ord EXCEPT ![q] = o]
      /\ "idle" \in Places
  BY <1>0, <1>3 DEF PlaceRefused, Checkpoint, Goto, Lock, Places
<1>8. /\ Free \in Exits /\ Free.rest = 0 /\ Free.hedge = 0
      /\ Free.hedged = 0 /\ Free.filled = 0
  BY FreeIsAnExit DEF Free
<1> HIDE DEF o
<1>9. /\ ord' \in [Receipts -> Orders] /\ ord'[q] = o
      /\ \A k \in Receipts \ {q} : ord'[k] = ord[k]
      /\ mem' \in [Lots -> Exits] /\ mem'[l] = Free /\ file'[l] = Free
      /\ pc'[l] = "idle"
      /\ \A k \in Lots \ {l} : /\ mem'[k] = mem[k] /\ file'[k] = file[k]
                               /\ pc'[k] = pc[k]
  BY <1>2, <1>3, <1>6, <1>7, <1>8
<1>10. Own(l) \cap Receipts = {q}
  <2>1. (next + 1)..next' = {} /\ 0 \notin Receipts
    BY <1>1, <1>3 DEF Receipts
  <2> QED BY <1>0, <1>2, <1>4, <2>1 DEF Own
<1>11. OrderOK(q)'
  <2>1. ~(q > next')
    BY <1>1, <1>2, <1>3, <1>4 DEF Receipts
  <2>2. ord[q].old => ord[q].st # "flight"
    BY <1>3 DEF OrderOK
  <2> QED BY <1>1, <1>6, <1>9, <2>1, <2>2 DEF OrderOK
<1>12. ASSUME NEW k \in Receipts \cap Own(l)
       PROVE  /\ OrderOK(k)'
              /\ k <= next => ord'[k].rest = ord[k].rest
              /\ ord'[k].st = "flight" /\ ord'[k].rest # 0 => mem'[l].hedge = k
              /\ k > next => ord'[k].rest # 0 \/ mem'[l].rest = k
  <2>1. k = q
    BY <1>10, <1>12
  <2>2. ~(q > next)
    BY <1>2, <1>3, <1>4 DEF Receipts
  <2> QED BY <1>4, <1>6, <1>9, <1>11, <2>1, <2>2
<1>13. \A k \in Receipts \ Own(l) : ord'[k] = ord[k] /\ covered'[k] = covered[k]
  BY <1>1, <1>9, <1>10
<1>14. ExitOK(mem[l])' /\ TaskOK(pc[l], mem[l])' /\ SameExit(file[l], mem[l])'
  <2>1. ExitOK(Free)'
    BY <1>8 DEF ExitOK
  <2> QED BY <1>8, <1>9, <2>1 DEF ExitOK, TaskOK, SameExit
<1>15. /\ mem'[l].rest = 0 /\ ord'[mem[l].rest].st \in {"none", "done"}
       /\ covered'[mem[l].rest] = ord'[mem[l].rest].cum
  BY <1>0, <1>1, <1>4, <1>6, <1>8, <1>9
<1>16. /\ next' \in {next, next + 1} /\ next' \in 0..MaxReceipts
       /\ covered' \in [Receipts -> Nat] /\ swept' = swept
  BY <1>1, <1>3
<1>17. Money'
  BY <1>3, <1>9, <1>12, <1>13, <1>14, <1>15, <1>16, OwnMoves
<1> QED BY <1>1, <1>7, <1>8, <1>9, <1>16, <1>17, OwnTaskMoves
---------------------------------------------------------------------------
(* The pass.                                                               *)

(* What the pass does with its plans alone.                                *)
LEMMA PlansMove ==
    ASSUME IInv, pass' \in Passes, PlansOK',
           UNCHANGED <<venue, next, disk, task, scene, swept>>
    PROVE  IInv'
<1>1. Typed' /\ UncertainIsLatched' /\ ReservedOnce'
  BY DEF IInv, Typed, UncertainIsLatched, Busy, ReservedOnce, MembersOf, venue,
     disk, task
<1>2. Money'
  BY DEF IInv, Money, Filed, OrdersOK, OrderOK, ExitsOK, ExitOK, OneOwner,
     NoneStray, LetGoIsClosed, LetGo, TasksOK, TaskOK, venue, disk, task
<1> QED BY <1>1, <1>2 DEF IInv

(* No plan takes nothing. *)
LEMMA NoPlanTyped == NoPlan \in [qty : Nat, key : AnyKey] /\ NoPlan.qty = 0
BY DEF NoPlan, AnyKey

(* Dropped plans are plans. *)
LEMMA DropTyped ==
    ASSUME pass \in Passes, NEW g
    PROVE  /\ Drop(g) \in [Lots -> [qty : Nat, key : AnyKey]]
           /\ \A m \in Lots : Drop(g)[m].qty > 0 =>
                    m \notin g /\ pass.plans[m].qty > 0
<1>1. pass.plans \in [Lots -> [qty : Nat, key : AnyKey]]
  BY DEF Passes
<1>2. Drop(g) \in [Lots -> [qty : Nat, key : AnyKey]]
  BY <1>1, NoPlanTyped DEF Drop
<1>3. ASSUME NEW m \in Lots, Drop(g)[m].qty > 0
      PROVE  m \notin g /\ pass.plans[m].qty > 0
  <2>1. Drop(g)[m] = IF m \in g THEN NoPlan ELSE pass.plans[m]
    BY DEF Drop
  <2>2. m \notin g
    BY <1>3, <2>1, NoPlanTyped
  <2> QED BY <1>3, <2>1, <2>2
<1> QED BY <1>2, <1>3

(* Nothing is reserved or let go of but by mem.                            *)
LEMMA ReservedSame ==
    ASSUME \A k \in Lots : mem'[k].members = mem[k].members
    PROVE  Reserved' = Reserved /\ \A k \in Lots : MembersOf(mem[k])' = MembersOf(mem[k])
<1>1. \A k \in Lots : MembersOf(mem[k])' = MembersOf(mem[k])
  BY DEF MembersOf
<1> QED BY <1>1 DEF Reserved

(* The pass plans a lot. *)
LEMMA PassPlansSafe ==
    ASSUME IInv, NEW l \in Lots, PassPlans(l) PROVE IInv'
<1>1. PICK p \in {NoPlan} \cup [qty : 1..Total, key : Keys] :
            /\ p # NoPlan => l \notin pass.reserved
            /\ pass' = [pass EXCEPT !.todo = @ \ {l}, !.plans[l] = p]
  BY DEF PassPlans
<1>2. pass \in Passes /\ pass.at = "plan" /\ PlansOK
  BY DEF PassPlans, IInv, Typed
<1>3. p \in [qty : Nat, key : AnyKey]
  <2>1. CASE p = NoPlan
    BY <2>1, NoPlanTyped
  <2>2. CASE p \in [qty : 1..Total, key : Keys]
    BY <2>2, TotalAssumption DEF AnyKey
  <2> QED BY <2>1, <2>2
<1>4. /\ pass' \in Passes /\ pass'.at = "plan" /\ pass'.reserved = pass.reserved
      /\ pass'.plans = [pass.plans EXCEPT ![l] = p]
  <2> DEFINE t == pass.todo \ {l}
             f == [pass.plans EXCEPT ![l] = p]
  <2>1. /\ pass.plans \in [Lots -> [qty : Nat, key : AnyKey]]
        /\ pass.todo \subseteq Lots
    BY <1>2 DEF Passes
  <2>2. f \in [Lots -> [qty : Nat, key : AnyKey]] /\ t \subseteq Lots
    BY <1>3, <2>1
  <2>3. pass' = [pass EXCEPT !.todo = t, !.plans = f]
    BY <1>1, <1>2 DEF Passes
  <2> HIDE DEF t
  <2>4. pass'.plans = f /\ pass'.at = "plan" /\ pass'.reserved = pass.reserved
    BY <1>2, <2>3 DEF Passes
  <2> HIDE DEF f
  <2> QED BY <1>2, <2>2, <2>3, <2>4 DEF Passes, f
<1>5. UNCHANGED <<venue, next, disk, task, scene, swept>>
  BY DEF PassPlans
<1>6. Reserved' = Reserved
  BY <1>5, ReservedSame DEF task
<1>7. PlansOK'
  <2>1. Reserved \subseteq pass.reserved /\ NoPlan.qty = 0
    BY <1>2, NoPlanTyped DEF PlansOK
  <2>2. ASSUME NEW m \in Lots, pass'.plans[m].qty > 0 PROVE m \notin Reserved
    <3>1. CASE m = l
      <4>1. pass'.plans[m] = p
        BY <1>2, <1>4, <3>1 DEF Passes
      <4>2. p # NoPlan
        BY <2>1, <2>2, <4>1
      <4> QED BY <1>1, <2>1, <3>1, <4>2
    <3>2. CASE m # l
      <4>1. pass'.plans[m] = pass.plans[m]
        BY <1>2, <1>4, <3>2 DEF Passes
      <4> QED BY <1>2, <2>2, <4>1 DEF PlansOK
    <3> QED BY <3>1, <3>2
  <2> QED BY <1>4, <1>6, <2>1, <2>2 DEF PlansOK
<1> QED BY <1>4, <1>5, <1>7, PlansMove

(* The pass turns to placing or to planning. *)
LEMMA PassTurnsSafe ==
    ASSUME IInv, PassTurns PROVE IInv'
<1>1. /\ UNCHANGED <<venue, next, disk, task, scene, swept>>
      /\ pass \in Passes /\ PlansOK
  BY DEF PassTurns, IInv, Typed
<1>2. Reserved' = Reserved /\ Reserved \subseteq Lots
  BY <1>1, ReservedSame DEF task, Reserved, MembersOf
<1>3. CASE pass' = [pass EXCEPT !.at = "place", !.reserved = {}]
  <2>1. pass' \in Passes /\ pass'.at = "place" /\ pass'.plans = pass.plans
    BY <1>1, <1>3 DEF Passes
  <2>2. PlansOK'
    BY <1>1, <1>2, <2>1 DEF PlansOK
  <2> QED BY <1>1, <2>1, <2>2, PlansMove
<1>4. CASE pass' = [pass EXCEPT !.at = "plan", !.todo = Lots, !.reserved = Reserved]
  <2>1. /\ pass' \in Passes /\ pass'.at = "plan" /\ pass'.plans = pass.plans
        /\ pass'.reserved = Reserved
    BY <1>1, <1>2, <1>4 DEF Passes
  <2>2. PlansOK'
    BY <1>1, <1>2, <2>1 DEF PlansOK
  <2> QED BY <1>1, <2>1, <2>2, PlansMove
<1> QED BY <1>3, <1>4 DEF PassTurns

(* The pass chooses a group. *)
LEMMA ChooseGroupSafe ==
    ASSUME IInv, NEW l \in Lots, ChooseGroup(l) PROVE IInv'
<1>1. /\ UNCHANGED <<venue, next, disk, task, scene, swept>>
      /\ pass \in Passes /\ PlansOK /\ pass.at = "place"
  BY DEF ChooseGroup, IInv, Typed
<1>2. Reserved' = Reserved
  BY <1>1, ReservedSame DEF task
<1>3. CASE pass' = [pass EXCEPT !.at = "lock", !.todo = Group(l)]
  <2>1. Group(l) \subseteq Lots /\ \A m \in Group(l) : pass.plans[m].qty > 0
    BY DEF Group
  <2>2. /\ pass' \in Passes /\ pass'.at = "lock" /\ pass'.plans = pass.plans
        /\ pass'.todo = Group(l)
    BY <1>1, <1>3, <2>1 DEF Passes
  <2>3. PlansOK'
    BY <1>1, <1>2, <2>1, <2>2 DEF PlansOK
  <2> QED BY <1>1, <2>2, <2>3, PlansMove
<1>4. CASE pass' = [pass EXCEPT !.plans = Drop(Group(l))]
  <2> DEFINE f == Drop(Group(l))
  <2>1. /\ f \in [Lots -> [qty : Nat, key : AnyKey]]
        /\ \A m \in Lots : f[m].qty > 0 => pass.plans[m].qty > 0
    BY <1>1, DropTyped
  <2> HIDE DEF f
  <2>2. pass' = [pass EXCEPT !.plans = f]
    BY <1>4 DEF f
  <2>3. pass' \in Passes /\ pass'.at = "place" /\ pass'.plans = f
    BY <1>1, <2>1, <2>2 DEF Passes
  <2>4. PlansOK'
    BY <1>1, <1>2, <2>1, <2>3 DEF PlansOK
  <2> QED BY <1>1, <2>3, <2>4, PlansMove
<1> QED BY <1>3, <1>4 DEF ChooseGroup

(* The pass has an incumbent cancelled. *)
LEMMA RegroupSafe ==
    ASSUME IInv, NEW l \in Lots, Regroup(l) PROVE IInv'
<1>1. /\ Typed' /\ Money' /\ UncertainIsLatched'
      /\ \A k \in Lots : mem'[k].members = mem[k].members
  BY RegroupMoney
<1>2. /\ Reserved' = Reserved
      /\ \A k \in Lots : MembersOf(mem[k])' = MembersOf(mem[k])
  BY <1>1, ReservedSame
<1>3. ReservedOnce'
  BY <1>2 DEF ReservedOnce, IInv
<1>4. pass \in Passes /\ pass.at = "place" /\ PlansOK
  BY DEF Regroup, IInv, Typed
<1>5. PICK m \in Lots : pass' = [pass EXCEPT !.plans = Drop(Group(m))]
  BY DEF Regroup
<1> DEFINE f == Drop(Group(m))
<1>6. \A k \in Lots : f[k].qty > 0 => pass.plans[k].qty > 0
  BY <1>4, DropTyped
<1> HIDE DEF f
<1>7. pass'.at = "place" /\ pass'.plans = f
  BY <1>4, <1>5 DEF Passes, f
<1>8. PlansOK'
  BY <1>2, <1>4, <1>6, <1>7 DEF PlansOK
<1> QED BY <1>1, <1>3, <1>8 DEF IInv
(* The group that is placed: a new rest and, under the lock of its oldest  *)
(* member, the exit that speaks for it.                                    *)
LEMMA NewExitSafe ==
    ASSUME IInv, NEW l \in Lots, NEW r, r = next + 1, r \in Receipts,
           NEW s \in Exits, NEW o \in Orders,
           mem[l].rest = 0, next' = r,
           s.rest = r, ~s.restKnown, ~s.final, s.hedge = 0, s.hedged = 0, s.filled = 0,
           o.st = "flight", o.cum = 0, o.rest = 0, ~o.old,
           ord' = [ord EXCEPT ![r] = o],
           mem' = [mem EXCEPT ![l] = s], file' = [file EXCEPT ![l] = s],
           pc' = [pc EXCEPT ![l] = "placing"],
           UNCHANGED <<covered, swept, scene, latched>>, pass' \in Passes
    PROVE  Money' /\ Typed' /\ UncertainIsLatched'
<1>1. /\ Typed /\ Money /\ ord \in [Receipts -> Orders] /\ next \in 0..MaxReceipts
      /\ covered \in [Receipts -> Nat] /\ swept \in 0..next
      /\ mem \in [Lots -> Exits] /\ file \in [Lots -> Exits]
      /\ pc \in [Lots -> Places] /\ \A k \in Receipts : OrderOK(k)
      /\ ExitOK(mem[l]) /\ MaxReceipts \in Nat
  BY ReceiptAssumption DEF IInv, Typed, Money, OrdersOK, ExitsOK
<1>2. /\ ord' \in [Receipts -> Orders] /\ ord'[r] = o
      /\ \A k \in Receipts \ {r} : ord'[k] = ord[k]
      /\ mem' \in [Lots -> Exits] /\ mem'[l] = s /\ file'[l] = s
      /\ file' \in [Lots -> Exits]
      /\ pc'[l] = "placing" /\ pc' \in [Lots -> Places]
      /\ \A k \in Lots \ {l} : /\ mem'[k] = mem[k] /\ file'[k] = file[k]
                               /\ pc'[k] = pc[k]
  BY <1>1 DEF Places
<1>3. r > next /\ covered[r] = 0 /\ ~(r <= swept) /\ r \in 0..MaxReceipts /\ r # 0
  BY <1>1 DEF OrderOK, Receipts
<1>4. Own(l) \cap Receipts = {r}
  <2>1. (next + 1)..next' = {r} /\ 0 \notin Receipts
    BY <1>1 DEF Receipts
  <2>2. mem[l].hedge = 0
    BY <1>1 DEF ExitOK
  <2> QED BY <2>1, <2>2 DEF Own
<1>5. OrderOK(r)'
  <2>1. ~(r > next') /\ ~(r <= swept')
    BY <1>1, <1>3
  <2> QED BY <1>2, <2>1 DEF OrderOK
<1>6. ASSUME NEW k \in Receipts \cap Own(l)
      PROVE  /\ OrderOK(k)'
             /\ k <= next => ord'[k].rest = ord[k].rest
             /\ ord'[k].st = "flight" /\ ord'[k].rest # 0 => mem'[l].hedge = k
             /\ k > next => ord'[k].rest # 0 \/ mem'[l].rest = k
  <2>1. k = r
    BY <1>4, <1>6
  <2>2. ~(r <= next)
    BY <1>1
  <2> QED BY <1>2, <1>5, <2>1, <2>2
<1>7. \A k \in Receipts \ Own(l) : ord'[k] = ord[k] /\ covered'[k] = covered[k]
  BY <1>2, <1>4
<1>8. ExitOK(mem[l])'
  <2>1. covered'[r] = 0 /\ r <= next' /\ 0 <= 0
    BY <1>1, <1>3
  <2> QED BY <1>2, <1>3, <2>1 DEF ExitOK
<1>9. TaskOK(pc[l], mem[l])' /\ SameExit(file[l], mem[l])'
  BY <1>2, <1>3 DEF TaskOK, SameExit
<1>10. mem[l].rest = 0 /\ mem'[l].rest = next + 1 /\ next' = next + 1
  BY <1>2
<1>11. /\ next' \in {next, next + 1} /\ next' \in 0..MaxReceipts
       /\ covered' \in [Receipts -> Nat] /\ swept' = swept
  BY <1>1, <1>3
<1>12. Money'
  BY <1>1, <1>2, <1>6, <1>7, <1>8, <1>9, <1>10, <1>11, OwnMoves
<1>13. Typed'
  <2>1. swept' \in 0..next'
    BY <1>1
  <2> QED BY <1>1, <1>2, <1>11, <2>1 DEF Typed
<1>14. UncertainIsLatched'
  BY <1>2 DEF IInv, UncertainIsLatched, Busy
<1> QED BY <1>12, <1>13, <1>14

(* The pass places a group. *)
LEMMA PlaceGroupSafe ==
    ASSUME IInv, NEW l \in Lots, PlaceGroup(l) PROVE IInv'
<1>1. /\ pass \in Passes /\ PlansOK /\ pass.at = "lock" /\ l \in pass.todo
      /\ pass.todo \subseteq Lots
      /\ \A m \in pass.todo : pass.plans[m].qty > 0 /\ m \notin Reserved
      /\ \A m \in Lots : pass.plans[m].qty \in Nat /\ pass.plans[m].key \in AnyKey
      /\ UNCHANGED <<covered, ledger, latched, scene, swept>>
  BY DEF PlaceGroup, IInv, Typed, Passes, PlansOK
<1> DEFINE f == Drop(pass.todo)
<1>2. /\ f \in [Lots -> [qty : Nat, key : AnyKey]]
      /\ \A m \in Lots : f[m].qty > 0 => m \notin pass.todo /\ pass.plans[m].qty > 0
  BY <1>1, DropTyped
<1> HIDE DEF f
<1>3. pass' = [pass EXCEPT !.at = "place", !.todo = {}, !.plans = f]
  BY DEF PlaceGroup, f
<1>4. pass' \in Passes /\ pass'.at = "place" /\ pass'.plans = f
  BY <1>1, <1>2, <1>3 DEF Passes
<1>5. CASE UNCHANGED <<next, ord, mem, file, pc, by>>
  <2>1. Reserved' = Reserved
    BY <1>5, ReservedSame
  <2>2. PlansOK'
    BY <1>1, <1>2, <1>4, <2>1 DEF PlansOK
  <2>3. UNCHANGED <<venue, next, disk, task, scene, swept>>
    BY <1>1, <1>5 DEF venue, disk, task
  <2> QED BY <1>4, <2>2, <2>3, PlansMove
<1>6. CASE ~UNCHANGED <<next, ord, mem, file, pc, by>>
  <2>0. PICK r : r = next + 1
    OBVIOUS
  <2> DEFINE ms == [m \in Lots |-> IF m \in pass.todo THEN pass.plans[m].qty ELSE 0]
             s == [Free EXCEPT !.rest = r, !.key = pass.plans[l].key, !.members = ms]
             at == RestVenue(pass.plans[l].key)
             o == [NoOrder EXCEPT !.st = "flight", !.qty = Sum(ms), !.at = at,
                      !.ioc = pass.plans[l].key.cross # 0]
  <2>1. /\ ~Busy(l) /\ r <= scene.orders /\ next' = r
        /\ ord' = [ord EXCEPT ![r] = o]
        /\ mem' = [mem EXCEPT ![l] = s] /\ file' = [file EXCEPT ![l] = s]
        /\ pc' = [pc EXCEPT ![l] = "placing"]
    <3>1. s.members = ms
      BY DEF Free
    <3>2. s.key = pass.plans[l].key
      BY DEF Free
    <3> QED BY <1>6, <2>0, <3>1, <3>2 DEF PlaceGroup, Checkpoint, Lock
  <2>2. mem[l].rest = 0
    BY <2>1 DEF Busy
  <2>3. r \in Receipts
    <3>1. /\ scene \in Scenes /\ next \in 0..MaxReceipts
      BY DEF IInv, Typed
    <3>2. scene.orders \in 0..MaxReceipts /\ MaxReceipts \in Nat
      BY <3>1, SceneAssumption, ReceiptAssumption
    <3> QED BY <2>0, <2>1, <3>1, <3>2 DEF Receipts
  <2>4. ms \in [Lots -> Nat]
    BY <1>1
  <2>5. at \in {"kalshi", "pmus"}
    BY DEF RestVenue
  <2> HIDE DEF ms, at
  <2>6. /\ s \in Exits /\ s.members = ms
        /\ s.rest = r /\ ~s.restKnown /\ ~s.final /\ s.hedge = 0
        /\ s.hedged = 0 /\ s.filled = 0
    <3>1. pass.plans[l].key \in AnyKey
      BY <1>1
    <3> QED BY <2>3, <2>4, <3>1, FreeIsAnExit DEF Exits, Free
  <2>7. /\ o \in Orders /\ o.st = "flight" /\ o.cum = 0 /\ o.rest = 0 /\ ~o.old
    <3>1. Sum(ms) \in Quantities
      BY <2>4 DEF Quantities
    <3> HIDE DEF Sum
    <3> QED BY <2>5, <3>1 DEF Orders, NoOrder
  <2> HIDE DEF s, o
  <2>8. Money' /\ Typed' /\ UncertainIsLatched'
    BY <1>1, <1>4, <2>0, <2>1, <2>2, <2>3, <2>6, <2>7, NewExitSafe
  <2>9. /\ mem'[l] = s /\ \A k \in Lots \ {l} : mem'[k] = mem[k]
    BY <2>1 DEF IInv, Typed
  <2>10. /\ MembersOf(mem'[l]) \subseteq pass.todo
         /\ \A k \in Lots \ {l} : /\ MembersOf(mem'[k]) = MembersOf(mem[k])
                                  /\ MembersOf(mem[k]) \subseteq Reserved
         /\ \A k \in Lots : MembersOf(mem[k])' = MembersOf(mem'[k])
    <3>1. MembersOf(s) \subseteq pass.todo
      BY <2>6 DEF MembersOf, ms
    <3> QED BY <2>9, <3>1 DEF MembersOf, Reserved
  <2>11. ReservedOnce'
    <3> SUFFICES ASSUME NEW i \in Lots, NEW k \in Lots, i # k
                 PROVE  MembersOf(mem'[i]) \cap MembersOf(mem'[k]) = {}
      BY <2>10 DEF ReservedOnce
    <3>1. CASE i = l
      BY <1>1, <2>10, <3>1
    <3>2. CASE k = l
      BY <1>1, <2>10, <3>2
    <3>3. CASE i # l /\ k # l
      BY <2>10, <3>3 DEF IInv, ReservedOnce
    <3> QED BY <3>1, <3>2, <3>3
  <2>12. Reserved' \subseteq Reserved \cup pass.todo
    BY <2>10 DEF Reserved
  <2>13. PlansOK'
    <3>1. ASSUME NEW m \in Lots, pass'.plans[m].qty > 0 PROVE m \notin Reserved'
      BY <1>1, <1>2, <1>4, <2>12, <3>1 DEF PlansOK
    <3> QED BY <1>4, <3>1 DEF PlansOK
  <2> QED BY <2>8, <2>11, <2>13 DEF IInv
<1> QED BY <1>5, <1>6

---------------------------------------------------------------------------
(* The process starts, for the first time or again.                        *)

(* A pass that starts has planned nothing. *)
LEMMA PassInitOK == PassInit \in Passes /\ PassInit.at = "place"
                    /\ \A l \in Lots : PassInit.plans[l].qty = 0
BY NoPlanTyped DEF PassInit, Passes, NoPlans

(* The invariant holds at the start. *)
LEMMA InitSafe == Init => IInv
<1> SUFFICES ASSUME Init PROVE IInv
  OBVIOUS
<1>1. Free \in Exits /\ ExitOK(Free) /\ TaskOK("idle", Free) /\ Free.rest = 0
      /\ Free.hedge = 0 /\ \A m \in Lots : Free.members[m] = 0
  BY FreeIsAnExit DEF Free
<1>2. NoOrder \in Orders /\ NoOrder.st = "none" /\ NoOrder.rest = 0
      /\ NoOrder.cum = 0 /\ ~NoOrder.old
  BY DEF NoOrder, Orders, Quantities
<1>3. /\ ord = [r \in Receipts |-> NoOrder] /\ covered = [r \in Receipts |-> 0]
      /\ next = 0 /\ swept = 0 /\ mem = [l \in Lots |-> Free] /\ file = mem
      /\ pc = [l \in Lots |-> "idle"] /\ latched = {} /\ pass = PassInit
      /\ scene \in Scenes
  BY DEF Init
<1>4. /\ mem \in [Lots -> Exits] /\ \A l \in Lots : mem[l] = Free /\ pc[l] = "idle"
      /\ ord \in [Receipts -> Orders] /\ covered \in [Receipts -> Nat]
      /\ \A r \in Receipts : ord[r] = NoOrder /\ covered[r] = 0
  BY <1>1, <1>2, <1>3
<1>5. Typed
  BY <1>3, <1>4, PassInitOK, ReceiptAssumption DEF Typed, Places
<1>6. Filed
  BY <1>3 DEF Filed, SameExit
<1>7. OrdersOK
  <2> SUFFICES ASSUME NEW r \in Receipts PROVE OrderOK(r)
    BY DEF OrdersOK
  <2>1. ~(r <= swept)
    BY <1>3 DEF Receipts
  <2> QED BY <1>2, <1>4, <2>1 DEF OrderOK
<1>8. ExitsOK /\ TasksOK /\ OneOwner
  BY <1>1, <1>4 DEF ExitsOK, TasksOK, OneOwner
<1>9. NoneStray
  BY <1>2, <1>4 DEF NoneStray
<1>10. LetGoIsClosed
  <2>1. LetGo = {}
    BY <1>3 DEF LetGo
  <2> QED BY <2>1 DEF LetGoIsClosed
<1>11. \A l \in Lots : MembersOf(mem[l]) = {}
  BY <1>1, <1>4 DEF MembersOf
<1>12. UncertainIsLatched /\ ReservedOnce
  BY <1>1, <1>4, <1>11 DEF UncertainIsLatched, Busy, ReservedOnce
<1>13. PlansOK
  BY <1>3, <1>11, PassInitOK DEF PlansOK, Reserved
<1> QED BY <1>5, <1>6, <1>7, <1>8, <1>9, <1>10, <1>12, <1>13 DEF IInv, Money

(* What a start's sweep makes of an order. *)
LEMMA SweptOrder ==
    ASSUME NEW o \in Orders, NEW clean
    PROVE  /\ Swept(o, clean) \in Orders
           /\ Swept(o, clean).st # "flight"
           /\ Swept(o, clean).cum = o.cum /\ Swept(o, clean).qty = o.qty
           /\ Swept(o, clean).rest = o.rest /\ Swept(o, clean).at = o.at
           /\ Swept(o, clean).ioc = o.ioc /\ Swept(o, clean).old = o.old
           /\ o.st \in {"none", "done"} => Swept(o, clean) = o
           /\ o.st = "live" => Swept(o, clean).st \in {"live", "done"}
           /\ o.st = "flight" => Swept(o, clean).st = "none"
           /\ o.at \in clean => Swept(o, clean).st \in {"none", "done"}
<1>1. CASE o.st = "flight"
  BY <1>1 DEF Swept, Orders
<1>2. CASE o.st = "live" /\ o.at \in clean
  BY <1>2 DEF Swept, Orders
<1>3. CASE o.st # "flight" /\ ~(o.st = "live" /\ o.at \in clean)
  BY <1>3 DEF Swept, Orders
<1> QED BY <1>1, <1>2, <1>3

(* A restart keeps the invariant. *)
LEMMA RestartSafe == ASSUME IInv, Restart PROVE IInv'
<1>1. PICK clean : /\ ord' = [r \in Receipts |-> Swept(ord[r], clean)]
                   /\ swept' = IF "pmus" \in clean THEN next ELSE 0
  BY DEF Restart
<1>2. /\ mem' = file /\ file' = file /\ latched' = {l \in Lots : file[l].rest # 0}
      /\ pc' = [l \in Lots |-> "idle"] /\ pass' = PassInit
      /\ UNCHANGED <<covered, next, scene>>
  BY DEF Restart, disk
<1>3. /\ ord \in [Receipts -> Orders] /\ covered \in [Receipts -> Nat]
      /\ next \in 0..MaxReceipts /\ MaxReceipts \in Nat
      /\ mem \in [Lots -> Exits] /\ file \in [Lots -> Exits]
      /\ scene \in Scenes /\ Money /\ ReservedOnce
  BY ReceiptAssumption DEF IInv, Typed
<1>4. \A r \in Receipts :
         LET o == ord[r]  p == ord'[r] IN
           /\ p \in Orders /\ p.st # "flight" /\ p.cum = o.cum /\ p.qty = o.qty
           /\ p.rest = o.rest /\ p.at = o.at /\ p.ioc = o.ioc /\ p.old = o.old
           /\ o.st \in {"none", "done"} => p = o
           /\ o.st = "live" => p.st \in {"live", "done"}
           /\ o.st = "flight" => p.st = "none"
           /\ o.at \in clean => p.st \in {"none", "done"}
  <2> SUFFICES ASSUME NEW r \in Receipts
               PROVE LET o == ord[r]  p == ord'[r] IN
           /\ p \in Orders /\ p.st # "flight" /\ p.cum = o.cum /\ p.qty = o.qty
           /\ p.rest = o.rest /\ p.at = o.at /\ p.ioc = o.ioc /\ p.old = o.old
           /\ o.st \in {"none", "done"} => p = o
           /\ o.st = "live" => p.st \in {"live", "done"}
           /\ o.st = "flight" => p.st = "none"
           /\ o.at \in clean => p.st \in {"none", "done"}
    OBVIOUS
  <2>1. ord[r] \in Orders /\ ord'[r] = Swept(ord[r], clean)
    BY <1>1, <1>3
  <2> QED BY <2>1, SweptOrder
<1>5. swept' \in 0..next
  BY <1>1, <1>3
<1>6. Typed'
  <2>1. ord' \in [Receipts -> Orders]
    BY <1>1, <1>4
  <2>2. pc' \in [Lots -> Places]
    BY <1>2 DEF Places
  <2> QED BY <1>2, <1>3, <1>5, <2>1, <2>2, PassInitOK DEF Typed
<1>7. Filed' /\ \A l \in Lots : SameExit(mem'[l], mem[l])
  BY <1>2, <1>3 DEF Money, Filed, SameExit
<1>8. OrdersOK'
  <2> SUFFICES ASSUME NEW r \in Receipts PROVE OrderOK(r)'
    BY DEF OrdersOK
  <2>1. OrderOK(r) /\ ord[r] \in Orders
    BY <1>3 DEF Money, OrdersOK
  <2>2. r > next => ord'[r] = NoOrder /\ covered'[r] = 0
    <3>1. NoOrder.st = "none"
      BY DEF NoOrder
    <3> QED BY <1>2, <1>4, <2>1, <3>1 DEF OrderOK
  <2>3. ord'[r].rest # 0 => /\ ord'[r].ioc /\ ord'[r].st # "live"
                            /\ covered'[r] = 0
    BY <1>2, <1>4, <2>1 DEF OrderOK, Orders
  <2>4. ord'[r].st \in {"none", "flight"} => ord'[r].cum = 0
    BY <1>4, <2>1 DEF OrderOK, Orders
  <2>5. r <= swept' /\ ord'[r].at = "pmus" => ord'[r].st \in {"none", "done"}
    <3>1. r <= swept' => "pmus" \in clean
      BY <1>1 DEF Receipts
    <3> QED BY <1>4, <3>1
  <2>6. ord'[r].st # "flight" /\ next' = next
    BY <1>2, <1>4
  <2> QED BY <2>2, <2>3, <2>4, <2>5, <2>6 DEF OrderOK
<1>9. ExitsOK'
  <2> SUFFICES ASSUME NEW l \in Lots PROVE ExitOK(mem[l])'
    BY DEF ExitsOK
  <2>1. ExitOK(mem[l]) /\ SameExit(mem'[l], mem[l]) /\ mem[l] \in Exits
    BY <1>3, <1>7 DEF Money, ExitsOK
  <2>2. mem[l].rest # 0 => /\ ord'[mem[l].rest].rest = ord[mem[l].rest].rest
                           /\ ord'[mem[l].rest].cum = ord[mem[l].rest].cum
                           /\ ord[mem[l].rest].st = "done" =>
                                    ord'[mem[l].rest].st = "done"
    BY <1>4, <2>1 DEF Exits
  <2>3. mem[l].hedge # 0 => /\ ord'[mem[l].hedge].rest = ord[mem[l].hedge].rest
                            /\ ord'[mem[l].hedge].cum = ord[mem[l].hedge].cum
                            /\ ord'[mem[l].hedge].qty = ord[mem[l].hedge].qty
    BY <1>4, <2>1 DEF Exits
  <2> QED BY <1>2, <2>1, <2>2, <2>3 DEF ExitOK, SameExit
<1>10. OneOwner' /\ NoneStray'
  <2>1. OneOwner'
    BY <1>3, <1>7 DEF Money, OneOwner, SameExit
  <2>2. NoneStray'
    BY <1>4 DEF NoneStray
  <2> QED BY <2>1, <2>2
<1>11. LetGoIsClosed'
  <2> SUFFICES ASSUME NEW r \in 1..next, ord'[r].rest = 0,
                      \A l \in Lots : mem'[l].rest # r
               PROVE  ord'[r].st \in {"none", "done"} /\ covered'[r] = ord'[r].cum
    BY <1>2 DEF LetGoIsClosed, LetGo
  <2>1. r \in Receipts
    BY <1>3 DEF Receipts
  <2>2. ord[r].rest = 0 /\ \A l \in Lots : mem[l].rest # r
    BY <1>4, <1>7, <2>1 DEF SameExit
  <2>3. ord[r].st \in {"none", "done"} /\ covered[r] = ord[r].cum
    BY <1>3, <2>2 DEF Money, LetGoIsClosed, LetGo
  <2> QED BY <1>2, <1>4, <2>1, <2>3
<1>12. TasksOK'
  BY <1>2 DEF TasksOK, TaskOK
<1>13. UncertainIsLatched'
  BY <1>2 DEF UncertainIsLatched, Busy
<1>14. \A l \in Lots : mem'[l].members = mem[l].members
  BY <1>7 DEF SameExit
<1>15. ReservedOnce' /\ PlansOK'
  <2>1. \A l \in Lots : MembersOf(mem[l])' = MembersOf(mem[l])
    BY <1>14, ReservedSame
  <2>2. PlansOK'
    BY <1>2, PassInitOK DEF PlansOK
  <2> QED BY <1>3, <2>1, <2>2 DEF ReservedOnce
<1> QED BY <1>6, <1>7, <1>8, <1>9, <1>10, <1>11, <1>12, <1>13, <1>15
        DEF IInv, Money
---------------------------------------------------------------------------
(* The invariant and what follows from it.                                 *)

(* Every step of an owner's task keeps the invariant. *)
LEMMA AdvanceSafe == ASSUME IInv, NEW l \in Lots, Advance(l) PROVE IInv'
<1>1. CASE NoPrice(l)
  BY <1>1, ParkAsIs DEF NoPrice, Step, venue
<1>2. CASE HedgeUnknown(l)
  BY <1>2, ParkAsIs DEF HedgeUnknown, Step, venue
<1> QED BY <1>1, <1>2, PlacedSafe, PlaceRefusedSafe, PlaceUnknownSafe,
           RecoverSafe, LookAtRestSafe, ReadPulledSafe, SettledSafe,
           SendHedgeSafe, HedgeTakenSafe, HedgeRefusedSafe, AskHedgeSafe,
           BookSafe, ForgetSafe DEF Advance

(* Nothing happens. *)
LEMMA StutterSafe == ASSUME IInv, UNCHANGED vars PROVE IInv'
<1>1. /\ UNCHANGED <<venue, next, disk, task, scene, swept>> /\ UNCHANGED pass
  BY DEF vars, venue, disk, task
<1>2. pass' \in Passes /\ Reserved' = Reserved
  BY <1>1, ReservedSame DEF IInv, Typed, task
<1>3. PlansOK'
  BY <1>1, <1>2 DEF IInv, PlansOK
<1> QED BY <1>1, <1>2, <1>3, PlansMove

(* Every step keeps the invariant. *)
LEMMA NextSafe == IInv /\ [Next]_vars => IInv'
<1> SUFFICES ASSUME IInv, [Next]_vars PROVE IInv'
  OBVIOUS
<1>1. ASSUME NEW r \in Receipts, Land(r) PROVE IInv'
  BY <1>1, LandRestSafe, LandHedgeSafe
<1>2. ASSUME NEW r \in Receipts, Fill(r) \/ Expire(r) \/ Age(r) PROVE IInv'
  BY <1>2, FillSafe, ExpireSafe, AgeSafe
<1>3. ASSUME NEW l \in Lots, Advance(l) \/ Manage(l) PROVE IInv'
  BY <1>3, AdvanceSafe, ManageSafe
<1>4. ASSUME NEW l \in Lots,
             PassPlans(l) \/ Regroup(l) \/ ChooseGroup(l) \/ PlaceGroup(l)
      PROVE  IInv'
  BY <1>4, PassPlansSafe, RegroupSafe, ChooseGroupSafe, PlaceGroupSafe
<1>5. CASE UNCHANGED vars
  BY <1>5, StutterSafe
<1> QED BY <1>1, <1>2, <1>3, <1>4, <1>5, PassTurnsSafe, RestartSafe DEF Next

(* Files agree with memory, every order is either spoken for or finished,  *)
(* every count an exit keeps is the venues' own, and what is planned is in *)
(* no exit: in every state of every behaviour.                             *)
THEOREM ExitInvariant == Spec => []IInv
<1>1. Init => IInv
  BY InitSafe
<1>2. IInv /\ [Next]_vars => IInv'
  BY NextSafe
<1> QED BY <1>1, <1>2, PTL DEF Spec

(* What the invariant says of closes. *)
LEMMA NeverOver == IInv => NeverOverHedged
<1> SUFFICES ASSUME IInv, NEW r \in Receipts PROVE covered[r] <= ord[r].cum
  BY DEF NeverOverHedged
<1>1. /\ OrderOK(r) /\ ord[r] \in Orders /\ covered[r] \in Nat
      /\ next \in 0..MaxReceipts /\ NoOrder.cum = 0
  BY DEF IInv, Typed, Money, OrdersOK, NoOrder
<1>2. ord[r].cum \in Nat
  BY <1>1 DEF Orders
<1>3. CASE r > next \/ ord[r].rest # 0
  <2>1. covered[r] = 0
    BY <1>1, <1>3 DEF OrderOK
  <2> QED BY <1>2, <2>1
<1>4. CASE r \in 1..next /\ ord[r].rest = 0 /\ \A l \in Lots : mem[l].rest # r
  <2>1. covered[r] = ord[r].cum
    BY <1>4 DEF IInv, Money, LetGoIsClosed, LetGo
  <2> QED BY <1>2, <2>1
<1>5. ASSUME NEW l \in Lots, mem[l].rest = r PROVE covered[r] <= ord[r].cum
  <2>1. ExitOK(mem[l]) /\ mem[l] \in Exits /\ r # 0
    BY OwnerFacts DEF Receipts
  <2>2. mem[l].hedged \in Nat /\ mem[l].filled \in Nat
    BY <2>1 DEF Exits
  <2>3. CASE ~mem[l].final
    BY <1>2, <1>5, <2>1, <2>3 DEF ExitOK
  <2>4. CASE mem[l].final /\ mem[l].hedge = 0
    BY <1>5, <2>1, <2>4 DEF ExitOK
  <2>5. CASE mem[l].final /\ mem[l].hedge # 0
    <3>1. /\ ord[mem[l].hedge].cum <= mem[l].filled - mem[l].hedged
          /\ covered[r] = mem[l].hedged + ord[mem[l].hedge].cum
          /\ mem[l].filled = ord[r].cum
      BY <1>5, <2>1, <2>5 DEF ExitOK
    <3>2. mem[l].hedge \in Receipts
      BY <2>5, OwnerFacts
    <3>3. ord[mem[l].hedge].cum \in Nat
      BY <3>2 DEF IInv, Typed, Orders
    <3> QED BY <2>2, <3>1, <3>3
  <2> QED BY <2>3, <2>4, <2>5
<1>6. r > next \/ r \in 1..next
  BY <1>1 DEF Receipts
<1> QED BY <1>3, <1>4, <1>5, <1>6

(* The venues never close more against a rest than it has filled, whatever *)
(* is lost, delayed or crashed, for any number of lots, orders and starts. *)
THEOREM NothingHedgedTwice == Spec => []NeverOverHedged
BY ExitInvariant, NeverOver, PTL

(* What no lot speaks for any more is dead at its venue and closed.        *)
THEOREM NothingLeftBehind == Spec => []LetGoIsClosed
<1>1. IInv => LetGoIsClosed
  BY DEF IInv, Money
<1> QED BY <1>1, ExitInvariant, PTL

(* No lot is in two exits, so the stop in reservations() is never reached. *)
THEOREM NoLotInTwoExits == Spec => []ReservedOnce
<1>1. IInv => ReservedOnce
  BY DEF IInv
<1> QED BY <1>1, ExitInvariant, PTL

(* An uncertain exit that nobody is advancing holds its market back.       *)
THEOREM UncertainHoldsMarket == Spec => []UncertainIsLatched
<1>1. IInv => UncertainIsLatched
  BY DEF IInv
<1> QED BY <1>1, ExitInvariant, PTL

---------------------------------------------------------------------------
(* The promise is kept: each step of the maker exit is one of its moves.   *)

Alive(r) == ord[r].st \in {"flight", "live"}
NoTrade(r) == /\ ord'[r].rest = ord[r].rest /\ ord'[r].cum = ord[r].cum
              /\ Alive(r)' => Alive(r)
SameRests == \A l \in Lots : mem'[l].rest = mem[l].rest

(* Orders may die, and nothing that the promise speaks of moves.           *)
LEMMA Quiet ==
    ASSUME IInv, UNCHANGED <<covered, next>>, SameRests,
           \A r \in Receipts : NoTrade(r)
    PROVE  Contract!Die
<1>1. next \in 0..MaxReceipts /\ MaxReceipts \in Nat
  BY ReceiptAssumption DEF IInv, Typed
<1>2. Held' = Held
  BY DEF Held, SameRests
<1>3. LetGo' = LetGo
  <2>1. \A r \in 1..next : r \in Receipts
    BY <1>1 DEF Receipts
  <2> QED BY <2>1 DEF LetGo, SameRests, NoTrade
<1>4. Traded' = Traded
  BY DEF Traded, NoTrade
<1>5. MayTrade' \subseteq MayTrade
  BY DEF MayTrade, NoTrade, Alive
<1> QED BY <1>2, <1>3, <1>4, <1>5 DEF Contract!Die

(* A step of a task that no rest notices. *)
LEMMA QuietTask ==
    ASSUME IInv, NEW l \in Lots, NEW s, mem' = [mem EXCEPT ![l] = s],
           s.rest = mem[l].rest, UNCHANGED <<ord, covered, next>>
    PROVE  Contract!Die
<1>1. SameRests
  BY DEF SameRests, IInv, Typed
<1>2. \A r \in Receipts : NoTrade(r)
  BY DEF NoTrade, Alive
<1> QED BY <1>1, <1>2, Quiet

(* The same, when one order changes its state without a trade.             *)
LEMMA QuietOrder ==
    ASSUME IInv, NEW r \in Receipts, NEW o, ord' = [ord EXCEPT ![r] = o],
           o.rest = ord[r].rest, o.cum = ord[r].cum,
           o.st \in {"flight", "live"} => Alive(r),
           UNCHANGED <<covered, next>>, SameRests
    PROVE  Contract!Die
<1>1. ord \in [Receipts -> Orders]
  BY DEF IInv, Typed
<1>2. \A q \in Receipts : NoTrade(q)
  BY <1>1 DEF NoTrade, Alive
<1> QED BY <1>2, Quiet

(* An order trades. *)
LEMMA OrderTrades ==
    ASSUME IInv, NEW r \in Receipts, NEW o, ord' = [ord EXCEPT ![r] = o],
           Alive(r), ord[r].rest = 0, o.rest = 0,
           o.cum \in Nat, o.cum >= ord[r].cum,
           UNCHANGED <<covered, next, mem>>
    PROVE  Contract!Trade(r)
<1>1. ord \in [Receipts -> Orders]
  BY DEF IInv, Typed
<1>2. \A q \in Receipts : ord'[q] = IF q = r THEN o ELSE ord[q]
  BY <1>1
<1>3. next \in 0..MaxReceipts /\ MaxReceipts \in Nat
  BY ReceiptAssumption DEF IInv, Typed
<1>4. \A q \in 1..next : q \in Receipts
  BY <1>3 DEF Receipts
<1>5. Held' = Held /\ LetGo' = LetGo
  BY <1>2, <1>4 DEF Held, LetGo
<1>6. r \in MayTrade /\ MayTrade' \in {MayTrade, MayTrade \ {r}}
  BY <1>2 DEF MayTrade, Alive
<1>7. Traded[r] = ord[r].cum /\ Traded'[r] = o.cum
  BY <1>2 DEF Traded
<1>8. Traded' = [Traded EXCEPT ![r] = Traded'[r]]
  <2>1. \A q \in Receipts \ {r} : Traded'[q] = Traded[q]
    BY <1>2 DEF Traded
  <2>2. Traded = [q \in Receipts |-> Traded[q]] /\ Traded' = [q \in Receipts |-> Traded'[q]]
    BY DEF Traded
  <2> HIDE DEF Traded
  <2> QED BY <2>1, <2>2
<1> QED BY <1>5, <1>6, <1>7, <1>8 DEF Contract!Trade

(* Fills and expiries keep the promise. *)
LEMMA VenuePromise ==
    ASSUME IInv, NEW r \in Receipts, Fill(r) \/ Expire(r) \/ Age(r)
    PROVE  Contract!Move
<1>1. ord[r] \in Orders
  BY DEF IInv, Typed
<1>2. CASE Fill(r)
  <2> DEFINE c == ord[r].cum + 1
             v == IF ord[r].cum + 1 = ord[r].qty THEN "done" ELSE "live"
             o == [ord[r] EXCEPT !.cum = c, !.st = v]
  <2>1. /\ ord' = [ord EXCEPT ![r] = o] /\ Alive(r)
        /\ UNCHANGED <<covered, next, mem>>
    BY <1>2 DEF Fill, Alive, task
  <2>2. ord[r].rest = 0
    BY <1>2 DEF Fill, IInv, Money, OrdersOK, OrderOK
  <2>3. c \in Nat /\ c >= ord[r].cum
    <3>1. ord[r].cum \in Nat
      BY <1>1 DEF Orders
    <3> QED BY <3>1
  <2>4. o.rest = 0 /\ o.cum = c
    <3> HIDE DEF c, v
    <3> QED BY <1>1, <2>2 DEF Orders
  <2> HIDE DEF c, o
  <2>5. Contract!Trade(r)
    BY <2>1, <2>2, <2>3, <2>4, OrderTrades
  <2> QED BY <2>5 DEF Contract!Move
<1>3. CASE Expire(r)
  <2> DEFINE o == [ord[r] EXCEPT !.st = "done"]
  <2>1. /\ ord' = [ord EXCEPT ![r] = o] /\ SameRests
        /\ UNCHANGED <<covered, next>>
    BY <1>3 DEF Expire, task, SameRests
  <2>2. o.rest = ord[r].rest /\ o.cum = ord[r].cum /\ o.st = "done"
    BY <1>1 DEF Orders
  <2> HIDE DEF o
  <2> QED BY <2>1, <2>2, QuietOrder DEF Contract!Move
<1>4. CASE Age(r)
  <2> DEFINE o == [ord[r] EXCEPT !.old = TRUE]
  <2>1. /\ ord' = [ord EXCEPT ![r] = o] /\ SameRests
        /\ UNCHANGED <<covered, next>>
    BY <1>4 DEF Age, task, SameRests
  <2>2. o.rest = ord[r].rest /\ o.cum = ord[r].cum /\ o.st = ord[r].st
    BY <1>1 DEF Orders
  <2> HIDE DEF o
  <2> QED BY <2>1, <2>2, QuietOrder DEF Contract!Move, Alive
<1> QED BY <1>2, <1>3, <1>4

(* A request that lands keeps the promise. *)
LEMMA LandPromise ==
    ASSUME IInv, NEW r \in Receipts, Land(r) PROVE Contract!Move
<1>1. /\ ord[r].st = "flight" /\ Alive(r) /\ r # 0
      /\ UNCHANGED <<next, mem>>
  BY DEF Land, task, Alive, Receipts
<1>2. /\ ord[r] \in Orders /\ OrderOK(r) /\ ord \in [Receipts -> Orders]
      /\ covered \in [Receipts -> Nat]
  BY DEF IInv, Typed, Money, OrdersOK
<1>3. ord[r].cum = 0
  BY <1>1, <1>2 DEF OrderOK
<1>4. CASE ord' = [ord EXCEPT ![r].st = "live"] /\ UNCHANGED covered
  <2> DEFINE o == [ord[r] EXCEPT !.st = "live"]
  <2>1. o.rest = ord[r].rest /\ o.cum = ord[r].cum
    BY <1>2 DEF Orders
  <2>2. ord' = [ord EXCEPT ![r] = o] /\ SameRests
    BY <1>1, <1>4 DEF SameRests
  <2> HIDE DEF o
  <2> QED BY <1>1, <1>4, <2>1, <2>2, QuietOrder DEF Contract!Move
<1>5. ASSUME NEW n \in 0..Total, n <= ord[r].qty,
             ord' = [ord EXCEPT ![r].st = "done", ![r].cum = n],
             covered' = IF ord[r].rest = 0 THEN covered
                        ELSE [covered EXCEPT ![ord[r].rest] = @ + n]
      PROVE  Contract!Move
  <2> DEFINE o == [ord[r] EXCEPT !.st = "done", !.cum = n]
  <2>1. o.rest = ord[r].rest /\ o.cum = n /\ o.st = "done"
    BY <1>2 DEF Orders
  <2>2. ord' = [ord EXCEPT ![r] = o]
    BY <1>2, <1>5
  <2>5. n \in Nat /\ n >= 0
    BY TotalAssumption
  <2> HIDE DEF o
  <2>3. CASE ord[r].rest = 0
    <3>1. Contract!Trade(r)
      <4>1. o.cum \in Nat /\ o.cum >= ord[r].cum
        BY <1>3, <2>1, <2>5
      <4>2. UNCHANGED <<covered, next, mem>>
        BY <1>1, <1>5, <2>3
      <4> QED BY <1>1, <2>1, <2>2, <2>3, <4>1, <4>2, OrderTrades
    <3> QED BY <3>1 DEF Contract!Move
  <2>4. CASE ord[r].rest # 0
    <3>1. PICK l \in Lots : mem[l].hedge = r
      BY <1>1, <2>4, Spoken
    <3> DEFINE q == mem[l].rest
    <3>2. /\ mem[l] \in Exits /\ ExitOK(mem[l]) /\ q # 0 /\ q \in Receipts
      BY <1>1, <3>1, OwnerFacts DEF ExitOK
    <3>3. /\ ord[r].rest = q /\ r # q /\ ord[q].rest = 0 /\ ord[q].st = "done"
          /\ ord[r].qty = ord[q].cum - mem[l].hedged
          /\ covered[q] = mem[l].hedged
      BY <1>1, <1>3, <2>4, <3>1, <3>2 DEF ExitOK, Exits
    <3>4. covered' = [covered EXCEPT ![q] = covered[q] + n]
      BY <1>2, <1>5, <2>4, <3>2, <3>3
    <3>5. covered'[q] = covered[q] + n /\ covered[q] \in Nat
      BY <1>2, <3>2, <3>4
    <3>6. mem[l].hedged \in Nat /\ ord[q].cum \in Nat
      BY <1>2, <3>2 DEF Exits, Orders
    <3>7. covered'[q] \in covered[q]..ord[q].cum
      BY <1>5, <2>5, <3>3, <3>5, <3>6
    <3>8. \A x \in Receipts : ord'[x].rest = ord[x].rest
      BY <1>2, <2>1, <2>2
    <3>14. \A x \in Receipts : ord[x].rest = 0 =>
                ord'[x].st = ord[x].st /\ ord'[x].cum = ord[x].cum
      BY <1>2, <2>2, <2>4
    <3>9. Held' = Held /\ MayTrade' = MayTrade /\ Traded' = Traded
      <4>1. Held' = Held
        BY <1>1 DEF Held
      <4>2. MayTrade' = MayTrade
        BY <3>8, <3>14 DEF MayTrade
      <4>3. Traded' = Traded
        BY <3>8, <3>14 DEF Traded
      <4> QED BY <4>1, <4>2, <4>3
    <3>10. LetGo' = LetGo
      <4>1. next \in 0..MaxReceipts /\ MaxReceipts \in Nat
        BY ReceiptAssumption DEF IInv, Typed
      <4>2. \A x \in 1..next : x \in Receipts
        BY <4>1 DEF Receipts
      <4>3. \A x \in 1..next : ord'[x].rest = ord[x].rest
        BY <3>8, <4>2
      <4> QED BY <1>1, <4>3 DEF LetGo
    <3>11. q \in Held /\ q \notin MayTrade /\ Traded[q] = ord[q].cum
      BY <3>2, <3>3 DEF Held, MayTrade, Traded
    <3>12. covered' = [covered EXCEPT ![q] = covered'[q]]
      BY <1>2, <3>4, <3>5
    <3>13. Contract!Close(q)
      BY <3>7, <3>9, <3>10, <3>11, <3>12 DEF Contract!Close
    <3> QED BY <3>2, <3>13 DEF Contract!Move
  <2> QED BY <2>3, <2>4
<1> QED BY <1>4, <1>5 DEF Land

(* An owner lets its rest go: dead and closed, or refused just now.        *)
LEMMA OwnerLets ==
    ASSUME IInv, NEW l \in Lots, NEW q \in Receipts, mem[l].rest = q,
           mem' = [mem EXCEPT ![l] = Free], UNCHANGED <<covered, next>>,
           covered[q] = ord[q].cum, ~Alive(q) \/ ord[q].cum = 0, ~Alive(q)',
           \A r \in Receipts : /\ ord'[r].rest = ord[r].rest
                               /\ ord'[r].cum = ord[r].cum,
           \A r \in Receipts \ {q} : Alive(r)' <=> Alive(r)
    PROVE  Contract!LetGo(q)
<1>1. /\ mem \in [Lots -> Exits] /\ OneOwner
      /\ next \in 0..MaxReceipts /\ MaxReceipts \in Nat
  BY ReceiptAssumption DEF IInv, Typed, Money
<1>2. ExitOK(mem[l]) /\ q # 0
  BY OwnerFacts DEF Receipts
<1>3. q <= next /\ ord[q].rest = 0 /\ q \in 1..next
  BY <1>1, <1>2 DEF ExitOK, Receipts
<1>4. Free.rest = 0
  BY DEF Free
<1>5. /\ mem'[l].rest = 0
      /\ \A k \in Lots \ {l} : mem'[k].rest = mem[k].rest /\ mem[k].rest # q
  BY <1>1, <1>2, <1>4 DEF OneOwner
<1>6. Held' = Held \ {q} /\ q \in Held
  BY <1>2, <1>5 DEF Held
<1>7. LetGo' = LetGo \cup {q}
  <2>1. \A r \in 1..next : r \in Receipts
    BY <1>1 DEF Receipts
  <2>2. \A r \in 1..next : ord'[r].rest = ord[r].rest
    BY <2>1
  <2>3. ASSUME NEW r \in 1..next
        PROVE  (\A k \in Lots : mem'[k].rest # r)
                    <=> (r = q \/ \A k \in Lots : mem[k].rest # r)
    BY <1>2, <1>5
  <2> QED BY <1>3, <2>2, <2>3 DEF LetGo
<1>8. MayTrade' = MayTrade \ {q}
  BY <1>3 DEF MayTrade, Alive
<1>9. Traded' = Traded /\ Traded[q] = ord[q].cum
  BY <1>3 DEF Traded
<1>10. q \notin MayTrade \/ (q \in MayTrade /\ Traded[q] = 0)
  BY <1>3, <1>9 DEF MayTrade, Alive
<1> QED BY <1>6, <1>7, <1>8, <1>9, <1>10 DEF Contract!LetGo, Contract!Refuse

(* An owner that lets go keeps the promise. *)
LEMMA ReleasePromise ==
    ASSUME IInv, NEW l \in Lots, Release(l), mem[l].rest # 0,
           Dead(mem[l].rest), UNCHANGED <<ord, covered, next>>
    PROVE  Contract!Move
<1>5. PICK q \in Receipts : q = mem[l].rest
  BY OwnerFacts
<1>1. mem' = [mem EXCEPT ![l] = Free]
  BY DEF Release, Checkpoint
<1>2. ~Alive(q) /\ ~Alive(q)' /\ covered[q] = ord[q].cum
  BY <1>5 DEF Dead, Alive
<1>3. \A r \in Receipts : Alive(r)' <=> Alive(r)
  BY DEF Alive
<1>4. Contract!LetGo(q)
  BY <1>1, <1>2, <1>3, <1>5, OwnerLets
<1> QED BY <1>4 DEF Contract!Move

(* An owner that parks keeps the promise. *)
LEMMA ParkPromise ==
    ASSUME IInv, NEW l \in Lots, NEW s, Park(l, s), s.rest = mem[l].rest,
           UNCHANGED <<ord, covered, next>>
    PROVE  Contract!Move
BY QuietTask DEF Park, Checkpoint, Contract!Move

(* An owner whose rest goes on keeps the promise. *)
LEMMA RestPromise ==
    ASSUME IInv, NEW l \in Lots,
           Placed(l) \/ PlaceUnknown(l) \/ RecoverRest(l)
    PROVE  Contract!Move
<1>1. mem[l] \in Exits /\ UNCHANGED <<ord, covered, next>>
  BY OwnerFacts DEF Placed, PlaceUnknown, RecoverRest, venue
<1> DEFINE s == [mem[l] EXCEPT !.restKnown = TRUE]
<1>2. s.rest = mem[l].rest
  BY <1>1 DEF Exits
<1> HIDE DEF s
<1>3. CASE mem' = [mem EXCEPT ![l] = s] \/ mem' = [mem EXCEPT ![l] = mem[l]]
  BY <1>1, <1>2, <1>3, QuietTask DEF Contract!Move
<1>4. CASE ProvablyNothing(mem[l].rest) /\ Release(l) /\ pc[l] = "recover"
  <2>1. ~mem[l].final /\ mem[l].rest # 0
    BY <1>4, OwnerFacts DEF TaskOK, ExitOK
  <2> QED BY <1>1, <1>4, <2>1, NothingIsDead, ReleasePromise
<1> QED BY <1>3, <1>4
        DEF Placed, PlaceUnknown, RecoverRest, Step, Checkpoint, Park, s

(* An owner whose rest was refused keeps the promise. *)
LEMMA RefusedPromise ==
    ASSUME IInv, NEW l \in Lots, PlaceRefused(l) PROVE Contract!Move
<1>1. /\ ExitOK(mem[l]) /\ TaskOK("placing", mem[l])
      /\ UNCHANGED <<covered, next>> /\ ord[mem[l].rest].st = "flight"
      /\ mem' = [mem EXCEPT ![l] = Free]
  BY OwnerFacts DEF PlaceRefused, Step, Checkpoint
<1>9. mem[l].rest # 0 /\ ~mem[l].final
  BY <1>1 DEF TaskOK, ExitOK
<1>2. PICK q \in Receipts : q = mem[l].rest /\ q # 0
  BY <1>9, OwnerFacts
<1> DEFINE o == [ord[q] EXCEPT !.st = "none"]
<1>3. ord \in [Receipts -> Orders] /\ OrderOK(q)
  BY <1>2 DEF IInv, Typed, Money, OrdersOK
<1>4. ord[q].cum = 0 /\ covered[q] = 0
  BY <1>1, <1>2, <1>3, <1>9 DEF ExitOK, OrderOK
<1>5. ord' = [ord EXCEPT ![q] = o] /\ o.st = "none" /\ o.rest = ord[q].rest
      /\ o.cum = ord[q].cum
  <2>1. ord[q] \in Orders
    BY <1>2, <1>3
  <2>2. o.st = "none" /\ o.rest = ord[q].rest /\ o.cum = ord[q].cum
    BY <2>1 DEF Orders
  <2>3. ord' = [ord EXCEPT ![q] = o]
    BY <1>2, <1>3 DEF PlaceRefused
  <2> QED BY <2>2, <2>3
<1> HIDE DEF o
<1>6. /\ \A r \in Receipts : /\ ord'[r].rest = ord[r].rest
                              /\ ord'[r].cum = ord[r].cum
      /\ \A r \in Receipts \ {q} : ord'[r] = ord[r]
      /\ ord'[q].st = "none"
  BY <1>2, <1>3, <1>5
<1>7. ~Alive(q)' /\ \A r \in Receipts \ {q} : Alive(r)' <=> Alive(r)
  BY <1>6 DEF Alive
<1>8. Contract!LetGo(q)
  BY <1>1, <1>2, <1>4, <1>6, <1>7, OwnerLets
<1> QED BY <1>2, <1>8 DEF Contract!Move

(* An owner that looks at its rest keeps the promise. *)
LEMMA LookPromise ==
    ASSUME IInv, NEW l \in Lots, LookAtRest(l) \/ ReadPulled(l)
    PROVE  Contract!Move
<1> DEFINE q == mem[l].rest
           s == [mem[l] EXCEPT !.final = TRUE, !.filled = ord[q].cum]
           o == [ord[q] EXCEPT !.st = "done"]
<1>1. /\ mem[l] \in Exits /\ UNCHANGED <<covered, next>>
      /\ pc[l] \in {"rest", "pulled"} /\ TaskOK(pc[l], mem[l])
  BY OwnerFacts DEF LookAtRest, ReadPulled, Step
<1>2. s.rest = q /\ q # 0
  BY <1>1 DEF Exits, TaskOK
<1>3. q \in Receipts
  BY <1>2, OwnerFacts
<1>4. ord \in [Receipts -> Orders] /\ OrderOK(q) /\ ExitOK(mem[l]) /\ ~mem[l].final
  BY <1>1, <1>3, OwnerFacts DEF IInv, Typed, Money, OrdersOK, TaskOK
<1>5. CASE TakeFills(l) \/ ((Keep(l) \/ Park(l, mem[l])) /\ UNCHANGED ord)
  <2>1. /\ UNCHANGED ord
        /\ mem' = [mem EXCEPT ![l] = s] \/ mem' = [mem EXCEPT ![l] = mem[l]]
    BY <1>5 DEF TakeFills, Keep, Park, Checkpoint
  <2> HIDE DEF s
  <2> QED BY <1>1, <1>2, <2>1, QuietTask DEF Contract!Move
<1>6. CASE Pull(l) /\ ord' = ord
  <2>1. mem' = [mem EXCEPT ![l] = mem[l]]
    BY <1>6 DEF Pull, IInv, Typed
  <2> QED BY <1>1, <1>6, <2>1, QuietTask DEF Contract!Move
<1>7. CASE Pull(l) /\ ord' # ord
  <2>1. ord' = [ord EXCEPT ![q] = o] /\ SameRests
    BY <1>3, <1>4, <1>7 DEF Pull, SameRests
  <2>2. o.rest = ord[q].rest /\ o.cum = ord[q].cum /\ o.st = "done"
    <3>1. ord[q] \in Orders
      BY <1>3, <1>4
    <3> QED BY <3>1 DEF Orders
  <2> HIDE DEF o
  <2> QED BY <1>1, <1>3, <2>1, <2>2, QuietOrder DEF Contract!Move
<1>8. Keep(l) => UNCHANGED ord
  BY DEF Keep
<1> QED BY <1>5, <1>6, <1>7, <1>8 DEF LookAtRest, ReadPulled

(* What a task does with its owner that touches neither orders nor rest.   *)
LEMMA HedgePromise ==
    ASSUME IInv, NEW l \in Lots,
           \/ Settled(l) \/ NoPrice(l) \/ HedgeTaken(l) \/ HedgeUnknown(l)
           \/ AskHedge(l) \/ Book(l) \/ Forget(l)
    PROVE  Contract!Move
<1>1. mem[l] \in Exits /\ UNCHANGED <<ord, covered, next>>
      /\ mem \in [Lots -> Exits]
  BY OwnerFacts DEF Settled, NoPrice, HedgeTaken, HedgeUnknown, AskHedge, Book,
     Forget, venue, IInv, Typed
<1> DEFINE s == [mem[l] EXCEPT !.hedgeKnown = TRUE]
           t == [mem[l] EXCEPT !.hedged = @ + ord[mem[l].hedge].cum, !.hedge = 0,
                               !.hedgeKnown = FALSE]
<1>2. s.rest = mem[l].rest /\ t.rest = mem[l].rest
  BY <1>1 DEF Exits
<1>3. mem = [mem EXCEPT ![l] = mem[l]]
  BY <1>1
<1>4. CASE Settled(l)
  <2>1. /\ ExitOK(mem[l]) /\ TaskOK("owed", mem[l]) /\ Release(l)
        /\ mem[l].hedged = mem[l].filled
    BY <1>4, OwnerFacts DEF Settled, Step
  <2>2. mem[l].final /\ mem[l].rest # 0 /\ mem[l].hedge = 0
    BY <2>1 DEF TaskOK
  <2>3. Dead(mem[l].rest)
    BY <2>1, <2>2 DEF ExitOK, Dead
  <2> QED BY <1>1, <2>1, <2>2, <2>3, ReleasePromise
<1>5. CASE NoPrice(l) \/ HedgeUnknown(l)
  BY <1>1, <1>5, ParkPromise DEF NoPrice, HedgeUnknown
<1>6. CASE HedgeTaken(l)
  <2>1. mem' = [mem EXCEPT ![l] = s]
    BY <1>6 DEF HedgeTaken, Checkpoint
  <2> HIDE DEF s
  <2> QED BY <1>1, <1>2, <2>1, QuietTask DEF Contract!Move
<1>7. CASE AskHedge(l)
  <2>1. mem' = [mem EXCEPT ![l] = s] \/ mem' = mem \/ Park(l, mem[l])
    BY <1>7 DEF AskHedge, Remember
  <2> HIDE DEF s
  <2> QED BY <1>1, <1>2, <1>3, <2>1, QuietTask, ParkPromise DEF Contract!Move
<1>8. CASE Book(l)
  <2>1. mem' = mem \/ Park(l, mem[l])
    BY <1>8 DEF Book
  <2> QED BY <1>1, <1>3, <2>1, QuietTask, ParkPromise DEF Contract!Move
<1>9. CASE Forget(l)
  <2>1. mem' = [mem EXCEPT ![l] = t]
    BY <1>9 DEF Forget, Checkpoint, Park
  <2> HIDE DEF t
  <2> QED BY <1>1, <1>2, <2>1, QuietTask DEF Contract!Move
<1> QED BY <1>4, <1>5, <1>6, <1>7, <1>8, <1>9

(* The hedge is no rest: a receipt of its own, and no order that may trade.*)
LEMMA SendPromise ==
    ASSUME IInv, NEW l \in Lots, SendHedge(l) PROVE Contract!Move
<1>1. PICK h : h = next + 1
  OBVIOUS
<1>2. /\ mem[l] \in Exits /\ ExitOK(mem[l]) /\ TaskOK("owed", mem[l])
      /\ ord \in [Receipts -> Orders] /\ mem \in [Lots -> Exits]
      /\ next \in 0..MaxReceipts /\ MaxReceipts \in Nat
  BY ReceiptAssumption, OwnerFacts DEF SendHedge, Step, IInv, Typed
<1> DEFINE s == [mem[l] EXCEPT !.hedge = h, !.hedgeKnown = FALSE]
           qty == mem[l].filled - mem[l].hedged
           at == CloseVenue(mem[l].key)
           o == [NoOrder EXCEPT !.st = "flight", !.qty = qty, !.at = at,
                                !.rest = mem[l].rest, !.ioc = TRUE]
<1>3. /\ h <= scene.orders /\ next' = h /\ ord' = [ord EXCEPT ![h] = o]
      /\ mem' = [mem EXCEPT ![l] = s] /\ covered' = covered
  BY <1>1 DEF SendHedge, Checkpoint
<1> HIDE DEF qty, at
<1>4. s.rest = mem[l].rest /\ mem[l].rest # 0
  BY <1>2 DEF Exits, TaskOK
<1>5. o.rest = mem[l].rest /\ o.cum = 0
  BY DEF NoOrder
<1> HIDE DEF s, o
<1>6. h \in Receipts
  <2>1. scene \in Scenes
    BY DEF IInv, Typed
  <2>2. scene.orders \in 0..MaxReceipts
    BY <2>1, SceneAssumption
  <2> QED BY <1>1, <1>2, <1>3, <2>2 DEF Receipts
<1>7. ord[h] = NoOrder /\ covered[h] = 0
  <2>1. OrderOK(h) /\ h > next
    BY <1>1, <1>2, <1>6 DEF IInv, Money, OrdersOK
  <2> QED BY <2>1 DEF OrderOK
<1>8. /\ ord'[h] = o /\ \A r \in Receipts \ {h} : ord'[r] = ord[r]
      /\ \A k \in Lots : mem'[k].rest = mem[k].rest
  BY <1>2, <1>3, <1>4, <1>6
<1>9. NoOrder.rest = 0 /\ NoOrder.st = "none" /\ NoOrder.cum = 0
  BY DEF NoOrder
<1>10. Held' = Held
  BY <1>8 DEF Held
<1>11. MayTrade' = MayTrade
  BY <1>4, <1>5, <1>7, <1>8, <1>9 DEF MayTrade
<1>12. Traded' = Traded
  <2>1. \A r \in Receipts : (IF ord'[r].rest = 0 THEN ord'[r].cum ELSE 0)
                             = (IF ord[r].rest = 0 THEN ord[r].cum ELSE 0)
    BY <1>4, <1>5, <1>7, <1>8, <1>9
  <2> QED BY <2>1 DEF Traded
<1>13. LetGo' = LetGo
  <2>1. \A r \in 1..next' : r = h \/ r \in 1..next
    BY <1>1, <1>2, <1>3
  <2>2. \A r \in 1..next : r \in 1..next' /\ r \in Receipts /\ r # h
    BY <1>1, <1>2, <1>3 DEF Receipts
  <2> QED BY <1>4, <1>5, <1>8, <2>1, <2>2 DEF LetGo
<1> QED BY <1>3, <1>10, <1>11, <1>12, <1>13 DEF Contract!Move, Contract!Die

(* An owner whose hedge was refused keeps the promise. *)
LEMMA HedgeRefusedPromise ==
    ASSUME IInv, NEW l \in Lots, HedgeRefused(l) PROVE Contract!Move
<1>1. /\ mem[l] \in Exits /\ TaskOK("hedging", mem[l])
      /\ UNCHANGED <<covered, next>> /\ ord \in [Receipts -> Orders]
      /\ mem \in [Lots -> Exits]
  BY OwnerFacts DEF HedgeRefused, Step, IInv, Typed
<1>2. PICK h \in Receipts : h = mem[l].hedge
  BY <1>1, OwnerFacts DEF TaskOK
<1> DEFINE o == [ord[h] EXCEPT !.st = "none"]
           s == [mem[l] EXCEPT !.hedge = 0]
<1>3. ord' = [ord EXCEPT ![h] = o] /\ mem' = [mem EXCEPT ![l] = s]
  BY <1>1, <1>2 DEF HedgeRefused, Park, Checkpoint
<1>4. s.rest = mem[l].rest
  BY <1>1 DEF Exits
<1>5. o.rest = ord[h].rest /\ o.cum = ord[h].cum /\ o.st = "none"
  <2>1. ord[h] \in Orders
    BY <1>1
  <2> QED BY <2>1 DEF Orders
<1> HIDE DEF o, s
<1>6. SameRests
  BY <1>1, <1>3, <1>4 DEF SameRests
<1> QED BY <1>1, <1>3, <1>5, <1>6, QuietOrder DEF Contract!Move

(* Every step of an owner's task keeps the promise. *)
LEMMA AdvancePromise ==
    ASSUME IInv, NEW l \in Lots, Advance(l) PROVE Contract!Move
BY RestPromise, RefusedPromise, LookPromise, HedgePromise, SendPromise,
   HedgeRefusedPromise DEF Advance

(* The pass keeps the promise. *)
LEMMA PassPromise ==
    ASSUME IInv,
           \/ \E l \in Lots : Manage(l) \/ PassPlans(l) \/ Regroup(l) \/ ChooseGroup(l)
           \/ PassTurns
    PROVE  Contract!Move
<1>1. UNCHANGED <<ord, covered, next>>
  BY DEF Manage, PassPlans, Regroup, ChooseGroup, PassTurns, venue
<1>2. SameRests
  <2>1. CASE UNCHANGED mem
    BY <2>1 DEF SameRests
  <2>2. ASSUME NEW l \in Lots, Regroup(l) PROVE SameRests
    <3> DEFINE s == [mem[l] EXCEPT !.regroup = TRUE]
    <3>1. mem' = [mem EXCEPT ![l] = s] /\ mem \in [Lots -> Exits]
      BY <2>2 DEF Regroup, IInv, Typed
    <3>2. s.rest = mem[l].rest
      BY <3>1 DEF Exits
    <3> HIDE DEF s
    <3> QED BY <3>1, <3>2 DEF SameRests
  <2> QED BY <2>1, <2>2 DEF Manage, PassPlans, ChooseGroup, PassTurns, task
<1>3. \A r \in Receipts : NoTrade(r)
  BY <1>1 DEF NoTrade, Alive
<1> QED BY <1>1, <1>2, <1>3, Quiet DEF Contract!Move

(* A group that is placed is a rest taken on.                              *)
LEMMA PlacePromise ==
    ASSUME IInv, NEW l \in Lots, PlaceGroup(l) PROVE Contract!Move
<1>1. CASE UNCHANGED <<next, ord, mem>>
  <2>1. SameRests /\ UNCHANGED covered /\ \A r \in Receipts : NoTrade(r)
    BY <1>1 DEF PlaceGroup, SameRests, NoTrade, Alive
  <2> QED BY <1>1, <2>1, Quiet DEF Contract!Move
<1>2. CASE ~UNCHANGED <<next, ord, mem>>
  <2>0. PICK r : r = next + 1
    OBVIOUS
  <2> DEFINE ms == [m \in Lots |-> IF m \in pass.todo THEN pass.plans[m].qty ELSE 0]
             s == [Free EXCEPT !.rest = r, !.key = pass.plans[l].key, !.members = ms]
             at == RestVenue(pass.plans[l].key)
             o == [NoOrder EXCEPT !.st = "flight", !.qty = Sum(ms), !.at = at,
                      !.ioc = pass.plans[l].key.cross # 0]
  <2>1. /\ ~Busy(l) /\ r <= scene.orders /\ next' = r
        /\ ord' = [ord EXCEPT ![r] = o] /\ mem' = [mem EXCEPT ![l] = s]
        /\ covered' = covered
    <3>1. s.members = ms
      BY DEF Free
    <3>2. s.key = pass.plans[l].key
      BY DEF Free
    <3> QED BY <1>2, <2>0, <3>1, <3>2 DEF PlaceGroup, Checkpoint
  <2>2. s.rest = r
    BY DEF Free
  <2>3. o.rest = 0 /\ o.cum = 0 /\ o.st = "flight"
    BY DEF NoOrder
  <2> HIDE DEF s, o
  <2>4. /\ ord \in [Receipts -> Orders] /\ mem \in [Lots -> Exits]
        /\ next \in 0..MaxReceipts /\ MaxReceipts \in Nat /\ scene \in Scenes
    BY ReceiptAssumption DEF IInv, Typed
  <2>5. r \in Receipts
    <3>1. scene.orders \in 0..MaxReceipts
      BY <2>4, SceneAssumption
    <3> QED BY <2>0, <2>1, <2>4, <3>1 DEF Receipts
  <2>6. ord[r] = NoOrder /\ covered[r] = 0
    <3>1. OrderOK(r) /\ r > next
      BY <2>0, <2>4, <2>5 DEF IInv, Money, OrdersOK
    <3> QED BY <3>1 DEF OrderOK
  <2>7. NoOrder.rest = 0 /\ NoOrder.st = "none" /\ NoOrder.cum = 0
    BY DEF NoOrder
  <2>8. /\ ord'[r] = o /\ \A q \in Receipts \ {r} : ord'[q] = ord[q]
        /\ mem'[l].rest = r /\ mem[l].rest = 0
        /\ \A k \in Lots \ {l} : mem'[k].rest = mem[k].rest
    BY <2>1, <2>2, <2>4, <2>5 DEF Busy
  <2>9. \A k \in Lots : mem[k].rest # r
    <3>1. \A k \in Lots : mem[k].rest # 0 => mem[k].rest <= next
      BY OwnerFacts DEF ExitOK
    <3>2. r > next /\ r # 0
      BY <2>0, <2>4
    <3> QED BY <2>4, <2>5, <3>1, <3>2 DEF Receipts
  <2>10. Held' = Held \cup {r} /\ r \notin Held
    <3>1. r # 0
      BY <2>5 DEF Receipts
    <3> QED BY <2>8, <2>9, <3>1 DEF Held
  <2>11. LetGo' = LetGo /\ r \notin LetGo
    <3>1. \A q \in 1..next' : q = r \/ q \in 1..next
      BY <2>0, <2>1, <2>4
    <3>2. \A q \in 1..next : q \in 1..next' /\ q \in Receipts /\ q # r /\ q # 0
      BY <2>0, <2>1, <2>4 DEF Receipts
    <3>3. r \notin 1..next
      BY <2>0, <2>4
    <3> QED BY <2>8, <3>1, <3>2, <3>3 DEF LetGo
  <2>12. MayTrade' = MayTrade \cup {r}
    BY <2>3, <2>5, <2>8 DEF MayTrade
  <2>13. Traded' = Traded /\ Traded[r] = 0
    <3>1. \A q \in Receipts : (IF ord'[q].rest = 0 THEN ord'[q].cum ELSE 0)
                               = (IF ord[q].rest = 0 THEN ord[q].cum ELSE 0)
      BY <2>3, <2>6, <2>7, <2>8
    <3> QED BY <2>5, <2>6, <2>7, <3>1 DEF Traded
  <2>14. Contract!TakeOn(r)
    BY <2>1, <2>6, <2>10, <2>11, <2>12, <2>13 DEF Contract!TakeOn
  <2> QED BY <2>5, <2>14 DEF Contract!Move
<1> QED BY <1>1, <1>2

(* A restart takes every exit up as it was left, and orders only die.      *)
LEMMA RestartPromise ==
    ASSUME IInv, Restart PROVE Contract!Move
<1>1. PICK clean : ord' = [r \in Receipts |-> Swept(ord[r], clean)]
  BY DEF Restart
<1>2. mem' = file /\ UNCHANGED <<covered, next>>
  BY DEF Restart
<1>3. SameRests
  BY <1>2, OwnerFacts DEF SameRests, SameExit
<1>4. \A r \in Receipts : NoTrade(r)
  <2> SUFFICES ASSUME NEW r \in Receipts PROVE NoTrade(r)
    OBVIOUS
  <2>1. ord[r] \in Orders /\ ord'[r] = Swept(ord[r], clean)
    BY <1>1 DEF IInv, Typed
  <2>2. /\ ord'[r].cum = ord[r].cum /\ ord'[r].rest = ord[r].rest
        /\ ord[r].st \in {"none", "done"} => ord'[r] = ord[r]
        /\ ord'[r].st \in {"none", "live", "done"}
        /\ ord[r].st \in {"none", "flight", "live", "done"}
    <3>1. LET o == ord[r]  p == ord'[r] IN
            /\ p \in Orders /\ p.st # "flight" /\ p.cum = o.cum /\ p.rest = o.rest
            /\ o.st \in {"none", "done"} => p = o
      BY <2>1, SweptOrder
    <3> QED BY <2>1, <3>1 DEF Orders
  <2> QED BY <2>2 DEF NoTrade, Alive
<1> QED BY <1>2, <1>3, <1>4, Quiet DEF Contract!Move

(* Every step keeps the promise. *)
LEMMA NextPromise == IInv /\ [Next]_vars => [Contract!Move]_(Contract!promised)
<1> SUFFICES ASSUME IInv, [Next]_vars PROVE [Contract!Move]_(Contract!promised)
  OBVIOUS
<1>1. ASSUME NEW r \in Receipts, Land(r) \/ Fill(r) \/ Expire(r) \/ Age(r)
      PROVE  Contract!Move
  BY <1>1, LandPromise, VenuePromise
<1>2. ASSUME NEW l \in Lots, Advance(l) \/ PlaceGroup(l) PROVE Contract!Move
  BY <1>2, AdvancePromise, PlacePromise
<1>3. CASE PassTurns \/ \E l \in Lots : Manage(l) \/ PassPlans(l) \/ Regroup(l)
                                         \/ ChooseGroup(l)
  BY <1>3, PassPromise
<1>4. CASE Restart
  BY <1>4, RestartPromise
<1>5. CASE UNCHANGED vars
  BY <1>5 DEF vars, Contract!promised, Held, LetGo, MayTrade, Traded
<1> QED BY <1>1, <1>2, <1>3, <1>4, <1>5 DEF Next

(* The promise begins with nothing held. *)
LEMMA InitPromise == Init => Contract!Begin
<1> SUFFICES ASSUME Init PROVE Contract!Begin
  OBVIOUS
<1>1. Free.rest = 0 /\ NoOrder.st = "none" /\ NoOrder.rest = 0 /\ NoOrder.cum = 0
  BY DEF Free, NoOrder
<1>2. /\ \A l \in Lots : mem[l].rest = 0
      /\ \A r \in Receipts : ord[r] = NoOrder
      /\ next = 0 /\ covered = [r \in Receipts |-> 0]
  BY <1>1 DEF Init
<1>3. Held = {} /\ LetGo = {}
  BY <1>2 DEF Held, LetGo
<1>4. MayTrade = {} /\ Traded = [r \in Receipts |-> 0]
  BY <1>1, <1>2 DEF MayTrade, Traded
<1> QED BY <1>2, <1>3, <1>4 DEF Contract!Begin

(* The maker exit implements its contract, through any crashes, refusals,  *)
(* lost answers and late fills, for any number of lots, orders and starts: *)
(* a rest is closed for only when it can trade no more, never past what it *)
(* traded, is let go of when it is dead and closed, and not taken up again.*)
THEOREM ExitKeepsPromise == Spec => KeepsPromise
<1>1. Init => Contract!Begin
  BY InitPromise
<1>2. IInv /\ [Next]_vars => [Contract!Move]_(Contract!promised)
  BY NextPromise
<1> QED BY <1>1, <1>2, ExitInvariant, PTL
        DEF Spec, KeepsPromise, Contract!Promise

-----------------------------------------------------------------------------
(* Sums of contracts over lots and over receipts.                           *)

(* Lots and receipts are finitely many. *)
LEMMA LotsFinite ==
  /\ NLots \in Nat /\ MaxReceipts \in Nat
  /\ IsFiniteSet(Lots) /\ IsFiniteSet(Receipts)
  /\ \A T \in SUBSET Lots : IsFiniteSet(T)
  /\ \A T \in SUBSET Receipts : IsFiniteSet(T)
<1>1. NLots \in Nat /\ MaxReceipts \in Nat
  BY LotsAssumption, ReceiptAssumption
<1>2. IsFiniteSet(Lots) /\ IsFiniteSet(Receipts)
  BY <1>1, FS_Interval DEF Lots, Receipts
<1> QED
  BY <1>1, <1>2, FS_Subset

(* The sum of a function over its domain. *)
LEMMA SumIs ==
  ASSUME NEW S, NEW f \in [S -> Nat], IsFiniteSet(S)
  PROVE  Sum(f) = SumFunctionOnSet(f, S) /\ Sum(f) \in Nat
<1>1. Sum(f) = SumFunctionOnSet(f, S)
  BY DEF Sum, SumFunction
<1> QED
  BY <1>1, SumType

(* A sum of naturals is none exactly when each of them is. *)
LEMMA SumNone ==
  ASSUME NEW S, IsFiniteSet(S), NEW f, \A x \in S : f[x] \in Nat
  PROVE  SumFunctionOnSet(f, S) = 0 <=> \A x \in S : f[x] = 0
<1>1. ASSUME SumFunctionOnSet(f, S) = 0, NEW x \in S PROVE f[x] = 0
  <2>1. SumFunctionOnSet(f, S) = f[x] + SumFunctionOnSet(f, S \ {x})
    BY SumRemove
  <2>2. IsFiniteSet(S \ {x})
    BY FS_RemoveElement
  <2>3. SumFunctionOnSet(f, S \ {x}) \in Nat
    BY <2>2, SumType
  <2> QED
    BY <1>1, <2>1, <2>3
<1>2. ASSUME \A x \in S : f[x] = 0 PROVE SumFunctionOnSet(f, S) = 0
  <2>1. {} \in SUBSET S /\ \A x \in S \ {} : f[x] = 0
    BY <1>2
  <2>2. SumFunctionOnSet(f, S) = SumFunctionOnSet(f, {})
    BY <2>1, SumSupport
  <2> QED
    BY <2>2, SumEmpty
<1> QED
  BY <1>1, <1>2

-----------------------------------------------------------------------------
(* Shares.  Members are laid out one after another, so a share is what of   *)
(* an interval of contracts falls on the interval of a member.              *)

Clipped(first, size, x) == Lower(first + size, first + Minus(x, first))

(* A share is what two cuts of a member's interval differ by. *)
LEMMA SharesClip ==
  ASSUME NEW s, NEW m, NEW offset \in Nat, NEW qty \in Nat,
         Before(s, m) \in Nat, s.members[m] \in Nat
  PROVE  /\ Allocated(s, offset, qty, m)
              = Clipped(Before(s, m), s.members[m], offset + qty)
                  - Clipped(Before(s, m), s.members[m], offset)
         /\ Allocated(s, offset, qty, m) \in Nat
         /\ Allocated(s, offset, qty, m) <= s.members[m]
<1> DEFINE F == Before(s, m)
           M == s.members[m]
<1>1. F \in Nat /\ M \in Nat
  OBVIOUS
<1>2. Allocated(s, offset, qty, m)
        = Minus(Lower(F + M, offset + qty), Lower(F + M, F + Minus(offset, F)))
  BY DEF Allocated
<1> HIDE DEF F, M
<1>3. Minus(Lower(F + M, offset + qty), Lower(F + M, F + Minus(offset, F)))
        = Clipped(F, M, offset + qty) - Clipped(F, M, offset)
  BY <1>1 DEF Minus, Lower, Clipped
<1>4. /\ Clipped(F, M, offset + qty) - Clipped(F, M, offset) \in Nat
      /\ Clipped(F, M, offset + qty) - Clipped(F, M, offset) <= M
  BY <1>1 DEF Minus, Lower, Clipped
<1> QED
  BY <1>2, <1>3, <1>4 DEF F, M

(* What two hedges one after the other get of a member is what one for both *)
(* would get, and never more than the member has.                           *)
LEMMA SharesAdd ==
  ASSUME NEW s, NEW m, NEW a \in Nat, NEW b \in Nat,
         Before(s, m) \in Nat, s.members[m] \in Nat
  PROVE  /\ Allocated(s, 0, a, m) + Allocated(s, a, b, m) = Allocated(s, 0, a + b, m)
         /\ Allocated(s, 0, a, m) \in Nat /\ Allocated(s, a, b, m) \in Nat
         /\ Allocated(s, 0, a + b, m) <= s.members[m]
<1> DEFINE F == Before(s, m)
           M == s.members[m]
<1>1. F \in Nat /\ M \in Nat /\ a + b \in Nat /\ 0 \in Nat
  OBVIOUS
<1>2. /\ Allocated(s, 0, a, m) = Clipped(F, M, 0 + a) - Clipped(F, M, 0)
      /\ Allocated(s, a, b, m) = Clipped(F, M, a + b) - Clipped(F, M, a)
      /\ Allocated(s, 0, a + b, m) = Clipped(F, M, 0 + (a + b)) - Clipped(F, M, 0)
      /\ Allocated(s, 0, a, m) \in Nat /\ Allocated(s, a, b, m) \in Nat
      /\ Allocated(s, 0, a + b, m) <= M
  BY <1>1, SharesClip
<1>3. /\ Clipped(F, M, 0 + a) \in Nat /\ Clipped(F, M, 0) \in Nat
      /\ Clipped(F, M, a + b) \in Nat /\ 0 + a = a /\ 0 + (a + b) = a + b
  BY <1>1 DEF Clipped, Lower, Minus
<1> HIDE DEF F, M
<1>4. Allocated(s, 0, a, m) + Allocated(s, a, b, m) = Allocated(s, 0, a + b, m)
  BY <1>2, <1>3
<1> QED
  BY <1>2, <1>4 DEF M

-----------------------------------------------------------------------------
(* The shares of all members add up.                                        *)

UpToLot(f, k) == SumFunctionOnSet(f, 1..k)

(* One more lot. *)
LEMMA OneMoreLot ==
  ASSUME NEW f \in [Lots -> Nat]
  PROVE  /\ UpToLot(f, 0) = 0
         /\ \A k \in 0..NLots : UpToLot(f, k) \in Nat
         /\ \A k \in 0..(NLots - 1) :
               k + 1 \in Lots /\ UpToLot(f, k + 1) = UpToLot(f, k) + f[k + 1]
<1>a. NLots \in Nat
  BY LotsFinite
<1>1. UpToLot(f, 0) = 0
  <2>1. 1..0 = {}
    OBVIOUS
  <2> QED
    BY <2>1, SumEmpty DEF UpToLot
<1>2. ASSUME NEW k \in 0..NLots PROVE UpToLot(f, k) \in Nat
  <2> DEFINE S == 1..k
  <2>1. IsFiniteSet(S)
    BY <1>a, FS_Interval
  <2>2. \A x \in S : f[x] \in Nat
    BY <1>a DEF Lots
  <2> HIDE DEF S
  <2>3. SumFunctionOnSet(f, S) \in Nat
    BY <2>1, <2>2, SumType
  <2> QED
    BY <2>3 DEF UpToLot, S
<1>3. ASSUME NEW k \in 0..(NLots - 1)
      PROVE  k + 1 \in Lots /\ UpToLot(f, k + 1) = UpToLot(f, k) + f[k + 1]
  <2>1. k + 1 \in Lots /\ k \in Int
    BY <1>a DEF Lots
  <2>2. /\ 1..(k + 1) = 1..k \cup {k + 1} /\ k + 1 \notin 1..k
        /\ \A x \in 1..k : x \in Lots
    BY <1>a DEF Lots
  <2>3. IsFiniteSet(1..k)
    BY FS_Interval
  <2>4. \A x \in 1..k : f[x] \in Nat
    BY <2>2
  <2>5. f[k + 1] \in Nat
    BY <2>1
  <2>6. SumFunctionOnSet(f, 1..k \cup {k + 1}) = SumFunctionOnSet(f, 1..k) + f[k + 1]
    <3> DEFINE S == 1..k
               e == k + 1
    <3>1. IsFiniteSet(S) /\ (\A x \in S : f[x] \in Nat) /\ e \notin S /\ f[e] \in Nat
      BY <2>2, <2>3, <2>4, <2>5
    <3> HIDE DEF S, e
    <3>2. SumFunctionOnSet(f, S \cup {e}) = SumFunctionOnSet(f, S) + f[e]
      BY <3>1, SumAdd
    <3> QED
      BY <3>2 DEF S, e
  <2> QED
    BY <2>1, <2>2, <2>6 DEF UpToLot
<1> QED
  BY <1>1, <1>2, <1>3

(* Where a member begins. *)
LEMMA BeforeIs ==
  ASSUME NEW s, s.members \in [Lots -> Nat], NEW m \in Lots
  PROVE  Before(s, m) = UpToLot(s.members, m - 1) /\ Before(s, m) \in Nat
<1> DEFINE g == [k \in 1..(m - 1) |-> s.members[k]]
<1>a. NLots \in Nat /\ m \in 1..NLots
  BY LotsFinite DEF Lots
<1>1. /\ IsFiniteSet(1..(m - 1)) /\ m - 1 \in 0..NLots
      /\ \A k \in 1..(m - 1) : k \in Lots
  BY <1>a, FS_Interval DEF Lots
<1>2. g \in [1..(m - 1) -> Nat] /\ \A k \in 1..(m - 1) : g[k] = s.members[k]
  BY <1>1
<1>3. Before(s, m) = Sum(g)
  BY DEF Before
<1> HIDE DEF g
<1>4. Sum(g) = SumFunctionOnSet(g, 1..(m - 1)) /\ Sum(g) \in Nat
  BY <1>1, <1>2, SumIs
<1>5. SumFunctionOnSet(g, 1..(m - 1)) = SumFunctionOnSet(s.members, 1..(m - 1))
  BY <1>1, <1>2, SumSame
<1> QED
  BY <1>3, <1>4, <1>5 DEF UpToLot

(* The contracts a hedge closes are shared out whole, as far as the members *)
(* have contracts.                                                          *)
LEMMA SharesAddUp ==
  ASSUME NEW s, s.members \in [Lots -> Nat], NEW offset \in Nat, NEW qty \in Nat
  PROVE  LET g == [m \in Lots |-> Allocated(s, offset, qty, m)]
         IN  /\ g \in [Lots -> Nat]
             /\ Sum(g) = Lower(Sum(s.members), offset + qty)
                           - Lower(Sum(s.members), offset)
<1> DEFINE g == [m \in Lots |-> Allocated(s, offset, qty, m)]
           f == s.members
           Good == {k \in 0..NLots :
                      UpToLot(g, k) = Lower(UpToLot(f, k), offset + qty)
                                        - Lower(UpToLot(f, k), offset)}
<1>a. NLots \in Nat /\ f \in [Lots -> Nat]
  BY LotsFinite
<1>1. \A m \in Lots : Before(s, m) = UpToLot(f, m - 1) /\ Before(s, m) \in Nat
  BY BeforeIs
<1>2. \A m \in Lots : /\ g[m] = Clipped(UpToLot(f, m - 1), f[m], offset + qty)
                                  - Clipped(UpToLot(f, m - 1), f[m], offset)
                      /\ g[m] \in Nat
  <2> SUFFICES ASSUME NEW m \in Lots
               PROVE  /\ g[m] = Clipped(UpToLot(f, m - 1), f[m], offset + qty)
                                  - Clipped(UpToLot(f, m - 1), f[m], offset)
                      /\ g[m] \in Nat
    OBVIOUS
  <2>1. Before(s, m) = UpToLot(f, m - 1) /\ Before(s, m) \in Nat /\ s.members[m] \in Nat
    BY <1>a, <1>1
  <2>2. g[m] = Allocated(s, offset, qty, m)
    OBVIOUS
  <2>3. /\ Allocated(s, offset, qty, m)
              = Clipped(Before(s, m), s.members[m], offset + qty)
                  - Clipped(Before(s, m), s.members[m], offset)
        /\ Allocated(s, offset, qty, m) \in Nat
    BY <2>1, SharesClip
  <2> QED
    BY <2>1, <2>2, <2>3
<1>3. g \in [Lots -> Nat]
  BY <1>2
<1> HIDE DEF g, f
<1>4. 0 \in Good
  <2>1. UpToLot(g, 0) = 0 /\ UpToLot(f, 0) = 0
    BY <1>a, <1>3, OneMoreLot
  <2>2. Lower(0, offset + qty) - Lower(0, offset) = 0
    BY DEF Lower
  <2> QED
    BY <1>a, <2>1, <2>2
<1>5. ASSUME NEW k \in Good, k # NLots PROVE k + 1 \in Good
  <2>1. k \in 0..(NLots - 1) /\ k \in 0..NLots /\ k + 1 \in 0..NLots /\ (k + 1) - 1 = k
    BY <1>a, <1>5
  <2>2. /\ k + 1 \in Lots /\ UpToLot(f, k) \in Nat /\ UpToLot(g, k) \in Nat
        /\ UpToLot(f, k + 1) = UpToLot(f, k) + f[k + 1]
        /\ UpToLot(g, k + 1) = UpToLot(g, k) + g[k + 1]
    BY <1>a, <1>3, <2>1, OneMoreLot
  <2>3. /\ g[k + 1] = Clipped(UpToLot(f, k), f[k + 1], offset + qty)
                        - Clipped(UpToLot(f, k), f[k + 1], offset)
        /\ f[k + 1] \in Nat
    BY <1>a, <1>2, <2>1, <2>2
  <2> DEFINE F == UpToLot(f, k)
             M == f[k + 1]
  <2>4. UpToLot(g, k) = Lower(F, offset + qty) - Lower(F, offset)
    BY <1>5
  <2>5. F \in Nat /\ M \in Nat
    BY <2>2, <2>3
  <2> HIDE DEF F, M
  <2>6. Lower(F, offset + qty) - Lower(F, offset)
          + (Clipped(F, M, offset + qty) - Clipped(F, M, offset))
        = Lower(F + M, offset + qty) - Lower(F + M, offset)
    BY <2>5 DEF Clipped, Lower, Minus
  <2>7. UpToLot(g, k + 1) = Lower(UpToLot(f, k + 1), offset + qty)
                              - Lower(UpToLot(f, k + 1), offset)
    BY <2>2, <2>3, <2>4, <2>6 DEF F, M
  <2> QED
    BY <2>1, <2>7
<1>6. NLots \in Good
  <2>1. IsFiniteSet(Good) /\ Good \subseteq Int /\ Good # {}
    <3>1. IsFiniteSet(0..NLots) /\ Good \subseteq 0..NLots /\ 0..NLots \subseteq Int
      BY <1>a, FS_Interval
    <3> HIDE DEF Good
    <3> QED
      BY <1>4, <3>1, FS_Subset
  <2> HIDE DEF Good
  <2>2. PICK k \in Good : \A x \in Good : x <= k
    BY <2>1, GreatestOfSet
  <2>3. k \in Int
    BY <2>1
  <2>4. k = NLots
    <3> SUFFICES ASSUME k # NLots PROVE FALSE
      OBVIOUS
    <3>1. k + 1 <= k
      BY <1>5, <2>2
    <3> QED
      BY <2>3, <3>1
  <2> QED
    BY <2>2, <2>4
<1>7. Sum(g) = UpToLot(g, NLots) /\ Sum(f) = UpToLot(f, NLots)
  BY <1>a, <1>3, LotsFinite, SumIs DEF UpToLot, Lots
<1> QED
  BY <1>3, <1>6, <1>7 DEF g, f

-----------------------------------------------------------------------------
(* What is booked, against what the exits know.                             *)

(* The hedges of a rest; those an exit has counted already; what is booked  *)
(* under some receipts of one lot, and of all.                              *)
HedgesOf(r) == {h \in Receipts : ord[h].rest = r}
Past(s) == HedgesOf(s.rest) \ {s.hedge}
LotRows(rows, S, m) == SumFunctionOnSet([h \in Receipts |-> rows[h][m]], S)
AllRows(rows, S) == SumFunctionOnSet([h \in Receipts |-> Sum(rows[h])], S)
RowsUnder(S, m) == LotRows(ledger, S, m)
RowsOf(S) == AllRows(ledger, S)

CountsTyped ==
    /\ ledger \in [Receipts -> [Lots -> Nat]]
    /\ by \in [Lots -> {"none", "pass", "event"}]
    /\ starts \in Nat

(* An order that lives has something left to trade.                         *)
QuantityOK(o) ==
    /\ o.qty \in Nat /\ o.cum <= o.qty
    /\ o.st = "live" => o.cum < o.qty
    /\ o.st = "flight" /\ ~o.ioc => o.qty > 0

QuantitiesOK == \A r \in Receipts : QuantityOK(ord[r])

(* No receipt has more booked than it traded, and none is of a rest to come.*)
RowOK(r) ==
    /\ r > next => \A m \in Lots : ledger[r][m] = 0
    /\ Sum(ledger[r]) <= ord[r].cum
    /\ ord[r].rest <= next

RowsOK == \A r \in Receipts : RowOK(r)

(* Of an exit: what is booked for the hedges it has counted is each         *)
(* member's share of them, and of the hedge under way each share is booked  *)
(* whole or not at all.                                                     *)
BookOK(s) ==
    s.rest # 0 =>
        /\ ord[s.rest].qty = Sum(s.members)
        /\ \A m \in Lots : RowsUnder(Past(s), m) = Allocated(s, 0, s.hedged, m)
        /\ RowsOf(Past(s)) = s.hedged
        /\ s.hedge # 0 => \A m \in Lots : ledger[s.hedge][m] \in {0, Share(s, m)}

BooksOK == \A l \in Lots, s \in Exits : mem[l] = s => BookOK(s)

LetGoBooked == \A r \in LetGo : RowsOf(HedgesOf(r)) = ord[r].cum

(* A lot has room for what an exit still holds of it, and for what a plan   *)
(* would take.                                                              *)
RoomFor(s) ==
    \A m \in Lots : s.members[m] > 0 =>
        Booked(m) + s.members[m] <= Open[m] + RowsUnder(HedgesOf(s.rest), m)

RoomHeld == \A l \in Lots, s \in Exits : mem[l] = s => RoomFor(s)
BookedFits == \A m \in Lots : Booked(m) <= Open[m]
RoomPlanned ==
    \A m \in Lots : pass.plans[m].qty > 0 => Booked(m) + pass.plans[m].qty <= Open[m]

BooksInv == RowsOK /\ BooksOK /\ LetGoBooked /\ RoomHeld /\ BookedFits
BookInv == CountsTyped /\ QuantitiesOK /\ BooksInv /\ RoomPlanned

-----------------------------------------------------------------------------
(* Sums of rows.                                                            *)

(* What is booked under some receipts, one of them set apart. *)
LEMMA RowsAdd ==
  ASSUME NEW rows \in [Receipts -> [Lots -> Nat]], NEW S \in SUBSET Receipts
  PROVE  /\ AllRows(rows, S) \in Nat /\ \A m \in Lots : LotRows(rows, S, m) \in Nat
         /\ \A h \in S : /\ AllRows(rows, S) = AllRows(rows, S \ {h}) + Sum(rows[h])
                         /\ Sum(rows[h]) \in Nat
                         /\ \A m \in Lots : LotRows(rows, S, m)
                                              = LotRows(rows, S \ {h}, m) + rows[h][m]
<1> DEFINE total == [h \in Receipts |-> Sum(rows[h])]
           row(m) == [h \in Receipts |-> rows[h][m]]
<1>1. IsFiniteSet(S)
  BY LotsFinite
<1>2. \A h \in Receipts : Sum(rows[h]) \in Nat
  <2> SUFFICES ASSUME NEW h \in Receipts PROVE Sum(rows[h]) \in Nat
    OBVIOUS
  <2>1. rows[h] \in [Lots -> Nat]
    OBVIOUS
  <2> QED
    BY <2>1, LotsFinite, SumIs
<1>3. \A h \in S : total[h] \in Nat /\ total[h] = Sum(rows[h])
  BY <1>2
<1>4. \A m \in Lots : \A h \in S : row(m)[h] \in Nat /\ row(m)[h] = rows[h][m]
  OBVIOUS
<1> HIDE DEF total, row
<1>5. SumFunctionOnSet(total, S) \in Nat
  BY <1>1, <1>3, SumType
<1>6. \A m \in Lots : SumFunctionOnSet(row(m), S) \in Nat
  BY <1>1, <1>4, SumType
<1>7. ASSUME NEW h \in S
      PROVE  /\ SumFunctionOnSet(total, S) = total[h] + SumFunctionOnSet(total, S \ {h})
             /\ SumFunctionOnSet(total, S \ {h}) \in Nat
             /\ \A m \in Lots :
                  /\ SumFunctionOnSet(row(m), S) = row(m)[h] + SumFunctionOnSet(row(m), S \ {h})
                  /\ SumFunctionOnSet(row(m), S \ {h}) \in Nat
  <2>1. IsFiniteSet(S \ {h})
    BY <1>1, FS_RemoveElement
  <2>2. /\ SumFunctionOnSet(total, S) = total[h] + SumFunctionOnSet(total, S \ {h})
        /\ SumFunctionOnSet(total, S \ {h}) \in Nat
    BY <1>1, <1>3, <2>1, SumRemove, SumType
  <2>3. ASSUME NEW m \in Lots
        PROVE  /\ SumFunctionOnSet(row(m), S) = row(m)[h] + SumFunctionOnSet(row(m), S \ {h})
               /\ SumFunctionOnSet(row(m), S \ {h}) \in Nat
    <3>1. PICK f : f = row(m)
      OBVIOUS
    <3>2. \A x \in S : f[x] \in Nat
      BY <1>4, <3>1
    <3>3. SumFunctionOnSet(f, S) = f[h] + SumFunctionOnSet(f, S \ {h})
      BY <1>1, <3>2, SumRemove
    <3>4. SumFunctionOnSet(f, S \ {h}) \in Nat
      <4>1. \A x \in S \ {h} : f[x] \in Nat
        BY <3>2
      <4> QED
        BY <2>1, <4>1, SumType, Zenon
    <3> QED
      BY <3>1, <3>3, <3>4, Zenon
  <2> QED
    BY <2>2, <2>3
<1>8. /\ \A T : AllRows(rows, T) = SumFunctionOnSet(total, T)
      /\ \A T, m : LotRows(rows, T, m) = SumFunctionOnSet(row(m), T)
  BY DEF AllRows, LotRows, total, row
<1>9. AllRows(rows, S) \in Nat /\ \A m \in Lots : LotRows(rows, S, m) \in Nat
  BY <1>5, <1>6, <1>8
<1>10. ASSUME NEW h \in S
       PROVE  /\ AllRows(rows, S) = AllRows(rows, S \ {h}) + Sum(rows[h])
              /\ Sum(rows[h]) \in Nat
  <2>1. /\ AllRows(rows, S) = total[h] + AllRows(rows, S \ {h})
        /\ AllRows(rows, S \ {h}) \in Nat /\ total[h] \in Nat /\ total[h] = Sum(rows[h])
    BY <1>3, <1>7, <1>8
  <2> QED
    BY <2>1
<1>11. ASSUME NEW h \in S, NEW m \in Lots
       PROVE  LotRows(rows, S, m) = LotRows(rows, S \ {h}, m) + rows[h][m]
  <2>1. /\ LotRows(rows, S, m) = row(m)[h] + LotRows(rows, S \ {h}, m)
        /\ LotRows(rows, S \ {h}, m) \in Nat /\ row(m)[h] \in Nat /\ row(m)[h] = rows[h][m]
    BY <1>4, <1>7, <1>8
  <2> QED
    BY <2>1
<1> QED
  BY <1>9, <1>10, <1>11

(* The same of the ledger, in this state and in the next. *)
LEMMA RowSums ==
  ASSUME CountsTyped, NEW S \in SUBSET Receipts
  PROVE  /\ RowsOf(S) \in Nat /\ \A m \in Lots : RowsUnder(S, m) \in Nat
         /\ \A h \in S : /\ RowsOf(S) = RowsOf(S \ {h}) + Sum(ledger[h])
                         /\ Sum(ledger[h]) \in Nat
                         /\ \A m \in Lots : RowsUnder(S, m)
                                              = RowsUnder(S \ {h}, m) + ledger[h][m]
BY RowsAdd DEF CountsTyped, RowsOf, RowsUnder

(* The same sums after a step. *)
LEMMA RowSumsNext ==
  ASSUME CountsTyped', NEW S \in SUBSET Receipts
  PROVE  /\ \A m \in Lots : RowsUnder(S, m)' \in Nat
         /\ \A h \in S : /\ Sum(ledger'[h]) \in Nat
                         /\ \A m \in Lots : RowsUnder(S, m)'
                                              = RowsUnder(S \ {h}, m)' + ledger'[h][m]
BY RowsAdd DEF CountsTyped, RowsUnder

(* The rows of no receipts. *)
LEMMA NoRows == /\ RowsOf({}) = 0 /\ \A m : RowsUnder({}, m) = 0
BY SumEmpty DEF RowsOf, RowsUnder, AllRows, LotRows

(* A receipt with nothing booked has no rows. *)
LEMMA EmptyRow ==
  ASSUME CountsTyped, NEW h \in Receipts
  PROVE  Sum(ledger[h]) = 0 <=> \A m \in Lots : ledger[h][m] = 0
<1>1. ledger[h] \in [Lots -> Nat] /\ IsFiniteSet(Lots)
  BY LotsFinite DEF CountsTyped
<1>2. Sum(ledger[h]) = SumFunctionOnSet(ledger[h], Lots)
  BY <1>1, SumIs
<1> QED
  BY <1>1, <1>2, SumNone

(* What is booked of a lot, over all receipts. *)
LEMMA BookedIs ==
  ASSUME CountsTyped, NEW m \in Lots
  PROVE  Booked(m) = RowsUnder(Receipts, m) /\ Booked(m) \in Nat
<1> DEFINE row == [h \in Receipts |-> ledger[h][m]]
<1>1. row \in [Receipts -> Nat] /\ IsFiniteSet(Receipts)
  BY LotsFinite DEF CountsTyped
<1>2. Booked(m) = Sum(row) /\ RowsUnder(Receipts, m) = SumFunctionOnSet(row, Receipts)
  BY DEF Booked, RowsUnder, LotRows
<1> HIDE DEF row
<1> QED
  BY <1>1, <1>2, SumIs

(* A share depends on the members alone. *)
LEMMA SharesSame ==
  ASSUME NEW s, NEW t, s.members = t.members
  PROVE  \A offset, qty, m : Allocated(s, offset, qty, m) = Allocated(t, offset, qty, m)
BY DEF Allocated, Before

-----------------------------------------------------------------------------
(* Steps that book nothing.                                                 *)

(* What the orders and the exits keep of themselves in such a step: an      *)
(* order trades only while it lives.                                        *)
KeptOrder(r) ==
    /\ ord'[r].rest = ord[r].rest /\ ord'[r].qty = ord[r].qty
    /\ ord'[r].cum \in Nat /\ ord'[r].cum >= ord[r].cum
    /\ ord'[r].cum # ord[r].cum => ord[r].st \in {"flight", "live"}

SameBook(s, t) ==
    /\ s.rest = t.rest /\ s.members = t.members
    /\ s.hedged = t.hedged /\ s.hedge = t.hedge

(* The rows of an exit, by the receipts they are summed over.               *)
LEMMA RowsAfter ==
  ASSUME ledger' = ledger, \A r \in Receipts : ord'[r].rest = ord[r].rest
  PROVE  /\ \A r : HedgesOf(r)' = HedgesOf(r)
         /\ \A S : RowsOf(S)' = RowsOf(S)
         /\ \A S, m : RowsUnder(S, m)' = RowsUnder(S, m)
         /\ \A m : Booked(m)' = Booked(m)
BY DEF HedgesOf, RowsOf, RowsUnder, Booked

(* What a next state owes an exit, by the receipts it sums over. *)
LEMMA BookNext ==
  ASSUME NEW t, NEW S, S = HedgesOf(t.rest)',
         t.rest # 0 =>
           /\ ord'[t.rest].qty = Sum(t.members)
           /\ \A m \in Lots : RowsUnder(S \ {t.hedge}, m)' = Allocated(t, 0, t.hedged, m)
           /\ RowsOf(S \ {t.hedge})' = t.hedged
           /\ t.hedge # 0 =>
                \A m \in Lots : ledger'[t.hedge][m]
                                  \in {0, Allocated(t, t.hedged, ord'[t.hedge].cum, m)}
  PROVE  BookOK(t)'
BY DEF BookOK, Past, Share, HedgesOf, RowsUnder, RowsOf

(* The same of the room its lots have. *)
LEMMA RoomNext ==
  ASSUME NEW t, NEW S, S = HedgesOf(t.rest)',
         \A m \in Lots : t.members[m] > 0 =>
            Booked(m)' + t.members[m] <= Open[m] + RowsUnder(S, m)'
  PROVE  RoomFor(t)'
BY DEF RoomFor, Booked, HedgesOf, RowsUnder

(* And what a rest let go of has booked. *)
LetGoBook(r) == RowsOf(HedgesOf(r)) = ord[r].cum

(* The same after a step, by the receipts it sums over. *)
LEMMA LetGoNext ==
  ASSUME NEW r, NEW S, S = HedgesOf(r)', RowsOf(S)' = ord'[r].cum
  PROVE  LetGoBook(r)'
BY DEF LetGoBook, HedgesOf, RowsOf

(* All that is let go of is booked when each is. *)
LEMMA LetGoAre ==
  /\ LetGoBooked <=> \A r \in LetGo : LetGoBook(r)
  /\ LetGoBooked' <=> \A r \in LetGo' : LetGoBook(r)'
  /\ Typed => LetGo \in SUBSET Receipts
BY ReceiptAssumption DEF LetGoBooked, LetGoBook, LetGo, Typed, Receipts

(* An exit's books stay good while nothing is booked, unless the hedge     *)
(* under way trades more, and then nothing of it is booked.                *)
LEMMA BookKept ==
  ASSUME NEW s, NEW t, SameBook(s, t), BookOK(s),
         ledger' = ledger, \A r \in Receipts : ord'[r].rest = ord[r].rest,
         s.rest # 0 => ord'[s.rest].qty = ord[s.rest].qty,
         s.hedge # 0 => \/ ord'[s.hedge].cum = ord[s.hedge].cum
                        \/ \A m \in Lots : ledger[s.hedge][m] = 0
  PROVE  BookOK(t)'
<1>1. /\ s.rest = t.rest /\ s.members = t.members
      /\ s.hedged = t.hedged /\ s.hedge = t.hedge
  BY DEF SameBook
<1>2. PICK S : S = HedgesOf(t.rest)'
  OBVIOUS
<1>3. S = HedgesOf(s.rest)
  BY <1>1, <1>2, RowsAfter
<1>4. \A offset, qty, m : Allocated(s, offset, qty, m) = Allocated(t, offset, qty, m)
  BY <1>1, SharesSame
<1>5. ASSUME t.rest # 0
      PROVE  /\ ord'[t.rest].qty = Sum(t.members)
             /\ \A m \in Lots : RowsUnder(S \ {t.hedge}, m)' = Allocated(t, 0, t.hedged, m)
             /\ RowsOf(S \ {t.hedge})' = t.hedged
             /\ t.hedge # 0 =>
                  \A m \in Lots : ledger'[t.hedge][m]
                                    \in {0, Allocated(t, t.hedged, ord'[t.hedge].cum, m)}
  <2>1. /\ ord[s.rest].qty = Sum(s.members)
        /\ \A m \in Lots : RowsUnder(S \ {s.hedge}, m) = Allocated(s, 0, s.hedged, m)
        /\ RowsOf(S \ {s.hedge}) = s.hedged
        /\ s.hedge # 0 => \A m \in Lots :
              ledger[s.hedge][m] \in {0, Allocated(s, s.hedged, ord[s.hedge].cum, m)}
    BY <1>1, <1>3, <1>5 DEF BookOK, Past, Share
  <2>2. /\ \A m : RowsUnder(S \ {t.hedge}, m)' = RowsUnder(S \ {s.hedge}, m)
        /\ RowsOf(S \ {t.hedge})' = RowsOf(S \ {s.hedge})
    BY <1>1, RowsAfter
  <2> QED
    BY <1>1, <1>4, <1>5, <2>1, <2>2

<1> QED
  BY <1>2, <1>5, BookNext

(* So does the room of its lots. *)
LEMMA RoomKept ==
  ASSUME NEW s, NEW t, s.rest = t.rest, s.members = t.members, RoomFor(s),
         ledger' = ledger, \A r \in Receipts : ord'[r].rest = ord[r].rest
  PROVE  RoomFor(t)'
<1>1. PICK S : S = HedgesOf(t.rest)'
  OBVIOUS
<1>2. S = HedgesOf(s.rest)
  BY <1>1, RowsAfter
<1>3. ASSUME NEW m \in Lots, t.members[m] > 0
      PROVE  Booked(m)' + t.members[m] <= Open[m] + RowsUnder(S, m)'
  <2>1. Booked(m) + s.members[m] <= Open[m] + RowsUnder(S, m)
    BY <1>2, <1>3 DEF RoomFor
  <2>2. Booked(m)' = Booked(m) /\ RowsUnder(S, m)' = RowsUnder(S, m)
    BY RowsAfter
  <2> QED
    BY <2>1, <2>2
<1> QED
  BY <1>1, <1>3, RoomNext

(* A hedge in flight has nothing booked. *)
LEMMA FlightUnbooked ==
  ASSUME IInv, BookInv, NEW h \in Receipts, ord[h].rest # 0,
         ord[h].st \in {"none", "flight", "live"}
  PROVE  /\ Sum(ledger[h]) = 0 /\ \A m \in Lots : ledger[h][m] = 0
         /\ ord[h].st # "live"
<1>1. OrderOK(h) /\ RowOK(h) /\ CountsTyped
  BY DEF IInv, Money, OrdersOK, BookInv, BooksInv, RowsOK
<1>2. ord[h].cum = 0 /\ ord[h].st # "live"
  BY <1>1 DEF OrderOK
<1>3. Sum(ledger[h]) \in Nat
  <2>1. ledger[h] \in [Lots -> Nat]
    BY <1>1 DEF CountsTyped
  <2> QED
    BY <2>1, LotsFinite, SumIs
<1>4. Sum(ledger[h]) = 0
  BY <1>1, <1>2, <1>3 DEF RowOK
<1> QED
  BY <1>1, <1>2, <1>4, EmptyRow

(* Nothing is booked, counted or forgotten, and no order is sent.           *)
LEMMA BooksQuiet ==
  ASSUME IInv, BookInv, UNCHANGED <<ledger, next>>,
         \A r \in Receipts : KeptOrder(r),
         \A l \in Lots : SameBook(mem[l], mem'[l])
  PROVE  BooksInv'
<1>1. \A r \in Receipts : /\ ord'[r].rest = ord[r].rest /\ ord'[r].qty = ord[r].qty
                          /\ ord'[r].cum \in Nat /\ ord'[r].cum >= ord[r].cum
  BY DEF KeptOrder
<1>2. RowsOK'
  <2> SUFFICES ASSUME NEW r \in Receipts PROVE RowOK(r)'
    BY DEF RowsOK
  <2>1. RowOK(r) /\ ledger[r] \in [Lots -> Nat] /\ ord[r].cum \in Nat
    <3>1. ord[r] \in Orders
      BY DEF IInv, Typed
    <3> QED
      BY <3>1 DEF BookInv, BooksInv, RowsOK, CountsTyped, Orders
  <2>2. Sum(ledger[r]) \in Nat
    BY <2>1, LotsFinite, SumIs
  <2> QED
    BY <1>1, <2>1, <2>2 DEF RowOK
<1>3. BooksOK'
  <2> SUFFICES ASSUME NEW l \in Lots, NEW t \in Exits, mem'[l] = t PROVE BookOK(t)'
    BY DEF BooksOK
  <2>1. PICK s \in Exits : s = mem[l]
    BY DEF IInv, Typed
  <2>2. BookOK(s) /\ SameBook(s, t) /\ ExitOK(s)
    BY <2>1 DEF BookInv, BooksInv, BooksOK, IInv, Money, ExitsOK
  <2>3. s.rest # 0 => ord'[s.rest].qty = ord[s.rest].qty
    BY <1>1, <2>1 DEF Exits
  <2>4. ASSUME s.hedge # 0, ord'[s.hedge].cum # ord[s.hedge].cum
        PROVE  \A m \in Lots : ledger[s.hedge][m] = 0
    <3>1. PICK h \in Receipts : h = s.hedge
      BY <2>1, <2>4 DEF Exits
    <3>2. ord[h].rest = s.rest /\ s.rest # 0
      BY <2>2, <2>4, <3>1 DEF ExitOK
    <3>3. ord[h].st \in {"flight", "live"}
      BY <2>4, <3>1 DEF KeptOrder
    <3> QED
      BY <3>1, <3>2, <3>3, FlightUnbooked
  <2> QED
    BY <1>1, <2>2, <2>3, <2>4, BookKept
<1>4. LetGoBooked'
  <2>1. LetGo' = LetGo
    <3>1. \A r \in 1..next : r \in Receipts
      BY ReceiptAssumption DEF IInv, Typed, Receipts
    <3> QED
      BY <1>1, <3>1 DEF LetGo, SameBook
  <2>2. ASSUME NEW r \in LetGo PROVE LetGoBook(r)'
    <3>1. PICK S : S = HedgesOf(r)'
      OBVIOUS
    <3>2. LetGoBook(r) /\ r \in Receipts
      BY LetGoAre DEF BookInv, BooksInv, IInv
    <3>3. ord[r].st \in {"none", "done"}
      BY DEF IInv, Money, LetGoIsClosed
    <3>4. ord'[r].cum = ord[r].cum
      BY <3>2, <3>3 DEF KeptOrder
    <3>5. S = HedgesOf(r) /\ RowsOf(S)' = RowsOf(S)
      BY <1>1, <3>1, RowsAfter
    <3>6. RowsOf(S)' = ord'[r].cum
      BY <3>2, <3>4, <3>5 DEF LetGoBook
    <3> QED
      BY <3>1, <3>6, LetGoNext
  <2> QED
    BY <2>1, <2>2, LetGoAre
<1>5. RoomHeld'
  <2> SUFFICES ASSUME NEW l \in Lots, NEW t \in Exits, mem'[l] = t PROVE RoomFor(t)'
    BY DEF RoomHeld
  <2>1. PICK s \in Exits : s = mem[l]
    BY DEF IInv, Typed
  <2>2. RoomFor(s) /\ s.rest = t.rest /\ s.members = t.members
    BY <2>1 DEF BookInv, BooksInv, RoomHeld, SameBook
  <2> QED
    BY <1>1, <2>2, RoomKept
<1>6. BookedFits'
  <2>1. \A m : Booked(m)' = Booked(m)
    BY <1>1, RowsAfter
  <2> QED
    BY <2>1 DEF BookInv, BooksInv, BookedFits
<1> QED
  BY <1>2, <1>3, <1>4, <1>5, <1>6 DEF BooksInv

(* One order changes, and trades only while it lives. *)
LEMMA OneOrder ==
  ASSUME Typed, QuantitiesOK, NEW r \in Receipts, NEW o, ord' = [ord EXCEPT ![r] = o],
         o.rest = ord[r].rest, o.qty = ord[r].qty, o.cum \in Nat, o.cum >= ord[r].cum,
         o.cum # ord[r].cum => ord[r].st \in {"flight", "live"}, QuantityOK(o)
  PROVE  QuantitiesOK' /\ \A q \in Receipts : KeptOrder(q)
<1>1. /\ ord'[r] = o /\ \A q \in Receipts \ {r} : ord'[q] = ord[q]
      /\ \A q \in Receipts : ord[q].cum \in Nat
  BY DEF Typed, Orders
<1>2. ASSUME NEW q \in Receipts PROVE KeptOrder(q)
  BY <1>1 DEF KeptOrder
<1>3. ASSUME NEW q \in Receipts PROVE QuantityOK(ord'[q])
  BY <1>1 DEF QuantitiesOK
<1> QED
  BY <1>2, <1>3 DEF QuantitiesOK, QuantityOK

(* No order changes. *)
LEMMA NoOrderMoves ==
  ASSUME Typed, QuantitiesOK, UNCHANGED ord
  PROVE  QuantitiesOK' /\ \A q \in Receipts : KeptOrder(q)
<1>1. \A q \in Receipts : ord[q].cum \in Nat
  BY DEF Typed, Orders
<1>2. \A q \in Receipts : KeptOrder(q)
  BY <1>1 DEF KeptOrder
<1> QED
  BY <1>2 DEF QuantitiesOK, QuantityOK

(* One exit changes, and its books do not. *)
LEMMA OneExit ==
  ASSUME Typed, NEW l \in Lots, NEW s, mem' = [mem EXCEPT ![l] = s], SameBook(mem[l], s)
  PROVE  \A k \in Lots : SameBook(mem[k], mem'[k])
<1>1. mem'[l] = s /\ \A k \in Lots \ {l} : mem'[k] = mem[k]
  BY DEF Typed
<1> QED
  BY <1>1 DEF SameBook

(* No exit changes. *)
LEMMA NoExitMoves == UNCHANGED mem => \A k \in Lots : SameBook(mem[k], mem'[k])
BY DEF SameBook

(* What the venues do moves no book. *)
LEMMA VenueBooks ==
  ASSUME IInv, BookInv, NEW r \in Receipts,
         Land(r) \/ Fill(r) \/ Expire(r) \/ Age(r)
  PROVE  BooksInv' /\ QuantitiesOK'
<1>1. /\ Typed /\ QuantitiesOK /\ OrderOK(r) /\ ord[r] \in Orders /\ QuantityOK(ord[r])
      /\ ord \in [Receipts -> Orders]
  BY DEF IInv, Typed, Money, OrdersOK, BookInv, QuantitiesOK
<1>2. /\ UNCHANGED <<ledger, next>> /\ UNCHANGED mem
  BY DEF Land, Fill, Expire, Age, disk, task
<1>3. QuantitiesOK' /\ \A q \in Receipts : KeptOrder(q)
  <2>1. CASE Land(r) /\ ~ord[r].ioc
    <3> DEFINE o == [ord[r] EXCEPT !.st = "live"]
    <3>1. /\ o.rest = ord[r].rest /\ o.qty = ord[r].qty /\ o.cum = ord[r].cum /\ o.st = "live"
          /\ ord' = [ord EXCEPT ![r] = o]
      BY <1>1, <2>1 DEF Land, Orders
    <3>2. ord[r].cum = 0 /\ ord[r].qty > 0 /\ ord[r].qty \in Nat
      BY <1>1, <2>1 DEF Land, OrderOK, QuantityOK
    <3> HIDE DEF o
    <3>3. QuantityOK(o) /\ o.cum \in Nat /\ o.cum >= ord[r].cum
      BY <3>1, <3>2 DEF QuantityOK
    <3> QED
      BY <1>1, <3>1, <3>3, OneOrder
  <2>2. CASE Land(r) /\ ord[r].ioc
    <3>1. PICK n \in 0..Total : /\ n <= ord[r].qty
                                /\ ord' = [ord EXCEPT ![r].st = "done", ![r].cum = n]
      BY <2>2 DEF Land
    <3> DEFINE o == [ord[r] EXCEPT !.st = "done", !.cum = n]
    <3>2. /\ o.rest = ord[r].rest /\ o.qty = ord[r].qty /\ o.cum = n /\ o.st = "done"
          /\ ord' = [ord EXCEPT ![r] = o]
      BY <1>1, <3>1 DEF Orders
    <3>3. ord[r].cum = 0 /\ ord[r].qty \in Nat /\ n \in Nat /\ ord[r].st = "flight"
      BY <1>1, <2>2, TotalAssumption DEF Land, OrderOK, QuantityOK
    <3> HIDE DEF o
    <3>4. QuantityOK(o) /\ o.cum \in Nat /\ o.cum >= ord[r].cum
      BY <3>1, <3>2, <3>3 DEF QuantityOK
    <3> QED
      BY <1>1, <3>2, <3>3, <3>4, OneOrder
  <2>3. CASE Fill(r)
    <3> DEFINE st == IF ord[r].cum + 1 = ord[r].qty THEN "done" ELSE "live"
               o == [ord[r] EXCEPT !.cum = @ + 1, !.st = st]
    <3>1. /\ o.rest = ord[r].rest /\ o.qty = ord[r].qty /\ o.cum = ord[r].cum + 1
          /\ o.st = st /\ ord' = [ord EXCEPT ![r] = o]
      BY <1>1, <2>3 DEF Fill, Orders
    <3>2. /\ ord[r].cum \in Nat /\ ord[r].qty \in Nat /\ ord[r].cum < ord[r].qty
          /\ ord[r].st = "live"
      BY <1>1, <2>3 DEF Fill, QuantityOK, Orders
    <3>3. st = "live" => ord[r].cum + 1 < ord[r].qty
      BY <3>2
    <3>4. st \in {"live", "done"}
      OBVIOUS
    <3> HIDE DEF o, st
    <3>5. QuantityOK(o) /\ o.cum \in Nat /\ o.cum >= ord[r].cum
      BY <3>1, <3>2, <3>3, <3>4 DEF QuantityOK
    <3> QED
      BY <1>1, <3>1, <3>2, <3>5, OneOrder
  <2>4. CASE Expire(r)
    <3> DEFINE o == [ord[r] EXCEPT !.st = "done"]
    <3>1. /\ o.rest = ord[r].rest /\ o.qty = ord[r].qty /\ o.cum = ord[r].cum /\ o.st = "done"
          /\ ord' = [ord EXCEPT ![r] = o] /\ ord[r].cum \in Nat
      BY <1>1, <2>4 DEF Expire, Orders
    <3> HIDE DEF o
    <3>2. QuantityOK(o) /\ o.cum \in Nat /\ o.cum >= ord[r].cum
      BY <1>1, <3>1 DEF QuantityOK
    <3> QED
      BY <1>1, <3>1, <3>2, OneOrder
  <2>5. CASE Age(r)
    <3> DEFINE o == [ord[r] EXCEPT !.old = TRUE]
    <3>1. /\ o.rest = ord[r].rest /\ o.qty = ord[r].qty /\ o.cum = ord[r].cum
          /\ o.st = ord[r].st /\ o.ioc = ord[r].ioc
          /\ ord' = [ord EXCEPT ![r] = o] /\ ord[r].cum \in Nat
      BY <1>1, <2>5 DEF Age, Orders
    <3> HIDE DEF o
    <3>2. QuantityOK(o) /\ o.cum \in Nat /\ o.cum >= ord[r].cum
      BY <1>1, <3>1 DEF QuantityOK
    <3> QED
      BY <1>1, <3>1, <3>2, OneOrder
  <2> QED
    BY <2>1, <2>2, <2>3, <2>4, <2>5
<1>4. \A k \in Lots : SameBook(mem[k], mem'[k])
  BY <1>2, NoExitMoves
<1> QED
  BY <1>2, <1>3, <1>4, BooksQuiet

(* Neither does a task that only writes down what it holds. *)
LEMMA TaskBooks ==
  ASSUME IInv, BookInv, NEW l \in Lots, NEW s, mem' = [mem EXCEPT ![l] = s],
         SameBook(mem[l], s), UNCHANGED <<ledger, next>>, UNCHANGED ord
  PROVE  BooksInv' /\ QuantitiesOK'
<1>1. Typed /\ QuantitiesOK
  BY DEF IInv, BookInv
<1>2. QuantitiesOK' /\ \A q \in Receipts : KeptOrder(q)
  BY <1>1, NoOrderMoves
<1>3. \A k \in Lots : SameBook(mem[k], mem'[k])
  BY <1>1, OneExit
<1> QED
  BY <1>2, <1>3, BooksQuiet

(* The lock is let go with the exit as it was. *)
LEMMA ParkBooks ==
  ASSUME IInv, BookInv, NEW l \in Lots, Park(l, mem[l]),
         UNCHANGED <<ledger, next>>, UNCHANGED ord
  PROVE  BooksInv' /\ QuantitiesOK'
<1>1. mem' = [mem EXCEPT ![l] = mem[l]] /\ SameBook(mem[l], mem[l])
  BY DEF Park, Checkpoint, SameBook
<1> QED
  BY <1>1, TaskBooks

(* Nothing an exit knows of its money changes. *)
LEMMA PassBooks ==
  ASSUME IInv, BookInv, UNCHANGED <<ledger, next>>, UNCHANGED ord, UNCHANGED mem
  PROVE  BooksInv' /\ QuantitiesOK'
<1>1. Typed /\ QuantitiesOK
  BY DEF IInv, BookInv
<1>2. QuantitiesOK' /\ \A q \in Receipts : KeptOrder(q)
  BY <1>1, NoOrderMoves
<1> QED
  BY <1>2, NoExitMoves, BooksQuiet

(* The steps of a rest that keep it. *)
LEMMA RestBooks ==
  ASSUME IInv, BookInv, NEW l \in Lots,
         \/ Placed(l) \/ PlaceUnknown(l) \/ LookAtRest(l) \/ ReadPulled(l)
         \/ NoPrice(l) \/ HedgeTaken(l) \/ HedgeUnknown(l) \/ AskHedge(l)
         \/ RecoverRest(l) /\ ~Release(l)
  PROVE  BooksInv' /\ QuantitiesOK'
<1>1. /\ UNCHANGED <<ledger, next>> /\ Typed /\ QuantitiesOK
      /\ mem[l] \in Exits /\ mem \in [Lots -> Exits]
      /\ mem[l].rest # 0 => mem[l].rest \in Receipts
  BY OwnerFacts DEF Placed, PlaceUnknown, LookAtRest, ReadPulled, NoPrice, HedgeTaken,
     HedgeUnknown, AskHedge, RecoverRest, IInv, BookInv, Typed
<1>2. CASE Park(l, mem[l]) /\ UNCHANGED ord
  BY <1>1, <1>2, ParkBooks
<1>3. ASSUME Checkpoint(l, [mem[l] EXCEPT !.restKnown = TRUE]), UNCHANGED ord
      PROVE  BooksInv' /\ QuantitiesOK'
  <2> DEFINE s == [mem[l] EXCEPT !.restKnown = TRUE]
  <2>1. SameBook(mem[l], s) /\ mem' = [mem EXCEPT ![l] = s]
    BY <1>1, <1>3 DEF SameBook, Exits, Checkpoint
  <2> HIDE DEF s
  <2> QED
    BY <1>1, <1>3, <2>1, TaskBooks
<1>4. ASSUME Checkpoint(l, mem[l]), UNCHANGED ord PROVE BooksInv' /\ QuantitiesOK'
  <2>1. SameBook(mem[l], mem[l]) /\ mem' = [mem EXCEPT ![l] = mem[l]]
    BY <1>4 DEF SameBook, Checkpoint
  <2> QED
    BY <1>1, <1>4, <2>1, TaskBooks
<1>5. ASSUME TakeFills(l) PROVE BooksInv' /\ QuantitiesOK'
  <2> DEFINE s == [mem[l] EXCEPT !.final = TRUE, !.filled = ord[mem[l].rest].cum]
  <2>1. SameBook(mem[l], s) /\ mem' = [mem EXCEPT ![l] = s] /\ UNCHANGED ord
    BY <1>1, <1>5 DEF SameBook, Exits, TakeFills, Checkpoint
  <2> HIDE DEF s
  <2> QED
    BY <1>1, <2>1, TaskBooks
<1>6. ASSUME Pull(l), pc[l] = "rest" PROVE BooksInv' /\ QuantitiesOK'
  <2>1. UNCHANGED mem /\ ord' \in {ord, [ord EXCEPT ![mem[l].rest].st = "done"]}
    BY <1>6 DEF Pull
  <2>2. CASE UNCHANGED ord
    BY <1>1, <2>1, <2>2, PassBooks
  <2>3. CASE ord' = [ord EXCEPT ![mem[l].rest].st = "done"]
    <3>1. PICK r \in Receipts : r = mem[l].rest
      BY <1>1, <1>6, OwnerFacts DEF TaskOK
    <3> DEFINE o == [ord[r] EXCEPT !.st = "done"]
    <3>2. ord[r] \in Orders /\ QuantityOK(ord[r]) /\ ord \in [Receipts -> Orders]
      BY <1>1 DEF Typed, QuantitiesOK
    <3>3. /\ o.rest = ord[r].rest /\ o.qty = ord[r].qty /\ o.cum = ord[r].cum /\ o.st = "done"
          /\ ord' = [ord EXCEPT ![r] = o] /\ ord[r].cum \in Nat
      BY <2>3, <3>1, <3>2 DEF Orders
    <3> HIDE DEF o
    <3>4. QuantityOK(o) /\ o.cum \in Nat /\ o.cum >= ord[r].cum
      BY <3>2, <3>3 DEF QuantityOK
    <3>5. QuantitiesOK' /\ \A q \in Receipts : KeptOrder(q)
      BY <1>1, <3>3, <3>4, OneOrder
    <3> QED
      BY <1>1, <2>1, <3>5, NoExitMoves, BooksQuiet
  <2> QED
    BY <2>1, <2>2, <2>3
<1>7. ASSUME Checkpoint(l, [mem[l] EXCEPT !.hedgeKnown = TRUE])
               \/ Remember(l, [mem[l] EXCEPT !.hedgeKnown = TRUE]), UNCHANGED ord
      PROVE  BooksInv' /\ QuantitiesOK'
  <2> DEFINE s == [mem[l] EXCEPT !.hedgeKnown = TRUE]
  <2>1. SameBook(mem[l], s) /\ mem' = [mem EXCEPT ![l] = s]
    BY <1>1, <1>7 DEF SameBook, Exits, Checkpoint, Remember
  <2> HIDE DEF s
  <2> QED
    BY <1>1, <1>7, <2>1, TaskBooks
<1>8. CASE UNCHANGED <<ord, mem>>
  BY <1>1, <1>8, PassBooks
<1>9. CASE Placed(l)
  BY <1>3, <1>9 DEF Placed, venue
<1>10. CASE PlaceUnknown(l)
  BY <1>4, <1>10 DEF PlaceUnknown, venue
<1>11. CASE LookAtRest(l)
  BY <1>2, <1>4, <1>5, <1>6, <1>11 DEF LookAtRest, Step, Keep
<1>12. CASE ReadPulled(l)
  BY <1>2, <1>5, <1>12 DEF ReadPulled
<1>13. CASE NoPrice(l) \/ HedgeUnknown(l)
  BY <1>2, <1>13 DEF NoPrice, HedgeUnknown, venue
<1>14. CASE HedgeTaken(l)
  BY <1>7, <1>14 DEF HedgeTaken, venue
<1>15. CASE AskHedge(l)
  BY <1>2, <1>7, <1>8, <1>15 DEF AskHedge, venue
<1>16. CASE RecoverRest(l) /\ ~Release(l)
  BY <1>2, <1>3, <1>16 DEF RecoverRest, venue
<1> QED
  BY <1>9, <1>10, <1>11, <1>12, <1>13, <1>14, <1>15, <1>16

(* Neither does taking an owner up, planning, or starting again. *)
LEMMA IdleBooks ==
  ASSUME IInv, BookInv, NEW l \in Lots,
         Manage(l) \/ PassPlans(l) \/ Regroup(l) \/ ChooseGroup(l) \/ PassTurns
  PROVE  BooksInv' /\ QuantitiesOK'
<1>1. /\ UNCHANGED <<ledger, next>> /\ UNCHANGED ord /\ Typed /\ mem[l] \in Exits
  BY DEF Manage, PassPlans, Regroup, ChooseGroup, PassTurns, venue, disk, IInv, Typed
<1>2. CASE UNCHANGED mem
  BY <1>1, <1>2, PassBooks
<1>3. CASE Regroup(l)
  <2> DEFINE s == [mem[l] EXCEPT !.regroup = TRUE]
  <2>1. mem' = [mem EXCEPT ![l] = s]
    BY <1>1, <1>3 DEF Regroup, Typed
  <2>2. SameBook(mem[l], s)
    BY <1>1 DEF SameBook, Exits
  <2> HIDE DEF s
  <2> QED
    BY <1>1, <2>1, <2>2, TaskBooks
<1> QED
  BY <1>2, <1>3 DEF Manage, PassPlans, ChooseGroup, PassTurns, task

(* A restart loads what the files have and lets orders die. *)
LEMMA RestartBooks ==
  ASSUME IInv, BookInv, Restart PROVE BooksInv' /\ QuantitiesOK'
<1>1. PICK clean : ord' = [r \in Receipts |-> Swept(ord[r], clean)]
  BY DEF Restart
<1>2. UNCHANGED <<ledger, next>> /\ mem' = file /\ QuantitiesOK /\ ord \in [Receipts -> Orders]
  BY DEF Restart, disk, BookInv, IInv, Typed
<1>3. ASSUME NEW r \in Receipts PROVE KeptOrder(r) /\ QuantityOK(ord'[r])
  <2>1. ord[r] \in Orders /\ QuantityOK(ord[r]) /\ ord'[r] = Swept(ord[r], clean)
    BY <1>1, <1>2 DEF QuantitiesOK
  <2>2. /\ ord'[r].st # "flight" /\ ord'[r].cum = ord[r].cum /\ ord'[r].qty = ord[r].qty
        /\ ord'[r].rest = ord[r].rest /\ ord[r].cum \in Nat
        /\ ord'[r].st = "live" => ord[r].st = "live"
    <3>1. /\ ord'[r].st # "flight" /\ ord'[r].cum = ord[r].cum /\ ord'[r].qty = ord[r].qty
          /\ ord'[r].rest = ord[r].rest
          /\ ord[r].st \in {"none", "done"} => ord'[r] = ord[r]
          /\ ord[r].st = "flight" => ord'[r].st = "none"
      BY <2>1, SweptOrder
    <3> QED
      BY <2>1, <3>1 DEF Orders
  <2> QED
    BY <2>1, <2>2 DEF KeptOrder, QuantityOK
<1>4. \A k \in Lots : SameBook(mem[k], mem'[k])
  BY <1>2 DEF IInv, Money, Filed, SameExit, SameBook
<1>5. QuantitiesOK' /\ \A r \in Receipts : KeptOrder(r)
  BY <1>3 DEF QuantitiesOK, QuantityOK
<1> QED
  BY <1>2, <1>4, <1>5, BooksQuiet

-----------------------------------------------------------------------------
(* Steps that let a rest go, send a hedge, or book it.                      *)

(* Rows that no step touched. *)
LEMMA RowsAlone ==
  ASSUME CountsTyped, NEW S \in SUBSET Receipts, \A q \in S : ledger'[q] = ledger[q]
  PROVE  /\ RowsOf(S)' = RowsOf(S)
         /\ \A m \in Lots : RowsUnder(S, m)' = RowsUnder(S, m)
<1>1. IsFiniteSet(S)
  BY LotsFinite
<1> DEFINE total == [h \in Receipts |-> Sum(ledger[h])]
           totalN == [h \in Receipts |-> Sum(ledger'[h])]
           row(m) == [h \in Receipts |-> ledger[h][m]]
           rowN(m) == [h \in Receipts |-> ledger'[h][m]]
<1>2. \A q \in S : total[q] = totalN[q] /\ \A m \in Lots : row(m)[q] = rowN(m)[q]
  OBVIOUS
<1>3. /\ RowsOf(S)' = SumFunctionOnSet(totalN, S) /\ RowsOf(S) = SumFunctionOnSet(total, S)
      /\ \A m : RowsUnder(S, m)' = SumFunctionOnSet(rowN(m), S)
      /\ \A m : RowsUnder(S, m) = SumFunctionOnSet(row(m), S)
  BY DEF RowsOf, RowsUnder, AllRows, LotRows
<1> HIDE DEF total, totalN, row, rowN
<1>4. SumFunctionOnSet(totalN, S) = SumFunctionOnSet(total, S)
  BY <1>1, <1>2, SumSame
<1>5. ASSUME NEW m \in Lots PROVE SumFunctionOnSet(rowN(m), S) = SumFunctionOnSet(row(m), S)
  BY <1>1, <1>2, SumSame
<1> QED
  BY <1>3, <1>4, <1>5

(* The books of an exit none of whose orders is touched. *)
LEMMA OtherBook ==
  ASSUME IInv, BookInv, NEW k \in Lots, NEW s \in Exits, s = mem[k],
         s.rest # 0 => /\ HedgesOf(s.rest)' = HedgesOf(s.rest)
                       /\ \A q \in HedgesOf(s.rest) : ledger'[q] = ledger[q]
                       /\ ord'[s.rest].qty = ord[s.rest].qty,
         s.hedge # 0 => ord'[s.hedge].cum = ord[s.hedge].cum
  PROVE  BookOK(s)'
<1>1. BookOK(s) /\ ExitOK(s) /\ CountsTyped
  BY DEF BookInv, BooksInv, BooksOK, IInv, Money, ExitsOK
<1>2. PICK S : S = HedgesOf(s.rest)'
  OBVIOUS
<1>3. ASSUME s.rest # 0
      PROVE  /\ ord'[s.rest].qty = Sum(s.members)
             /\ \A m \in Lots : RowsUnder(S \ {s.hedge}, m)' = Allocated(s, 0, s.hedged, m)
             /\ RowsOf(S \ {s.hedge})' = s.hedged
             /\ s.hedge # 0 =>
                  \A m \in Lots : ledger'[s.hedge][m]
                                    \in {0, Allocated(s, s.hedged, ord'[s.hedge].cum, m)}
  <2>1. S = HedgesOf(s.rest) /\ S \in SUBSET Receipts
    BY <1>2, <1>3 DEF HedgesOf
  <2>2. /\ ord[s.rest].qty = Sum(s.members)
        /\ \A m \in Lots : RowsUnder(S \ {s.hedge}, m) = Allocated(s, 0, s.hedged, m)
        /\ RowsOf(S \ {s.hedge}) = s.hedged
        /\ s.hedge # 0 => \A m \in Lots :
              ledger[s.hedge][m] \in {0, Allocated(s, s.hedged, ord[s.hedge].cum, m)}
    BY <1>1, <1>3, <2>1 DEF BookOK, Past, Share
  <2>3. \A q \in S \ {s.hedge} : ledger'[q] = ledger[q]
    BY <1>3, <2>1
  <2>4. /\ RowsOf(S \ {s.hedge})' = RowsOf(S \ {s.hedge})
        /\ \A m \in Lots : RowsUnder(S \ {s.hedge}, m)' = RowsUnder(S \ {s.hedge}, m)
    BY <1>1, <2>1, <2>3, RowsAlone
  <2>5. s.hedge # 0 => ledger'[s.hedge] = ledger[s.hedge]
    <3>1. s.hedge # 0 => s.hedge \in S
      BY <1>1, <1>3, <2>1 DEF ExitOK, HedgesOf, Exits
    <3> QED
      BY <1>3, <2>1, <3>1
  <2> QED
    BY <1>3, <2>2, <2>4, <2>5
<1> QED
  BY <1>2, <1>3, BookNext

(* The rows of every receipt, when none of the ledger moves. *)
LEMMA RowsKept ==
  ASSUME BookInv, Typed, UNCHANGED <<ledger, next>>,
         \A r \in Receipts : ord'[r].rest = ord[r].rest /\ ord'[r].cum = ord[r].cum
  PROVE  RowsOK'
BY DEF BookInv, BooksInv, RowsOK, RowOK

(* A rest is let go of with all it filled booked. *)
LEMMA LettingGo ==
  ASSUME IInv, BookInv, NEW l \in Lots, mem' = [mem EXCEPT ![l] = Free],
         UNCHANGED <<ledger, next>>,
         \A r \in Receipts : /\ ord'[r].rest = ord[r].rest /\ ord'[r].qty = ord[r].qty
                             /\ ord'[r].cum = ord[r].cum,
         mem[l].rest # 0, mem[l].hedge = 0, mem[l].hedged = ord[mem[l].rest].cum
  PROVE  BooksInv'
<1>1. /\ Typed /\ mem'[l] = Free /\ \A k \in Lots \ {l} : mem'[k] = mem[k]
      /\ mem \in [Lots -> Exits] /\ mem[l].rest \in Receipts
  BY OwnerFacts DEF IInv, Typed
<1>2. RowsOK'
  BY <1>1, RowsKept
<1>3. BooksOK'
  <2> SUFFICES ASSUME NEW k \in Lots, NEW t \in Exits, mem'[k] = t PROVE BookOK(t)'
    BY DEF BooksOK
  <2>1. CASE k = l
    BY <1>1, <2>1 DEF Free, BookOK
  <2>2. CASE k # l
    <3>1. t = mem[k] /\ BookOK(t) /\ SameBook(t, t)
      BY <1>1, <2>2 DEF BookInv, BooksInv, BooksOK, SameBook
    <3>2. /\ t.rest # 0 => ord'[t.rest].qty = ord[t.rest].qty
          /\ t.hedge # 0 => ord'[t.hedge].cum = ord[t.hedge].cum
      BY DEF Exits
    <3> QED
      BY <3>1, <3>2, BookKept
  <2> QED
    BY <2>1, <2>2
<1>4. LetGoBooked'
  <2>1. \A r \in LetGo' : r \in LetGo \/ r = mem[l].rest
    <3>1. \A r \in 1..next : r \in Receipts
      BY ReceiptAssumption, <1>1 DEF Typed, Receipts
    <3> QED
      BY <1>1, <3>1 DEF LetGo
  <2>2. ASSUME NEW r \in Receipts, LetGoBook(r) PROVE LetGoBook(r)'
    <3>1. PICK S : S = HedgesOf(r)'
      OBVIOUS
    <3>2. S = HedgesOf(r) /\ RowsOf(S)' = RowsOf(S)
      BY <3>1, RowsAfter
    <3>3. RowsOf(S)' = ord'[r].cum
      BY <2>2, <3>2 DEF LetGoBook
    <3> QED
      BY <3>1, <3>3, LetGoNext
  <2>3. \A r \in LetGo : r \in Receipts /\ LetGoBook(r)
    BY <1>1, LetGoAre DEF BookInv, BooksInv
  <2>4. LetGoBook(mem[l].rest)
    <3>1. PICK s \in Exits : s = mem[l]
      BY <1>1
    <3>2. BookOK(s)
      BY <3>1 DEF BookInv, BooksInv, BooksOK
    <3>3. Past(s) = HedgesOf(s.rest)
      BY <3>1 DEF Past, HedgesOf, Receipts
    <3> QED
      BY <3>1, <3>2, <3>3 DEF BookOK, LetGoBook
  <2>5. \A r \in LetGo' : LetGoBook(r)'
    BY <1>1, <2>1, <2>2, <2>3, <2>4
  <2> QED
    BY <2>5, LetGoAre
<1>5. RoomHeld'
  <2> SUFFICES ASSUME NEW k \in Lots, NEW t \in Exits, mem'[k] = t PROVE RoomFor(t)'
    BY DEF RoomHeld
  <2>1. CASE k = l
    <3>1. \A m \in Lots : ~(t.members[m] > 0)
      <4>1. t = Free
        BY <1>1, <2>1
      <4>2. Free.members = [m \in Lots |-> 0]
        BY DEF Free
      <4> QED
        BY <4>1, <4>2
    <3> QED
      BY <3>1 DEF RoomFor
  <2>2. CASE k # l
    <3>1. RoomFor(t)
      BY <1>1, <2>2 DEF BookInv, BooksInv, RoomHeld
    <3> QED
      BY <3>1, RoomKept
  <2> QED
    BY <2>1, <2>2
<1>6. BookedFits'
  BY RowsAfter DEF BookInv, BooksInv, BookedFits
<1> QED
  BY <1>2, <1>3, <1>4, <1>5, <1>6 DEF BooksInv

(* All that let go of one: a refused place, a place that came to nothing,   *)
(* and an exit that owes nothing any more.                                  *)
LEMMA ReleaseBooks ==
  ASSUME IInv, BookInv, NEW l \in Lots,
         PlaceRefused(l) \/ Settled(l) \/ (RecoverRest(l) /\ Release(l))
  PROVE  BooksInv' /\ QuantitiesOK'
<1>1. /\ UNCHANGED <<ledger, next>> /\ mem' = [mem EXCEPT ![l] = Free] /\ Typed /\ QuantitiesOK
      /\ mem[l] \in Exits /\ ExitOK(mem[l]) /\ TaskOK(pc[l], mem[l])
      /\ ord \in [Receipts -> Orders]
      /\ mem[l].rest # 0 => mem[l].rest \in Receipts
  BY OwnerFacts DEF PlaceRefused, Settled, RecoverRest, Release, Checkpoint, IInv, Typed, BookInv
<1>2. mem[l].rest # 0
  BY <1>1 DEF PlaceRefused, Settled, RecoverRest, Step, TaskOK
<1>3. CASE PlaceRefused(l)
  <2>1. PICK r \in Receipts : r = mem[l].rest
    BY <1>1, <1>2
  <2>2. OrderOK(r) /\ QuantityOK(ord[r]) /\ ord[r] \in Orders /\ ord[r].st = "flight"
    BY <1>1, <1>3, <2>1 DEF IInv, Money, OrdersOK, QuantitiesOK, PlaceRefused
  <2> DEFINE o == [ord[r] EXCEPT !.st = "none"]
  <2>3. /\ o.rest = ord[r].rest /\ o.qty = ord[r].qty /\ o.cum = ord[r].cum /\ o.st = "none"
        /\ ord' = [ord EXCEPT ![r] = o] /\ ord[r].cum \in Nat
    BY <1>1, <1>3, <2>1, <2>2 DEF PlaceRefused, Orders
  <2> HIDE DEF o
  <2>4. QuantityOK(o) /\ o.cum \in Nat /\ o.cum >= ord[r].cum
    BY <2>2, <2>3 DEF QuantityOK
  <2>5. QuantitiesOK'
    BY <1>1, <2>3, <2>4, OneOrder
  <2>6. \A q \in Receipts : /\ ord'[q].rest = ord[q].rest /\ ord'[q].qty = ord[q].qty
                            /\ ord'[q].cum = ord[q].cum
    BY <1>1, <2>3
  <2>7. mem[l].hedge = 0 /\ mem[l].hedged = 0 /\ ord[mem[l].rest].cum = 0
    BY <1>1, <1>2, <1>3, <2>1, <2>2 DEF PlaceRefused, Step, TaskOK, ExitOK, OrderOK
  <2> QED
    BY <1>1, <1>2, <2>5, <2>6, <2>7, LettingGo
<1>4. CASE Settled(l) \/ (RecoverRest(l) /\ Release(l))
  <2>1. UNCHANGED ord
    BY <1>4 DEF Settled, RecoverRest, venue
  <2>2. QuantitiesOK'
    BY <1>1, <2>1, NoOrderMoves
  <2>3. mem[l].hedge = 0 /\ mem[l].hedged = ord[mem[l].rest].cum
    <3>1. CASE Settled(l)
      BY <1>1, <1>2, <3>1 DEF Settled, Step, TaskOK, ExitOK
    <3>2. CASE RecoverRest(l) /\ Release(l)
      <4>1. mem[l].hedge = 0 /\ ~mem[l].final /\ mem[l].hedged = 0 /\ covered[mem[l].rest] = 0
        BY <1>1, <1>2, <3>2 DEF RecoverRest, Step, TaskOK, ExitOK
      <4>2. CASE ProvablyNothing(mem[l].rest)
        <5>1. Dead(mem[l].rest)
          BY <1>2, <4>1, <4>2, NothingIsDead
        <5> QED
          BY <4>1, <5>1 DEF Dead
      <4>3. CASE ~ProvablyNothing(mem[l].rest)
        <5>1. mem'[l].rest = mem[l].rest
          <6>1. mem'[l] \in {[mem[l] EXCEPT !.restKnown = TRUE], mem[l]}
            BY <1>1, <3>2, <4>3 DEF RecoverRest, Checkpoint, Park, Typed
          <6> QED
            BY <1>1, <6>1 DEF Exits
        <5> QED
          BY <1>1, <1>2, <5>1 DEF Typed, Free
      <4> QED
        BY <4>2, <4>3
    <3> QED
      BY <1>4, <3>1, <3>2
  <2> QED
    BY <1>1, <1>2, <2>1, <2>2, <2>3, LettingGo
<1> QED
  BY <1>3, <1>4

(* One owner's exit moves, and of the orders and the rows only those of its *)
(* rest: the books of everybody else are what they were.                    *)
LEMMA OwnerBooks ==
  ASSUME IInv, BookInv, NEW l \in Lots, NEW t \in Exits, mem' = [mem EXCEPT ![l] = t],
         NEW R, R = t.rest, R # 0,
         \/ mem[l].rest = R
         \/ mem[l].rest = 0 /\ R = next + 1,
         RowsOK', BookOK(t)', RoomFor(t)', BookedFits',
         \A r \in Receipts : r # R => HedgesOf(r)' = HedgesOf(r),
         \A q \in Receipts : q <= next /\ ord[q].rest # R /\ q # R =>
                   ord'[q].cum = ord[q].cum /\ ord'[q].qty = ord[q].qty,
         \A q \in Receipts : ord[q].rest # R => ledger'[q] = ledger[q],
         LetGo' \subseteq LetGo,
         \A m \in Lots : Booked(m)' = Booked(m) \/ mem[l].members[m] > 0
  PROVE  BooksInv'
<1>1. /\ Typed /\ ReservedOnce /\ CountsTyped /\ mem \in [Lots -> Exits]
      /\ mem'[l] = t /\ \A k \in Lots \ {l} : mem'[k] = mem[k]
  BY DEF IInv, Typed, BookInv
<1>2. ASSUME NEW k \in Lots, k # l, NEW s \in Exits, s = mem[k]
      PROVE  /\ s.rest # 0 => /\ s.rest # R /\ s.rest \in Receipts
                              /\ HedgesOf(s.rest)' = HedgesOf(s.rest)
                              /\ \A q \in HedgesOf(s.rest) : ledger'[q] = ledger[q]
                              /\ ord'[s.rest].qty = ord[s.rest].qty
             /\ s.hedge # 0 => ord'[s.hedge].cum = ord[s.hedge].cum
             /\ s.rest = 0 => s.hedge = 0 /\ s.members = Free.members
  <2>1. ExitOK(s) /\ next \in Nat /\ OneOwner /\ OrdersOK
    BY <1>2, ReceiptAssumption DEF IInv, Money, ExitsOK, Typed
  <2>2. ASSUME s.rest # 0
        PROVE  /\ s.rest # R /\ s.rest \in Receipts /\ ord[s.rest].rest = 0
               /\ s.rest <= next
    <3>1. s.rest \in Receipts /\ s.rest <= next /\ ord[s.rest].rest = 0
      BY <2>1, <2>2 DEF ExitOK, Exits
    <3>2. CASE mem[l].rest = R
      BY <1>2, <2>1, <2>2, <3>1, <3>2 DEF OneOwner
    <3>3. CASE R = next + 1
      BY <2>1, <3>1, <3>3 DEF Receipts
    <3> QED
      BY <3>1, <3>2, <3>3
  <2>3. ASSUME s.rest # 0
        PROVE  /\ HedgesOf(s.rest)' = HedgesOf(s.rest)
               /\ \A q \in HedgesOf(s.rest) : ledger'[q] = ledger[q]
               /\ ord'[s.rest].qty = ord[s.rest].qty
    <3>1. HedgesOf(s.rest)' = HedgesOf(s.rest)
      BY <2>2, <2>3
    <3>2. \A q \in HedgesOf(s.rest) : q \in Receipts /\ ord[q].rest # R
      BY <2>2, <2>3 DEF HedgesOf
    <3> QED
      BY <2>2, <2>3, <3>1, <3>2
  <2>4. ASSUME s.hedge # 0 PROVE ord'[s.hedge].cum = ord[s.hedge].cum
    <3>1. /\ s.rest # 0 /\ s.hedge \in Receipts /\ s.hedge <= next
          /\ ord[s.hedge].rest = s.rest
      BY <2>1, <2>4 DEF ExitOK, Exits
    <3>2. s.hedge # R
      <4>1. CASE mem[l].rest = R
        <5>1. ord[R].rest = 0
          BY <4>1, OwnerFacts DEF ExitOK
        <5> QED
          BY <3>1, <5>1
      <4>2. CASE R = next + 1
        BY <2>1, <3>1, <4>2 DEF Receipts
      <4> QED
        BY <4>1, <4>2
    <3> QED
      BY <2>2, <3>1, <3>2
  <2> QED
    BY <2>1, <2>2, <2>3, <2>4 DEF ExitOK
<1>3. BooksOK'
  <2> SUFFICES ASSUME NEW k \in Lots, NEW s \in Exits, mem'[k] = s PROVE BookOK(s)'
    BY DEF BooksOK
  <2>1. CASE k = l
    BY <1>1, <2>1
  <2>2. CASE k # l
    <3>1. s = mem[k]
      BY <1>1, <2>2
    <3> QED
      BY <1>2, <2>2, <3>1, OtherBook
  <2> QED
    BY <2>1, <2>2
<1>4. RoomHeld'
  <2> SUFFICES ASSUME NEW k \in Lots, NEW s \in Exits, mem'[k] = s PROVE RoomFor(s)'
    BY DEF RoomHeld
  <2>1. CASE k = l
    BY <1>1, <2>1
  <2>2. CASE k # l
    <3>1. s = mem[k] /\ RoomFor(s)
      BY <1>1, <2>2 DEF BookInv, BooksInv, RoomHeld
    <3>2. PICK S : S = HedgesOf(s.rest)'
      OBVIOUS
    <3>3. ASSUME NEW m \in Lots, s.members[m] > 0
          PROVE  Booked(m)' + s.members[m] <= Open[m] + RowsUnder(S, m)'
      <4>1. s.rest # 0
        <5>1. Free.members = [i \in Lots |-> 0]
          BY DEF Free
        <5> QED
          BY <1>2, <2>2, <3>1, <3>3, <5>1
      <4>2. /\ S = HedgesOf(s.rest) /\ S \in SUBSET Receipts
            /\ \A q \in S : ledger'[q] = ledger[q]
        <5>1. HedgesOf(s.rest) \in SUBSET Receipts
          BY DEF HedgesOf
        <5> QED
          BY <1>2, <2>2, <3>1, <3>2, <4>1, <5>1
      <4>3. RowsUnder(S, m)' = RowsUnder(S, m)
        BY <1>1, <4>2, RowsAlone
      <4>4. ~(mem[l].members[m] > 0)
        BY <1>1, <2>2, <3>1, <3>3 DEF ReservedOnce, MembersOf
      <4>5. Booked(m)' = Booked(m)
        BY <4>4
      <4>6. Booked(m) + s.members[m] <= Open[m] + RowsUnder(S, m)
        BY <3>1, <3>3, <4>2 DEF RoomFor
      <4> QED
        BY <4>3, <4>5, <4>6
    <3> QED
      BY <3>2, <3>3, RoomNext
  <2> QED
    BY <2>1, <2>2
<1>5. LetGoBooked'
  <2> SUFFICES ASSUME NEW r \in LetGo PROVE LetGoBook(r)'
    BY LetGoAre
  <2>1. r \in Receipts /\ LetGoBook(r) /\ r \in 1..next /\ ord[r].rest = 0 /\ mem[l].rest # r
    BY <1>1, LetGoAre DEF BookInv, BooksInv, LetGo
  <2>2. r # R
    BY <1>1, <2>1, ReceiptAssumption DEF Typed
  <2>3. PICK S : S = HedgesOf(r)'
    OBVIOUS
  <2>4. S = HedgesOf(r) /\ S \in SUBSET Receipts
    BY <2>1, <2>2, <2>3 DEF HedgesOf
  <2>5. \A q \in S : ledger'[q] = ledger[q]
    BY <2>2, <2>4 DEF HedgesOf
  <2>6. RowsOf(S)' = RowsOf(S)
    BY <1>1, <2>4, <2>5, RowsAlone
  <2>7. ord'[r].cum = ord[r].cum
    BY <2>1, <2>2
  <2>8. RowsOf(S)' = ord'[r].cum
    BY <2>1, <2>4, <2>6, <2>7 DEF LetGoBook
  <2> QED
    BY <2>3, <2>8, LetGoNext
<1> QED
  BY <1>3, <1>4, <1>5 DEF BooksInv

(* What is counted and what is under way, of one exit. *)
LEMMA ExitBook ==
  ASSUME IInv, BookInv, NEW l \in Lots, NEW s \in Exits, s = mem[l], s.rest # 0
  PROVE  /\ BookOK(s) /\ RoomFor(s) /\ ExitOK(s) /\ TaskOK(pc[l], s)
         /\ CountsTyped /\ Typed /\ s.rest \in Receipts
         /\ s.members \in [Lots -> Nat] /\ s.hedged \in Nat /\ s.filled \in Nat
         /\ HedgesOf(s.rest) \in SUBSET Receipts
         /\ s.hedge = 0 => Past(s) = HedgesOf(s.rest)
         /\ s.hedge # 0 => /\ s.hedge \in Receipts /\ ord[s.hedge].cum \in Nat
                           /\ s.hedge \in HedgesOf(s.rest)
<1>1. BookOK(s) /\ RoomFor(s)
  BY DEF BookInv, BooksInv, BooksOK, RoomHeld
<1>2. /\ ExitOK(s) /\ TaskOK(pc[l], s) /\ CountsTyped /\ Typed /\ s.rest \in Receipts
      /\ s.members \in [Lots -> Nat] /\ s.hedged \in Nat /\ s.filled \in Nat
  BY OwnerFacts DEF BookInv, IInv, Exits
<1>3. HedgesOf(s.rest) \in SUBSET Receipts
  BY DEF HedgesOf
<1>4. s.hedge = 0 => Past(s) = HedgesOf(s.rest)
  BY DEF Past, HedgesOf, Receipts
<1>5. s.hedge # 0 => /\ s.hedge \in Receipts /\ ord[s.hedge].cum \in Nat
                     /\ s.hedge \in HedgesOf(s.rest)
  BY <1>2 DEF ExitOK, HedgesOf, Exits, Typed, Orders
<1> QED
  BY <1>1, <1>2, <1>3, <1>4, <1>5

(* A refused hedge has nothing booked, and is counted with nothing. *)
LEMMA RefusedBooks ==
  ASSUME IInv, BookInv, NEW l \in Lots, HedgeRefused(l)
  PROVE  BooksInv' /\ QuantitiesOK'
<1>s. PICK s \in Exits : s = mem[l]
  BY OwnerFacts
<1>0. PICK h, R : s = mem[l] /\ h = s.hedge /\ R = s.rest
  BY <1>s
<1>a. PICK t : t = [s EXCEPT !.hedge = 0]
  OBVIOUS
<1>1. /\ UNCHANGED <<ledger, next>> /\ mem' = [mem EXCEPT ![l] = t] /\ Typed /\ QuantitiesOK
      /\ ord \in [Receipts -> Orders] /\ pc[l] = "hedging" /\ ord[h].st = "flight"
      /\ ord' = [ord EXCEPT ![h].st = "none"]
  BY <1>0, <1>a DEF HedgeRefused, Park, Checkpoint, Step, IInv, Typed, BookInv
<1>2. h # 0 /\ R # 0 /\ s.rest # 0 /\ s.hedge # 0
  BY <1>0, <1>1, OwnerFacts DEF TaskOK
<1>3. /\ BookOK(s) /\ RoomFor(s) /\ ExitOK(s) /\ CountsTyped /\ s.rest \in Receipts
      /\ s.members \in [Lots -> Nat] /\ s.hedged \in Nat
      /\ HedgesOf(R) \in SUBSET Receipts /\ h \in Receipts /\ h \in HedgesOf(R)
      /\ ord[h].rest = R /\ ord[R].rest = 0
  BY <1>0, <1>2, ExitBook DEF HedgesOf, ExitOK
<1>4. /\ t \in Exits /\ t.rest = R /\ t.members = s.members /\ t.hedge = 0
      /\ t.hedged = s.hedged
  BY <1>0, <1>a DEF Exits
<1> DEFINE o == [ord[h] EXCEPT !.st = "none"]
<1>5. /\ o.rest = ord[h].rest /\ o.qty = ord[h].qty /\ o.cum = ord[h].cum /\ o.st = "none"
      /\ ord' = [ord EXCEPT ![h] = o] /\ ord[h].cum \in Nat
  BY <1>1, <1>3 DEF Orders
<1> HIDE DEF o
<1>6. QuantityOK(o) /\ o.cum \in Nat /\ o.cum >= ord[h].cum
  BY <1>1, <1>3, <1>5 DEF QuantityOK, QuantitiesOK
<1>7. QuantitiesOK'
  BY <1>1, <1>3, <1>5, <1>6, OneOrder
<1>8. \A q \in Receipts : /\ ord'[q].rest = ord[q].rest /\ ord'[q].qty = ord[q].qty
                          /\ ord'[q].cum = ord[q].cum
  BY <1>1, <1>3, <1>5
<1>9. /\ \A r : HedgesOf(r)' = HedgesOf(r)
      /\ \A S : RowsOf(S)' = RowsOf(S)
      /\ \A S, m : RowsUnder(S, m)' = RowsUnder(S, m)
      /\ \A m : Booked(m)' = Booked(m)
  BY <1>1, <1>8, RowsAfter
<1>10. Sum(ledger[h]) = 0 /\ \A m \in Lots : ledger[h][m] = 0
  BY <1>1, <1>2, <1>3, FlightUnbooked
<1>11. RowsOK'
  BY <1>1, <1>8, RowsKept
<1>12. PICK S : S = HedgesOf(R)
  OBVIOUS
<1>13. /\ RowsOf(S) = RowsOf(S \ {h}) /\ \A m \in Lots : RowsUnder(S, m) = RowsUnder(S \ {h}, m)
  <2>1. S \ {h} \in SUBSET Receipts /\ S \in SUBSET Receipts /\ h \in S
    BY <1>3, <1>12
  <2>2. /\ RowsOf(S) = RowsOf(S \ {h}) + 0 /\ RowsOf(S \ {h}) \in Nat
        /\ \A m \in Lots : /\ RowsUnder(S, m) = RowsUnder(S \ {h}, m) + 0
                           /\ RowsUnder(S \ {h}, m) \in Nat
    <3>1. /\ RowsOf(S) = RowsOf(S \ {h}) + Sum(ledger[h])
          /\ \A m \in Lots : RowsUnder(S, m) = RowsUnder(S \ {h}, m) + ledger[h][m]
      BY <1>3, <2>1, RowSums
    <3>2. RowsOf(S \ {h}) \in Nat /\ \A m \in Lots : RowsUnder(S \ {h}, m) \in Nat
      BY <1>3, <2>1, RowSums
    <3> QED
      BY <1>10, <3>1, <3>2
  <2> QED
    BY <2>2
<1>14. BookOK(t)'
  <2>1. S \ {t.hedge} = S /\ S = HedgesOf(t.rest)'
    BY <1>3, <1>4, <1>9, <1>12 DEF Receipts
  <2>2. /\ ord[R].qty = Sum(s.members)
        /\ \A m \in Lots : RowsUnder(S \ {h}, m) = Allocated(s, 0, s.hedged, m)
        /\ RowsOf(S \ {h}) = s.hedged
    BY <1>0, <1>2, <1>3, <1>12 DEF BookOK, Past
  <2>3. \A offset, qty, m : Allocated(s, offset, qty, m) = Allocated(t, offset, qty, m)
    BY <1>4, SharesSame
  <2>4. /\ ord'[t.rest].qty = Sum(t.members)
        /\ \A m \in Lots : RowsUnder(S \ {t.hedge}, m)' = Allocated(t, 0, t.hedged, m)
        /\ RowsOf(S \ {t.hedge})' = t.hedged
    <3>1. \A m \in Lots : RowsUnder(S \ {t.hedge}, m)' = RowsUnder(S, m)
      BY <1>9, <2>1
    <3>2. RowsOf(S \ {t.hedge})' = RowsOf(S)
      BY <1>9, <2>1
    <3>3. ord'[t.rest].qty = Sum(t.members)
      <4>1. R \in Receipts
        BY <1>0, <1>3
      <4> QED
        BY <1>4, <1>8, <2>2, <4>1
    <3>4. \A m \in Lots : RowsUnder(S \ {t.hedge}, m)' = Allocated(t, 0, t.hedged, m)
      BY <1>4, <1>13, <2>2, <2>3, <3>1
    <3>5. RowsOf(S \ {t.hedge})' = t.hedged
      BY <1>4, <1>13, <2>2, <3>2
    <3> QED
      BY <3>3, <3>4, <3>5
  <2> QED
    BY <1>4, <2>1, <2>4, BookNext
<1>15. RoomFor(t)'
  BY <1>0, <1>1, <1>3, <1>4, <1>8, RoomKept
<1>16. BookedFits'
  BY <1>9 DEF BookInv, BooksInv, BookedFits
<1>17. LetGo' \subseteq LetGo
  <2>1. \A k \in Lots : mem'[k].rest = mem[k].rest
    BY <1>0, <1>1, <1>4 DEF Typed
  <2>2. \A r \in 1..next : r \in Receipts
    BY <1>1, ReceiptAssumption DEF Typed, Receipts
  <2> QED
    BY <1>1, <1>8, <2>1, <2>2 DEF LetGo
<1>18. BooksInv'
  BY <1>0, <1>1, <1>2, <1>4, <1>8, <1>9, <1>11, <1>14, <1>15, <1>16, <1>17, OwnerBooks
<1> QED
  BY <1>7, <1>18

(* A hedge that is sent has nothing booked, and is not counted yet. *)
LEMMA SendBooks ==
  ASSUME IInv, BookInv, NEW l \in Lots, SendHedge(l)
  PROVE  BooksInv' /\ QuantitiesOK'
<1>s. PICK s \in Exits : s = mem[l]
  BY OwnerFacts
<1>0. PICK h, R : s = mem[l] /\ h = next + 1 /\ R = s.rest
  BY <1>s
<1>a. PICK t : t = [s EXCEPT !.hedge = h, !.hedgeKnown = FALSE]
  OBVIOUS
<1>b. PICK o : o = [NoOrder EXCEPT !.st = "flight", !.qty = s.filled - s.hedged,
                       !.at = CloseVenue(s.key), !.rest = R, !.ioc = TRUE]
  OBVIOUS
<1>1. /\ UNCHANGED ledger /\ mem' = [mem EXCEPT ![l] = t] /\ Typed /\ QuantitiesOK
      /\ ord \in [Receipts -> Orders] /\ pc[l] = "owed"
      /\ next' = h /\ h <= scene.orders
      /\ ord' = [ord EXCEPT ![h] = o]
  BY <1>0, <1>a, <1>b DEF SendHedge, Checkpoint, Step, IInv, Typed, BookInv
<1>2. R # 0 /\ s.rest # 0 /\ s.hedge = 0 /\ s.final
  BY <1>0, <1>1, OwnerFacts DEF TaskOK
<1>3. /\ BookOK(s) /\ RoomFor(s) /\ ExitOK(s) /\ CountsTyped /\ R \in Receipts
      /\ s.members \in [Lots -> Nat] /\ s.hedged \in Nat /\ s.filled \in Nat
      /\ HedgesOf(R) \in SUBSET Receipts /\ Past(s) = HedgesOf(R)
      /\ ord[R].rest = 0 /\ R <= next /\ s.hedged <= s.filled
  BY <1>0, <1>2, ExitBook DEF ExitOK
<1>4. /\ next \in 0..MaxReceipts /\ scene.orders \in 0..MaxReceipts /\ MaxReceipts \in Nat
  BY SceneAssumption, ReceiptAssumption DEF IInv, Typed
<1>5. /\ h \in Receipts /\ h > next /\ h # 0 /\ h # R /\ next \in Nat
      /\ \A r \in Receipts : r <= next => r # h /\ r <= h
  BY <1>0, <1>1, <1>3, <1>4 DEF Receipts
<1>6. /\ OrderOK(h) /\ RowOK(h) /\ ord[h].rest = 0 /\ ord[h].cum = 0
      /\ \A m \in Lots : ledger[h][m] = 0
  <2>1. OrderOK(h) /\ RowOK(h)
    BY <1>5 DEF IInv, Money, OrdersOK, BookInv, BooksInv, RowsOK
  <2>2. NoOrder.rest = 0 /\ NoOrder.cum = 0
    BY DEF NoOrder
  <2> QED
    BY <1>5, <2>1, <2>2 DEF OrderOK, RowOK
<1>7. /\ t \in Exits /\ t.rest = R /\ t.members = s.members /\ t.hedge = h
      /\ t.hedged = s.hedged
  BY <1>0, <1>a, <1>5 DEF Exits
<1>8. /\ o.rest = R /\ o.cum = 0 /\ o.qty = s.filled - s.hedged /\ o.st = "flight" /\ o.ioc
  BY <1>b DEF NoOrder
<1>9. /\ ord'[h] = o /\ \A q \in Receipts \ {h} : ord'[q] = ord[q]
  BY <1>1, <1>5
<1>10. QuantitiesOK'
  <2>1. QuantityOK(o)
    BY <1>3, <1>8 DEF QuantityOK
  <2>2. \A q \in Receipts : QuantityOK(ord'[q])
    BY <1>1, <1>9, <2>1 DEF QuantitiesOK
  <2> QED
    BY <2>2 DEF QuantitiesOK, QuantityOK
<1>11. /\ \A S : RowsOf(S)' = RowsOf(S)
       /\ \A S, m : RowsUnder(S, m)' = RowsUnder(S, m)
       /\ \A m : Booked(m)' = Booked(m)
  BY <1>1 DEF RowsOf, RowsUnder, Booked
<1>12. \A r \in Receipts : r # R => HedgesOf(r)' = HedgesOf(r)
  <2>1. \A r \in Receipts : r # 0
    BY DEF Receipts
  <2> QED
    BY <1>6, <1>8, <1>9, <2>1 DEF HedgesOf
<1>13. PICK S : S = HedgesOf(R)'
  OBVIOUS
<1>14. S = HedgesOf(R) \cup {h} /\ h \notin HedgesOf(R) /\ S \ {h} = HedgesOf(R)
  <2>1. S = HedgesOf(R) \cup {h} /\ h \notin HedgesOf(R)
    BY <1>2, <1>5, <1>6, <1>8, <1>9, <1>13 DEF HedgesOf
  <2> QED
    BY <2>1
<1>15. RowsOK'
  <2> SUFFICES ASSUME NEW r \in Receipts PROVE RowOK(r)'
    BY DEF RowsOK
  <2>1. RowOK(r) /\ ledger[r] \in [Lots -> Nat]
    BY <1>3 DEF BookInv, BooksInv, RowsOK, CountsTyped
  <2>2. Sum(ledger[h]) = 0
    BY <1>3, <1>5, <1>6, EmptyRow
  <2>3. next' = next + 1 /\ next \in Nat
    BY <1>0, <1>1, <1>5
  <2>4. r > next' => \A m \in Lots : ledger'[r][m] = 0
    BY <1>1, <2>1, <2>3 DEF RowOK, Receipts
  <2>5. CASE r = h
    <3>1. ord'[r].cum = 0 /\ ord'[r].rest = R
      BY <1>8, <1>9, <2>5
    <3>2. R <= next'
      BY <1>1, <1>5, <1>3, <2>3 DEF Receipts
    <3> QED
      BY <1>1, <2>2, <2>4, <2>5, <3>1, <3>2 DEF RowOK
  <2>6. CASE r # h
    <3>1. ord'[r] = ord[r] /\ ord[r].rest \in {0} \cup Receipts
      BY <1>1, <1>9, <2>6 DEF Orders
    <3>2. ord[r].rest <= next'
      BY <2>1, <2>3, <3>1 DEF RowOK, Receipts
    <3> QED
      BY <1>1, <2>1, <2>4, <3>1, <3>2 DEF RowOK
  <2> QED
    BY <2>5, <2>6
<1>16. BookOK(t)'
  <2>1. /\ ord[R].qty = Sum(s.members)
        /\ \A m \in Lots : RowsUnder(HedgesOf(R), m) = Allocated(s, 0, s.hedged, m)
        /\ RowsOf(HedgesOf(R)) = s.hedged
    BY <1>0, <1>2, <1>3 DEF BookOK
  <2>2. \A offset, qty, m : Allocated(s, offset, qty, m) = Allocated(t, offset, qty, m)
    BY <1>7, SharesSame
  <2>3. S = HedgesOf(t.rest)'
    BY <1>7, <1>13
  <2>4. ord'[t.rest].qty = Sum(t.members)
    BY <1>3, <1>5, <1>7, <1>9, <2>1
  <2>5. PICK T : T = S \ {t.hedge}
    OBVIOUS
  <2>6. T = HedgesOf(R)
    BY <1>7, <1>14, <2>5
  <2>7. \A m \in Lots : RowsUnder(T, m)' = Allocated(t, 0, t.hedged, m)
    BY <1>7, <1>11, <2>1, <2>2, <2>6
  <2>8. RowsOf(T)' = t.hedged
    BY <1>7, <1>11, <2>1, <2>6
  <2>9. \A m \in Lots : ledger'[t.hedge][m] = 0
    BY <1>1, <1>6, <1>7
  <2>10. /\ \A m \in Lots : RowsUnder(S \ {t.hedge}, m)' = Allocated(t, 0, t.hedged, m)
         /\ RowsOf(S \ {t.hedge})' = t.hedged
    BY <2>5, <2>7, <2>8
  <2> QED
    BY <2>3, <2>4, <2>9, <2>10, BookNext
<1>17. RoomFor(t)'
  <2> SUFFICES ASSUME NEW m \in Lots, t.members[m] > 0
               PROVE  Booked(m)' + t.members[m] <= Open[m] + RowsUnder(S, m)'
    BY <1>7, <1>13, RoomNext
  <2>1. Booked(m) + s.members[m] <= Open[m] + RowsUnder(HedgesOf(R), m)
    BY <1>0, <1>3, <1>7 DEF RoomFor
  <2>2. S \in SUBSET Receipts /\ h \in S
    BY <1>3, <1>5, <1>14
  <2>3. RowsUnder(S, m) = RowsUnder(S \ {h}, m) + ledger[h][m]
    BY <1>3, <2>2, RowSums
  <2>4. RowsUnder(HedgesOf(R), m) \in Nat
    BY <1>3, RowSums
  <2>5. RowsUnder(S, m) = RowsUnder(HedgesOf(R), m)
    <3>1. ledger[h][m] = 0
      BY <1>6
    <3>2. RowsUnder(S \ {h}, m) = RowsUnder(HedgesOf(R), m)
      BY <1>14
    <3> QED
      BY <2>3, <2>4, <3>1, <3>2
  <2>6. RowsUnder(S, m)' = RowsUnder(S, m) /\ Booked(m)' = Booked(m)
    BY <1>11
  <2> QED
    BY <1>7, <2>1, <2>5, <2>6
<1>18. BookedFits'
  BY <1>11 DEF BookInv, BooksInv, BookedFits
<1>19. LetGo' \subseteq LetGo
  <2>1. \A k \in Lots : mem'[k].rest = mem[k].rest
    BY <1>0, <1>1, <1>7 DEF Typed
  <2>2. \A r \in 1..next' : r \in Receipts /\ (r = h \/ r \in 1..next)
    BY <1>0, <1>1, <1>4, <1>5 DEF Receipts
  <2> QED
    BY <1>2, <1>8, <1>9, <2>1, <2>2 DEF LetGo
<1>20. /\ \A q \in Receipts : q <= next /\ ord[q].rest # R /\ q # R =>
                   ord'[q].cum = ord[q].cum /\ ord'[q].qty = ord[q].qty
       /\ \A q \in Receipts : ord[q].rest # R => ledger'[q] = ledger[q]
  BY <1>1, <1>5, <1>9
<1> QED
  BY <1>0, <1>1, <1>2, <1>7, <1>10, <1>11, <1>12, <1>15, <1>16, <1>17, <1>18, <1>19, <1>20,
     OwnerBooks

(* The shares of an answered hedge: what it filled, and no more than the   *)
(* members have left.                                                      *)
LEMMA HedgeShares ==
  ASSUME IInv, BookInv, NEW l \in Lots, NEW s \in Exits, s = mem[l], s.hedge # 0,
         NEW g, g = [m \in Lots |-> Share(s, m)]
  PROVE  /\ g \in [Lots -> Nat] /\ Sum(g) = ord[s.hedge].cum
         /\ \A m \in Lots :
              /\ Allocated(s, 0, s.hedged, m) + Share(s, m)
                    = Allocated(s, 0, s.hedged + ord[s.hedge].cum, m)
              /\ Allocated(s, 0, s.hedged, m) \in Nat /\ Share(s, m) \in Nat
              /\ Allocated(s, 0, s.hedged, m) + Share(s, m) <= s.members[m]
<1>0. PICK a, b : a = s.hedged /\ b = ord[s.hedge].cum
  OBVIOUS
<1>1. s.rest # 0
  BY OwnerFacts DEF ExitOK
<1>2. /\ BookOK(s) /\ ExitOK(s) /\ s.members \in [Lots -> Nat] /\ a \in Nat /\ b \in Nat
      /\ s.filled \in Nat /\ s.rest \in Receipts
  BY <1>0, <1>1, ExitBook
<1>3. /\ s.filled = ord[s.rest].cum /\ b <= s.filled - a /\ a <= s.filled
      /\ ord[s.rest].qty = Sum(s.members)
  BY <1>0, <1>1, <1>2 DEF ExitOK, BookOK
<1>4. ord[s.rest].cum <= ord[s.rest].qty /\ ord[s.rest].qty \in Nat
  BY <1>2 DEF BookInv, QuantitiesOK, QuantityOK
<1>5. a + b <= Sum(s.members) /\ Sum(s.members) \in Nat
  BY <1>2, <1>3, <1>4
<1>6. g = [m \in Lots |-> Allocated(s, a, b, m)] /\ a \in Nat /\ b \in Nat
  BY <1>0, <1>2 DEF Share
<1>7. /\ g \in [Lots -> Nat]
      /\ Sum(g) = Lower(Sum(s.members), a + b) - Lower(Sum(s.members), a)
  BY <1>2, <1>6, SharesAddUp
<1>8. Sum(g) = b
  BY <1>2, <1>5, <1>7 DEF Lower
<1>9. ASSUME NEW m \in Lots
      PROVE  /\ Allocated(s, 0, a, m) + Allocated(s, a, b, m) = Allocated(s, 0, a + b, m)
             /\ Allocated(s, 0, a, m) \in Nat /\ Allocated(s, a, b, m) \in Nat
             /\ Allocated(s, 0, a, m) + Allocated(s, a, b, m) <= s.members[m]
  <2>1. Before(s, m) \in Nat /\ s.members[m] \in Nat
    BY <1>2, BeforeIs
  <2>2. /\ Allocated(s, 0, a, m) + Allocated(s, a, b, m) = Allocated(s, 0, a + b, m)
        /\ Allocated(s, 0, a, m) \in Nat /\ Allocated(s, a, b, m) \in Nat
        /\ Allocated(s, 0, a + b, m) <= s.members[m]
    <3>1. a \in Nat /\ b \in Nat
      BY <1>6
    <3>2. Allocated(s, 0, a, m) + Allocated(s, a, b, m) = Allocated(s, 0, a + b, m)
      BY <2>1, <3>1, SharesAdd
    <3>3. Allocated(s, 0, a, m) \in Nat /\ Allocated(s, a, b, m) \in Nat
      BY <2>1, <3>1, SharesAdd
    <3>4. Allocated(s, 0, a + b, m) <= s.members[m]
      BY <2>1, <3>1, SharesAdd
    <3> QED
      BY <3>2, <3>3, <3>4
  <2> QED
    BY <2>2
<1> QED
  BY <1>0, <1>7, <1>8, <1>9 DEF Share

(* A hedge whose shares are all booked is counted with all it filled. *)
LEMMA ForgetBooks ==
  ASSUME IInv, BookInv, NEW l \in Lots, Forget(l)
  PROVE  BooksInv' /\ QuantitiesOK'
<1>s. PICK s \in Exits : s = mem[l]
  BY OwnerFacts
<1>0. PICK h, R : s = mem[l] /\ h = s.hedge /\ R = s.rest
  BY <1>s
<1>a. PICK t, c : /\ c = ord[h].cum
                  /\ t = [s EXCEPT !.hedged = @ + c, !.hedge = 0, !.hedgeKnown = FALSE]
  OBVIOUS
<1>1. /\ UNCHANGED <<ledger, next>> /\ UNCHANGED ord
      /\ mem' = [mem EXCEPT ![l] = t] /\ Typed /\ QuantitiesOK /\ pc[l] = "book"
      /\ Unbooked(s) = {}
  <2>1. \/ Checkpoint(l, t) \/ Park(l, t)
    BY <1>0, <1>a DEF Forget
  <2> QED
    BY <1>0, <2>1 DEF Forget, venue, Park, Checkpoint, Step, IInv, BookInv
<1>2. R # 0 /\ s.rest # 0 /\ h # 0 /\ s.hedge # 0
  BY <1>0, <1>1, OwnerFacts DEF TaskOK
<1>3. /\ BookOK(s) /\ RoomFor(s) /\ ExitOK(s) /\ CountsTyped /\ R \in Receipts
      /\ s.members \in [Lots -> Nat] /\ s.hedged \in Nat /\ c \in Nat
      /\ HedgesOf(R) \in SUBSET Receipts /\ h \in Receipts /\ h \in HedgesOf(R)
  BY <1>0, <1>a, <1>2, ExitBook
<1>4. /\ t \in Exits /\ t.rest = R /\ t.members = s.members /\ t.hedge = 0
      /\ t.hedged = s.hedged + c
  <2>1. s.hedged + c \in Nat
    BY <1>3
  <2> QED
    BY <1>0, <1>a, <2>1 DEF Exits
<1>5. QuantitiesOK'
  BY <1>1, NoOrderMoves
<1>6. /\ \A r : HedgesOf(r)' = HedgesOf(r)
      /\ \A S : RowsOf(S)' = RowsOf(S)
      /\ \A S, m : RowsUnder(S, m)' = RowsUnder(S, m)
      /\ \A m : Booked(m)' = Booked(m)
  BY <1>1, RowsAfter
<1>7. RowsOK'
  BY <1>1, RowsKept
<1>8. PICK g : g = [m \in Lots |-> Share(s, m)]
  OBVIOUS
<1>9. /\ g \in [Lots -> Nat] /\ Sum(g) = c
      /\ \A m \in Lots :
            /\ Allocated(s, 0, s.hedged, m) + Share(s, m) = Allocated(s, 0, s.hedged + c, m)
            /\ Allocated(s, 0, s.hedged, m) \in Nat /\ Share(s, m) \in Nat
  BY <1>0, <1>a, <1>2, <1>8, HedgeShares
<1>10. \A m \in Lots : ledger[h][m] = Share(s, m)
  <2> SUFFICES ASSUME NEW m \in Lots PROVE ledger[h][m] = Share(s, m)
    OBVIOUS
  <2>1. ledger[h][m] \in {0, Share(s, m)}
    BY <1>0, <1>2, <1>3 DEF BookOK
  <2>2. ~(Share(s, m) > 0 /\ ledger[h][m] = 0)
    BY <1>0, <1>1 DEF Unbooked
  <2> QED
    BY <1>9, <2>1, <2>2
<1>11. Sum(ledger[h]) = c
  <2>1. ledger[h] = g
    BY <1>3, <1>8, <1>10 DEF CountsTyped
  <2> QED
    BY <1>9, <2>1
<1>12. PICK S, T : S = HedgesOf(R) /\ T = S \ {h}
  OBVIOUS
<1>13. /\ RowsOf(S) = RowsOf(T) + c /\ RowsOf(T) \in Nat
       /\ \A m \in Lots : RowsUnder(S, m) = RowsUnder(T, m) + Share(s, m)
  <2>1. S \in SUBSET Receipts /\ T \in SUBSET Receipts /\ h \in S
    BY <1>3, <1>12
  <2>2. /\ RowsOf(S) = RowsOf(S \ {h}) + Sum(ledger[h])
        /\ \A m \in Lots : RowsUnder(S, m) = RowsUnder(S \ {h}, m) + ledger[h][m]
    BY <1>3, <2>1, RowSums
  <2>3. RowsOf(T) \in Nat
    BY <1>3, <2>1, RowSums
  <2> QED
    BY <1>10, <1>11, <1>12, <2>2, <2>3
<1>14. BookOK(t)'
  <2>1. /\ ord[R].qty = Sum(s.members)
        /\ \A m \in Lots : RowsUnder(T, m) = Allocated(s, 0, s.hedged, m)
        /\ RowsOf(T) = s.hedged
    BY <1>0, <1>2, <1>3, <1>12 DEF BookOK, Past
  <2>2. \A offset, qty, m : Allocated(s, offset, qty, m) = Allocated(t, offset, qty, m)
    BY <1>4, SharesSame
  <2>3. S = HedgesOf(t.rest)' /\ S \ {t.hedge} = S
    BY <1>3, <1>4, <1>6, <1>12 DEF Receipts
  <2>4. \A m \in Lots : RowsUnder(S, m)' = Allocated(t, 0, t.hedged, m)
    BY <1>4, <1>6, <1>9, <1>13, <2>1, <2>2
  <2>5. RowsOf(S)' = t.hedged
    BY <1>4, <1>6, <1>13, <2>1
  <2>6. /\ \A m \in Lots : RowsUnder(S \ {t.hedge}, m)' = Allocated(t, 0, t.hedged, m)
        /\ RowsOf(S \ {t.hedge})' = t.hedged
    BY <2>3, <2>4, <2>5
  <2>7. ord'[t.rest].qty = Sum(t.members)
    BY <1>1, <1>4, <2>1
  <2> QED
    BY <1>4, <2>3, <2>6, <2>7, BookNext
<1>15. RoomFor(t)'
  BY <1>0, <1>1, <1>3, <1>4, RoomKept
<1>16. BookedFits'
  BY <1>6 DEF BookInv, BooksInv, BookedFits
<1>17. LetGo' \subseteq LetGo
  <2>1. \A k \in Lots : mem'[k].rest = mem[k].rest
    BY <1>0, <1>1, <1>4 DEF Typed
  <2> QED
    BY <1>1, <2>1 DEF LetGo
<1>18. BooksInv'
  BY <1>0, <1>1, <1>2, <1>4, <1>6, <1>7, <1>14, <1>15, <1>16, <1>17, OwnerBooks
<1> QED
  BY <1>5, <1>18

-----------------------------------------------------------------------------
(* The rows of a lot, over all receipts, in this state and in the next. *)
LEMMA BookedRows ==
  \A m \in Lots : /\ Booked(m) = RowsUnder(Receipts, m)
                  /\ Booked(m)' = RowsUnder(Receipts, m)'
BY DEF Booked, RowsUnder, LotRows, Sum, SumFunction

(* A row is appended: one member's share of the hedge under way.            *)
LEMMA AppendBooks ==
  ASSUME IInv, BookInv, NEW l \in Lots, pc[l] = "book", NEW m \in Unbooked(mem[l]),
         ledger' = [ledger EXCEPT ![mem[l].hedge][m] = @ + Share(mem[l], m)],
         UNCHANGED <<ord, next, mem>>, CountsTyped'
  PROVE  /\ BooksInv'
         /\ \A k \in Lots : Booked(k)' = Booked(k) \/ mem[l].members[k] > 0
<1>s. PICK s \in Exits : s = mem[l]
  BY OwnerFacts
<1>0. PICK h, R, c : s = mem[l] /\ h = s.hedge /\ R = s.rest /\ c = ord[h].cum
  BY <1>s
<1>2. R # 0 /\ s.rest # 0 /\ h # 0 /\ s.hedge # 0
  BY <1>0, OwnerFacts DEF TaskOK
<1>3. /\ BookOK(s) /\ RoomFor(s) /\ ExitOK(s) /\ CountsTyped /\ R \in Receipts /\ Typed
      /\ s.members \in [Lots -> Nat] /\ s.hedged \in Nat /\ c \in Nat
      /\ HedgesOf(R) \in SUBSET Receipts /\ h \in Receipts /\ h \in HedgesOf(R)
      /\ ord[h].rest = R
  BY <1>0, <1>2, ExitBook DEF HedgesOf
<1>4. PICK g : g = [k \in Lots |-> Share(s, k)]
  OBVIOUS
<1>5. /\ g \in [Lots -> Nat] /\ Sum(g) = c
      /\ \A k \in Lots :
            /\ Allocated(s, 0, s.hedged, k) \in Nat /\ Share(s, k) \in Nat
            /\ Allocated(s, 0, s.hedged, k) + Share(s, k) <= s.members[k]
  BY <1>0, <1>2, <1>4, HedgeShares
<1>6. m \in Lots /\ Share(s, m) > 0 /\ ledger[h][m] = 0
  BY <1>0 DEF Unbooked
<1>7. /\ ledger' \in [Receipts -> [Lots -> Nat]]
      /\ ledger'[h][m] = Share(s, m)
      /\ \A k \in Lots : k # m => ledger'[h][k] = ledger[h][k]
      /\ \A q \in Receipts : q # h => ledger'[q] = ledger[q]
  <2>1. ledger \in [Receipts -> [Lots -> Nat]]
    BY <1>3 DEF CountsTyped
  <2>2. PICK e : e = Share(s, m)
    OBVIOUS
  <2>3. ledger' = [ledger EXCEPT ![h][m] = @ + e] /\ e \in Nat /\ ledger[h][m] + e = e
    BY <1>0, <1>5, <1>6, <2>2
  <2> QED
    BY <1>3, <1>6, <2>1, <2>2, <2>3
<1>8. /\ \A r : HedgesOf(r)' = HedgesOf(r)
      /\ mem' = [mem EXCEPT ![l] = s] /\ h <= next
  BY <1>0, <1>2, <1>3 DEF HedgesOf, Typed, ExitOK
<1>9. PICK S, T : S = HedgesOf(R) /\ T = S \ {h}
  OBVIOUS
<1>10. /\ S \in SUBSET Receipts /\ T \in SUBSET Receipts /\ h \in S
       /\ \A q \in T : ledger'[q] = ledger[q]
  BY <1>3, <1>7, <1>9
<1>11. RowsOf(T)' = RowsOf(T) /\ \A k \in Lots : RowsUnder(T, k)' = RowsUnder(T, k)
  BY <1>3, <1>10, RowsAlone
<1>12. \A k \in Lots : /\ ledger[h][k] \in {0, Share(s, k)}
                       /\ ledger'[h][k] \in {0, Share(s, k)}
  <2>1. \A k \in Lots : ledger[h][k] \in {0, Share(s, k)}
    BY <1>0, <1>2, <1>3 DEF BookOK
  <2> QED
    BY <1>7, <2>1
<1>13. RowsOK'
  <2> SUFFICES ASSUME NEW r \in Receipts PROVE RowOK(r)'
    BY DEF RowsOK
  <2>1. RowOK(r)
    BY DEF BookInv, BooksInv, RowsOK
  <2>2. CASE r # h
    BY <1>7, <2>1, <2>2 DEF RowOK
  <2>3. CASE r = h
    <3>1. PICK f : f = ledger'[h]
      OBVIOUS
    <3>2. f \in [Lots -> Nat] /\ \A k \in Lots : f[k] <= g[k] /\ f[k] \in Nat /\ g[k] \in Nat
      BY <1>3, <1>4, <1>5, <1>7, <1>12, <3>1
    <3>3. SumFunctionOnSet(f, Lots) <= SumFunctionOnSet(g, Lots)
      BY <3>2, LotsFinite, SumMonotonic
    <3>4. Sum(f) <= c
      BY <1>5, <3>2, <3>3, LotsFinite, SumIs
    <3>5. ~(r > next') /\ ord'[r].rest <= next' /\ ord'[r].cum = c
      <4>1. h \in Nat /\ next \in Nat
        BY <1>3, ReceiptAssumption DEF Receipts, Typed
      <4> QED
        BY <1>0, <1>8, <2>1, <2>3, <4>1 DEF RowOK
    <3> QED
      BY <2>3, <3>1, <3>4, <3>5 DEF RowOK
  <2> QED
    BY <2>2, <2>3
<1>14. BookOK(s)'
  <2>1. /\ ord[R].qty = Sum(s.members)
        /\ \A k \in Lots : RowsUnder(T, k) = Allocated(s, 0, s.hedged, k)
        /\ RowsOf(T) = s.hedged
    BY <1>0, <1>2, <1>3, <1>9 DEF BookOK, Past
  <2>2. S = HedgesOf(s.rest)' /\ T = S \ {s.hedge}
    BY <1>0, <1>8, <1>9
  <2>3. /\ \A k \in Lots : RowsUnder(T, k)' = Allocated(s, 0, s.hedged, k)
        /\ RowsOf(T)' = s.hedged
    BY <1>11, <2>1
  <2>4. /\ \A k \in Lots : RowsUnder(S \ {s.hedge}, k)' = Allocated(s, 0, s.hedged, k)
        /\ RowsOf(S \ {s.hedge})' = s.hedged
    BY <2>2, <2>3
  <2>5. \A k \in Lots : ledger'[s.hedge][k]
                            \in {0, Allocated(s, s.hedged, ord'[s.hedge].cum, k)}
    BY <1>0, <1>12 DEF Share
  <2>6. ord'[s.rest].qty = Sum(s.members)
    BY <1>0, <2>1
  <2> QED
    BY <2>2, <2>4, <2>5, <2>6, BookNext
<1>15. \A k \in Lots : /\ k # m => Booked(k)' = Booked(k)
                       /\ k = m => Booked(k)' = Booked(k) + Share(s, k)
                       /\ Booked(k) \in Nat
  <2> SUFFICES ASSUME NEW k \in Lots
               PROVE  /\ k # m => Booked(k)' = Booked(k)
                      /\ k = m => Booked(k)' = Booked(k) + Share(s, k)
                      /\ Booked(k) \in Nat
    OBVIOUS
  <2>1. PICK Q : Q = Receipts \ {h}
    OBVIOUS
  <2>2. Q \in SUBSET Receipts /\ Receipts \in SUBSET Receipts /\ \A q \in Q : ledger'[q] = ledger[q]
    BY <1>7, <2>1
  <2>3. RowsUnder(Q, k)' = RowsUnder(Q, k)
    BY <1>3, <2>2, RowsAlone
  <2>4. RowsUnder(Receipts, k) = RowsUnder(Q, k) + ledger[h][k] /\ RowsUnder(Q, k) \in Nat
    BY <1>3, <2>1, <2>2, RowSums
  <2>5. RowsUnder(Receipts, k)' = RowsUnder(Q, k)' + ledger'[h][k]
    BY <1>3, <2>1, <2>2, RowSumsNext
  <2>6. /\ Booked(k) = RowsUnder(Receipts, k) /\ Booked(k) \in Nat
        /\ Booked(k)' = RowsUnder(Receipts, k)'
    BY <1>3, BookedIs, BookedRows
  <2> QED
    BY <1>5, <1>6, <1>7, <2>3, <2>4, <2>5, <2>6
<1>16. s.members[m] > 0 /\ s.members[m] \in Nat
  <2>1. s.members[m] \in Nat
    BY <1>3, <1>6
  <2> QED
    BY <1>5, <1>6, <2>1
<1>17. \A k \in Lots : /\ RowsUnder(S, k)' = RowsUnder(T, k) + ledger'[h][k]
                       /\ RowsUnder(S, k) = RowsUnder(T, k) + ledger[h][k]
                       /\ RowsUnder(T, k) \in Nat
  <2> SUFFICES ASSUME NEW k \in Lots
               PROVE  /\ RowsUnder(S, k)' = RowsUnder(T, k) + ledger'[h][k]
                      /\ RowsUnder(S, k) = RowsUnder(T, k) + ledger[h][k]
                      /\ RowsUnder(T, k) \in Nat
    OBVIOUS
  <2>1. RowsUnder(S, k) = RowsUnder(T, k) + ledger[h][k]
    BY <1>3, <1>9, <1>10, RowSums
  <2>2. RowsUnder(S, k)' = RowsUnder(T, k)' + ledger'[h][k]
    <3>1. \A q \in S : RowsUnder(S, k)' = RowsUnder(S \ {q}, k)' + ledger'[q][k]
      BY <1>10, RowSumsNext
    <3> QED
      BY <1>9, <1>10, <3>1
  <2>3. RowsUnder(T, k) \in Nat
    BY <1>3, <1>10, RowSums
  <2> QED
    BY <1>11, <2>1, <2>2, <2>3
<1>18. \A k \in Lots : s.members[k] > 0 => Booked(k) + s.members[k] <= Open[k] + RowsUnder(S, k)
  BY <1>0, <1>3, <1>9 DEF RoomFor
<1>19. \A k \in Lots : Open[k] \in Nat /\ s.members[k] \in Nat
  BY <1>3, LotsAssumption
<1>20. RoomFor(s)'
  <2>1. ASSUME NEW k \in Lots, s.members[k] > 0
        PROVE  Booked(k)' + s.members[k] <= Open[k] + RowsUnder(S, k)'
    <3>1. /\ Booked(k) \in Nat /\ RowsUnder(T, k) \in Nat /\ Open[k] \in Nat
          /\ s.members[k] \in Nat /\ Share(s, k) \in Nat
          /\ Booked(k) + s.members[k] <= Open[k] + RowsUnder(S, k)
          /\ RowsUnder(S, k) = RowsUnder(T, k) + ledger[h][k]
          /\ RowsUnder(S, k)' = RowsUnder(T, k) + ledger'[h][k]
      BY <1>5, <1>15, <1>17, <1>18, <1>19, <2>1
    <3>2. CASE k = m
      <4>1. Booked(k)' = Booked(k) + Share(s, k) /\ ledger[h][k] = 0 /\ ledger'[h][k] = Share(s, k)
        BY <1>6, <1>7, <1>15, <3>2
      <4> QED
        BY <3>1, <4>1
    <3>3. CASE k # m
      <4>1. Booked(k)' = Booked(k) /\ ledger'[h][k] = ledger[h][k]
        BY <1>7, <1>15, <3>3
      <4> QED
        BY <3>1, <4>1
    <3> QED
      BY <3>2, <3>3
  <2>2. S = HedgesOf(s.rest)'
    BY <1>0, <1>8, <1>9
  <2> QED
    BY <2>1, <2>2, RoomNext
<1>21. BookedFits'
  <2>1. \A k \in Lots : Booked(k) <= Open[k]
    BY DEF BookInv, BooksInv, BookedFits
  <2>2. Booked(m)' <= Open[m]
    <3>1. RowsUnder(T, m) = Allocated(s, 0, s.hedged, m)
      BY <1>0, <1>2, <1>3, <1>6, <1>9 DEF BookOK, Past
    <3>2. /\ Booked(m)' = Booked(m) + Share(s, m) /\ Booked(m) \in Nat
          /\ Booked(m) + s.members[m] <= Open[m] + RowsUnder(T, m)
          /\ RowsUnder(T, m) \in Nat /\ Open[m] \in Nat /\ Share(s, m) \in Nat
          /\ RowsUnder(T, m) + Share(s, m) <= s.members[m]
      BY <1>5, <1>6, <1>15, <1>16, <1>17, <1>18, <1>19, <3>1
    <3> QED
      BY <1>16, <3>2
  <2>3. \A k \in Lots : Booked(k)' <= Open[k]
    BY <1>15, <2>1, <2>2
  <2> QED
    BY <2>3 DEF BookedFits
<1>22. /\ LetGo' \subseteq LetGo
       /\ \A k \in Lots : Booked(k)' = Booked(k) \/ mem[l].members[k] > 0
       /\ \A q \in Receipts : ord[q].rest # R => ledger'[q] = ledger[q]
  <2>1. LetGo' \subseteq LetGo
    BY DEF LetGo
  <2> QED
    BY <1>0, <1>3, <1>7, <1>15, <1>16, <2>1
<1>23. BooksInv'
  <2>1. /\ \A q \in Receipts : q <= next /\ ord[q].rest # R /\ q # R =>
                   ord'[q].cum = ord[q].cum /\ ord'[q].qty = ord[q].qty
        /\ \A r \in Receipts : r # R => HedgesOf(r)' = HedgesOf(r)
    BY <1>8
  <2>2. mem[l].rest = R /\ R = s.rest /\ R # 0 /\ mem' = [mem EXCEPT ![l] = s]
    BY <1>0, <1>2, <1>8
  <2> QED
    BY <1>13, <1>14, <1>20, <1>21, <1>22, <2>1, <2>2, OwnerBooks
<1> QED
  BY <1>22, <1>23

(* Booking a hedge, or stopping at a failed append. *)
LEMMA BookBooks ==
  ASSUME IInv, BookInv, CountsTyped', NEW l \in Lots, Book(l)
  PROVE  /\ BooksInv' /\ QuantitiesOK'
         /\ \A k \in Lots : Booked(k)' = Booked(k) \/ mem[l].members[k] > 0
<1>1. /\ UNCHANGED next /\ UNCHANGED ord /\ Typed /\ QuantitiesOK /\ pc[l] = "book"
      /\ UNCHANGED pass
  BY DEF Book, Step, venue, IInv, BookInv
<1>2. PICK m \in Unbooked(mem[l]) :
         \/ /\ ledger' = [ledger EXCEPT ![mem[l].hedge][m] = @ + Share(mem[l], m)]
            /\ UNCHANGED <<mem, file, pc, by, latched>>
         \/ Park(l, mem[l]) /\ UNCHANGED ledger
  BY DEF Book
<1>3. QuantitiesOK'
  BY <1>1, NoOrderMoves
<1>4. CASE ledger' = [ledger EXCEPT ![mem[l].hedge][m] = @ + Share(mem[l], m)] /\ UNCHANGED mem
  BY <1>1, <1>3, <1>4, AppendBooks
<1>5. CASE Park(l, mem[l]) /\ UNCHANGED ledger
  <2>1. BooksInv'
    BY <1>1, <1>5, ParkBooks
  <2>2. \A k \in Lots : Booked(k)' = Booked(k)
    BY <1>5 DEF Booked
  <2> QED
    BY <1>3, <2>1, <2>2
<1> QED
  BY <1>2, <1>4, <1>5

(* A group is placed: nothing of it is booked, and its lots have the room  *)
(* their plans were made for.                                              *)
LEMMA PlaceBooks ==
  ASSUME IInv, BookInv, NEW l \in Lots, PlaceGroup(l)
  PROVE  BooksInv' /\ QuantitiesOK'
<1>1. /\ pass \in Passes /\ PlansOK /\ pass.at = "lock" /\ l \in pass.todo
      /\ pass.todo \subseteq Lots
      /\ \A m \in pass.todo : pass.plans[m].qty > 0
      /\ \A m \in Lots : pass.plans[m].qty \in Nat /\ pass.plans[m].key \in AnyKey
      /\ UNCHANGED ledger /\ Typed /\ QuantitiesOK /\ CountsTyped
      /\ ord \in [Receipts -> Orders]
  BY DEF PlaceGroup, IInv, Typed, Passes, PlansOK, BookInv
<1>2. CASE UNCHANGED <<next, ord, mem>>
  BY <1>1, <1>2, PassBooks
<1>3. CASE ~UNCHANGED <<next, ord, mem, file, pc, by>>
  <2>1. PICK ms, key : /\ ms = [m \in Lots |-> IF m \in pass.todo THEN pass.plans[m].qty ELSE 0]
                       /\ key = pass.plans[l].key
    OBVIOUS
  <2>2. PICK R, t, o :
           /\ R = next + 1
           /\ t = [Free EXCEPT !.rest = R, !.key = key, !.members = ms]
           /\ o = [NoOrder EXCEPT !.st = "flight", !.qty = Sum(ms), !.at = RestVenue(key),
                                  !.ioc = key.cross # 0]
    OBVIOUS
  <2>3. /\ t.members = ms /\ t.key = key /\ t.rest = R /\ t.hedge = 0 /\ t.hedged = 0
    BY <2>2 DEF Free
  <2>4. /\ mem[l].rest = 0 /\ R <= scene.orders /\ next' = R
        /\ ord' = [ord EXCEPT ![R] = o] /\ mem' = [mem EXCEPT ![l] = t]
    BY <1>3, <2>1, <2>2, <2>3 DEF PlaceGroup, Checkpoint, Busy
  <2>5. /\ next \in 0..MaxReceipts /\ scene.orders \in 0..MaxReceipts /\ MaxReceipts \in Nat
    BY SceneAssumption, ReceiptAssumption DEF IInv, Typed
  <2>6. /\ R \in Receipts /\ R > next /\ R # 0 /\ next \in Nat
    BY <2>2, <2>4, <2>5 DEF Receipts
  <2>7. ms \in [Lots -> Nat] /\ ms[l] > 0
    BY <1>1, <2>1
  <2>8. t \in Exits
    BY <1>1, <2>1, <2>2, <2>6, <2>7, FreeIsAnExit DEF Exits, Free
  <2>9. /\ o.rest = 0 /\ o.cum = 0 /\ o.qty = Sum(ms) /\ o.st = "flight"
    BY <2>2 DEF NoOrder
  <2>10. Sum(ms) \in Nat /\ Sum(ms) > 0
    <3>1. Sum(ms) = SumFunctionOnSet(ms, Lots) /\ Sum(ms) \in Nat
      BY <2>7, LotsFinite, SumIs
    <3>2. Sum(ms) # 0
      BY <2>7, <3>1, LotsFinite, SumNone
    <3> QED
      BY <3>1, <3>2
  <2>11. ord'[R] = o /\ \A q \in Receipts \ {R} : ord'[q] = ord[q]
    BY <1>1, <2>4, <2>6
  <2>12. QuantitiesOK'
    <3>1. QuantityOK(o)
      BY <2>9, <2>10 DEF QuantityOK
    <3>2. \A q \in Receipts : QuantityOK(ord'[q])
      BY <1>1, <2>11, <3>1 DEF QuantitiesOK
    <3> QED
      BY <3>2 DEF QuantitiesOK, QuantityOK
  <2>13. /\ OrderOK(R) /\ RowOK(R) /\ ord[R].rest = 0
         /\ \A m \in Lots : ledger[R][m] = 0
    <3>1. OrderOK(R) /\ RowOK(R) /\ NoOrder.rest = 0
      BY <2>6 DEF IInv, Money, OrdersOK, BookInv, BooksInv, RowsOK, NoOrder
    <3> QED
      BY <2>6, <3>1 DEF OrderOK, RowOK
  <2>14. \A q \in Receipts : ord[q].rest # R
    <3>1. \A q \in Receipts : ord[q].rest <= next
      BY DEF BookInv, BooksInv, RowsOK, RowOK
    <3>2. ~(R <= next)
      BY <2>2, <2>6
    <3> QED
      BY <3>1, <3>2
  <2>15. /\ \A S : RowsOf(S)' = RowsOf(S)
         /\ \A S, m : RowsUnder(S, m)' = RowsUnder(S, m)
         /\ \A m : Booked(m)' = Booked(m)
    BY <1>1 DEF RowsOf, RowsUnder, Booked
  <2>16. \A r \in Receipts : HedgesOf(r)' = HedgesOf(r)
    <3>1. \A r \in Receipts : r # 0
      BY DEF Receipts
    <3> QED
      BY <2>9, <2>11, <2>13, <3>1 DEF HedgesOf
  <2>17. PICK S : S = HedgesOf(R)'
    OBVIOUS
  <2>18. S = {} /\ S \ {t.hedge} = S
    BY <2>6, <2>14, <2>16, <2>17 DEF HedgesOf
  <2>19. RowsOK'
    <3> SUFFICES ASSUME NEW r \in Receipts PROVE RowOK(r)'
      BY DEF RowsOK
    <3>1. RowOK(r)
      BY DEF BookInv, BooksInv, RowsOK
    <3>2. next' = next + 1 /\ (r > next' => r > next)
      BY <2>2, <2>4, <2>6 DEF Receipts
    <3>3. r > next' => \A m \in Lots : ledger'[r][m] = 0
      BY <1>1, <3>1, <3>2 DEF RowOK
    <3>4. CASE r = R
      <4>1. Sum(ledger[R]) = 0
        BY <1>1, <2>6, <2>13, EmptyRow
      <4>2. ord'[R].cum = 0 /\ ord'[R].rest = 0
        BY <2>9, <2>11
      <4>3. 0 <= next'
        BY <2>6, <3>2
      <4> QED
        BY <1>1, <3>3, <3>4, <4>1, <4>2, <4>3 DEF RowOK
    <3>5. CASE r # R
      <4>1. ord'[r] = ord[r] /\ ord[r].rest \in {0} \cup Receipts
        BY <1>1, <2>11, <3>5 DEF Orders
      <4>2. ord[r].rest <= next'
        BY <2>6, <3>1, <3>2, <4>1 DEF RowOK, Receipts
      <4> QED
        BY <1>1, <3>1, <3>3, <4>1, <4>2 DEF RowOK
    <3> QED
      BY <3>4, <3>5
  <2>20. BookOK(t)'
    <3>1. /\ RowsOf(S) = 0 /\ \A m : RowsUnder(S, m) = 0
      BY <2>18, NoRows
    <3>2. \A m \in Lots : Allocated(t, 0, 0, m) = 0
      <4> SUFFICES ASSUME NEW m \in Lots PROVE Allocated(t, 0, 0, m) = 0
        OBVIOUS
      <4>1. Before(t, m) \in Nat /\ t.members[m] \in Nat
        BY <2>3, <2>7, BeforeIs
      <4>2. 0 \in Nat /\ 0 + 0 = 0
        OBVIOUS
      <4>3. PICK z : z = 0 + 0
        OBVIOUS
      <4>4. Allocated(t, 0, 0, m) + Allocated(t, 0, 0, m) = Allocated(t, 0, z, m)
        BY <4>1, <4>2, <4>3, SharesAdd
      <4>5. Allocated(t, 0, 0, m) \in Nat
        BY <4>1, <4>2, SharesAdd
      <4>6. z = 0
        BY <4>3
      <4>7. PICK a : a = Allocated(t, 0, 0, m)
        OBVIOUS
      <4>8. a + a = a /\ a \in Nat
        BY <4>4, <4>5, <4>6, <4>7, Zenon
      <4>9. a = 0
        BY <4>8
      <4> QED
        BY <4>7, <4>9
    <3>3. /\ \A m \in Lots : RowsUnder(S, m)' = 0
          /\ RowsOf(S)' = 0
      BY <2>15, <3>1
    <3>4. /\ \A m \in Lots : RowsUnder(S \ {t.hedge}, m)' = Allocated(t, 0, t.hedged, m)
          /\ RowsOf(S \ {t.hedge})' = t.hedged
      BY <2>3, <2>18, <3>2, <3>3
    <3>5. ord'[t.rest].qty = Sum(t.members) /\ t.hedge = 0 /\ S = HedgesOf(t.rest)'
      BY <2>3, <2>9, <2>11, <2>17
    <3> QED
      BY <3>4, <3>5, BookNext
  <2>21. RoomFor(t)'
    <3>1. ASSUME NEW m \in Lots, t.members[m] > 0
          PROVE  Booked(m)' + t.members[m] <= Open[m] + RowsUnder(S, m)'
      <4>1. t.members[m] = pass.plans[m].qty /\ pass.plans[m].qty > 0
        BY <2>1, <2>3, <3>1
      <4>2. Booked(m) + pass.plans[m].qty <= Open[m]
        BY <4>1 DEF BookInv, RoomPlanned
      <4>3. RowsUnder(S, m) = 0
        BY <2>18, NoRows
      <4>4. Open[m] \in Nat
        BY LotsAssumption
      <4>5. RowsUnder(S, m)' = 0 /\ Booked(m)' = Booked(m)
        BY <2>15, <4>3
      <4> QED
        BY <4>1, <4>2, <4>4, <4>5
    <3>2. S = HedgesOf(t.rest)'
      BY <2>3, <2>17
    <3> QED
      BY <3>1, <3>2, RoomNext
  <2>22. BookedFits'
    BY <2>15 DEF BookInv, BooksInv, BookedFits
  <2>23. LetGo' \subseteq LetGo
    <3>1. mem'[l].rest = R /\ \A k \in Lots : k # l => mem'[k].rest = mem[k].rest
      BY <2>3, <2>4 DEF IInv, Typed
    <3>2. \A r \in 1..next' : r \in Receipts /\ (r = R \/ r \in 1..next)
      BY <2>2, <2>4, <2>5, <2>6 DEF Receipts
    <3>3. \A r \in 1..next : r # mem[l].rest
      BY <2>4
    <3> QED
      BY <2>11, <3>1, <3>2, <3>3 DEF LetGo
  <2>24. /\ \A q \in Receipts : q <= next /\ ord[q].rest # R /\ q # R =>
                   ord'[q].cum = ord[q].cum /\ ord'[q].qty = ord[q].qty
         /\ \A q \in Receipts : ord[q].rest # R => ledger'[q] = ledger[q]
         /\ \A r \in Receipts : r # R => HedgesOf(r)' = HedgesOf(r)
         /\ \A m \in Lots : Booked(m)' = Booked(m) \/ mem[l].members[m] > 0
    BY <1>1, <2>11, <2>15, <2>16
  <2>25. BooksInv'
    <3>1. /\ R = t.rest /\ R # 0 /\ mem[l].rest = 0 /\ R = next + 1
          /\ mem' = [mem EXCEPT ![l] = t]
      BY <2>2, <2>3, <2>4, <2>6
    <3> QED
      BY <2>8, <2>19, <2>20, <2>21, <2>22, <2>23, <2>24, <3>1,
         OwnerBooks
  <2> QED
    BY <2>12, <2>25
<1> QED
  BY <1>2, <1>3

(* Counts, locks and starts have their types. *)
LEMMA CountsStep ==
  ASSUME IInv, BookInv, [Next]_vars PROVE CountsTyped'
<1>1. /\ ledger \in [Receipts -> [Lots -> Nat]]
      /\ by \in [Lots -> {"none", "pass", "event"}] /\ starts \in Nat
  BY DEF BookInv, CountsTyped
<1> DEFINE Who == {"none", "pass", "event"}
<1>2. ASSUME NEW l \in Lots, NEW who \in Who, NEW at, Lock(l, who, at) \/ Goto(l, at)
      PROVE  by' \in [Lots -> Who]
  <2>1. PICK w \in Who : by' = [by EXCEPT ![l] = w]
    <3>1. CASE Lock(l, who, at)
      BY <3>1 DEF Lock
    <3>2. CASE Goto(l, at)
      <4>1. (IF at = "idle" THEN "none" ELSE by[l]) \in Who
        BY <1>1
      <4> QED
        BY <3>2, <4>1 DEF Goto, Lock
    <3> QED
      BY <1>2, <3>1, <3>2
  <2> QED
    BY <1>1, <2>1
<1> HIDE DEF Who
<1>3. "none" \in Who /\ "pass" \in Who /\ "event" \in Who
  BY DEF Who
<1>4. \A s : \A l \in Lots : Park(l, s) => by' \in [Lots -> Who]
  BY <1>2, <1>3 DEF Park
<1>5. \A l \in Lots : Release(l) => by' \in [Lots -> Who]
  BY <1>2, <1>3 DEF Release
<1>6. \A at : \A l \in Lots : Goto(l, at) => by' \in [Lots -> Who]
  BY <1>2, <1>3
<1>7. ASSUME NEW l \in Lots, Advance(l), ~Book(l)
      PROVE  by' \in [Lots -> Who] /\ UNCHANGED <<ledger, starts>>
  <2>1. UNCHANGED <<ledger, starts>>
    BY <1>7 DEF Advance, Placed, PlaceRefused, PlaceUnknown, RecoverRest, LookAtRest,
       ReadPulled, Settled, SendHedge, NoPrice, HedgeTaken, HedgeRefused, HedgeUnknown,
       AskHedge, Forget, Step
  <2>2. CASE Placed(l) \/ PlaceRefused(l) \/ PlaceUnknown(l)
    <3>1. \E at : Goto(l, at)
      BY <2>2 DEF Placed, PlaceRefused, PlaceUnknown
    <3> QED
      BY <2>1, <1>6, <3>1
  <2>3. CASE RecoverRest(l)
    <3>1. (\E at : Goto(l, at)) \/ Release(l) \/ \E s : Park(l, s)
      BY <2>3 DEF RecoverRest
    <3> QED
      BY <2>1, <1>4, <1>5, <1>6, <3>1
  <2>4. CASE LookAtRest(l) \/ ReadPulled(l)
    <3>1. (\E at : Goto(l, at)) \/ \E s : Park(l, s)
      BY <2>4 DEF LookAtRest, ReadPulled, TakeFills, Pull, Keep
    <3> QED
      BY <2>1, <1>4, <1>6, <3>1
  <2>5. CASE Settled(l)
    BY <1>5, <2>1, <2>5 DEF Settled
  <2>6. CASE SendHedge(l) \/ HedgeTaken(l)
    <3>1. \E at : Goto(l, at)
      BY <2>6 DEF SendHedge, HedgeTaken
    <3> QED
      BY <2>1, <1>6, <3>1
  <2>7. CASE NoPrice(l) \/ HedgeRefused(l) \/ HedgeUnknown(l)
    <3>1. \E s : Park(l, s)
      BY <2>7 DEF NoPrice, HedgeRefused, HedgeUnknown
    <3> QED
      BY <2>1, <1>4, <3>1
  <2>8. CASE AskHedge(l)
    <3>1. by' = by \/ (\E at : Goto(l, at)) \/ \E s : Park(l, s)
      BY <2>8 DEF AskHedge
    <3>2. by \in [Lots -> Who]
      BY <1>1 DEF Who
    <3> QED
      BY <2>1, <1>4, <1>6, <3>1, <3>2
  <2>9. CASE Forget(l)
    <3>1. (\E at : Goto(l, at)) \/ \E s : Park(l, s)
      BY <2>9 DEF Forget
    <3> QED
      BY <2>1, <1>4, <1>6, <3>1
  <2> QED
    BY <1>7, <2>1, <2>2, <2>3, <2>4, <2>5, <2>6, <2>7, <2>8, <2>9 DEF Advance
<1>8. ASSUME NEW l \in Lots, Book(l)
      PROVE  by' \in [Lots -> Who] /\ ledger' \in [Receipts -> [Lots -> Nat]] /\ UNCHANGED starts
  <2>s. PICK s \in Exits : s = mem[l]
    BY OwnerFacts
  <2>0. PICK h : s = mem[l] /\ h = s.hedge
    BY <2>s
  <2>1. pc[l] = "book" /\ UNCHANGED starts
    BY <1>8 DEF Book, Step
  <2>2. s.hedge # 0 /\ h \in Receipts
    BY <2>0, <2>1, OwnerFacts DEF TaskOK
  <2>3. PICK m \in Lots :
           \/ /\ ledger' = [ledger EXCEPT ![h][m] = @ + Share(s, m)]
              /\ UNCHANGED <<mem, file, pc, by, latched>>
           \/ Park(l, s) /\ UNCHANGED ledger
    BY <1>8, <2>0 DEF Book, Unbooked
  <2>4. Share(s, m) \in Nat
    BY <2>0, <2>2, HedgeShares
  <2>5. CASE ledger' = [ledger EXCEPT ![h][m] = @ + Share(s, m)] /\ UNCHANGED by
    <3>1. PICK e \in Nat : e = Share(s, m)
      BY <2>4
    <3>2. ledger' = [ledger EXCEPT ![h][m] = @ + e] /\ ledger[h][m] + e \in Nat
      BY <1>1, <2>2, <2>5, <3>1
    <3>3. ledger' \in [Receipts -> [Lots -> Nat]]
      BY <1>1, <2>2, <3>2
    <3> QED
      BY <1>1, <2>1, <2>5, <3>3 DEF Who
  <2>6. CASE Park(l, s) /\ UNCHANGED ledger
    BY <1>1, <1>4, <2>1, <2>6
  <2> QED
    BY <2>3, <2>5, <2>6
<1>9. ASSUME NEW r \in Receipts, Land(r) \/ Fill(r) \/ Expire(r) \/ Age(r)
      PROVE  UNCHANGED <<ledger, by, starts>>
  BY <1>9 DEF Land, Fill, Expire, Age, disk, task
<1>10. ASSUME NEW l \in Lots, Manage(l) \/ Regroup(l) \/ PlaceGroup(l)
       PROVE  by' \in [Lots -> Who] /\ UNCHANGED <<ledger, starts>>
  <2>1. UNCHANGED <<ledger, starts>>
    BY <1>10 DEF Manage, Regroup, PlaceGroup, disk
  <2>2. by' = by \/ \E at : \E who \in Who : Lock(l, who, at)
    BY <1>3, <1>10 DEF Manage, Regroup, PlaceGroup
  <2> QED
    BY <1>1, <1>2, <2>1, <2>2 DEF Who
<1>11. ASSUME NEW l \in Lots, PassPlans(l) \/ ChooseGroup(l) \/ PassTurns
       PROVE  UNCHANGED <<ledger, by, starts>>
  BY <1>11 DEF PassPlans, ChooseGroup, PassTurns, disk, task
<1>12. CASE Restart
  <2>1. by' = [l \in Lots |-> "none"] /\ ledger' = ledger /\ starts' = starts + 1
    BY <1>12 DEF Restart, disk
  <2> QED
    BY <1>1, <2>1 DEF CountsTyped
<1>13. CASE UNCHANGED vars
  BY <1>1, <1>13 DEF vars, disk, task, CountsTyped
<1>14. ASSUME by' \in [Lots -> Who] /\ UNCHANGED <<ledger, starts>> PROVE CountsTyped'
  BY <1>1, <1>14 DEF CountsTyped, Who
<1>15. ASSUME UNCHANGED <<ledger, by, starts>> PROVE CountsTyped'
  BY <1>1, <1>15 DEF CountsTyped
<1>16. ASSUME NEW l \in Lots, Book(l) PROVE CountsTyped'
  BY <1>1, <1>8, <1>16 DEF CountsTyped, Who
<1>17. CASE PassTurns
  BY <1>15, <1>17 DEF PassTurns, disk, task
<1> QED
  BY <1>7, <1>9, <1>10, <1>11, <1>12, <1>13, <1>14, <1>15, <1>16, <1>17 DEF Next

(* The room a plan was made for is still there: nobody books a lot that no  *)
(* exit holds.                                                              *)
LEMMA PlannedKept ==
  ASSUME IInv, BookInv, [Next]_vars, CountsTyped' PROVE RoomPlanned'
<1>1. /\ pass \in Passes /\ PlansOK /\ RoomPlanned /\ Typed /\ CountsTyped /\ BookedFits
  BY DEF IInv, Typed, BookInv, BooksInv
<1>2. ASSUME \A m \in Lots : pass.plans[m].qty > 0 => Booked(m)' = Booked(m),
             \A m \in Lots : pass'.plans[m].qty > 0 => pass'.plans[m] = pass.plans[m]
      PROVE  RoomPlanned'
  <2>1. ASSUME NEW m \in Lots, pass'.plans[m].qty > 0
        PROVE  Booked(m)' + pass'.plans[m].qty <= Open[m]
    BY <1>1, <1>2, <2>1 DEF RoomPlanned
  <2> QED
    BY <2>1 DEF RoomPlanned
<1>3. ASSUME UNCHANGED ledger PROVE \A m : Booked(m)' = Booked(m)
  BY <1>3 DEF Booked
<1>4. ASSUME UNCHANGED pass
      PROVE  \A m \in Lots : pass'.plans[m].qty > 0 => pass'.plans[m] = pass.plans[m]
  BY <1>4
<1>5. ASSUME NEW g, pass'.plans = Drop(g)
      PROVE  \A m \in Lots : pass'.plans[m].qty > 0 => pass'.plans[m] = pass.plans[m]
  <2> SUFFICES ASSUME NEW m \in Lots, Drop(g)[m].qty > 0 PROVE Drop(g)[m] = pass.plans[m]
    BY <1>5
  <2>1. m \notin g
    BY <1>1, DropTyped
  <2> QED
    BY <2>1 DEF Drop
<1>6. ASSUME NEW l \in Lots, Book(l) PROVE RoomPlanned'
  <2>1. /\ UNCHANGED pass
        /\ \A k \in Lots : Booked(k)' = Booked(k) \/ mem[l].members[k] > 0
    BY <1>6, BookBooks DEF Book, Step
  <2>2. \A m \in Lots : pass.plans[m].qty > 0 => ~(mem[l].members[m] > 0)
    BY <1>1 DEF PlansOK, Reserved, MembersOf
  <2> QED
    BY <1>2, <1>4, <2>1, <2>2
<1>7. ASSUME NEW l \in Lots, PassPlans(l) PROVE RoomPlanned'
  <2>1. PICK p \in {NoPlan} \cup [qty : 1..Total, key : Keys] :
              /\ p # NoPlan => p.qty <= OpenLeft(l)
              /\ pass' = [pass EXCEPT !.todo = @ \ {l}, !.plans[l] = p]
    BY <1>7 DEF PassPlans
  <2>2. UNCHANGED ledger
    BY <1>7 DEF PassPlans, disk
  <2>3. pass'.plans = [pass.plans EXCEPT ![l] = p] /\ pass.plans \in [Lots -> [qty : Nat, key : AnyKey]]
    BY <1>1, <2>1 DEF Passes
  <2>4. ASSUME NEW m \in Lots, pass'.plans[m].qty > 0
        PROVE  Booked(m)' + pass'.plans[m].qty <= Open[m]
    <3>1. CASE m # l
      BY <1>1, <1>3, <2>2, <2>3, <2>4, <3>1 DEF RoomPlanned
    <3>2. CASE m = l
      <4>1. pass'.plans[m] = p /\ p.qty > 0
        BY <2>3, <2>4, <3>2
      <4>2. p # NoPlan
        BY <4>1, NoPlanTyped
      <4>3. p.qty <= Minus(Open[m], Booked(m)) /\ p.qty \in Nat
        BY <2>1, <3>2, <4>2, TotalAssumption DEF OpenLeft
      <4>4. Booked(m) \in Nat /\ Open[m] \in Nat
        BY <1>1, BookedIs, LotsAssumption
      <4>5. Booked(m) + p.qty <= Open[m]
        BY <4>1, <4>3, <4>4 DEF Minus
      <4> QED
        BY <1>3, <2>2, <4>1, <4>5
    <3> QED
      BY <3>1, <3>2
  <2> QED
    BY <2>4 DEF RoomPlanned
<1>8. ASSUME NEW l \in Lots, Regroup(l) PROVE RoomPlanned'
  <2>1. PICK m \in Lots : pass' = [pass EXCEPT !.plans = Drop(Group(m))]
    BY <1>8 DEF Regroup
  <2>2. pass'.plans = Drop(Group(m)) /\ UNCHANGED ledger
    BY <1>1, <1>8, <2>1 DEF Regroup, disk, Passes
  <2> QED
    BY <1>2, <1>3, <1>5, <2>2
<1>9. ASSUME NEW l \in Lots, ChooseGroup(l) PROVE RoomPlanned'
  <2>1. UNCHANGED ledger
    BY <1>9 DEF ChooseGroup, disk
  <2>2. pass'.plans = pass.plans \/ pass'.plans = Drop(Group(l))
    BY <1>1, <1>9 DEF ChooseGroup, Passes
  <2> QED
    BY <1>2, <1>3, <1>5, <2>1, <2>2
<1>10. ASSUME NEW l \in Lots, PlaceGroup(l) PROVE RoomPlanned'
  <2>1. UNCHANGED ledger
    BY <1>10 DEF PlaceGroup
  <2>2. pass'.plans = Drop(pass.todo)
    BY <1>1, <1>10 DEF PlaceGroup, Passes
  <2> QED
    BY <1>2, <1>3, <1>5, <2>1, <2>2
<1>11. CASE PassTurns
  <2>1. UNCHANGED ledger
    BY <1>11 DEF PassTurns, disk
  <2>2. pass'.plans = pass.plans
    BY <1>1, <1>11 DEF PassTurns, Passes
  <2> QED
    BY <1>2, <1>3, <2>1, <2>2
<1>12. CASE Restart
  <2>1. UNCHANGED ledger /\ pass' = PassInit
    BY <1>12 DEF Restart, disk
  <2>2. \A m \in Lots : ~(pass'.plans[m].qty > 0)
    BY <2>1, NoPlanTyped DEF PassInit, NoPlans
  <2> QED
    BY <2>2 DEF RoomPlanned
<1>13. ASSUME UNCHANGED <<ledger, pass>> PROVE RoomPlanned'
  BY <1>2, <1>3, <1>4, <1>13
<1>14. ASSUME NEW r \in Receipts, Land(r) \/ Fill(r) \/ Expire(r) \/ Age(r)
       PROVE  UNCHANGED <<ledger, pass>>
  BY <1>14 DEF Land, Fill, Expire, Age, disk
<1>15. ASSUME NEW l \in Lots, Manage(l) \/ (Advance(l) /\ ~Book(l))
       PROVE  UNCHANGED <<ledger, pass>>
  BY <1>15 DEF Manage, disk, Advance, Placed, PlaceRefused, PlaceUnknown, RecoverRest, LookAtRest,
       ReadPulled, Settled, SendHedge, NoPrice, HedgeTaken, HedgeRefused, HedgeUnknown,
       AskHedge, Forget, Step
<1>16. CASE UNCHANGED vars
  BY <1>13, <1>16 DEF vars, disk
<1> QED
  BY <1>6, <1>7, <1>8, <1>9, <1>10, <1>11, <1>12, <1>13, <1>14, <1>15, <1>16 DEF Next

(* At the start nothing is booked, planned or held. *)
LEMMA InitBooks == Init => BookInv
<1> SUFFICES ASSUME Init PROVE BookInv
  OBVIOUS
<1>1. /\ NoOrder.st = "none" /\ NoOrder.rest = 0 /\ NoOrder.cum = 0 /\ NoOrder.qty = 0
      /\ Free.rest = 0 /\ \A m \in Lots : Free.members[m] = 0
  BY DEF NoOrder, Free
<1>2. /\ \A r \in Receipts : ord[r] = NoOrder
      /\ ledger = [r \in Receipts |-> [m \in Lots |-> 0]]
      /\ \A l \in Lots : mem[l] = Free
      /\ next = 0 /\ starts = 1 /\ by = [l \in Lots |-> "none"] /\ pass = PassInit
  BY DEF Init
<1>3. CountsTyped
  BY <1>2 DEF CountsTyped
<1>4. QuantitiesOK
  BY <1>1, <1>2 DEF QuantitiesOK, QuantityOK
<1>5. RowsOK
  <2> SUFFICES ASSUME NEW r \in Receipts PROVE RowOK(r)
    BY DEF RowsOK
  <2>1. \A m \in Lots : ledger[r][m] = 0
    BY <1>2
  <2>2. Sum(ledger[r]) = 0
    BY <1>3, <2>1, EmptyRow
  <2> QED
    BY <1>1, <1>2, <2>1, <2>2 DEF RowOK
<1>6. BooksOK
  BY <1>1, <1>2 DEF BooksOK, BookOK
<1>7. LetGoBooked
  BY <1>2 DEF LetGoBooked, LetGo
<1>8. RoomHeld
  BY <1>1, <1>2 DEF RoomHeld, RoomFor
<1>9. ASSUME NEW m \in Lots PROVE Booked(m) = 0
  <2> DEFINE f == [r \in Receipts |-> ledger[r][m]]
  <2>1. \A r \in Receipts : f[r] = 0
    BY <1>2
  <2>2. SumFunctionOnSet(f, Receipts) = 0
    BY <2>1, LotsFinite, SumNone
  <2>3. Booked(m) = SumFunctionOnSet(f, Receipts)
    BY DEF Booked, Sum, SumFunction
  <2> QED
    BY <2>2, <2>3
<1>10. \A m \in Lots : Open[m] \in Nat
  BY LotsAssumption
<1>11. BookedFits
  BY <1>9, <1>10 DEF BookedFits
<1>12. RoomPlanned
  BY <1>2, NoPlanTyped DEF RoomPlanned, PassInit, NoPlans
<1> QED
  BY <1>3, <1>4, <1>5, <1>6, <1>7, <1>8, <1>11, <1>12 DEF BookInv, BooksInv

(* Every step keeps the books. *)
LEMMA NextBooks == IInv /\ BookInv /\ [Next]_vars => BookInv'
<1> SUFFICES ASSUME IInv, BookInv, [Next]_vars PROVE BookInv'
  OBVIOUS
<1>1. CountsTyped'
  BY CountsStep
<1>2. RoomPlanned'
  BY <1>1, PlannedKept
<1>3. ASSUME NEW r \in Receipts, Land(r) \/ Fill(r) \/ Expire(r) \/ Age(r)
      PROVE  BooksInv' /\ QuantitiesOK'
  BY <1>3, VenueBooks
<1>4. ASSUME NEW l \in Lots, Advance(l) PROVE BooksInv' /\ QuantitiesOK'
  <2>1. CASE \/ Placed(l) \/ PlaceUnknown(l) \/ LookAtRest(l) \/ ReadPulled(l)
             \/ NoPrice(l) \/ HedgeTaken(l) \/ HedgeUnknown(l) \/ AskHedge(l)
             \/ RecoverRest(l) /\ ~Release(l)
    BY <2>1, RestBooks
  <2>2. CASE PlaceRefused(l) \/ Settled(l) \/ (RecoverRest(l) /\ Release(l))
    BY <2>2, ReleaseBooks
  <2>3. CASE HedgeRefused(l)
    BY <2>3, RefusedBooks
  <2>4. CASE SendHedge(l)
    BY <2>4, SendBooks
  <2>5. CASE Forget(l)
    BY <2>5, ForgetBooks
  <2>6. CASE Book(l)
    BY <1>1, <2>6, BookBooks
  <2> QED
    BY <1>4, <2>1, <2>2, <2>3, <2>4, <2>5, <2>6 DEF Advance
<1>5. ASSUME NEW l \in Lots, Manage(l) \/ PassPlans(l) \/ Regroup(l) \/ ChooseGroup(l)
      PROVE  BooksInv' /\ QuantitiesOK'
  BY <1>5, IdleBooks
<1>6. ASSUME NEW l \in Lots, PlaceGroup(l) PROVE BooksInv' /\ QuantitiesOK'
  BY <1>6, PlaceBooks
<1>7. ASSUME PassTurns PROVE BooksInv' /\ QuantitiesOK'
  <2>1. UNCHANGED <<ledger, next>> /\ UNCHANGED ord /\ UNCHANGED mem
    BY <1>7 DEF PassTurns, venue, disk, task
  <2> QED
    BY <2>1, PassBooks
<1>8. ASSUME Restart PROVE BooksInv' /\ QuantitiesOK'
  BY <1>8, RestartBooks
<1>9. ASSUME UNCHANGED vars PROVE BooksInv' /\ QuantitiesOK'
  <2>1. UNCHANGED <<ledger, next>> /\ UNCHANGED ord /\ UNCHANGED mem
    BY <1>9 DEF vars
  <2> QED
    BY <2>1, PassBooks
<1>10. BooksInv' /\ QuantitiesOK'
  BY <1>3, <1>4, <1>5, <1>6, <1>7, <1>8, <1>9 DEF Next
<1> QED
  BY <1>1, <1>2, <1>10 DEF BookInv

(* What is booked, for any number of lots, orders and starts, is what the   *)
(* exits have counted of their hedges, and every lot has room for it.       *)
THEOREM ExitBooks == Spec => [](IInv /\ BookInv)
<1>1. Init => IInv /\ BookInv
  BY InitSafe, InitBooks
<1>2. (IInv /\ BookInv) /\ [Next]_vars => (IInv /\ BookInv)'
  BY NextSafe, NextBooks
<1> QED
  BY <1>1, <1>2, PTL DEF Spec

-----------------------------------------------------------------------------
(* What it means.                                                           *)

(* The invariants give the types, *)
LEMMA TypesHold == IInv /\ BookInv => TypeOK
<1> SUFFICES ASSUME IInv, BookInv PROVE TypeOK
  OBVIOUS
<1>1. /\ ord \in [Receipts -> Orders] /\ covered \in [Receipts -> Nat]
      /\ next \in 0..MaxReceipts /\ swept \in 0..next /\ MaxReceipts \in Nat
      /\ file \in [Lots -> Exits] /\ mem \in [Lots -> Exits]
      /\ pc \in [Lots -> Places] /\ latched \subseteq Lots
      /\ pass \in Passes /\ scene \in Scenes
  BY ReceiptAssumption DEF IInv, Typed
<1>2. Exits = States
  BY DEF Exits, States, AnyKey
<1>3. ASSUME NEW r \in Receipts PROVE ord[r] \in OrderStates /\ ord[r].cum <= ord[r].qty
  <2>1. ord[r] \in Orders
    BY <1>1
  <2>2. ord[r].qty \in Nat /\ ord[r].cum <= ord[r].qty
    BY DEF BookInv, QuantitiesOK, QuantityOK
  <2> QED
    BY <2>1, <2>2 DEF Orders, OrderStates
<1>4. ord \in [Receipts -> OrderStates]
  BY <1>1, <1>3
<1>5. next \in {0} \cup Receipts /\ swept \in {0} \cup Receipts
  BY <1>1 DEF Receipts
<1>6. \A l \in Lots : mem[l].hedged <= mem[l].filled
  BY DEF IInv, Money, ExitsOK, ExitOK
<1>7. /\ pass.at \in {"plan", "place", "lock"} /\ pass.todo \subseteq Lots
      /\ pass.reserved \subseteq Lots
      /\ pass.plans \in [Lots -> [qty : Nat, key : Keys \cup {Free.key}]]
  BY <1>1 DEF Passes, AnyKey
<1>8. /\ ledger \in [Receipts -> [Lots -> Nat]] /\ starts \in Nat
      /\ by \in [Lots -> {"none", "pass", "event"}]
  BY DEF BookInv, CountsTyped
<1> QED
  BY <1>1, <1>2, <1>3, <1>4, <1>5, <1>6, <1>7, <1>8 DEF TypeOK

(* The invariants say that every close is booked once. *)
LEMMA EachBookedOnce == IInv /\ BookInv => BookedExactly
<1> SUFFICES ASSUME IInv, BookInv PROVE BookedExactly
  OBVIOUS
<1>1. \A h \in Receipts : Sum(ledger[h]) <= ord[h].cum
  BY DEF BookInv, BooksInv, RowsOK, RowOK
<1>2. ASSUME NEW l \in Lots, mem[l].hedge # 0, NEW m \in Lots
      PROVE  ledger[mem[l].hedge][m] \in {0, Share(mem[l], m)}
  <2>1. PICK s \in Exits : s = mem[l]
    BY OwnerFacts
  <2>2. s.rest # 0
    BY <1>2, <2>1, OwnerFacts DEF ExitOK
  <2>3. BookOK(s)
    BY <2>1 DEF BookInv, BooksInv, BooksOK
  <2> QED
    BY <1>2, <2>1, <2>2, <2>3 DEF BookOK
<1>3. ASSUME NEW r \in LetGo PROVE BookedFor(r) = ord[r].cum
  <2> DEFINE S == {h \in Receipts : ord[h].rest = r}
             f == [h \in S |-> Sum(ledger[h])]
             g == [h \in Receipts |-> Sum(ledger[h])]
  <2>1. RowsOf(HedgesOf(r)) = ord[r].cum
    BY DEF BookInv, BooksInv, LetGoBooked
  <2>2. SumFunctionOnSet(f, S) = SumFunctionOnSet(g, S)
    <3>1. IsFiniteSet(S) /\ \A h \in S : f[h] = g[h]
      BY LotsFinite
    <3> HIDE DEF S, f, g
    <3> QED
      BY <3>1, SumSame
  <2>3. BookedFor(r) = SumFunctionOnSet(f, S)
    <3>1. DOMAIN f = S
      OBVIOUS
    <3>2. BookedFor(r) = SumFunction(f)
      BY DEF BookedFor, Sum
    <3> HIDE DEF f, S
    <3> QED
      BY <3>1, <3>2 DEF SumFunction
  <2>4. RowsOf(HedgesOf(r)) = SumFunctionOnSet(g, S)
    BY DEF RowsOf, AllRows, HedgesOf
  <2> QED
    BY <2>1, <2>2, <2>3, <2>4
<1> QED
  BY <1>1, <1>2, <1>3 DEF BookedExactly

(* What the ledger has of a lot under an exit's rest. *)
LEMMA UnderIs ==
  ASSUME CountsTyped, NEW s, NEW m \in Lots
  PROVE  /\ BookedUnder(s, m) \in Nat
         /\ s.rest # 0 => BookedUnder(s, m) = RowsUnder(HedgesOf(s.rest), m)
<1> DEFINE S == {h \in Receipts : s.rest # 0 /\ ord[h].rest = s.rest}
           f == [h \in S |-> ledger[h][m]]
           g == [h \in Receipts |-> ledger[h][m]]
<1>1. /\ IsFiniteSet(S) /\ f \in [S -> Nat] /\ \A h \in S : f[h] = g[h]
      /\ s.rest # 0 => S = HedgesOf(s.rest)
  BY LotsFinite DEF CountsTyped, HedgesOf
<1>2. BookedUnder(s, m) = Sum(f) /\ RowsUnder(S, m) = SumFunctionOnSet(g, S)
  BY DEF BookedUnder, RowsUnder, LotRows
<1> HIDE DEF S, f, g
<1>3. Sum(f) = SumFunctionOnSet(f, S) /\ Sum(f) \in Nat
  BY <1>1, SumIs
<1>4. SumFunctionOnSet(f, S) = SumFunctionOnSet(g, S)
  BY <1>1, SumSame
<1> QED
  BY <1>1, <1>2, <1>3, <1>4

(* The invariants say that no lot is oversold. *)
LEMMA EachLotHasRoom == IInv /\ BookInv => NeverBeyondOpen
<1> SUFFICES ASSUME IInv, BookInv, NEW m \in Lots
             PROVE  Booked(m) + Sum([l \in Lots |-> Minus(mem[l].members[m],
                                        BookedUnder(mem[l], m))]) <= Open[m]
  BY DEF NeverBeyondOpen
<1> DEFINE f == [l \in Lots |-> Minus(mem[l].members[m], BookedUnder(mem[l], m))]
<1>1. /\ CountsTyped /\ Open[m] \in Nat /\ Booked(m) \in Nat /\ Booked(m) <= Open[m]
      /\ mem \in [Lots -> Exits]
  BY BookedIs, LotsAssumption DEF BookInv, BooksInv, BookedFits, IInv, Typed
<1>2. ASSUME NEW l \in Lots
      PROVE  /\ mem[l].members[m] \in Nat /\ BookedUnder(mem[l], m) \in Nat
             /\ f[l] \in Nat
             /\ ~(mem[l].members[m] > 0) => f[l] = 0
  <2>1. mem[l].members[m] \in Nat
    BY <1>1 DEF Exits
  <2>2. BookedUnder(mem[l], m) \in Nat
    BY <1>1, UnderIs
  <2>3. f[l] = Minus(mem[l].members[m], BookedUnder(mem[l], m))
    OBVIOUS
  <2> QED
    BY <2>1, <2>2, <2>3 DEF Minus
<1>3. Sum(f) = SumFunctionOnSet(f, Lots)
  <2>1. f \in [Lots -> Nat]
    BY <1>2
  <2> QED
    BY <2>1, LotsFinite, SumIs
<1>4. CASE \A l \in Lots : ~(mem[l].members[m] > 0)
  <2>1. \A l \in Lots : f[l] \in Nat /\ f[l] = 0
    BY <1>2, <1>4
  <2> HIDE DEF f
  <2>2. SumFunctionOnSet(f, Lots) = 0
    BY <2>1, LotsFinite, SumNone
  <2> QED
    BY <1>1, <1>3, <2>2 DEF f
<1>5. CASE \E l \in Lots : mem[l].members[m] > 0
  <2>1. PICK l \in Lots : mem[l].members[m] > 0
    BY <1>5
  <2>2. \A k \in Lots \ {l} : ~(mem[k].members[m] > 0)
    BY <2>1 DEF IInv, ReservedOnce, MembersOf
  <2>3. f[l] \in Nat /\ \A k \in Lots \ {l} : f[k] \in Nat /\ f[k] = 0
    BY <1>2, <2>2
  <2>4. f[l] = Minus(mem[l].members[m], BookedUnder(mem[l], m))
    OBVIOUS
  <2>5. Booked(m) + mem[l].members[m] <= Open[m] + BookedUnder(mem[l], m)
    <3>1. PICK s \in Exits : s = mem[l]
      BY <1>1
    <3>2. s.rest # 0
      BY <2>1, <3>1, OwnerFacts DEF ExitOK, Free
    <3>3. RoomFor(s)
      BY <3>1 DEF BookInv, BooksInv, RoomHeld
    <3>4. BookedUnder(s, m) = RowsUnder(HedgesOf(s.rest), m)
      BY <1>1, <3>2, UnderIs
    <3> QED
      BY <2>1, <3>1, <3>3, <3>4 DEF RoomFor
  <2> HIDE DEF f
  <2>6. SumFunctionOnSet(f, Lots) = f[l]
    <3>1. SumFunctionOnSet(f, Lots \ {l}) = 0
      BY <2>3, LotsFinite, SumNone
    <3>2. SumFunctionOnSet(f, Lots) = f[l] + SumFunctionOnSet(f, Lots \ {l})
      BY <2>3, LotsFinite, SumRemove
    <3> QED
      BY <2>3, <3>1, <3>2
  <2>7. Booked(m) + f[l] <= Open[m]
    <3>1. /\ mem[l].members[m] \in Nat /\ BookedUnder(mem[l], m) \in Nat
      BY <1>2
    <3> QED
      BY <1>1, <2>4, <2>5, <3>1 DEF Minus
  <2> QED
    BY <1>3, <2>6, <2>7 DEF f
<1> QED
  BY <1>4, <1>5

(* Every variable of the maker exit has its type; no order trades past its  *)
(* quantity, and no exit counts more hedged than its rest filled.           *)
THEOREM ExitTyped == Spec => []TypeOK
<1> QED
  BY ExitBooks, TypesHold, PTL

(* The ledger books what each hedge filled, each contract once, through any *)
(* failed appends, crashes and lost answers; and all that an order let go   *)
(* of has filled.                                                           *)
THEOREM BookedOnce == Spec => []BookedExactly
<1> QED
  BY ExitBooks, EachBookedOnce, PTL

(* No lot is sold twice: what is closed of it and what an exit still holds  *)
(* of it never exceed what it had, though plans are sized by a ledger that  *)
(* other exits write on.                                                    *)
THEOREM LotNotOversold == Spec => []NeverBeyondOpen
<1> QED
  BY ExitBooks, EachLotHasRoom, PTL
=============================================================================
