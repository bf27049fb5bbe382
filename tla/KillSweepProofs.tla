--------------------------- MODULE KillSweepProofs ---------------------------
(***************************************************************************)
(* What KillSweep promises for every depth of the channel, every backoff   *)
(* and any number of halts.                                                *)
(***************************************************************************)
EXTENDS KillSweep, FiniteSetTheorems, TLAPS

(* A concatenation begins with its first part. *)
LEMMA ConcatKeeps ==
    ASSUME NEW S, NEW a \in Seq(S), NEW b \in Seq(S)
    PROVE  /\ a \o b \in Seq(S)
           /\ Len(a) <= Len(a \o b)
           /\ \A i \in DOMAIN a : (a \o b)[i] = a[i]
           /\ DOMAIN a \subseteq DOMAIN (a \o b)
OBVIOUS

(* What is in a sequence appended to was in it or is what was appended.      *)
LEMMA AppendAdds ==
    ASSUME NEW S, NEW a \in Seq(S), NEW e \in S
    PROVE  \A i \in DOMAIN Append(a, e) :
              (i \in DOMAIN a /\ Append(a, e)[i] = a[i]) \/ Append(a, e)[i] = e
OBVIOUS

(* The channel after a dispatch is a sequence of commands and within its    *)
(* depth.                                                                   *)
LEMMA TakenFits ==
    ASSUME NEW S, NEW q \in Seq(S), NEW cs \in Seq(S), Len(q) <= Depth
    PROVE  /\ Taken(q, cs) \in Seq(S)
           /\ q \o Taken(q, cs) \in Seq(S)
           /\ Len(q \o Taken(q, cs)) <= Depth
           /\ Len(q) <= Len(q \o Taken(q, cs))
<1>1. Depth \in Nat /\ Len(q) \in Nat /\ Len(cs) \in Nat
    BY KillSweepAssumption
<1> DEFINE n == IF Len(cs) <= Depth - Len(q) THEN Len(cs) ELSE Depth - Len(q)
<1>2. n \in 0..Len(cs) /\ Len(q) + n <= Depth
    BY <1>1
<1> HIDE DEF n
<1>3. SubSeq(cs, 1, n) \in Seq(S) /\ Len(SubSeq(cs, 1, n)) = n
    BY <1>2
<1>4. Taken(q, cs) = SubSeq(cs, 1, n)
    BY DEF Taken, n
<1> QED BY <1>1, <1>2, <1>3, <1>4

(* An offer keeps the entry and the channel what they are, and either adds  *)
(* a sweep to the channel or leaves it alone.                               *)
LEMMA OfferTyped ==
    ASSUME NEW S, SweepCmd \in S, NEW o \in OwedSweep, NEW q \in Seq(S), Len(q) <= Depth
    PROVE  /\ Offered(o, q).owed \in OwedSweep
           /\ Offered(o, q).owed.owed = o.owed
           /\ Offered(o, q).queue \in Seq(S)
           /\ Len(Offered(o, q).queue) <= Depth
           /\ Offered(o, q).queue \in {q, Append(q, SweepCmd)}
<1>1. NextBackoff(o.backoff) \in 0..Ceiling
    BY KillSweepAssumption DEF OwedSweep, NextBackoff
<1>2. o.wait > 0 => o.wait - 1 \in 0..Ceiling
    BY KillSweepAssumption DEF OwedSweep
<1>3. Len(q) < Depth => Append(q, SweepCmd) \in Seq(S) /\ Len(Append(q, SweepCmd)) <= Depth
    BY KillSweepAssumption
<1>4. CASE ~o.owed \/ o.inFlight
    BY <1>4 DEF Offered
<1>5. CASE ~(~o.owed \/ o.inFlight) /\ o.wait > 0
    BY <1>2, <1>5 DEF Offered, OwedSweep
<1>6. CASE ~(~o.owed \/ o.inFlight) /\ ~(o.wait > 0) /\ Len(q) < Depth
    BY <1>1, <1>3, <1>6 DEF Offered, OwedSweep
<1>7. CASE ~(~o.owed \/ o.inFlight) /\ ~(o.wait > 0) /\ ~(Len(q) < Depth)
    BY <1>7 DEF Offered
<1> QED BY <1>4, <1>5, <1>6, <1>7

(* A channel that keeps what it held keeps its head. *)
LEMMA HeadKept ==
    ASSUME NEW S, NEW a \in Seq(S), NEW b \in Seq(S), Len(a) <= Len(b),
           \A i \in DOMAIN a : b[i] = a[i], a # <<>>
    PROVE  b # <<>> /\ Head(b) = Head(a)
<1>1. Len(a) \in Nat /\ Len(a) >= 1 /\ 1 \in DOMAIN a
    OBVIOUS
<1>2. Len(b) \in Nat /\ Len(b) >= 1
    BY <1>1
<1> QED BY <1>1, <1>2

(* A sweep offered leaves what the channel held in place.                   *)
LEMMA OfferKeeps ==
    ASSUME NEW S, SweepCmd \in S, NEW o \in OwedSweep, NEW q \in Seq(S), Len(q) <= Depth
    PROVE  /\ Len(q) <= Len(Offered(o, q).queue)
           /\ \A i \in DOMAIN q : Offered(o, q).queue[i] = q[i]
<1>1. Offered(o, q).queue \in {q, Append(q, SweepCmd)}
    BY OfferTyped
<1>2. Append(q, SweepCmd) \in Seq(S)
    OBVIOUS
<1>3. Len(q) <= Len(Append(q, SweepCmd)) /\ \A i \in DOMAIN q : Append(q, SweepCmd)[i] = q[i]
    BY <1>2
<1> QED BY <1>1, <1>3

(* What a halt leaves behind it. *)
LEMMA HaltingTyped ==
    ASSUME NEW S, SweepCmd \in S, NEW cs \in Seq(S), queue \in Seq(S), Len(queue) <= Depth
    PROVE  /\ Halting(cs).owed \in OwedSweep
           /\ Halting(cs).owed.owed
           /\ Halting(cs).queue \in Seq(S)
           /\ Len(Halting(cs).queue) <= Depth
           /\ Len(queue) <= Len(Halting(cs).queue)
           /\ \A i \in DOMAIN queue : Halting(cs).queue[i] = queue[i]
<1> DEFINE first == Offered(Owing, queue)
<1>1. Owing \in OwedSweep /\ Owing.owed
    BY KillSweepAssumption DEF Owing, OwedSweep
<1>2. /\ first.owed \in OwedSweep /\ first.owed.owed
      /\ first.queue \in Seq(S) /\ Len(first.queue) <= Depth
      /\ Len(queue) <= Len(first.queue) /\ \A i \in DOMAIN queue : first.queue[i] = queue[i]
    BY <1>1, OfferTyped, OfferKeeps
<1> DEFINE taken == Taken(first.queue, cs)
<1>3. /\ Halting(cs).owed = first.owed
      /\ Halting(cs).queue = first.queue \o taken
    BY DEF Halting
<1>4. taken \in Seq(S) /\ Len(first.queue \o taken) <= Depth
    BY <1>2, TakenFits
<1> HIDE DEF first, taken
<1>5. /\ first.queue \o taken \in Seq(S)
      /\ Len(first.queue) <= Len(first.queue \o taken)
      /\ \A i \in DOMAIN first.queue : (first.queue \o taken)[i] = first.queue[i]
    BY <1>2, <1>4, ConcatKeeps
<1>6. DOMAIN queue \subseteq DOMAIN first.queue
    BY <1>2
<1> DEFINE new == first.queue \o taken
<1>7. Len(queue) \in Nat /\ Len(first.queue) \in Nat /\ Len(new) \in Nat
    BY <1>2, <1>5
<1> HIDE DEF new
<1>8. Len(queue) <= Len(new)
    BY <1>2, <1>5, <1>7 DEF new
<1>9. \A i \in DOMAIN queue : new[i] = queue[i]
    BY <1>2, <1>5, <1>6 DEF new
<1> QED BY <1>2, <1>3, <1>4, <1>5, <1>8, <1>9 DEF new

Cmds == {SweepCmd, Other}

(* The cancels of a halt are commands. *)
LEMMA CancelsAreCmds == \A cs \in Cancels : cs \in Seq(Cmds)
<1>1. <<>> \in Seq(Cmds) /\ (Other \in Cmds => <<Other>> \in Seq(Cmds))
    OBVIOUS
<1>2. Other \in Cmds
    BY DEF Cmds
<1> QED BY <1>1, <1>2 DEF Cancels

-----------------------------------------------------------------------------
(* TypeOK, with what it rests on: a halt is still allowed of a kill file no *)
(* watch has found, and a sweep that runs is the command being served.      *)
TypeInv ==
    /\ SweepTypeOK
    /\ killFile /\ ~killed => halts < MaxHalts
    /\ running # NoSweep => queue # <<>> /\ Head(queue) = SweepCmd

(* The types hold at the start.                                             *)
LEMMA TypeInvInit == SweepInit => TypeInv
<1> SUFFICES ASSUME SweepInit PROVE TypeInv
    OBVIOUS
<1>1. queue = <<>> /\ answers = <<>> /\ running = NoSweep /\ halts = 0 /\ spell = 0 /\ proven = 0
    BY DEF SweepInit
<1>2. queue \in Seq({SweepCmd, Other}) /\ answers \in Seq(Messages) /\ Len(queue) = 0
    BY <1>1
<1>3. owed \in OwedSweep
    BY KillSweepAssumption DEF SweepInit, NotOwed, OwedSweep
<1>4. Len(queue) <= Depth /\ halts \in 0..MaxHalts /\ halts < MaxHalts
      /\ spell \in 0..halts /\ proven \in 0..spell /\ running \in {NoSweep} \cup 0..spell
    BY <1>1, <1>2, KillSweepAssumption
<1>5. killFile \in BOOLEAN /\ killed \in BOOLEAN /\ pulled \in BOOLEAN
      /\ apart \in BOOLEAN /\ alone \in BOOLEAN
    BY DEF SweepInit
<1> QED BY <1>1, <1>2, <1>3, <1>4, <1>5 DEF TypeInv, SweepTypeOK

(* Every step keeps the types.                                              *)
LEMMA TypeInvNext == TypeInv /\ [SweepNext]_sweepVars => TypeInv'
<1> SUFFICES ASSUME TypeInv, [SweepNext]_sweepVars PROVE TypeInv'
    OBVIOUS
<1> USE KillSweepAssumption
<1>0. /\ SweepCmd \in Cmds /\ SweepTypeOK /\ queue \in Seq(Cmds) /\ answers \in Seq(Messages)
      /\ owed \in OwedSweep /\ Len(queue) <= Depth
    BY DEF TypeInv, SweepTypeOK, Cmds
<1>1. CASE KillFileSet
    BY <1>1 DEF KillFileSet, TypeInv, SweepTypeOK, execVars
<1>2. CASE KillFileRemoved
    BY <1>2 DEF KillFileRemoved, TypeInv, SweepTypeOK, execVars
<1>3. CASE FeedHealthy
    BY <1>3 DEF FeedHealthy, TypeInv, SweepTypeOK, execVars
<1>4. CASE KillWatch
  <2>1. /\ owed' \in {owed, Offered(owed, queue).owed}
        /\ queue' \in {queue, Offered(owed, queue).queue}
        /\ killed' = killFile
        /\ UNCHANGED <<killFile, pulled, halts, spell, apart, alone, running, answers, proven>>
      BY <1>4 DEF KillWatch, execVars
  <2>2. owed' \in OwedSweep
      BY <1>0, <2>1, OfferTyped
  <2>3. queue' \in Seq(Cmds) /\ Len(queue') <= Depth
      BY <1>0, <2>1, OfferTyped
  <2>4. queue # <<>> => queue' # <<>> /\ Head(queue') = Head(queue)
      BY <1>0, <2>1, <2>3, OfferKeeps, HeadKept
  <2> QED BY <2>1, <2>2, <2>3, <2>4 DEF TypeInv, SweepTypeOK, Cmds
<1>5. CASE \E cs \in Cancels : KillEngages(cs)
  <2> PICK cs \in Cancels : KillEngages(cs)
      BY <1>5
  <2> DEFINE h == Halting(cs)
  <2>1. /\ h.owed \in OwedSweep /\ h.queue \in Seq(Cmds) /\ Len(h.queue) <= Depth
        /\ Len(queue) <= Len(h.queue) /\ \A i \in DOMAIN queue : h.queue[i] = queue[i]
      BY <1>0, HaltingTyped, CancelsAreCmds
  <2>2. /\ owed' = Offered(h.owed, h.queue).owed /\ queue' = Offered(h.owed, h.queue).queue
        /\ killFile /\ ~killed /\ killed' /\ halts' = halts + 1
        /\ spell' \in {spell, spell + 1} /\ apart' \in BOOLEAN /\ alone' \in BOOLEAN
        /\ UNCHANGED <<killFile, pulled, running, answers, proven>>
      BY <1>0 DEF KillEngages, Counted, AtLarge, execVars, SweepTypeOK
  <2> HIDE DEF h
  <2>3. owed' \in OwedSweep /\ queue' \in Seq(Cmds) /\ Len(queue') <= Depth
      BY <1>0, <2>1, <2>2, OfferTyped
  <2>4. Len(h.queue) <= Len(queue') /\ \A i \in DOMAIN h.queue : queue'[i] = h.queue[i]
      BY <1>0, <2>1, <2>2, OfferKeeps
  <2>5. queue # <<>> => h.queue # <<>> /\ Head(h.queue) = Head(queue)
      BY <1>0, <2>1, HeadKept
  <2>6. queue # <<>> => queue' # <<>> /\ Head(queue') = Head(queue)
      BY <2>1, <2>3, <2>4, <2>5, HeadKept
  <2>7. halts' \in 0..MaxHalts /\ spell' \in 0..halts' /\ proven \in 0..spell'
        /\ running \in {NoSweep} \cup 0..spell'
      BY <2>2 DEF TypeInv, SweepTypeOK
  <2>8. killed' \in BOOLEAN
      BY <2>2 DEF KillEngages
  <2> QED BY <2>2, <2>3, <2>6, <2>7, <2>8 DEF TypeInv, SweepTypeOK, Cmds
<1>6. CASE FeedMayPull /\ \E cs \in Cancels : FeedPulls(cs)
  <2> PICK cs \in Cancels : FeedPulls(cs)
      BY <1>6
  <2> DEFINE h == Halting(cs)
  <2>1. /\ h.owed \in OwedSweep /\ h.queue \in Seq(Cmds) /\ Len(h.queue) <= Depth
        /\ Len(queue) <= Len(h.queue) /\ \A i \in DOMAIN queue : h.queue[i] = queue[i]
      BY <1>0, HaltingTyped, CancelsAreCmds
  <2>2. /\ owed' = h.owed /\ queue' = h.queue
        /\ pulled' = TRUE /\ halts' = halts + 1
        /\ spell' \in {spell, spell + 1} /\ apart' \in BOOLEAN /\ alone' \in BOOLEAN
        /\ UNCHANGED <<killFile, killed, running, answers, proven>>
      BY <1>0 DEF FeedPulls, Counted, AtLarge, execVars, SweepTypeOK
  <2> HIDE DEF h
  <2>3. queue # <<>> => queue' # <<>> /\ Head(queue') = Head(queue)
      BY <1>0, <2>1, <2>2, HeadKept
  <2>4. halts' \in 0..MaxHalts /\ spell' \in 0..halts' /\ proven \in 0..spell'
        /\ running \in {NoSweep} \cup 0..spell' /\ (killFile /\ ~killed => halts' < MaxHalts)
      BY <1>6, <2>2 DEF TypeInv, SweepTypeOK, FeedMayPull
  <2> QED BY <2>1, <2>2, <2>3, <2>4 DEF TypeInv, SweepTypeOK, Cmds
<1>7. CASE HearsSweep
  <2>1. answers # <<>> /\ answers' = Tail(answers) /\ answers' \in Seq(Messages)
      BY <1>0, <1>7 DEF HearsSweep
  <2>2. owed' \in OwedSweep
    <3>1. NotOwed \in OwedSweep
        BY DEF NotOwed, OwedSweep
    <3>2. (IF owed.backoff = 0 THEN Floor ELSE owed.backoff) \in 0..Ceiling
        BY <1>0 DEF OwedSweep
    <3> QED BY <1>0, <1>7, <3>1, <3>2 DEF HearsSweep, OwedSweep
  <2> QED BY <1>7, <2>1, <2>2 DEF HearsSweep, haltVars, TypeInv, SweepTypeOK
<1>8. CASE SweepBegins
    BY <1>8 DEF SweepBegins, haltVars, TypeInv, SweepTypeOK
<1>9. CASE \E ok \in BOOLEAN : SweepEnds(ok)
  <2> PICK ok \in BOOLEAN : SweepEnds(ok)
      BY <1>9
  <2>1. running \in 0..spell /\ queue # <<>>
      BY DEF SweepEnds, TypeInv, SweepTypeOK
  <2>2. Tail(queue) \in Seq(Cmds) /\ Len(Tail(queue)) <= Depth
      BY <1>0, <2>1
  <2>3. Verified(ok) \in Messages
      BY DEF Verified, Messages
  <2>4. Append(answers, Verified(ok)) \in Seq(Messages)
      BY <1>0, <2>3
  <2>5. proven' \in 0..spell
      BY <2>1 DEF SweepEnds, TypeInv, SweepTypeOK
  <2> QED BY <2>2, <2>4, <2>5 DEF SweepEnds, haltVars, TypeInv, SweepTypeOK, Cmds
<1>10. CASE OtherQueued
  <2>1. /\ Append(queue, Other) \in Seq(Cmds) /\ Len(Append(queue, Other)) <= Depth
        /\ queue # <<>> => Append(queue, Other) # <<>> /\ Head(Append(queue, Other)) = Head(queue)
      BY <1>0, <1>10, Other \in Cmds DEF OtherQueued, Cmds
  <2> QED BY <1>10, <2>1 DEF OtherQueued, haltVars, execVars, TypeInv, SweepTypeOK, Cmds
<1>11. CASE OtherServed
  <2>1. Tail(queue) \in Seq(Cmds) /\ Len(Tail(queue)) <= Depth
      BY <1>0, <1>11 DEF OtherServed
  <2>2. running = NoSweep
      BY <1>11 DEF OtherServed, TypeInv, SweepCmd, Other
  <2> QED BY <1>11, <2>1, <2>2 DEF OtherServed, haltVars, execVars, TypeInv, SweepTypeOK, Cmds
<1>12. CASE UNCHANGED sweepVars
    BY <1>12 DEF sweepVars, haltVars, execVars, TypeInv, SweepTypeOK
<1> QED BY <1>1, <1>2, <1>3, <1>4, <1>5, <1>6, <1>7, <1>8, <1>9, <1>10, <1>11, <1>12
        DEF SweepNext, Ticks

(* What the engine, the channel and the executor hold stays what it is: the *)
(* channel within its depth, the halts within their bound, a sweep at the   *)
(* executor and a proof of spells that were.                                *)
THEOREM TypeCorrect == SweepSpec => []SweepTypeOK
<1>1. TypeInv => SweepTypeOK
    BY DEF TypeInv
<1> QED BY TypeInvInit, TypeInvNext, <1>1, PTL DEF SweepSpec

-----------------------------------------------------------------------------
(* What OwedUntilProven rests on.  Of a spell that began with no sweep at   *)
(* large, every sweep that runs began in it; and a clean answer still to be *)
(* heard has proved it.                                                     *)
ProofInv ==
    apart =>
        /\ running # NoSweep => running = spell
        /\ \A i \in DOMAIN answers : answers[i].ok => proven = spell
        /\ ~owed.owed => proven = spell

(* A halt: it owes the venue, and opens a spell if none was in force.       *)
HaltedStep ==
    /\ Counted
    /\ owed'.owed
    /\ UNCHANGED <<running, answers, proven>>

(* A halt owes its sweep, so it owes proof and claims none.                 *)
LEMMA HaltKeepsProof == TypeInv /\ ProofInv /\ HaltedStep => ProofInv'
<1> SUFFICES ASSUME TypeInv, ProofInv, HaltedStep, apart' PROVE ProofInv'
    BY DEF ProofInv
<1>1. UNCHANGED <<running, answers, proven>> /\ owed'.owed
    BY DEF HaltedStep
<1>2. CASE Halted
  <2>1. UNCHANGED <<spell, apart>>
      BY <1>2 DEF HaltedStep, Counted
  <2> QED BY <1>1, <2>1 DEF ProofInv
<1>3. CASE ~Halted
  <2>1. ~AtLarge
      BY <1>3 DEF HaltedStep, Counted
  <2>2. running = NoSweep
    <3> SUFFICES ASSUME running # NoSweep PROVE FALSE
        OBVIOUS
    <3>1. queue \in Seq(Cmds) /\ queue # <<>> /\ Head(queue) = SweepCmd
        BY DEF TypeInv, SweepTypeOK, Cmds
    <3>2. 1 \in DOMAIN queue /\ queue[1] = SweepCmd
        BY <3>1
    <3> QED BY <2>1, <3>2 DEF AtLarge
  <2>3. \A i \in DOMAIN answers : FALSE
    <3> SUFFICES ASSUME NEW i \in DOMAIN answers PROVE FALSE
        OBVIOUS
    <3>1. answers[i] \in Messages
        BY DEF TypeInv, SweepTypeOK
    <3>2. answers[i].kind = "sweep_result"
        BY <3>1 DEF Messages
    <3> QED BY <2>1, <3>2 DEF AtLarge
  <2> QED BY <1>1, <2>2, <2>3 DEF ProofInv
<1> QED BY <1>2, <1>3

(* The invariant of the proof holds at the start.                           *)
LEMMA ProofInvInit == SweepInit => ProofInv
<1> SUFFICES ASSUME SweepInit PROVE ProofInv
    OBVIOUS
<1>1. answers = <<>> /\ running = NoSweep /\ proven = spell
    BY DEF SweepInit
<1>2. DOMAIN answers = {}
    BY <1>1
<1> QED BY <1>1, <1>2 DEF ProofInv

(* Every step keeps the invariant of the proof.                             *)
LEMMA ProofInvNext == TypeInv /\ ProofInv /\ [SweepNext]_sweepVars => ProofInv'
<1> SUFFICES ASSUME TypeInv, ProofInv, [SweepNext]_sweepVars PROVE ProofInv'
    OBVIOUS
<1>0. /\ SweepCmd \in Cmds /\ queue \in Seq(Cmds) /\ answers \in Seq(Messages)
      /\ owed \in OwedSweep /\ Len(queue) <= Depth
    BY DEF TypeInv, SweepTypeOK, Cmds
<1>1. CASE KillFileSet \/ KillFileRemoved \/ FeedHealthy \/ OtherQueued \/ OtherServed
    BY <1>1 DEF KillFileSet, KillFileRemoved, FeedHealthy, OtherQueued, OtherServed,
                haltVars, execVars, ProofInv
<1>2. CASE KillWatch
  <2>1. owed'.owed = owed.owed
      BY <1>0, <1>2, OfferTyped DEF KillWatch
  <2> QED BY <1>2, <2>1 DEF KillWatch, execVars, ProofInv
<1>3. CASE \E cs \in Cancels : KillEngages(cs)
  <2> PICK cs \in Cancels : KillEngages(cs)
      BY <1>3
  <2> DEFINE h == Halting(cs)
  <2>1. h.owed \in OwedSweep /\ h.owed.owed /\ h.queue \in Seq(Cmds) /\ Len(h.queue) <= Depth
      BY <1>0, HaltingTyped, CancelsAreCmds
  <2>2. owed' = Offered(h.owed, h.queue).owed /\ Counted /\ UNCHANGED <<running, answers, proven>>
      BY DEF KillEngages, execVars
  <2> HIDE DEF h
  <2>3. owed'.owed
      BY <1>0, <2>1, <2>2, OfferTyped
  <2> QED BY <2>2, <2>3, HaltKeepsProof DEF HaltedStep
<1>4. CASE FeedMayPull /\ \E cs \in Cancels : FeedPulls(cs)
  <2> PICK cs \in Cancels : FeedPulls(cs)
      BY <1>4
  <2>1. Halting(cs).owed.owed
      BY <1>0, HaltingTyped, CancelsAreCmds
  <2>2. HaltedStep
      BY <2>1 DEF FeedPulls, HaltedStep, execVars
  <2> QED BY <2>2, HaltKeepsProof
<1>5. CASE HearsSweep
  <2> SUFFICES ASSUME apart PROVE ProofInv'
      BY <1>5 DEF HearsSweep, haltVars, ProofInv
  <2>1. answers # <<>> /\ answers' = Tail(answers) /\ 1 \in DOMAIN answers /\ Head(answers) = answers[1]
      BY <1>0, <1>5 DEF HearsSweep
  <2>2. \A i \in DOMAIN answers' : i + 1 \in DOMAIN answers /\ answers'[i] = answers[i + 1]
      BY <1>0, <2>1
  <2>3. ~owed.owed \/ Head(answers).ok => proven = spell
      BY <2>1 DEF ProofInv
  <2>4. owed'.owed \/ ~owed.owed \/ Head(answers).ok
      BY <1>0, <1>5 DEF HearsSweep, OwedSweep
  <2> QED BY <1>5, <2>2, <2>3, <2>4 DEF HearsSweep, haltVars, ProofInv
<1>6. CASE SweepBegins
    BY <1>6 DEF SweepBegins, haltVars, ProofInv
<1>7. CASE \E ok \in BOOLEAN : SweepEnds(ok)
  <2> PICK ok \in BOOLEAN : SweepEnds(ok)
      BY <1>7
  <2>1. UNCHANGED <<apart, spell, owed>> /\ running' = NoSweep
      BY DEF SweepEnds, haltVars
  <2>2. apart /\ ok => proven' = spell
      BY DEF SweepEnds, ProofInv
  <2>3. ~ok => proven' = proven
      BY DEF SweepEnds
  <2>4. \A i \in DOMAIN answers' : answers'[i].ok => ok \/ (i \in DOMAIN answers /\ answers[i].ok)
    <3>1. Verified(ok) \in Messages /\ Verified(ok).ok = ok
        BY DEF Verified, Messages
    <3>2. answers' = Append(answers, Verified(ok))
        BY DEF SweepEnds
    <3>3. \A i \in DOMAIN answers' :
             (i \in DOMAIN answers /\ answers'[i] = answers[i]) \/ answers'[i] = Verified(ok)
        BY <1>0, <3>1, <3>2, AppendAdds
    <3> HIDE DEF Verified
    <3> QED BY <3>1, <3>3
  <2> QED BY <2>1, <2>2, <2>3, <2>4 DEF ProofInv
<1>8. CASE UNCHANGED sweepVars
    BY <1>8 DEF sweepVars, haltVars, execVars, ProofInv
<1> QED BY <1>1, <1>2, <1>3, <1>4, <1>5, <1>6, <1>7, <1>8 DEF SweepNext, Ticks

(* An engine that stopped with no sweep at large owes one until a sweep     *)
(* that began after it stopped has verified the book clean.                 *)
THEOREM OwedUntilItIsProven == SweepSpec => []OwedUntilProven
<1>1. ProofInv => OwedUntilProven
    BY DEF ProofInv, OwedUntilProven
<1> QED BY TypeInvInit, TypeInvNext, ProofInvInit, ProofInvNext, <1>1, PTL DEF SweepSpec

-----------------------------------------------------------------------------
(* Only a halt and the watch of one put a sweep into the channel.           *)
LEMMA OfferStep ==
    TypeInv /\ [SweepNext]_sweepVars =>
        [Len(queue') > Len(queue) /\ queue'[Len(queue')] = SweepCmd
            => (killFile /\ killed') \/ pulled']_sweepVars
<1> SUFFICES ASSUME TypeInv, [SweepNext]_sweepVars,
                    Len(queue') > Len(queue), queue'[Len(queue')] = SweepCmd
             PROVE  (killFile /\ killed') \/ pulled'
    OBVIOUS
<1>0. queue \in Seq(Cmds)
    BY DEF TypeInv, SweepTypeOK, Cmds
<1>1. queue' # queue
    BY <1>0
<1>2. queue # <<>> => queue' # Tail(queue)
    BY <1>0
<1>3. queue' # Append(queue, Other)
  <2> SUFFICES ASSUME queue' = Append(queue, Other) PROVE FALSE
      OBVIOUS
  <2>1. Other \in Cmds /\ Other # SweepCmd
      BY DEF Cmds, Other, SweepCmd
  <2>2. queue'[Len(queue')] = Other
      BY <1>0, <2>1
  <2> QED BY <2>1, <2>2
<1>4. CASE \E cs \in Cancels : KillEngages(cs)
    BY <1>4 DEF KillEngages
<1>5. CASE FeedMayPull /\ \E cs \in Cancels : FeedPulls(cs)
    BY <1>5 DEF FeedPulls
<1>6. CASE KillWatch
    BY <1>1, <1>6 DEF KillWatch
<1>7. CASE KillFileSet \/ KillFileRemoved \/ FeedHealthy \/ HearsSweep \/ SweepBegins \/ UNCHANGED sweepVars
    BY <1>1, <1>7 DEF KillFileSet, KillFileRemoved, FeedHealthy, HearsSweep, SweepBegins, haltVars, sweepVars
<1>8. CASE \E ok \in BOOLEAN : SweepEnds(ok)
    BY <1>2, <1>8 DEF SweepEnds, TypeInv
<1>9. CASE OtherQueued
    BY <1>3, <1>9 DEF OtherQueued
<1>10. CASE OtherServed
    BY <1>2, <1>10 DEF OtherServed
<1> QED BY <1>4, <1>5, <1>6, <1>7, <1>8, <1>9, <1>10 DEF SweepNext, Ticks

(* No sweep is offered on the way out of a halt. *)
THEOREM OffersOnlyInForce == SweepSpec => OfferedOnlyInForce
BY TypeInvInit, TypeInvNext, OfferStep, PTL DEF SweepSpec, OfferedOnlyInForce

-----------------------------------------------------------------------------
(* How many of a sequence's elements are in G, and what appending, taking   *)
(* the head off and dispatching more does to that number.                   *)
Places(q, G) == {i \in DOMAIN q : q[i] \in G}
Count(q, G)  == Cardinality(Places(q, G))

(* A sequence holds finitely many of anything.                              *)
LEMMA CountType ==
    ASSUME NEW S, NEW q \in Seq(S), NEW G
    PROVE  IsFiniteSet(Places(q, G)) /\ Count(q, G) \in Nat
<1>1. DOMAIN q = 1..Len(q) /\ Len(q) \in Nat
    OBVIOUS
<1>2. IsFiniteSet(DOMAIN q)
    BY <1>1, FS_Interval
<1>3. Places(q, G) \subseteq DOMAIN q
    BY DEF Places
<1>4. IsFiniteSet(Places(q, G))
    BY <1>2, <1>3, FS_Subset
<1> QED BY <1>4, FS_CardinalityType DEF Count

(* One more element, one more place if it is in G.                          *)
LEMMA CountAppend ==
    ASSUME NEW S, NEW q \in Seq(S), NEW e \in S, NEW G
    PROVE  Count(Append(q, e), G) = Count(q, G) + (IF e \in G THEN 1 ELSE 0)
<1> DEFINE p == Len(q) + 1
<1>1. /\ DOMAIN q = 1..Len(q) /\ Len(q) \in Nat
      /\ DOMAIN Append(q, e) = 1..p /\ Append(q, e)[p] = e
      /\ \A i \in DOMAIN q : Append(q, e)[i] = q[i]
    OBVIOUS
<1>2. CASE e \in G
  <2>1. Places(Append(q, e), G) = Places(q, G) \cup {p} /\ p \notin Places(q, G)
      BY <1>1, <1>2 DEF Places
  <2> QED BY <1>2, <2>1, CountType, FS_AddElement DEF Count
<1>3. CASE e \notin G
  <2>1. Places(Append(q, e), G) = Places(q, G)
      BY <1>1, <1>3 DEF Places
  <2> QED BY <1>3, <2>1, CountType DEF Count
<1> QED BY <1>2, <1>3

(* The head off, its place gone.                                            *)
LEMMA CountTail ==
    ASSUME NEW S, NEW q \in Seq(S), q # <<>>, NEW G
    PROVE  Count(q, G) = Count(Tail(q), G) + (IF Head(q) \in G THEN 1 ELSE 0)
<1> DEFINE rest == Places(q, G) \ {1}
           f    == [i \in Places(Tail(q), G) |-> i + 1]
<1>1. /\ DOMAIN q = 1..Len(q) /\ Len(q) \in Nat /\ Len(q) >= 1 /\ Head(q) = q[1]
      /\ Tail(q) \in Seq(S) /\ DOMAIN Tail(q) = 1..(Len(q) - 1)
      /\ \A i \in DOMAIN Tail(q) : Tail(q)[i] = q[i + 1]
    OBVIOUS
<1>2. \A i \in Places(Tail(q), G) : i \in Nat /\ i + 1 \in rest
    BY <1>1 DEF Places
<1>3. \A j \in rest : j - 1 \in Places(Tail(q), G) /\ j \in Nat /\ j = (j - 1) + 1
  <2> SUFFICES ASSUME NEW j \in rest
               PROVE  j - 1 \in Places(Tail(q), G) /\ j \in Nat /\ j = (j - 1) + 1
      OBVIOUS
  <2>1. j \in 2..Len(q) /\ q[j] \in G
      BY <1>1 DEF Places
  <2>2. j - 1 \in DOMAIN Tail(q) /\ j \in Nat /\ (j - 1) + 1 = j
      BY <1>1, <2>1
  <2>3. Tail(q)[j - 1] = q[j]
      BY <1>1, <2>2
  <2> QED BY <2>1, <2>2, <2>3 DEF Places
<1>4. IsFiniteSet(Places(Tail(q), G)) /\ IsFiniteSet(Places(q, G)) /\ IsFiniteSet(rest)
    BY <1>1, CountType, FS_Subset
<1> HIDE DEF rest
<1>5. f \in Bijection(Places(Tail(q), G), rest)
  <2>1. f \in [Places(Tail(q), G) -> rest]
      BY <1>2
  <2>2. \A i, j \in Places(Tail(q), G) : f[i] = f[j] => i = j
      BY <1>2
  <2>3. \A j \in rest : \E i \in Places(Tail(q), G) : f[i] = j
      BY <1>3
  <2> QED BY <2>1, <2>2, <2>3 DEF Bijection, Injection, Surjection, IsInjective
<1>6. Cardinality(rest) = Count(Tail(q), G)
    BY <1>4, <1>5, FS_Bijection DEF Count, ExistsBijection
<1>7. 1 \in Places(q, G) <=> Head(q) \in G
    BY <1>1 DEF Places
<1> QED BY <1>1, <1>4, <1>6, <1>7, CountType, FS_RemoveElement DEF Count, rest

(* What is dispatched behind, none of it in G, adds no place.               *)
LEMMA CountConcat ==
    ASSUME NEW S, NEW a \in Seq(S), NEW b \in Seq(S), NEW G,
           \A i \in DOMAIN b : b[i] \notin G
    PROVE  Count(a \o b, G) = Count(a, G)
<1>1. /\ DOMAIN a = 1..Len(a) /\ DOMAIN b = 1..Len(b) /\ Len(a) \in Nat /\ Len(b) \in Nat
      /\ DOMAIN (a \o b) = 1..(Len(a) + Len(b))
      /\ \A i \in 1..Len(a) : (a \o b)[i] = a[i]
      /\ \A i \in (Len(a) + 1)..(Len(a) + Len(b)) : (a \o b)[i] = b[i - Len(a)]
    OBVIOUS
<1>2. \A i \in (Len(a) + 1)..(Len(a) + Len(b)) : (a \o b)[i] \notin G
    BY <1>1
<1>3. Places(a \o b, G) = Places(a, G)
    BY <1>1, <1>2 DEF Places
<1> QED BY <1>3 DEF Count

-----------------------------------------------------------------------------
(* What NeverStacked rests on: of a venue owed with no sweep at large, the  *)
(* entry's interlock says whether one is now.                               *)
Sweepish == {m \in Messages : m.kind = "sweep_result"}
AtLargeIn(q, a) == Count(q, {SweepCmd}) + Count(a, Sweepish)
Flying(o) == IF o.inFlight THEN 1 ELSE 0

StackInv == alone => AtLargeIn(queue, answers) = Flying(owed)

(* The sweeps at large, as places in the channel and among the answers.     *)
LEMMA OutstandingIsCount ==
    ASSUME SweepTypeOK
    PROVE  Outstanding = AtLargeIn(queue, answers)
<1>1. {i \in DOMAIN queue : queue[i] = SweepCmd} = Places(queue, {SweepCmd})
    BY DEF Places
<1>2. \A i \in DOMAIN answers : answers[i] \in Messages
    BY DEF SweepTypeOK
<1>3. {i \in DOMAIN answers : answers[i].kind = "sweep_result"} = Places(answers, Sweepish)
    BY <1>2 DEF Places, Sweepish
<1> QED BY <1>1, <1>3 DEF Outstanding, AtLargeIn, Count

(* An offer puts a sweep into the channel only as it sets the interlock.    *)
LEMMA OfferStacks ==
    ASSUME NEW S, SweepCmd \in S, NEW o \in OwedSweep, NEW q \in Seq(S)
    PROVE  Count(Offered(o, q).queue, {SweepCmd}) + Flying(o)
               = Count(q, {SweepCmd}) + Flying(Offered(o, q).owed)
<1>0. Count(q, {SweepCmd}) \in Nat
    BY CountType
<1>1. CASE ~o.owed \/ o.inFlight
    BY <1>1 DEF Offered
<1>2. CASE ~(~o.owed \/ o.inFlight) /\ o.wait > 0
    BY <1>2 DEF Offered, OwedSweep, Flying
<1>3. CASE ~(~o.owed \/ o.inFlight) /\ ~(o.wait > 0) /\ Len(q) < Depth
  <2>1. Count(Append(q, SweepCmd), {SweepCmd}) = Count(q, {SweepCmd}) + 1
      BY CountAppend
  <2>2. /\ Offered(o, q).queue = Append(q, SweepCmd)
        /\ Offered(o, q).owed = [o EXCEPT !.backoff = NextBackoff(o.backoff), !.inFlight = TRUE]
      BY <1>3 DEF Offered
  <2>3. Flying(Offered(o, q).owed) = 1 /\ Flying(o) = 0
      BY <1>3, <2>2 DEF OwedSweep, Flying
  <2> QED BY <1>0, <2>1, <2>2, <2>3
<1>4. CASE ~(~o.owed \/ o.inFlight) /\ ~(o.wait > 0) /\ ~(Len(q) < Depth)
    BY <1>4 DEF Offered
<1> QED BY <1>1, <1>2, <1>3, <1>4

(* A halt puts one sweep into the channel if it sets the interlock and none *)
(* if it does not; its cancels are no sweeps.                               *)
LEMMA HaltingStacks ==
    ASSUME NEW cs \in Cancels, queue \in Seq(Cmds), Len(queue) <= Depth
    PROVE  Count(Halting(cs).queue, {SweepCmd})
               = Count(queue, {SweepCmd}) + Flying(Halting(cs).owed)
<1> DEFINE first == Offered(Owing, queue)
           taken == Taken(first.queue, cs)
<1>1. Owing \in OwedSweep /\ Flying(Owing) = 0 /\ SweepCmd \in Cmds
    BY KillSweepAssumption DEF Owing, OwedSweep, Flying, Cmds
<1>2. /\ first.queue \in Seq(Cmds) /\ Len(first.queue) <= Depth
      /\ Count(first.queue, {SweepCmd}) = Count(queue, {SweepCmd}) + Flying(first.owed)
  <2>1. Count(first.queue, {SweepCmd}) + Flying(Owing)
            = Count(queue, {SweepCmd}) + Flying(first.owed)
      BY <1>1, OfferStacks
  <2>2. first.queue \in Seq(Cmds) /\ Len(first.queue) <= Depth
      BY <1>1, OfferTyped
  <2>3. Count(first.queue, {SweepCmd}) \in Nat
      BY <2>2, CountType
  <2> HIDE DEF first
  <2> QED BY <1>1, <2>1, <2>2, <2>3
<1>3. cs \in Seq(Cmds)
    BY CancelsAreCmds
<1>4. taken \in Seq(Cmds) /\ \A i \in DOMAIN taken : taken[i] \notin {SweepCmd}
  <2> DEFINE n == IF Len(cs) <= Depth - Len(first.queue) THEN Len(cs)
                  ELSE Depth - Len(first.queue)
  <2>1. n \in 0..Len(cs)
      BY <1>2, <1>3, KillSweepAssumption
  <2>2. taken = SubSeq(cs, 1, n)
      BY DEF Taken
  <2>3. \A i \in DOMAIN cs : cs[i] = Other
      BY DEF Cancels
  <2> HIDE DEF n
  <2>4. \A i \in DOMAIN SubSeq(cs, 1, n) : SubSeq(cs, 1, n)[i] = Other
    <3>1. DOMAIN SubSeq(cs, 1, n) = 1..n /\ \A i \in 1..n : SubSeq(cs, 1, n)[i] = cs[i]
        BY <1>3, <2>1
    <3>2. \A i \in 1..n : i \in DOMAIN cs
        BY <1>3, <2>1
    <3> QED BY <2>3, <3>1, <3>2
  <2>5. taken \in Seq(Cmds)
      BY <1>2, <1>3, TakenFits
  <2>6. Other \notin {SweepCmd}
      BY DEF Other, SweepCmd
  <2> HIDE DEF taken
  <2> QED BY <2>2, <2>4, <2>5, <2>6
<1>5. Halting(cs).owed = first.owed /\ Halting(cs).queue = first.queue \o taken
    BY DEF Halting
<1> HIDE DEF first, taken
<1>6. Count(first.queue \o taken, {SweepCmd}) = Count(first.queue, {SweepCmd})
    BY <1>2, <1>4, CountConcat
<1> QED BY <1>2, <1>5, <1>6

(* Nothing is at large at the start.                                        *)
LEMMA StackInvInit == SweepInit => StackInv
<1> SUFFICES ASSUME SweepInit PROVE StackInv
    OBVIOUS
<1>1. Places(queue, {SweepCmd}) = {} /\ Places(answers, Sweepish) = {}
    BY DEF SweepInit, Places
<1>2. Flying(owed) = 0
    BY DEF SweepInit, NotOwed, Flying
<1> QED BY <1>1, <1>2, FS_EmptySet DEF StackInv, AtLargeIn, Count

(* Where no sweep is at large, there is none to count.                      *)
LEMMA NoneToCount ==
    ASSUME SweepTypeOK, ~AtLarge
    PROVE  Count(queue, {SweepCmd}) = 0 /\ Count(answers, Sweepish) = 0
<1>1. Places(queue, {SweepCmd}) = {} /\ Places(answers, Sweepish) = {}
    BY DEF AtLarge, Places, Sweepish
<1> QED BY <1>1, FS_EmptySet DEF Count

(* Every step keeps the interlock in step with the sweeps at large.         *)
LEMMA StackInvNext == TypeInv /\ StackInv /\ [SweepNext]_sweepVars => StackInv'
<1> SUFFICES ASSUME TypeInv, StackInv, [SweepNext]_sweepVars, alone' PROVE StackInv'
    BY DEF StackInv
<1>0. /\ SweepTypeOK
      /\ SweepCmd \in Cmds /\ Other \in Cmds /\ queue \in Seq(Cmds) /\ answers \in Seq(Messages)
      /\ owed \in OwedSweep /\ Len(queue) <= Depth
      /\ Other \notin {SweepCmd}
    BY KillSweepAssumption DEF TypeInv, SweepTypeOK, Cmds, Other, SweepCmd
<1> DEFINE q == Count(queue, {SweepCmd})
           a == Count(answers, Sweepish)
<1>01. q \in Nat /\ a \in Nat /\ Flying(owed) \in 0..1 /\ (alone => q + a = Flying(owed))
    BY <1>0, CountType DEF StackInv, AtLargeIn, Flying
<1>02. ~AtLarge => q = 0 /\ a = 0
    BY <1>0, NoneToCount
<1> HIDE DEF q, a
<1>1. CASE KillFileSet \/ KillFileRemoved \/ FeedHealthy \/ SweepBegins \/ UNCHANGED sweepVars
    BY <1>1 DEF KillFileSet, KillFileRemoved, FeedHealthy, SweepBegins, sweepVars,
                haltVars, execVars, StackInv
<1>2. CASE KillWatch
  <2>1. CASE owed' = owed /\ queue' = queue
      BY <1>2, <2>1 DEF KillWatch, execVars, StackInv
  <2>2. CASE owed' = Offered(owed, queue).owed /\ queue' = Offered(owed, queue).queue
    <3>1. Count(queue', {SweepCmd}) + Flying(owed) = q + Flying(owed')
        BY <1>0, <2>2, OfferStacks DEF q
    <3>2. queue' \in Seq(Cmds) /\ owed' \in OwedSweep
        BY <1>0, <2>2, OfferTyped
    <3>3. Count(queue', {SweepCmd}) \in Nat /\ Flying(owed') \in 0..1
        BY <3>2, CountType DEF Flying
    <3>4. answers' = answers /\ alone
        BY <1>2 DEF KillWatch, execVars
    <3> QED BY <1>0, <1>01, <3>1, <3>3, <3>4 DEF StackInv, AtLargeIn, a
  <2> QED BY <1>2, <2>1, <2>2 DEF KillWatch
<1>3. ASSUME NEW o \in OwedSweep, NEW p \in Seq(Cmds),
             Count(p, {SweepCmd}) = q + Flying(o), Counted,
             owed' = o, queue' = p, answers' = answers
      PROVE  StackInv'
  <2>1. Count(p, {SweepCmd}) \in Nat /\ Flying(o) \in 0..1
      BY CountType DEF Flying
  <2>2. q = 0 /\ a = 0
      BY <1>02, <1>3 DEF Counted
  <2> QED BY <1>3, <2>1, <2>2 DEF StackInv, AtLargeIn, a
<1>4. CASE \E cs \in Cancels : KillEngages(cs)
  <2> PICK cs \in Cancels : KillEngages(cs)
      BY <1>4
  <2> DEFINE h == Halting(cs)
             s == Offered(h.owed, h.queue)
  <2>1. /\ h.owed \in OwedSweep /\ h.queue \in Seq(Cmds) /\ Len(h.queue) <= Depth
        /\ Count(h.queue, {SweepCmd}) = q + Flying(h.owed)
      BY <1>0, HaltingTyped, CancelsAreCmds, HaltingStacks DEF q
  <2>2. owed' = s.owed /\ queue' = s.queue /\ answers' = answers /\ Counted
      BY DEF KillEngages, execVars
  <2> HIDE DEF h
  <2>3. /\ s.owed \in OwedSweep /\ s.queue \in Seq(Cmds)
        /\ Count(s.queue, {SweepCmd}) + Flying(h.owed) = Count(h.queue, {SweepCmd}) + Flying(s.owed)
      BY <1>0, <2>1, OfferTyped, OfferStacks
  <2>4. Count(s.queue, {SweepCmd}) \in Nat /\ Flying(h.owed) \in 0..1 /\ Flying(s.owed) \in 0..1
      BY <2>3, CountType DEF Flying
  <2> HIDE DEF s
  <2>5. Count(s.queue, {SweepCmd}) = q + Flying(s.owed)
      BY <1>01, <2>1, <2>3, <2>4
  <2> QED BY <1>3, <2>2, <2>3, <2>5
<1>5. CASE FeedMayPull /\ \E cs \in Cancels : FeedPulls(cs)
  <2> PICK cs \in Cancels : FeedPulls(cs)
      BY <1>5
  <2>1. /\ Halting(cs).owed \in OwedSweep /\ Halting(cs).queue \in Seq(Cmds)
        /\ Count(Halting(cs).queue, {SweepCmd}) = q + Flying(Halting(cs).owed)
      BY <1>0, HaltingTyped, CancelsAreCmds, HaltingStacks DEF q
  <2>2. /\ owed' = Halting(cs).owed /\ queue' = Halting(cs).queue
        /\ answers' = answers /\ Counted
      BY DEF FeedPulls, execVars
  <2> QED BY <1>3, <2>1, <2>2
<1>6. CASE HearsSweep
  <2>1. /\ answers # <<>> /\ answers' = Tail(answers) /\ Head(answers) \in Messages
        /\ Head(answers).kind = "sweep_result" /\ queue' = queue /\ alone
      BY <1>0, <1>6 DEF HearsSweep, haltVars
  <2>2. Head(answers) \in Sweepish
      BY <2>1 DEF Sweepish
  <2>3. a = Count(answers', Sweepish) + 1
    <3>1. Count(answers, Sweepish)
              = Count(Tail(answers), Sweepish) + (IF Head(answers) \in Sweepish THEN 1 ELSE 0)
        BY <1>0, <2>1, CountTail
    <3> QED BY <2>1, <2>2, <3>1 DEF a
  <2>4. Count(answers', Sweepish) \in Nat
    <3>1. answers' \in Seq(Messages)
        BY <1>0, <2>1
    <3> QED BY <3>1, CountType
  <2>5. Flying(owed') = 0
      BY <1>0, <1>6 DEF HearsSweep, NotOwed, OwedSweep, Flying
  <2> QED BY <1>01, <2>1, <2>3, <2>4, <2>5 DEF StackInv, AtLargeIn, q
<1>7. CASE \E ok \in BOOLEAN : SweepEnds(ok)
  <2> PICK ok \in BOOLEAN : SweepEnds(ok)
      BY <1>7
  <2>1. /\ queue # <<>> /\ Head(queue) = SweepCmd /\ queue' = Tail(queue)
        /\ answers' = Append(answers, Verified(ok)) /\ owed' = owed /\ alone
      BY DEF SweepEnds, haltVars, TypeInv
  <2>2. Verified(ok) \in Sweepish /\ Verified(ok) \in Messages
      BY DEF Verified, Messages, Sweepish
  <2>3. q = Count(queue', {SweepCmd}) + 1
      BY <1>0, <2>1, CountTail DEF q
  <2>4. Count(answers', Sweepish) = a + 1
    <3> HIDE DEF Verified
    <3>1. Count(Append(answers, Verified(ok)), Sweepish)
              = Count(answers, Sweepish) + (IF Verified(ok) \in Sweepish THEN 1 ELSE 0)
        BY <1>0, <2>2, CountAppend
    <3> QED BY <2>1, <2>2, <3>1 DEF a
  <2>5. Count(queue', {SweepCmd}) \in Nat
    <3>1. queue' \in Seq(Cmds)
        BY <1>0, <2>1
    <3> QED BY <3>1, CountType
  <2> QED BY <1>01, <2>1, <2>3, <2>4, <2>5 DEF StackInv, AtLargeIn
<1>8. CASE OtherQueued
  <2>1. queue' = Append(queue, Other) /\ UNCHANGED <<owed, answers, alone>>
      BY <1>8 DEF OtherQueued, haltVars, execVars
  <2>2. Count(queue', {SweepCmd}) = q
      BY <1>0, <1>01, <2>1, CountAppend DEF q
  <2> QED BY <1>01, <2>1, <2>2 DEF StackInv, AtLargeIn, a
<1>9. CASE OtherServed
  <2>1. /\ queue # <<>> /\ Head(queue) = Other /\ queue' = Tail(queue)
        /\ UNCHANGED <<owed, answers, alone>>
      BY <1>9 DEF OtherServed, haltVars, execVars
  <2>2. q = Count(queue', {SweepCmd}) + 0
    <3>1. Count(queue, {SweepCmd})
              = Count(Tail(queue), {SweepCmd}) + (IF Head(queue) \in {SweepCmd} THEN 1 ELSE 0)
        BY <1>0, <2>1, CountTail
    <3>2. Head(queue) \notin {SweepCmd}
        BY <1>0, <2>1
    <3> QED BY <2>1, <3>1, <3>2 DEF q
  <2>3. Count(queue', {SweepCmd}) \in Nat
    <3>1. queue' \in Seq(Cmds)
        BY <1>0, <2>1
    <3> QED BY <3>1, CountType
  <2> QED BY <1>01, <2>1, <2>2, <2>3 DEF StackInv, AtLargeIn, a
<1> QED BY <1>1, <1>2, <1>4, <1>5, <1>6, <1>7, <1>8, <1>9 DEF SweepNext, Ticks

(* Once a halt has owed the venue with no sweep at large, no retry stacks a *)
(* sweep behind one at large, however long the venue takes over it.         *)
THEOREM SweepsNeverStack == SweepSpec => []NeverStacked
<1>1. TypeInv /\ StackInv => NeverStacked
  <2> SUFFICES ASSUME TypeInv, StackInv, alone PROVE Outstanding <= 1
      BY DEF NeverStacked
  <2>1. Outstanding = AtLargeIn(queue, answers)
      BY OutstandingIsCount DEF TypeInv
  <2> QED BY <2>1 DEF StackInv, Flying
<1> QED BY TypeInvInit, TypeInvNext, StackInvInit, StackInvNext, <1>1, PTL DEF SweepSpec
=============================================================================
