---------------------------- MODULE CancelProofs ----------------------------
(***************************************************************************)
(* What Cancel promises for any orders, any depth of the channel and any   *)
(* budgets: no order rests that the process has forgotten, and a cancel    *)
(* goes out again only when its newest attempt has been answered.          *)
(***************************************************************************)
EXTENDS Cancel, KillSweepProofs, FiniteSetTheorems

(* The commands and messages of this model, whatever their attempt numbers. *)
Sent ==
    {SweepCmd} \cup [cmd : {"place", "escalate"}, oid : Orders]
               \cup [cmd : {"cancel"}, oid : Orders, attempt : Nat]

Told ==
    Messages \cup [kind : {"order_ack"}, oid : Orders]
             \cup [kind : {"cancel_result"}, oid : Orders, attempt : Nat, ok : BOOLEAN]

Park == [owed : BOOLEAN, sent : Nat, refused : Nat, outstanding : BOOLEAN, escalated : BOOLEAN]

(* Cancels of orders of S, and what else is no place.                       *)
CancelsIn(S) == {c \in Sent : c.cmd = "cancel" /\ c.oid \in S}
PlacesNothing == {c \in Sent : c.cmd # "place"}

(* The commands a channel may hold, told apart by what they say.            *)
LEMMA CommandsSent ==
    /\ SweepCmd \in Sent /\ SweepCmd \in PlacesNothing /\ SweepCmd.cmd # "cancel"
    /\ \A o \in Orders : Place(o) \in Sent /\ Place(o).cmd = "place" /\ Place(o).oid = o
    /\ \A o \in Orders : Escalate(o) \in Sent /\ Escalate(o).cmd = "escalate"
    /\ \A o \in Orders, n \in Nat :
          Cancel(o, n) \in Sent /\ Cancel(o, n).cmd = "cancel" /\ Cancel(o, n).oid = o
    /\ \A c \in Sent : c.cmd = "place" => c.oid \in Orders /\ c = Place(c.oid)
    /\ \A c \in Sent : c.cmd = "cancel" => c.oid \in Orders
BY DEF Sent, PlacesNothing, SweepCmd, Place, Escalate, Cancel

-----------------------------------------------------------------------------
(* A channel to which commands of S, at most one place among them, have     *)
(* been added.                                                              *)
Grown(q, r, S) ==
    /\ Len(q) <= Len(r)
    /\ \A i \in DOMAIN q : r[i] = q[i]
    /\ \A i \in DOMAIN r : i \in DOMAIN q \/ r[i] \in S
    /\ \A i, j \in DOMAIN r \ DOMAIN q : r[i].cmd = "place" /\ r[j].cmd = "place" => i = j

(* Growth that adds no place composes with any growth before it.            *)
LEMMA GrownTwice ==
    ASSUME NEW p \in Seq(Sent), NEW q \in Seq(Sent), NEW r \in Seq(Sent), NEW S,
           \A c \in S : c.cmd # "place", Grown(p, q, S), Grown(q, r, S)
    PROVE  Grown(p, r, S)
<1>1. Len(p) \in Nat /\ Len(q) \in Nat /\ Len(r) \in Nat /\ DOMAIN p \subseteq DOMAIN q
    BY DEF Grown
<1>2. \A i \in DOMAIN r : i \in DOMAIN p \/ r[i] \in S
    BY <1>1 DEF Grown
<1>3. Len(p) <= Len(r) /\ \A i \in DOMAIN p : r[i] = p[i]
    BY <1>1 DEF Grown
<1> QED BY <1>2, <1>3 DEF Grown

(* What a dispatch adds are commands of those dispatched.                   *)
LEMMA TakenGrows ==
    ASSUME NEW q \in Seq(Sent), NEW cs \in Seq(Sent), NEW S, Len(q) <= Depth,
           \A i \in DOMAIN cs : cs[i] \in S,
           \A i, j \in DOMAIN cs : cs[i].cmd = "place" /\ cs[j].cmd = "place" => i = j
    PROVE  /\ q \o Taken(q, cs) \in Seq(Sent)
           /\ Len(q \o Taken(q, cs)) <= Depth
           /\ Grown(q, q \o Taken(q, cs), S)
<1>1. q \o Taken(q, cs) \in Seq(Sent) /\ Len(q \o Taken(q, cs)) <= Depth
      /\ Len(q) <= Len(q \o Taken(q, cs)) /\ Taken(q, cs) \in Seq(Sent)
    BY TakenFits
<1>2. \A i \in DOMAIN q : (q \o Taken(q, cs))[i] = q[i]
    BY <1>1, ConcatKeeps
<1>3. \A i \in DOMAIN Taken(q, cs) : i \in DOMAIN cs /\ Taken(q, cs)[i] = cs[i]
  <2>1. Depth \in Nat /\ Len(q) \in Nat /\ Len(cs) \in Nat
      BY KillSweepAssumption
  <2> DEFINE n == IF Len(cs) <= Depth - Len(q) THEN Len(cs) ELSE Depth - Len(q)
  <2>2. n \in 0..Len(cs)
      BY <2>1
  <2> HIDE DEF n
  <2>3. \A i \in DOMAIN SubSeq(cs, 1, n) : i \in DOMAIN cs /\ SubSeq(cs, 1, n)[i] = cs[i]
      BY <2>2
  <2>4. Taken(q, cs) = SubSeq(cs, 1, n)
      BY DEF Taken, n
  <2> QED BY <2>3, <2>4
<1> DEFINE t == Taken(q, cs)
<1>4. t \in Seq(Sent)
    BY <1>1
<1>5. \A i \in DOMAIN t : i \in DOMAIN cs /\ t[i] = cs[i]
    BY <1>3
<1> HIDE DEF t
<1>6. \A i \in DOMAIN (q \o t) \ DOMAIN q :
         i - Len(q) \in DOMAIN t /\ (q \o t)[i] = t[i - Len(q)]
    BY <1>4
<1>7. \A i \in DOMAIN (q \o t) : i \in DOMAIN q \/ (q \o t)[i] \in S
    BY <1>5, <1>6
<1>8. \A i, j \in DOMAIN (q \o t) \ DOMAIN q :
         (q \o t)[i].cmd = "place" /\ (q \o t)[j].cmd = "place" => i = j
  <2> TAKE i, j \in DOMAIN (q \o t) \ DOMAIN q
  <2>1. /\ i - Len(q) \in DOMAIN cs /\ (q \o t)[i] = cs[i - Len(q)]
        /\ j - Len(q) \in DOMAIN cs /\ (q \o t)[j] = cs[j - Len(q)]
      BY <1>5, <1>6
  <2>2. (q \o t)[i].cmd = "place" /\ (q \o t)[j].cmd = "place" => i - Len(q) = j - Len(q)
      BY <2>1
  <2>3. i \in Nat /\ j \in Nat /\ Len(q) \in Nat
      BY <1>4
  <2> QED BY <2>2, <2>3
<1> QED BY <1>1, <1>2, <1>7, <1>8 DEF Grown, t

(* A sweep offered adds at most the sweep.                                  *)
LEMMA OfferGrows ==
    ASSUME NEW o \in OwedSweep, NEW q \in Seq(Sent), Len(q) <= Depth
    PROVE  Grown(q, Offered(o, q).queue, {SweepCmd})
<1>1. SweepCmd \in Sent /\ SweepCmd.cmd # "place"
    BY CommandsSent DEF PlacesNothing
<1>2. Offered(o, q).queue \in {q, Append(q, SweepCmd)}
    BY <1>1, OfferTyped
<1>3. Grown(q, q, {SweepCmd})
    BY DEF Grown
<1>4. Append(q, SweepCmd) \in Seq(Sent) /\ DOMAIN Append(q, SweepCmd) = DOMAIN q \cup {Len(q) + 1}
      /\ \A i \in DOMAIN q : Append(q, SweepCmd)[i] = q[i]
      /\ Append(q, SweepCmd)[Len(q) + 1] = SweepCmd /\ Len(q) <= Len(Append(q, SweepCmd))
    BY <1>1
<1>5. Grown(q, Append(q, SweepCmd), {SweepCmd})
    BY <1>1, <1>4 DEF Grown
<1> QED BY <1>2, <1>3, <1>5

-----------------------------------------------------------------------------
(* The invariant.                                                           *)

Spot == {"none", "book", "filled", "gone"}
Done == {"filled", "gone"}

CancelType ==
    /\ owed \in OwedSweep
    /\ queue \in Seq(Sent) /\ Len(queue) <= Depth
    /\ answers \in Seq(Told)
    /\ todo \subseteq Orders /\ resting \subseteq Orders /\ acked \subseteq Orders
    /\ park \in [Orders -> Park]
    /\ at \in [Orders -> Spot]

(* A sweep that runs is the command being served.                           *)
RunsItsHead == running # NoSweep => queue # <<>> /\ Head(queue) = SweepCmd

(* A place is queued once, before its order is anywhere and while it is     *)
(* remembered; a cancel is of an order that reached the venue.              *)
QueueInv ==
    \A i \in DOMAIN queue, o \in Orders :
        /\ queue[i] = Place(o) =>
              /\ at[o] = "none" /\ o \notin todo
              /\ o \in resting \/ park[o].owed
              /\ \A j \in DOMAIN queue : queue[j] = Place(o) => j = i
        /\ queue[i].cmd = "cancel" /\ queue[i].oid = o => at[o] # "none"

(* An ack is of an order that reached the venue; a cancel's success, of one *)
(* that is no longer there.                                                 *)
AnswerInv ==
    \A i \in DOMAIN answers, o \in Orders :
        /\ answers[i] = Ack(o) => at[o] # "none"
        /\ answers[i].kind = "cancel_result" /\ answers[i].oid = o /\ answers[i].ok
              => at[o] \in Done

VenueInv ==
    /\ \A o \in todo : at[o] = "none"
    /\ \A o \in acked : at[o] # "none"

(* A halted engine believes nothing rests.                                  *)
HaltInv == Halted => resting = {}

CancelInv ==
    /\ CancelType /\ RunsItsHead /\ QueueInv /\ AnswerInv /\ VenueInv
    /\ HaltInv /\ NoneForgotten

(* An order that has reached the venue has, and one that is done is done.   *)
VenueMoves ==
    \A o \in Orders : /\ at[o] # "none" => at'[o] # "none"
                      /\ at[o] \in Done => at'[o] \in Done

-----------------------------------------------------------------------------
(* The channel and the answers, from one step to the next.                  *)

(* What is added to the channel keeps its invariant.                        *)
LEMMA QueueGrows ==
    ASSUME CancelInv, NEW S,
           queue' \in Seq(Sent), Grown(queue, queue', S), running' = running,
           todo' \subseteq todo,
           \A o \in Orders : at'[o] = "none" <=> at[o] = "none",
           \A o \in Orders : at[o] = "none" /\ (o \in resting \/ park[o].owed)
                                => o \in resting' \/ park'[o].owed,
           \A o \in Orders : Place(o) \in S => o \in todo /\ o \notin todo' /\ o \in resting',
           \A c \in S : c.cmd = "cancel" => at[c.oid] # "none"
    PROVE  QueueInv' /\ RunsItsHead'
<1>1. queue \in Seq(Sent) /\ \A o \in todo : at[o] = "none"
    BY DEF CancelInv, CancelType, VenueInv
<1>2. RunsItsHead'
    BY <1>1, HeadKept DEF CancelInv, RunsItsHead, Grown
<1>3. ASSUME NEW i \in DOMAIN queue', NEW o \in Orders, queue'[i] = Place(o)
      PROVE  /\ at'[o] = "none" /\ o \notin todo'
             /\ o \in resting' \/ park'[o].owed
             /\ \A j \in DOMAIN queue' : queue'[j] = Place(o) => j = i
  <2>1. Place(o).cmd = "place"
      BY CommandsSent
  <2>2. CASE i \in DOMAIN queue
    <3>1. queue[i] = Place(o)
        BY <1>3, <2>2 DEF Grown
    <3>2. at[o] = "none" /\ o \notin todo /\ (o \in resting \/ park[o].owed)
          /\ \A j \in DOMAIN queue : queue[j] = Place(o) => j = i
        BY <2>2, <3>1 DEF CancelInv, QueueInv
    <3>3. ASSUME NEW j \in DOMAIN queue', queue'[j] = Place(o) PROVE j = i
      <4>1. CASE j \in DOMAIN queue
          BY <3>2, <3>3, <4>1 DEF Grown
      <4>2. CASE j \notin DOMAIN queue
          BY <3>2, <3>3, <4>2 DEF Grown
      <4> QED BY <4>1, <4>2
    <3> QED BY <3>2, <3>3
  <2>3. CASE i \notin DOMAIN queue
    <3>1. Place(o) \in S
        BY <1>3, <2>3 DEF Grown
    <3>2. o \in todo /\ o \notin todo' /\ o \in resting' /\ at'[o] = "none"
        BY <1>1, <3>1
    <3>3. ASSUME NEW j \in DOMAIN queue', queue'[j] = Place(o) PROVE j = i
      <4>1. j \notin DOMAIN queue
          BY <3>2, <3>3 DEF Grown, CancelInv, QueueInv
      <4> QED BY <1>3, <2>1, <2>3, <3>3, <4>1 DEF Grown
    <3> QED BY <3>2, <3>3
  <2> QED BY <2>2, <2>3
<1>4. ASSUME NEW i \in DOMAIN queue', NEW o \in Orders, queue'[i].cmd = "cancel", queue'[i].oid = o
      PROVE  at'[o] # "none"
  <2>1. CASE i \in DOMAIN queue
      BY <1>4, <2>1 DEF Grown, CancelInv, QueueInv
  <2>2. CASE i \notin DOMAIN queue
      BY <1>4, <2>2 DEF Grown
  <2> QED BY <2>1, <2>2
<1> QED BY <1>2, <1>3, <1>4 DEF QueueInv

(* The command being served is done with.                                   *)
LEMMA QueueServed ==
    ASSUME CancelInv, queue # <<>>, queue' = Tail(queue), running' = NoSweep,
           UNCHANGED <<todo, resting, park>>, VenueMoves,
           \A o \in Orders : at[o] = "none" /\ Head(queue) # Place(o) => at'[o] = "none"
    PROVE  /\ QueueInv' /\ RunsItsHead'
           /\ queue' \in Seq(Sent) /\ Len(queue') <= Depth
<1>1. queue \in Seq(Sent) /\ Len(queue) <= Depth /\ Depth \in Nat
    BY KillSweepAssumption DEF CancelInv, CancelType
<1>2. /\ queue' \in Seq(Sent) /\ Len(queue') <= Depth
      /\ 1 \in DOMAIN queue /\ Head(queue) = queue[1]
      /\ \A i \in DOMAIN queue' : i + 1 \in DOMAIN queue /\ i + 1 # 1 /\ queue'[i] = queue[i + 1]
    BY <1>1
<1>3. ASSUME NEW i \in DOMAIN queue', NEW o \in Orders, queue'[i] = Place(o)
      PROVE  /\ at'[o] = "none" /\ o \notin todo'
             /\ o \in resting' \/ park'[o].owed
             /\ \A j \in DOMAIN queue' : queue'[j] = Place(o) => j = i
  <2>1. /\ at[o] = "none" /\ o \notin todo /\ (o \in resting \/ park[o].owed)
        /\ \A j \in DOMAIN queue : queue[j] = Place(o) => j = i + 1
      BY <1>2, <1>3 DEF CancelInv, QueueInv
  <2>2. Head(queue) # Place(o)
      BY <1>2, <2>1
  <2>3. i \in Int /\ \A j \in DOMAIN queue' : j \in Int
      BY <1>2
  <2>4. ASSUME NEW j \in DOMAIN queue', queue'[j] = Place(o) PROVE j = i
    <3>1. j + 1 = i + 1
        BY <1>2, <2>1, <2>4
    <3> QED BY <2>3, <3>1
  <2> QED BY <2>1, <2>2, <2>4
<1>4. ASSUME NEW i \in DOMAIN queue', NEW o \in Orders, queue'[i].cmd = "cancel", queue'[i].oid = o
      PROVE  at'[o] # "none"
    BY <1>2, <1>4 DEF CancelInv, QueueInv, VenueMoves
<1> QED BY <1>2, <1>3, <1>4 DEF QueueInv, RunsItsHead

(* Hearing an answer leaves the others as true as they were.                *)
LEMMA AnswerHeard ==
    ASSUME CancelInv, answers # <<>>, answers' = Tail(answers), VenueMoves
    PROVE  answers' \in Seq(Told) /\ AnswerInv'
<1>1. answers \in Seq(Told)
    BY DEF CancelInv, CancelType
<1>2. /\ answers' \in Seq(Told)
      /\ \A i \in DOMAIN answers' : i + 1 \in DOMAIN answers /\ answers'[i] = answers[i + 1]
    BY <1>1
<1> QED BY <1>2 DEF CancelInv, AnswerInv, VenueMoves

(* Answers not yet heard stay true as orders move on at the venue.          *)
LEMMA AnswerKept ==
    ASSUME CancelInv, answers' = answers, VenueMoves
    PROVE  answers' \in Seq(Told) /\ AnswerInv'
BY DEF CancelInv, CancelType, AnswerInv, VenueMoves

(* An answer that is true when it is told keeps the answers true.           *)
LEMMA AnswerTold ==
    ASSUME CancelInv, NEW m \in Told, answers' = Append(answers, m), VenueMoves,
           \A o \in Orders : m = Ack(o) => at'[o] # "none",
           \A o \in Orders : m.kind = "cancel_result" /\ m.oid = o /\ m.ok => at'[o] \in Done
    PROVE  answers' \in Seq(Told) /\ AnswerInv'
<1>1. answers \in Seq(Told)
    BY DEF CancelInv, CancelType
<1>2. answers' \in Seq(Told)
    BY <1>1
<1>3. \A i \in DOMAIN answers' : (i \in DOMAIN answers /\ answers'[i] = answers[i]) \/ answers'[i] = m
    BY <1>1, AppendAdds
<1>4. ASSUME NEW i \in DOMAIN answers', NEW o \in Orders
      PROVE  /\ answers'[i] = Ack(o) => at'[o] # "none"
             /\ answers'[i].kind = "cancel_result" /\ answers'[i].oid = o /\ answers'[i].ok
                   => at'[o] \in Done
  <2>1. CASE answers'[i] = m
      BY <2>1
  <2>2. CASE i \in DOMAIN answers /\ answers'[i] = answers[i]
      BY <2>2 DEF CancelInv, AnswerInv, VenueMoves
  <2> QED BY <1>3, <2>1, <2>2
<1> QED BY <1>2, <1>4 DEF AnswerInv

-----------------------------------------------------------------------------
(* The park.                                                                *)

(* Parking types the park, and owes what it parks.                          *)
LEMMA OwedForTyped ==
    ASSUME park \in [Orders -> Park], NEW os
    PROVE  /\ OwedFor(os) \in [Orders -> Park]
           /\ \A o \in Orders : OwedFor(os)[o].owed <=> park[o].owed \/ o \in os
<1>1. [NotParked EXCEPT !.owed = TRUE] \in Park /\ [NotParked EXCEPT !.owed = TRUE].owed
    BY DEF NotParked, Park
<1> HIDE DEF Park
<1> QED BY <1>1 DEF OwedFor

(* mark_sent and settle keep the park typed and every cancel owed.          *)
LEMMA MarkedTyped ==
    ASSUME NEW p \in [Orders -> Park], NEW cs
    PROVE  /\ Marked(p, cs) \in [Orders -> Park]
           /\ \A o \in Orders : Marked(p, cs)[o].owed = p[o].owed
<1>1. ASSUME NEW o \in Orders
      PROVE  /\ [p[o] EXCEPT !.sent = p[o].sent + 1, !.outstanding = TRUE] \in Park
             /\ [p[o] EXCEPT !.sent = p[o].sent + 1, !.outstanding = TRUE].owed = p[o].owed
             /\ [p[o] EXCEPT !.escalated = TRUE] \in Park
             /\ [p[o] EXCEPT !.escalated = TRUE].owed = p[o].owed
             /\ p[o] \in Park
  <2>1. p[o] \in Park
      OBVIOUS
  <2> DEFINE r == p[o]
  <2>2. r \in Park
      BY <2>1
  <2> HIDE DEF r
  <2>3. r.sent + 1 \in Nat
      BY <2>2 DEF Park
  <2>4. [r EXCEPT !.sent = r.sent + 1] \in Park /\ [r EXCEPT !.sent = r.sent + 1].owed = r.owed
      BY <2>2, <2>3 DEF Park
  <2>5. [r EXCEPT !.escalated = TRUE] \in Park /\ [r EXCEPT !.escalated = TRUE].owed = r.owed
      BY <2>2 DEF Park
  <2> DEFINE s == [r EXCEPT !.sent = r.sent + 1]
  <2>6. s \in Park /\ s.owed = r.owed
      BY <2>4
  <2>7. [r EXCEPT !.sent = r.sent + 1, !.outstanding = TRUE] = [s EXCEPT !.outstanding = TRUE]
      OBVIOUS
  <2> HIDE DEF s
  <2>8. [s EXCEPT !.outstanding = TRUE] \in Park /\ [s EXCEPT !.outstanding = TRUE].owed = s.owed
      BY <2>6 DEF Park
  <2> QED BY <2>2, <2>5, <2>6, <2>7, <2>8 DEF r
<1> HIDE DEF Park
<1> QED BY <1>1 DEF Marked

(* The cancels sent are of orders with a venue id.                          *)
LEMMA CancelsTyped ==
    ASSUME NEW os \in SUBSET Orders, NEW p \in [Orders -> Park], NEW cs \in CancelsOf(os, p),
           CancelInv
    PROVE  /\ cs \in Seq(Sent)
           /\ \A i \in DOMAIN cs : cs[i] \in CancelsIn(acked) /\ cs[i].cmd # "place"
<1>1. PICK s \in SetToSeqs(os \cap acked) : cs = [i \in DOMAIN s |-> Cancel(s[i], p[s[i]].sent + 1)]
    BY DEF CancelsOf
<1>2. IsFiniteSet(os \cap acked)
    BY CancelAssumption, FS_Subset
<1>3. Cardinality(os \cap acked) \in Nat
    BY <1>2, FS_CardinalityType
<1> DEFINE n == Cardinality(os \cap acked)
<1>4. s \in [1..n -> os \cap acked]
    BY DEF SetToSeqs
<1> HIDE DEF n
<1>5. n \in Nat
    BY <1>3 DEF n
<1>6. \A o \in Orders : p[o].sent + 1 \in Nat
    BY DEF Park
<1>7. \A i \in 1..n : /\ s[i] \in os \cap acked
                      /\ Cancel(s[i], p[s[i]].sent + 1) \in Sent
                      /\ Cancel(s[i], p[s[i]].sent + 1).cmd = "cancel"
                      /\ Cancel(s[i], p[s[i]].sent + 1).oid = s[i]
    BY <1>4, <1>6, CommandsSent
<1>8. cs \in [1..n -> Sent] /\ \A i \in 1..n : cs[i] = Cancel(s[i], p[s[i]].sent + 1)
    BY <1>1, <1>4, <1>7
<1>9. cs \in Seq(Sent) /\ DOMAIN cs = 1..n
    BY <1>5, <1>8
<1> QED BY <1>7, <1>8, <1>9 DEF CancelsIn

(* One more command behind cancels.                                         *)
LEMMA WithLast ==
    ASSUME NEW a \in Seq(Sent), NEW e \in Sent, NEW T,
           \A i \in DOMAIN a : a[i] \in T /\ a[i].cmd # "place"
    PROVE  /\ a \o <<e>> \in Seq(Sent)
           /\ \A i \in DOMAIN (a \o <<e>>) : (a \o <<e>>)[i] \in T \cup {e}
           /\ \A i, j \in DOMAIN (a \o <<e>>) :
                 (a \o <<e>>)[i].cmd = "place" /\ (a \o <<e>>)[j].cmd = "place" => i = j
<1>1. /\ a \o <<e>> \in Seq(Sent) /\ Len(a) \in Nat
      /\ DOMAIN (a \o <<e>>) = 1..(Len(a) + 1)
      /\ \A i \in DOMAIN a : (a \o <<e>>)[i] = a[i]
      /\ (a \o <<e>>)[Len(a) + 1] = e
      /\ DOMAIN a = 1..Len(a)
    OBVIOUS
<1> DEFINE b == a \o <<e>>
<1>2. \A i \in DOMAIN b : (i \in DOMAIN a /\ b[i] = a[i]) \/ (i = Len(a) + 1 /\ b[i] = e)
    BY <1>1
<1> HIDE DEF b
<1>3. \A i \in DOMAIN b : b[i] \in T \cup {e}
    BY <1>2
<1>4. \A i, j \in DOMAIN b : b[i].cmd = "place" /\ b[j].cmd = "place" => i = j
    BY <1>2
<1> QED BY <1>1, <1>3, <1>4 DEF b

(* The intents of a decision go out as far as the channel has room.         *)
LEMMA DrainKeeps ==
    ASSUME CancelInv, NEW p \in [Orders -> Park], NEW cs \in Seq(Sent), NEW S,
           \A i \in DOMAIN cs : cs[i] \in S,
           \A i, j \in DOMAIN cs : cs[i].cmd = "place" /\ cs[j].cmd = "place" => i = j,
           Drains(p, cs)
    PROVE  /\ queue' \in Seq(Sent) /\ Len(queue') <= Depth /\ Grown(queue, queue', S)
           /\ park' \in [Orders -> Park] /\ \A o \in Orders : park'[o].owed = p[o].owed
           /\ UNCHANGED <<haltVars, running, answers, owed>>
<1>1. queue \in Seq(Sent) /\ Len(queue) <= Depth
    BY DEF CancelInv, CancelType
<1>2. queue' = queue \o Taken(queue, cs) /\ park' = Marked(p, Taken(queue, cs))
      /\ UNCHANGED <<haltVars, execVars, owed>>
    BY DEF Drains
<1>3. queue' \in Seq(Sent) /\ Len(queue') <= Depth /\ Grown(queue, queue', S)
    BY <1>1, <1>2, TakenGrows
<1>4. park' \in [Orders -> Park] /\ \A o \in Orders : park'[o].owed = p[o].owed
    BY <1>2, MarkedTyped
<1> QED BY <1>2, <1>3, <1>4 DEF execVars

-----------------------------------------------------------------------------
(* The quoter's steps.                                                      *)

(* A quote is on the record before its place is queued.                     *)
LEMMA QuotesStep == ASSUME CancelInv, NEW o \in Orders, Quotes(o) PROVE CancelInv'
<1> DEFINE cs == <<Place(o)>>
<1>1. /\ cs \in Seq(Sent) /\ \A i \in DOMAIN cs : cs[i] \in {Place(o)}
      /\ \A i, j \in DOMAIN cs : cs[i].cmd = "place" /\ cs[j].cmd = "place" => i = j
      /\ Place(o).cmd = "place" /\ Place(o).oid = o
    BY CommandsSent
<1>2. /\ ~Halted /\ o \in todo /\ Drains(park, cs)
      /\ todo' = todo \ {o} /\ resting' = resting \cup {o} /\ UNCHANGED <<acked, at>>
    BY DEF Quotes
<1> HIDE DEF cs
<1>3. CancelType
    BY DEF CancelInv
<1>4. /\ queue' \in Seq(Sent) /\ Len(queue') <= Depth /\ Grown(queue, queue', {Place(o)})
      /\ park' \in [Orders -> Park] /\ \A q \in Orders : park'[q].owed = park[q].owed
      /\ UNCHANGED <<haltVars, running, answers, owed>>
    BY <1>1, <1>2, <1>3, DrainKeeps DEF CancelType
<1>5. \A q \in Orders : Place(q) = Place(o) => q = o
    BY <1>1, CommandsSent
<1>6. QueueInv' /\ RunsItsHead'
    BY <1>1, <1>2, <1>4, <1>5, QueueGrows
<1>7. answers' \in Seq(Told) /\ AnswerInv'
    BY <1>2, <1>4, AnswerKept DEF VenueMoves
<1>8. CancelType'
    BY <1>2, <1>3, <1>4, <1>7 DEF CancelType
<1>9. HaltInv'
    BY <1>2, <1>4 DEF HaltInv, Halted, haltVars
<1>10. VenueInv' /\ NoneForgotten'
    BY <1>2, <1>4 DEF CancelInv, VenueInv, NoneForgotten
<1> QED BY <1>6, <1>7, <1>8, <1>9, <1>10 DEF CancelInv

(* An amend owes the cancel of the order that it takes off the record.      *)
LEMMA AmendsStep == ASSUME CancelInv, NEW o \in Orders, NEW r \in Orders, Amends(o, r) PROVE CancelInv'
<1> DEFINE p == OwedFor({r})
<1>1. /\ ~Halted /\ o \in todo /\ r \in resting
      /\ todo' = todo \ {o} /\ resting' = (resting \ {r}) \cup {o} /\ UNCHANGED <<acked, at>>
    BY DEF Amends
<1>2. PICK cs \in CancelsOf({r}, p) : Drains(p, cs \o <<Place(o)>>)
    BY DEF Amends
<1>3. CancelType
    BY DEF CancelInv
<1>4. p \in [Orders -> Park] /\ \A q \in Orders : p[q].owed <=> park[q].owed \/ q \in {r}
    BY <1>3, OwedForTyped DEF CancelType
<1> HIDE DEF p
<1>5. cs \in Seq(Sent) /\ \A i \in DOMAIN cs : cs[i] \in CancelsIn(acked) /\ cs[i].cmd # "place"
    BY <1>2, <1>4, CancelsTyped
<1>6. Place(o) \in Sent /\ Place(o).cmd = "place" /\ Place(o).oid = o
    BY CommandsSent
<1> DEFINE S == CancelsIn(acked) \cup {Place(o)}
           all == cs \o <<Place(o)>>
<1>7. /\ all \in Seq(Sent) /\ \A i \in DOMAIN all : all[i] \in S
      /\ \A i, j \in DOMAIN all : all[i].cmd = "place" /\ all[j].cmd = "place" => i = j
    BY <1>5, <1>6, WithLast
<1>8. \A c \in S : (c.cmd = "cancel" => at[c.oid] # "none") /\ (c.cmd = "place" => c = Place(o))
    BY <1>6 DEF CancelsIn, CancelInv, VenueInv
<1>9. \A q \in Orders : Place(q) \in S => q = o
    BY <1>6, <1>8, CommandsSent
<1> HIDE DEF S, all
<1>10. Drains(p, all)
    BY <1>2 DEF all
<1>11. /\ queue' \in Seq(Sent) /\ Len(queue') <= Depth /\ Grown(queue, queue', S)
       /\ park' \in [Orders -> Park] /\ \A q \in Orders : park'[q].owed = p[q].owed
       /\ UNCHANGED <<haltVars, running, answers, owed>>
    BY <1>4, <1>7, <1>10, DrainKeeps
<1>12. \A q \in Orders : q \in resting \/ park[q].owed => q \in resting' \/ park'[q].owed
    BY <1>1, <1>4, <1>11
<1>13. QueueInv' /\ RunsItsHead'
    BY <1>1, <1>8, <1>9, <1>11, <1>12, QueueGrows
<1>14. answers' \in Seq(Told) /\ AnswerInv'
    BY <1>1, <1>11, AnswerKept DEF VenueMoves
<1>15. CancelType'
    BY <1>1, <1>3, <1>11, <1>14 DEF CancelType
<1>16. HaltInv'
    BY <1>1, <1>11 DEF HaltInv, Halted, haltVars
<1>17. VenueInv' /\ NoneForgotten'
    BY <1>1, <1>12 DEF CancelInv, VenueInv, NoneForgotten
<1> QED BY <1>13, <1>14, <1>15, <1>16, <1>17 DEF CancelInv

(* A pull owes the cancel of the order that it takes off the record.        *)
LEMMA PullsStep == ASSUME CancelInv, NEW r \in Orders, Pulls(r) PROVE CancelInv'
<1> DEFINE p == OwedFor({r})
           S == CancelsIn(acked)
<1>1. r \in resting /\ resting' = resting \ {r} /\ UNCHANGED <<todo, acked, at>>
    BY DEF Pulls
<1>2. PICK cs \in CancelsOf({r}, p) : Drains(p, cs)
    BY DEF Pulls
<1>3. CancelType
    BY DEF CancelInv
<1>4. p \in [Orders -> Park] /\ \A q \in Orders : p[q].owed <=> park[q].owed \/ q \in {r}
    BY <1>3, OwedForTyped DEF CancelType
<1> HIDE DEF p
<1>5. cs \in Seq(Sent) /\ \A i \in DOMAIN cs : cs[i] \in S /\ cs[i].cmd # "place"
    BY <1>2, <1>4, CancelsTyped
<1>6. \A c \in S : c.cmd = "cancel" /\ at[c.oid] # "none"
    BY DEF CancelsIn, CancelInv, VenueInv
<1>7. \A q \in Orders : Place(q) \notin S
    BY <1>6, CommandsSent
<1> HIDE DEF S
<1>8. /\ queue' \in Seq(Sent) /\ Len(queue') <= Depth /\ Grown(queue, queue', S)
      /\ park' \in [Orders -> Park] /\ \A q \in Orders : park'[q].owed = p[q].owed
      /\ UNCHANGED <<haltVars, running, answers, owed>>
    BY <1>2, <1>4, <1>5, DrainKeeps
<1>9. \A q \in Orders : q \in resting \/ park[q].owed => q \in resting' \/ park'[q].owed
    BY <1>1, <1>4, <1>8
<1>10. QueueInv' /\ RunsItsHead'
    BY <1>1, <1>6, <1>7, <1>8, <1>9, QueueGrows
<1>11. answers' \in Seq(Told) /\ AnswerInv'
    BY <1>1, <1>8, AnswerKept DEF VenueMoves
<1>12. CancelType'
    BY <1>1, <1>3, <1>8, <1>11 DEF CancelType
<1>13. HaltInv'
    BY <1>1, <1>8 DEF CancelInv, HaltInv, Halted, haltVars
<1>14. VenueInv' /\ NoneForgotten'
    BY <1>1, <1>9 DEF CancelInv, VenueInv, NoneForgotten
<1> QED BY <1>10, <1>11, <1>12, <1>13, <1>14 DEF CancelInv

(* A step that leaves the channel alone and forgets only orders that are    *)
(* done.                                                                    *)
LEMMA QueueKept ==
    ASSUME CancelInv, queue' = queue, running' = running, UNCHANGED todo,
           \A o \in Orders : at'[o] = "none" <=> at[o] = "none",
           \A o \in Orders : at[o] = "none" /\ (o \in resting \/ park[o].owed)
                                => o \in resting' \/ park'[o].owed
    PROVE  QueueInv' /\ RunsItsHead' /\ queue' \in Seq(Sent) /\ Len(queue') <= Depth
<1>1. queue' \in Seq(Sent) /\ Len(queue') <= Depth
    BY DEF CancelInv, CancelType
<1>2. Grown(queue, queue', {})
    BY <1>1 DEF Grown
<1> QED BY <1>1, <1>2, QueueGrows

(* A quote taken off the record because it filled no longer rests.          *)
LEMMA QuoteFilledStep == ASSUME CancelInv, NEW r \in Orders, QuoteFilled(r) PROVE CancelInv'
<1>1. /\ at[r] = "filled" /\ resting' = resting \ {r}
      /\ UNCHANGED <<sweepVars, todo, acked, park, at>>
    BY DEF QuoteFilled
<1>2. UNCHANGED <<killed, pulled, owed, queue, running, answers>>
    BY <1>1 DEF sweepVars, haltVars, execVars
<1>3. QueueInv' /\ RunsItsHead' /\ queue' \in Seq(Sent) /\ Len(queue') <= Depth
    BY <1>1, <1>2, QueueKept
<1>4. answers' \in Seq(Told) /\ AnswerInv'
    BY <1>1, <1>2, AnswerKept DEF VenueMoves
<1>5. CancelType'
    BY <1>1, <1>2, <1>3, <1>4 DEF CancelInv, CancelType
<1>6. HaltInv' /\ VenueInv' /\ NoneForgotten'
    BY <1>1, <1>2 DEF CancelInv, HaltInv, Halted, VenueInv, NoneForgotten
<1> QED BY <1>3, <1>4, <1>5, <1>6 DEF CancelInv

-----------------------------------------------------------------------------
(* The halts.                                                               *)

(* What a halt queues, and the quotes it takes out of the record and parks. *)
LEMMA HaltGrows ==
    ASSUME CancelInv, NEW cs \in HaltCancels
    PROVE  /\ Halting(cs).owed \in OwedSweep
           /\ Halting(cs).queue \in Seq(Sent) /\ Len(Halting(cs).queue) <= Depth
           /\ Grown(queue, Halting(cs).queue, CancelsIn(acked) \cup {SweepCmd})
<1> DEFINE S == CancelsIn(acked) \cup {SweepCmd}
           p == OwedFor(resting)
<1>1. SweepCmd \in Sent /\ SweepCmd.cmd # "place" /\ Owing \in OwedSweep
    BY CommandsSent, KillSweepAssumption DEF PlacesNothing, Owing, OwedSweep
<1>2. queue \in Seq(Sent) /\ Len(queue) <= Depth /\ park \in [Orders -> Park] /\ resting \in SUBSET Orders
    BY DEF CancelInv, CancelType
<1>3. p \in [Orders -> Park] /\ cs \in CancelsOf(resting, p)
    BY <1>2, OwedForTyped DEF HaltCancels
<1> HIDE DEF p
<1>4. cs \in Seq(Sent) /\ \A i \in DOMAIN cs : cs[i] \in CancelsIn(acked) /\ cs[i].cmd # "place"
    BY <1>2, <1>3, CancelsTyped
<1>5. \A c \in S : c.cmd # "place"
    BY <1>1 DEF CancelsIn
<1>6. \A i \in DOMAIN cs : cs[i] \in S
    BY <1>4
<1> DEFINE first == Offered(Owing, queue)
<1>7. /\ Halting(cs).owed = first.owed
      /\ Halting(cs).queue = first.queue \o Taken(first.queue, cs)
    BY DEF Halting
<1>8. first.owed \in OwedSweep /\ first.queue \in Seq(Sent) /\ Len(first.queue) <= Depth
    BY <1>1, <1>2, OfferTyped
<1>9. Grown(queue, first.queue, {SweepCmd})
    BY <1>1, <1>2, OfferGrows
<1> HIDE DEF first
<1>10. Grown(queue, first.queue, S)
    BY <1>9 DEF Grown
<1> HIDE DEF S
<1> DEFINE all == first.queue \o Taken(first.queue, cs)
<1>11. all \in Seq(Sent) /\ Len(all) <= Depth /\ Grown(first.queue, all, S)
    BY <1>4, <1>6, <1>8, TakenGrows
<1> HIDE DEF all
<1>12. Grown(queue, all, S)
    BY <1>2, <1>5, <1>8, <1>10, <1>11, GrownTwice
<1> QED BY <1>7, <1>8, <1>11, <1>12 DEF all, S

(* A halt, once its commands are in the channel.                            *)
LEMMA HaltLands ==
    ASSUME CancelInv, NEW cs \in HaltCancels, Abandons(cs),
           owed' \in OwedSweep, queue' \in Seq(Sent), Len(queue') <= Depth,
           Grown(queue, queue', CancelsIn(acked) \cup {SweepCmd}),
           UNCHANGED <<running, answers>>
    PROVE  CancelInv'
<1> DEFINE S == CancelsIn(acked) \cup {SweepCmd}
           p == OwedFor(resting)
           sent == Taken(Offered(Owing, queue).queue, cs)
<1>1. CancelType
    BY DEF CancelInv
<1>2. p \in [Orders -> Park] /\ \A q \in Orders : p[q].owed <=> park[q].owed \/ q \in resting
    BY <1>1, OwedForTyped DEF CancelType
<1>3. park' = Marked(p, sent) /\ resting' = {} /\ UNCHANGED <<todo, acked, at>>
    BY DEF Abandons
<1> HIDE DEF p, sent
<1>4. park' \in [Orders -> Park] /\ \A q \in Orders : park'[q].owed <=> park[q].owed \/ q \in resting
    BY <1>2, <1>3, MarkedTyped
<1>5. \A c \in S : c.cmd # "place" /\ (c.cmd = "cancel" => at[c.oid] # "none")
    BY CommandsSent DEF CancelsIn, CancelInv, VenueInv, PlacesNothing
<1>6. \A q \in Orders : Place(q) \notin S
    BY <1>5, CommandsSent
<1> HIDE DEF S
<1>7. Grown(queue, queue', S)
    BY DEF S
<1>8. QueueInv' /\ RunsItsHead'
    BY <1>3, <1>4, <1>5, <1>6, <1>7, QueueGrows
<1>9. answers' \in Seq(Told) /\ AnswerInv'
    BY <1>3, AnswerKept DEF VenueMoves
<1>10. CancelType'
    BY <1>1, <1>3, <1>4, <1>9 DEF CancelType
<1>11. HaltInv' /\ VenueInv' /\ NoneForgotten'
    BY <1>3, <1>4 DEF CancelInv, HaltInv, VenueInv, NoneForgotten
<1> QED BY <1>8, <1>9, <1>10, <1>11 DEF CancelInv

(* The kill switch owes a cancel of everything that it stops believing in.  *)
LEMMA KillCancelsStep == ASSUME CancelInv, KillCancels PROVE CancelInv'
<1> PICK cs \in HaltCancels : KillEngages(cs) /\ Abandons(cs)
    BY DEF KillCancels
<1> DEFINE h == Halting(cs)
           S == CancelsIn(acked) \cup {SweepCmd}
<1>1. /\ owed' = Offered(h.owed, h.queue).owed /\ queue' = Offered(h.owed, h.queue).queue
      /\ UNCHANGED <<running, answers>>
    BY DEF KillEngages, execVars
<1>2. h.owed \in OwedSweep /\ h.queue \in Seq(Sent) /\ Len(h.queue) <= Depth /\ Grown(queue, h.queue, S)
    BY HaltGrows
<1>3. \A c \in S : c.cmd # "place"
    BY CommandsSent DEF CancelsIn, PlacesNothing
<1>4. SweepCmd \in Sent /\ SweepCmd \in S /\ queue \in Seq(Sent)
    BY CommandsSent DEF CancelInv, CancelType
<1> HIDE DEF h, S
<1>5. owed' \in OwedSweep /\ queue' \in Seq(Sent) /\ Len(queue') <= Depth
    BY <1>1, <1>2, <1>4, OfferTyped
<1>6. Grown(h.queue, queue', {SweepCmd})
    BY <1>1, <1>2, OfferGrows
<1>7. Grown(h.queue, queue', S)
    BY <1>4, <1>6 DEF Grown
<1>8. Grown(queue, queue', S)
    BY <1>2, <1>3, <1>4, <1>5, <1>7, GrownTwice
<1> QED BY <1>1, <1>5, <1>8, HaltLands DEF S

(* So does a feed pull.                                                     *)
LEMMA PullCancelsStep == ASSUME CancelInv, PullCancels PROVE CancelInv'
<1> PICK cs \in HaltCancels : FeedPulls(cs) /\ Abandons(cs)
    BY DEF PullCancels
<1>1. owed' = Halting(cs).owed /\ queue' = Halting(cs).queue /\ UNCHANGED <<running, answers>>
    BY DEF FeedPulls, execVars
<1> QED BY <1>1, HaltGrows, HaltLands

(* The other steps of a halt touch no quote, and queue only sweeps.         *)
LEMMA HaltStepStep == ASSUME CancelInv, HaltStep, UNCHANGED quoteVars PROVE CancelInv'
<1>0. CancelType /\ UNCHANGED <<todo, resting, acked, park, at>>
    BY DEF CancelInv, quoteVars
<1>1. ASSUME QueueInv', RunsItsHead', AnswerInv', CancelType', Halted' => Halted
      PROVE  CancelInv'
    BY <1>0, <1>1 DEF CancelInv, HaltInv, VenueInv, NoneForgotten
<1>2. CASE KillFileSet \/ KillFileRemoved \/ FeedHealthy
  <2>1. UNCHANGED <<killed, owed, queue, running, answers>> /\ (pulled' => pulled)
      BY <1>2 DEF KillFileSet, KillFileRemoved, FeedHealthy, execVars
  <2>2. QueueInv' /\ RunsItsHead'
      BY <1>0, <2>1, QueueKept
  <2>3. answers' \in Seq(Told) /\ AnswerInv'
      BY <1>0, <2>1, AnswerKept DEF VenueMoves
  <2>4. CancelType'
      BY <1>0, <2>1 DEF CancelType
  <2>5. Halted' => Halted
      BY <2>1 DEF Halted
  <2> QED BY <1>1, <2>2, <2>3, <2>4, <2>5
<1>3. CASE KillWatch
  <2>1. /\ (killFile => killed) /\ killed' = killFile /\ pulled' = pulled
        /\ \/ owed' = owed /\ queue' = queue
           \/ owed' = Offered(owed, queue).owed /\ queue' = Offered(owed, queue).queue
        /\ UNCHANGED <<running, answers>>
      BY <1>3 DEF KillWatch, execVars
  <2>2. SweepCmd \in Sent /\ SweepCmd.cmd # "place" /\ SweepCmd.cmd # "cancel"
      BY CommandsSent DEF PlacesNothing
  <2>3. queue \in Seq(Sent) /\ Len(queue) <= Depth /\ owed \in OwedSweep
      BY <1>0 DEF CancelType
  <2>4. /\ owed' \in OwedSweep /\ queue' \in Seq(Sent) /\ Len(queue') <= Depth
        /\ Grown(queue, queue', {SweepCmd})
    <3>1. CASE owed' = owed /\ queue' = queue
        BY <2>3, <3>1 DEF Grown
    <3>2. CASE owed' = Offered(owed, queue).owed /\ queue' = Offered(owed, queue).queue
        BY <2>2, <2>3, <3>2, OfferTyped, OfferGrows
    <3> QED BY <2>1, <3>1, <3>2
  <2>5. \A o \in Orders : Place(o) \notin {SweepCmd}
      BY <2>2, CommandsSent
  <2>6. QueueInv' /\ RunsItsHead'
      BY <1>0, <2>1, <2>2, <2>4, <2>5, QueueGrows
  <2>7. answers' \in Seq(Told) /\ AnswerInv'
      BY <1>0, <2>1, AnswerKept DEF VenueMoves
  <2>8. CancelType'
      BY <1>0, <2>1, <2>4, <2>7 DEF CancelType
  <2>9. Halted' => Halted
      BY <2>1 DEF Halted
  <2> QED BY <1>1, <2>6, <2>7, <2>8, <2>9
<1>4. CASE HearsSweep
  <2>1. /\ answers # <<>> /\ answers' = Tail(answers)
        /\ UNCHANGED <<killed, pulled, queue, running>>
      BY <1>4 DEF HearsSweep, haltVars
  <2>2. owed' \in OwedSweep
    <3>1. NotOwed \in OwedSweep
        BY KillSweepAssumption DEF NotOwed, OwedSweep
    <3>2. (IF owed.backoff = 0 THEN Floor ELSE owed.backoff) \in 0..Ceiling
        BY <1>0, KillSweepAssumption DEF CancelType, OwedSweep
    <3> QED BY <1>0, <1>4, <3>1, <3>2 DEF CancelType, HearsSweep, OwedSweep
  <2>3. QueueInv' /\ RunsItsHead'
      BY <1>0, <2>1, QueueKept
  <2>4. answers' \in Seq(Told) /\ AnswerInv'
      BY <1>0, <2>1, AnswerHeard DEF VenueMoves
  <2>5. CancelType'
      BY <1>0, <2>1, <2>2, <2>4 DEF CancelType
  <2>6. Halted' => Halted
      BY <2>1 DEF Halted
  <2> QED BY <1>1, <2>3, <2>4, <2>5, <2>6
<1>5. CASE SweepBegins
  <2>1. /\ queue # <<>> /\ Head(queue) = SweepCmd
        /\ UNCHANGED <<killed, pulled, owed, queue, answers>>
      BY <1>5 DEF SweepBegins, haltVars
  <2>2. QueueInv' /\ RunsItsHead'
      BY <1>0, <2>1 DEF CancelInv, QueueInv, RunsItsHead
  <2>3. answers' \in Seq(Told) /\ AnswerInv'
      BY <1>0, <2>1, AnswerKept DEF VenueMoves
  <2>4. CancelType'
      BY <1>0, <2>1 DEF CancelType
  <2>5. Halted' => Halted
      BY <2>1 DEF Halted
  <2> QED BY <1>1, <2>2, <2>3, <2>4, <2>5
<1> QED BY <1>2, <1>3, <1>4, <1>5 DEF HaltStep

-----------------------------------------------------------------------------
(* The engine on its messages and its tick.                                 *)

(* The answer heard is the first of them.                                   *)
LEMMA HeadIsFirst ==
    ASSUME CancelInv, answers # <<>>
    PROVE  1 \in DOMAIN answers /\ Head(answers) = answers[1] /\ Head(answers) \in Told
<1>1. answers \in Seq(Told)
    BY DEF CancelInv, CancelType
<1> QED BY <1>1

(* An ack makes its order addressable, and queues only a cancel that is owed. *)
LEMMA HearsAckStep == ASSUME CancelInv, HearsAck PROVE CancelInv'
<1>0. CancelType
    BY DEF CancelInv
<1> DEFINE o == Head(answers).oid
           cs == IF park[o].owed THEN <<Cancel(o, park[o].sent + 1)>> ELSE <<>>
           S == CancelsIn({o})
<1>1. /\ answers # <<>> /\ Head(answers).kind = "order_ack" /\ answers' = Tail(answers)
      /\ acked' = acked \cup {o}
      /\ queue' = queue \o Taken(queue, cs) /\ park' = Marked(park, Taken(queue, cs))
      /\ UNCHANGED <<haltVars, owed, running, todo, resting, at>>
    BY DEF HearsAck
<1>2. o \in Orders /\ Head(answers) = Ack(o)
    BY <1>1, HeadIsFirst DEF Told, Ack, Messages
<1> HIDE DEF o
<1>3. at[o] # "none"
    BY <1>1, <1>2, HeadIsFirst DEF CancelInv, AnswerInv
<1>4. /\ queue \in Seq(Sent) /\ Len(queue) <= Depth /\ park \in [Orders -> Park]
      /\ park[o].sent + 1 \in Nat
    BY <1>0, <1>2 DEF CancelType, Park
<1>5. /\ Cancel(o, park[o].sent + 1) \in Sent /\ Cancel(o, park[o].sent + 1).cmd = "cancel"
      /\ Cancel(o, park[o].sent + 1).oid = o
    BY <1>2, <1>4, CommandsSent
<1>6. /\ cs \in Seq(Sent) /\ \A i \in DOMAIN cs : cs[i] \in S
      /\ \A i, j \in DOMAIN cs : cs[i].cmd = "place" /\ cs[j].cmd = "place" => i = j
  <2>1. CASE park[o].owed
      BY <1>5, <2>1 DEF CancelsIn
  <2>2. CASE ~park[o].owed
      BY <2>2
  <2> QED BY <2>1, <2>2
<1>7. \A c \in S : c.cmd = "cancel" /\ at[c.oid] # "none"
    BY <1>3 DEF CancelsIn
<1>8. \A q \in Orders : Place(q) \notin S
    BY <1>7, CommandsSent
<1> HIDE DEF cs, S
<1>9. queue' \in Seq(Sent) /\ Len(queue') <= Depth /\ Grown(queue, queue', S)
    BY <1>1, <1>4, <1>6, TakenGrows
<1>10. park' \in [Orders -> Park] /\ \A q \in Orders : park'[q].owed = park[q].owed
    BY <1>1, <1>4, MarkedTyped
<1>11. QueueInv' /\ RunsItsHead'
    BY <1>1, <1>7, <1>8, <1>9, <1>10, QueueGrows
<1>12. answers' \in Seq(Told) /\ AnswerInv'
    BY <1>1, AnswerHeard DEF VenueMoves
<1>13. CancelType'
    BY <1>0, <1>1, <1>2, <1>9, <1>10, <1>12 DEF CancelType
<1>14. HaltInv' /\ VenueInv' /\ NoneForgotten'
    BY <1>1, <1>2, <1>3, <1>10 DEF CancelInv, HaltInv, Halted, haltVars, VenueInv, NoneForgotten
<1> QED BY <1>11, <1>12, <1>13, <1>14 DEF CancelInv

(* A cancel that failed is owed as it was; one that succeeded is not.       *)
LEMMA AnsweredTyped ==
    ASSUME park \in [Orders -> Park], NEW o \in Orders, NEW n, NEW ok \in BOOLEAN
    PROVE  /\ Answered(o, n, ok) \in Park
           /\ ~ok => Answered(o, n, ok).owed = park[o].owed
<1> DEFINE r == park[o]
           s == [r EXCEPT !.outstanding = FALSE]
<1>1. r \in Park
    OBVIOUS
<1>2. NotParked \in Park
    BY DEF NotParked, Park
<1> HIDE DEF r
<1>3. s \in Park /\ s.owed = r.owed /\ s.refused = r.refused
    BY <1>1 DEF Park
<1>4. r.refused + 1 \in Nat
    BY <1>1 DEF Park
<1>5. [r EXCEPT !.outstanding = FALSE, !.refused = r.refused + 1] = [s EXCEPT !.refused = r.refused + 1]
    OBVIOUS
<1> HIDE DEF s
<1>6. [s EXCEPT !.refused = r.refused + 1] \in Park /\ [s EXCEPT !.refused = r.refused + 1].owed = s.owed
    BY <1>3, <1>4 DEF Park
<1>7. Answered(o, n, ok) \in {NotParked, r, [s EXCEPT !.refused = r.refused + 1]}
      /\ (~ok => Answered(o, n, ok) \in {r, [s EXCEPT !.refused = r.refused + 1]})
    BY <1>5 DEF Answered, r
<1> QED BY <1>1, <1>2, <1>3, <1>6, <1>7 DEF r

(* Only the answer that an order is gone retires the cancel of it.          *)
LEMMA HearsCancelStep == ASSUME CancelInv, HearsCancel PROVE CancelInv'
<1>0. CancelType /\ park \in [Orders -> Park]
    BY DEF CancelInv, CancelType
<1> DEFINE m == Head(answers)
           a == Answered(m.oid, m.attempt, m.ok)
<1>1. /\ answers # <<>> /\ m.kind = "cancel_result" /\ answers' = Tail(answers)
      /\ park' = [park EXCEPT ![m.oid] = IF park[m.oid].owed THEN a ELSE park[m.oid]]
      /\ UNCHANGED <<haltVars, owed, queue, running, todo, resting, acked, at>>
    BY DEF HearsCancel
<1>2. m.oid \in Orders /\ m.ok \in BOOLEAN
    BY <1>1, HeadIsFirst DEF Told, Messages
<1>3. m.ok => at[m.oid] \in Done
    BY <1>1, <1>2, HeadIsFirst DEF CancelInv, AnswerInv
<1>4. a \in Park /\ (~m.ok => a.owed = park[m.oid].owed)
    BY <1>0, <1>2, AnsweredTyped
<1> HIDE DEF a, m
<1>5. /\ park' \in [Orders -> Park]
      /\ \A q \in Orders : at[q] \notin Done => park'[q].owed = park[q].owed
  <2>1. (IF park[m.oid].owed THEN a ELSE park[m.oid]) \in Park
      BY <1>0, <1>2, <1>4
  <2> HIDE DEF Park
  <2> QED BY <1>0, <1>1, <1>2, <1>3, <1>4, <2>1
<1>6. \A q \in Orders : at[q] \in {"none", "book"} => park'[q].owed = park[q].owed
    BY <1>5 DEF Done
<1>7. QueueInv' /\ RunsItsHead'
    BY <1>1, <1>6, QueueKept
<1>8. answers' \in Seq(Told) /\ AnswerInv'
    BY <1>1, AnswerHeard DEF VenueMoves
<1>9. CancelType'
    BY <1>0, <1>1, <1>5, <1>8 DEF CancelType
<1>10. HaltInv' /\ VenueInv' /\ NoneForgotten'
    BY <1>1, <1>6 DEF CancelInv, HaltInv, Halted, haltVars, VenueInv, NoneForgotten
<1> QED BY <1>7, <1>8, <1>9, <1>10 DEF CancelInv

(* A tick sends cancels that are owed, and owes them still.                 *)
LEMMA CancelTickStep == ASSUME CancelInv, CancelTick PROVE CancelInv'
<1>0. CancelType /\ acked \in SUBSET Orders /\ park \in [Orders -> Park]
    BY DEF CancelInv, CancelType
<1>1. UNCHANGED <<todo, resting, acked, at>>
    BY DEF CancelTick
<1> DEFINE S == PlacesNothing \cap {c \in Sent : c.cmd = "cancel" => c.oid \in acked}
<1> PICK late \in SUBSET acked : \E cs \in Works(late) : Drains(park, cs)
    BY DEF CancelTick
<1>2. PICK cs \in Works(late) : Drains(park, cs)
    OBVIOUS
<1>3. Sendable(late) \in SUBSET Orders
    BY <1>0 DEF Sendable
<1>4. \A a \in CancelsOf(Sendable(late), park) :
         a \in Seq(Sent) /\ \A i \in DOMAIN a : a[i] \in S /\ a[i].cmd # "place"
    BY <1>0, <1>3, CancelsTyped DEF CancelsIn, PlacesNothing
<1>5. \A o \in Orders : Escalate(o) \in S /\ Escalate(o) \in Sent
    BY CommandsSent DEF PlacesNothing
<1>6. \A c \in S : c.cmd # "place" /\ (c.cmd = "cancel" => at[c.oid] # "none")
    BY DEF PlacesNothing, CancelInv, VenueInv
<1>7. \A q \in Orders : Place(q) \notin S
    BY <1>6, CommandsSent
<1> HIDE DEF S
<1>8. /\ cs \in Seq(Sent) /\ \A i \in DOMAIN cs : cs[i] \in S
      /\ \A i, j \in DOMAIN cs : cs[i].cmd = "place" /\ cs[j].cmd = "place" => i = j
  <2>1. CASE cs \in CancelsOf(Sendable(late), park)
      BY <1>4, <2>1
  <2>2. CASE \E a \in CancelsOf(Sendable(late), park), o \in Escalatable : cs = a \o <<Escalate(o)>>
    <3> PICK a \in CancelsOf(Sendable(late), park), o \in Escalatable : cs = a \o <<Escalate(o)>>
        BY <2>2
    <3>1. o \in Orders /\ S \cup {Escalate(o)} = S /\ Escalate(o) \in Sent
        BY <1>5 DEF Escalatable
    <3> QED BY <1>4, <3>1, WithLast
  <2> QED BY <2>1, <2>2 DEF Works
<1>9. /\ queue' \in Seq(Sent) /\ Len(queue') <= Depth /\ Grown(queue, queue', S)
      /\ park' \in [Orders -> Park] /\ \A q \in Orders : park'[q].owed = park[q].owed
      /\ UNCHANGED <<haltVars, running, answers, owed>>
    BY <1>0, <1>2, <1>8, DrainKeeps
<1>10. QueueInv' /\ RunsItsHead'
    BY <1>1, <1>6, <1>7, <1>9, QueueGrows
<1>11. answers' \in Seq(Told) /\ AnswerInv'
    BY <1>1, <1>9, AnswerKept DEF VenueMoves
<1>12. CancelType'
    BY <1>0, <1>1, <1>9, <1>11 DEF CancelType
<1>13. HaltInv' /\ VenueInv' /\ NoneForgotten'
    BY <1>1, <1>9 DEF CancelInv, HaltInv, Halted, haltVars, VenueInv, NoneForgotten
<1> QED BY <1>10, <1>11, <1>12, <1>13 DEF CancelInv

-----------------------------------------------------------------------------
(* The executor and the venue.                                              *)

(* A command served, of which the engine is told m or nothing.              *)
LEMMA ServedKeeps ==
    ASSUME CancelInv, queue # <<>>, queue' = Tail(queue), running' = NoSweep,
           UNCHANGED <<haltVars, owed, todo, resting, acked, park>>,
           at' \in [Orders -> Spot], VenueMoves,
           \A o \in Orders : at[o] = "none" /\ Head(queue) # Place(o) => at'[o] = "none",
           \A o \in Orders : at'[o] = "book" => at[o] = "book" \/ Head(queue) = Place(o),
           answers' \in Seq(Told), AnswerInv'
    PROVE  CancelInv'
<1>1. QueueInv' /\ RunsItsHead' /\ queue' \in Seq(Sent) /\ Len(queue') <= Depth
    BY QueueServed
<1>2. CancelType'
    BY <1>1 DEF CancelInv, CancelType
<1>3. \A o \in Orders : Head(queue) = Place(o) => o \notin todo /\ (o \in resting \/ park[o].owed)
  <2>1. 1 \in DOMAIN queue /\ Head(queue) = queue[1]
      BY DEF CancelInv, CancelType
  <2> QED BY <2>1 DEF CancelInv, QueueInv
<1>4. todo \subseteq Orders /\ acked \subseteq Orders
    BY DEF CancelInv, CancelType
<1>5. VenueInv' /\ NoneForgotten' /\ HaltInv'
    BY <1>3, <1>4 DEF CancelInv, HaltInv, Halted, haltVars, VenueInv, NoneForgotten, VenueMoves
<1> QED BY <1>1, <1>2, <1>5 DEF CancelInv

(* What is served was queued under the invariant of the channel.            *)
LEMMA ServedFromHead ==
    ASSUME CancelInv, queue # <<>>, Head(queue).cmd # "sweep"
    PROVE  /\ Head(queue) \in Sent /\ running = NoSweep
           /\ \A o \in Orders : Head(queue) = Place(o) => at[o] = "none"
           /\ Head(queue).cmd = "cancel" => at[Head(queue).oid] # "none"
<1>1. queue \in Seq(Sent) /\ 1 \in DOMAIN queue /\ Head(queue) = queue[1] /\ Head(queue) \in Sent
    BY DEF CancelInv, CancelType
<1>2. running = NoSweep
    BY DEF CancelInv, RunsItsHead, SweepCmd
<1> QED BY <1>1, <1>2, CommandsSent DEF CancelInv, QueueInv

(* A place that reaches the book is of an order that is remembered.         *)
LEMMA PlaceServedStep == ASSUME CancelInv, PlaceServed PROVE CancelInv'
<1> DEFINE o == Head(queue).oid
<1>1. /\ queue # <<>> /\ Head(queue).cmd = "place" /\ queue' = Tail(queue)
      /\ \/ at' = [at EXCEPT ![o] = "book"] /\ answers' = Append(answers, Ack(o))
         \/ at' = [at EXCEPT ![o] = "book"] /\ answers' = answers
         \/ at' = at /\ answers' = answers
      /\ UNCHANGED <<haltVars, owed, running, todo, resting, acked, park>>
    BY DEF PlaceServed, Serves, Tells
<1>2. Head(queue) \in Sent /\ running = NoSweep /\ \A q \in Orders : Head(queue) = Place(q) => at[q] = "none"
    BY <1>1, ServedFromHead
<1>3. o \in Orders /\ Head(queue) = Place(o) /\ at[o] = "none" /\ at \in [Orders -> Spot]
    BY <1>1, <1>2, CommandsSent DEF CancelInv, CancelType
<1>4. \A q \in Orders : Place(q) = Place(o) => q = o
    BY <1>3, CommandsSent
<1> HIDE DEF o
<1>5. at' \in [Orders -> Spot] /\ VenueMoves
    BY <1>1, <1>3 DEF Spot, Done, VenueMoves
<1>6. \A q \in Orders : at[q] = "none" /\ Head(queue) # Place(q) => at'[q] = "none"
    BY <1>1, <1>3
<1>7. \A q \in Orders : at'[q] = "book" => at[q] = "book" \/ Head(queue) = Place(q)
    BY <1>1, <1>3
<1>8. answers' \in Seq(Told) /\ AnswerInv'
  <2>1. CASE answers' = answers
      BY <1>5, <2>1, AnswerKept
  <2>2. CASE at' = [at EXCEPT ![o] = "book"] /\ answers' = Append(answers, Ack(o))
    <3>1. /\ Ack(o) \in Told /\ Ack(o).kind = "order_ack"
          /\ \A q \in Orders : Ack(o) = Ack(q) => q = o
        BY <1>3 DEF Ack, Told
    <3>2. at'[o] # "none"
        BY <1>3, <2>2
    <3> QED BY <1>5, <2>2, <3>1, <3>2, AnswerTold
  <2> QED BY <1>1, <2>1, <2>2
<1> QED BY <1>1, <1>2, <1>5, <1>6, <1>7, <1>8, ServedKeeps

(* A cancel of either kind, of which the engine is told the result.         *)
LEMMA CancelKeeps ==
    ASSUME CancelInv, queue # <<>>, queue' = Tail(queue), running' = NoSweep,
           UNCHANGED <<haltVars, owed, todo, resting, acked, park>>,
           \A q \in Orders : Head(queue) # Place(q),
           NEW o \in Orders, NEW done \in BOOLEAN, NEW ok \in BOOLEAN, NEW n \in Nat,
           ok => done /\ at[o] # "none",
           at' = [at EXCEPT ![o] = IF done /\ at[o] = "book" THEN "gone" ELSE at[o]],
           answers' = Append(answers, Result(o, n, ok))
    PROVE  CancelInv'
<1>1. at \in [Orders -> Spot]
    BY DEF CancelInv, CancelType
<1>2. at' \in [Orders -> Spot] /\ VenueMoves
    BY <1>1 DEF Spot, Done, VenueMoves
<1>3. /\ \A q \in Orders : at[q] = "none" => at'[q] = "none"
      /\ \A q \in Orders : at'[q] = "book" => at[q] = "book"
    BY <1>1
<1>4. /\ Result(o, n, ok) \in Told /\ \A q \in Orders : Result(o, n, ok) # Ack(q)
      /\ Result(o, n, ok).oid = o /\ Result(o, n, ok).ok = ok
  <2>1. Result(o, n, ok).kind = "cancel_result" /\ \A q \in Orders : Ack(q).kind = "order_ack"
      BY DEF Result, Ack
  <2> QED BY <2>1 DEF Result, Told
<1>5. ok => at'[o] \in Done
    BY <1>1 DEF Spot, Done
<1>6. answers' \in Seq(Told) /\ AnswerInv'
    BY <1>2, <1>4, <1>5, AnswerTold
<1> QED BY <1>2, <1>3, <1>6, ServedKeeps

(* A cancel tells the engine of success only if the order is gone.          *)
LEMMA CancelServedStep == ASSUME CancelInv, CancelServed PROVE CancelInv'
<1> DEFINE c == Head(queue)
<1>1. /\ queue # <<>> /\ c.cmd = "cancel" /\ queue' = Tail(queue)
      /\ UNCHANGED <<haltVars, owed, running, todo, resting, acked, park>>
    BY DEF CancelServed, Serves
<1>2. PICK done, ok \in BOOLEAN :
         /\ ok => done
         /\ at' = [at EXCEPT ![c.oid] = IF done /\ at[c.oid] = "book" THEN "gone" ELSE at[c.oid]]
         /\ answers' = Append(answers, Result(c.oid, c.attempt, ok))
    BY DEF CancelServed, Tells
<1>3. c \in Sent /\ running = NoSweep /\ at[c.oid] # "none"
    BY <1>1, ServedFromHead
<1>4. c.oid \in Orders /\ c.attempt \in Nat
    BY <1>1, <1>3 DEF Sent, SweepCmd
<1>5. \A q \in Orders : c # Place(q)
    BY <1>1, CommandsSent
<1> HIDE DEF c
<1>6. \A q \in Orders : Head(queue) # Place(q)
    BY <1>5 DEF c
<1> QED BY <1>1, <1>2, <1>3, <1>4, <1>6, CancelKeeps

(* So does an escalation.                                                   *)
LEMMA EscalateServedStep == ASSUME CancelInv, EscalateServed PROVE CancelInv'
<1> DEFINE o == Head(queue).oid
<1>1. /\ queue # <<>> /\ Head(queue).cmd = "escalate" /\ queue' = Tail(queue)
      /\ UNCHANGED <<haltVars, owed, running, todo, resting, acked, park>>
    BY DEF EscalateServed, Serves
<1>2. PICK done, ok \in BOOLEAN :
         /\ ok => done /\ at[o] # "none"
         /\ at' = [at EXCEPT ![o] = IF done /\ at[o] = "book" THEN "gone" ELSE at[o]]
         /\ answers' = Append(answers, Result(o, 0, ok))
    BY DEF EscalateServed, Tells
<1>3. Head(queue) \in Sent /\ running = NoSweep
    BY <1>1, ServedFromHead
<1>4. o \in Orders /\ 0 \in Nat
    BY <1>1, <1>3 DEF Sent, SweepCmd
<1>5. \A q \in Orders : Head(queue) # Place(q)
    BY <1>1, CommandsSent
<1> HIDE DEF o
<1> QED BY <1>1, <1>2, <1>3, <1>4, <1>5, CancelKeeps

(* A sweep removes orders, and tells nothing of any one of them.            *)
LEMMA BookSweptStep == ASSUME CancelInv, NEW ok \in BOOLEAN, BookSwept(ok) PROVE CancelInv'
<1>1. /\ running # NoSweep /\ running' = NoSweep /\ queue' = Tail(queue)
      /\ answers' = Append(answers, Verified(ok))
      /\ UNCHANGED <<haltVars, owed, todo, resting, acked, park>>
    BY DEF BookSwept, SweepEnds
<1>2. queue # <<>> /\ Head(queue) = SweepCmd
    BY <1>1 DEF CancelInv, RunsItsHead
<1>3. \A q \in Orders : Head(queue) # Place(q)
  <2>1. \A q \in Orders : SweepCmd # Place(q)
      BY CommandsSent DEF PlacesNothing
  <2> QED BY <1>2, <2>1
<1>4. at \in [Orders -> Spot]
    BY DEF CancelInv, CancelType
<1>5. PICK left \in SUBSET Orders :
         at' = [o \in Orders |-> IF at[o] = "book" /\ o \notin left THEN "gone" ELSE at[o]]
    BY DEF BookSwept
<1>6. /\ at' \in [Orders -> Spot] /\ VenueMoves
      /\ \A q \in Orders : at[q] = "none" => at'[q] = "none"
      /\ \A q \in Orders : at'[q] = "book" => at[q] = "book"
    BY <1>4, <1>5 DEF Spot, Done, VenueMoves
<1>7. /\ Verified(ok) \in Told /\ Verified(ok).kind = "sweep_result"
      /\ \A q \in Orders : Verified(ok) # Ack(q)
  <2>1. Verified(ok).kind = "sweep_result" /\ \A q \in Orders : Ack(q).kind = "order_ack"
      BY DEF Verified, Ack
  <2> QED BY <2>1 DEF Verified, Told, Messages
<1>8. answers' \in Seq(Told) /\ AnswerInv'
    BY <1>1, <1>6, <1>7, AnswerTold
<1> QED BY <1>1, <1>2, <1>3, <1>6, <1>8, ServedKeeps

(* A fill removes its order from the book.                                  *)
LEMMA OrderFillsStep == ASSUME CancelInv, NEW o \in Orders, OrderFills(o) PROVE CancelInv'
<1>1. /\ at[o] = "book" /\ at' = [at EXCEPT ![o] = "filled"]
      /\ UNCHANGED <<sweepVars, todo, resting, acked, park>>
    BY DEF OrderFills
<1>2. UNCHANGED <<killed, pulled, owed, queue, running, answers>>
    BY <1>1 DEF sweepVars, haltVars, execVars
<1>3. at \in [Orders -> Spot]
    BY DEF CancelInv, CancelType
<1>4. /\ at' \in [Orders -> Spot] /\ VenueMoves
      /\ \A q \in Orders : at'[q] = "none" <=> at[q] = "none"
      /\ \A q \in Orders : at'[q] = "book" => at[q] = "book"
    BY <1>1, <1>3 DEF Spot, Done, VenueMoves
<1>5. QueueInv' /\ RunsItsHead' /\ queue' \in Seq(Sent) /\ Len(queue') <= Depth
    BY <1>1, <1>2, <1>4, QueueKept
<1>6. answers' \in Seq(Told) /\ AnswerInv'
    BY <1>2, <1>4, AnswerKept
<1>7. CancelType'
    BY <1>1, <1>2, <1>4, <1>5, <1>6 DEF CancelInv, CancelType
<1>8. HaltInv' /\ VenueInv' /\ NoneForgotten'
    BY <1>1, <1>2, <1>4 DEF CancelInv, CancelType, HaltInv, Halted, VenueInv, NoneForgotten
<1> QED BY <1>5, <1>6, <1>7, <1>8 DEF CancelInv

-----------------------------------------------------------------------------
(* At the start nothing is placed, queued or owed.                          *)
LEMMA CancelInvInit == Init => CancelInv
<1> SUFFICES ASSUME Init PROVE CancelInv
    OBVIOUS
<1>1. /\ queue = <<>> /\ answers = <<>> /\ running = NoSweep /\ owed = NotOwed
      /\ todo = Orders /\ resting = {} /\ acked = {}
      /\ park = [o \in Orders |-> NotParked] /\ at = [o \in Orders |-> "none"]
    BY DEF Init, SweepInit
<1>2. queue \in Seq(Sent) /\ Len(queue) <= Depth /\ answers \in Seq(Told)
    BY <1>1, KillSweepAssumption
<1>3. owed \in OwedSweep
    BY <1>1, KillSweepAssumption DEF NotOwed, OwedSweep
<1>4. park \in [Orders -> Park] /\ at \in [Orders -> Spot]
    BY <1>1 DEF NotParked, Park, Spot
<1>5. CancelType
    BY <1>1, <1>2, <1>3, <1>4 DEF CancelType
<1>6. DOMAIN queue = {} /\ DOMAIN answers = {}
    BY <1>1
<1>7. RunsItsHead /\ QueueInv /\ AnswerInv
    BY <1>1, <1>6 DEF RunsItsHead, QueueInv, AnswerInv
<1>8. HaltInv /\ VenueInv /\ NoneForgotten
    BY <1>1 DEF HaltInv, VenueInv, NoneForgotten
<1> QED BY <1>5, <1>7, <1>8 DEF CancelInv

(* Every step keeps the invariant.                                          *)
LEMMA CancelInvNext == CancelInv /\ [Next]_vars => CancelInv'
<1> SUFFICES ASSUME CancelInv, [Next]_vars PROVE CancelInv'
    OBVIOUS
<1>1. CASE HaltStep /\ UNCHANGED quoteVars
    BY <1>1, HaltStepStep
<1>2. CASE KillCancels \/ PullCancels
    BY <1>2, KillCancelsStep, PullCancelsStep
<1>3. CASE \E o \in Orders : Quotes(o) \/ Pulls(o) \/ QuoteFilled(o)
    BY <1>3, QuotesStep, PullsStep, QuoteFilledStep
<1>4. CASE \E o, r \in Orders : Amends(o, r)
    BY <1>4, AmendsStep
<1>5. CASE HearsAck \/ HearsCancel \/ CancelTick
    BY <1>5, HearsAckStep, HearsCancelStep, CancelTickStep
<1>6. CASE Serving
    BY <1>6, PlaceServedStep, CancelServedStep, EscalateServedStep DEF Serving
<1>7. CASE \E o \in Orders : OrderFills(o)
    BY <1>7, OrderFillsStep
<1>8. CASE \E ok \in BOOLEAN : BookSwept(ok)
    BY <1>8, BookSweptStep
<1>9. CASE UNCHANGED vars
    BY <1>9 DEF vars, sweepVars, quoteVars, haltVars, execVars, CancelInv, CancelType, RunsItsHead,
                QueueInv, AnswerInv, VenueInv, HaltInv, Halted, NoneForgotten
<1> QED BY <1>1, <1>2, <1>3, <1>4, <1>5, <1>6, <1>7, <1>8, <1>9 DEF Next

(* No order rests at the venue that the process has forgotten: the quoter   *)
(* believes it rests, or a cancel of it is owed.                            *)
THEOREM NoneIsForgotten == Spec => []NoneForgotten
<1>1. CancelInv => NoneForgotten
    BY DEF CancelInv
<1> QED BY CancelInvInit, CancelInvNext, <1>1, PTL DEF Spec

(* Whatever rests while the engine is halted is owed a cancel.              *)
THEOREM HaltedOwesThemAll == Spec => []HaltedOwesEveryQuote
<1>1. CancelInv => HaltedOwesEveryQuote
    BY DEF CancelInv, HaltInv, NoneForgotten, HaltedOwesEveryQuote
<1> QED BY CancelInvInit, CancelInvNext, <1>1, PTL DEF Spec

-----------------------------------------------------------------------------
(* What NewestIsAnswered rests on.  The attempts of a cancel are counted,   *)
(* in the channel and among the answers: each is in play once, and none is  *)
(* of a number its park has not reached, or has reached and had answered.   *)

(* Two sequences end to end hold what each of them holds.                   *)
LEMMA CountBoth ==
    ASSUME NEW S, NEW a \in Seq(S), NEW b \in Seq(S), NEW G
    PROVE  Count(a \o b, G) = Count(a, G) + Count(b, G)
<1> DEFINE n    == Len(a)
           rest == Places(a \o b, G) \ Places(a, G)
           f    == [i \in Places(b, G) |-> i + n]
<1>1. /\ DOMAIN a = 1..n /\ DOMAIN b = 1..Len(b) /\ n \in Nat /\ Len(b) \in Nat
      /\ a \o b \in Seq(S) /\ DOMAIN (a \o b) = 1..(n + Len(b))
      /\ \A i \in 1..n : (a \o b)[i] = a[i]
      /\ \A i \in (n + 1)..(n + Len(b)) : (a \o b)[i] = b[i - n]
    OBVIOUS
<1> DEFINE c == a \o b
<1> HIDE DEF n
<1>2. Places(a, G) \subseteq Places(c, G)
    BY <1>1 DEF Places
<1>3. \A i \in Places(b, G) : i \in Nat /\ i + n \in rest
  <2> TAKE i \in Places(b, G)
  <2>1. i \in 1..Len(b) /\ b[i] \in G
      BY <1>1 DEF Places
  <2>2. i + n \in (n + 1)..(n + Len(b)) /\ i + n \in 1..(n + Len(b)) /\ i + n \notin 1..n
        /\ (i + n) - n = i
      BY <1>1, <2>1
  <2>3. c[i + n] = b[i]
      BY <1>1, <2>2
  <2> QED BY <1>1, <2>1, <2>2, <2>3 DEF Places
<1>4. \A j \in rest : j - n \in Places(b, G) /\ j \in Nat /\ (j - n) + n = j
  <2> TAKE j \in rest
  <2>1. j \in 1..(n + Len(b)) /\ c[j] \in G
      BY <1>1 DEF Places
  <2>2. j \notin 1..n
      BY <1>1, <2>1 DEF Places
  <2>3. j \in (n + 1)..(n + Len(b)) /\ j - n \in 1..Len(b) /\ j \in Nat /\ (j - n) + n = j
      BY <1>1, <2>1, <2>2
  <2>4. b[j - n] = c[j]
      BY <1>1, <2>3
  <2> QED BY <1>1, <2>1, <2>3, <2>4 DEF Places
<1>5. /\ IsFiniteSet(Places(a, G)) /\ IsFiniteSet(Places(b, G)) /\ IsFiniteSet(Places(c, G))
      /\ IsFiniteSet(rest)
  <2>1. IsFiniteSet(Places(a, G)) /\ IsFiniteSet(Places(b, G)) /\ IsFiniteSet(Places(c, G))
      BY <1>1, CountType
  <2> QED BY <2>1, FS_Subset
<1> HIDE DEF rest
<1>6. f \in Bijection(Places(b, G), rest)
  <2>1. f \in [Places(b, G) -> rest]
      BY <1>3
  <2>2. \A i, j \in Places(b, G) : f[i] = f[j] => i = j
      BY <1>1, <1>3
  <2>3. \A j \in rest : \E i \in Places(b, G) : f[i] = j
      BY <1>4
  <2> QED BY <2>1, <2>2, <2>3 DEF Bijection, Injection, Surjection, IsInjective
<1>7. Cardinality(rest) = Cardinality(Places(b, G))
    BY <1>5, <1>6, FS_Bijection DEF ExistsBijection
<1>8. Places(c, G) = Places(a, G) \cup rest /\ Places(a, G) \cap rest = {}
    BY <1>2 DEF rest
<1>9. Cardinality(Places(c, G)) = Cardinality(Places(a, G)) + Cardinality(rest)
  <2>1. Cardinality({}) = 0
      BY FS_EmptySet
  <2>2. Cardinality(Places(a, G)) \in Nat /\ Cardinality(rest) \in Nat
      BY <1>5, FS_CardinalityType
  <2>3. Cardinality(Places(a, G) \cup rest)
            = Cardinality(Places(a, G)) + Cardinality(rest) - Cardinality(Places(a, G) \cap rest)
      BY <1>5, FS_Union
  <2>4. Cardinality(Places(a, G) \cup rest) = Cardinality(Places(c, G))
      BY <1>8, Zenon
  <2>5. Cardinality(Places(a, G) \cap rest) = 0
      BY <1>8, <2>1, Zenon
  <2> DEFINE x == Cardinality(Places(a, G) \cup rest)
             y == Cardinality(Places(a, G) \cap rest)
  <2>6. x = Cardinality(Places(a, G)) + Cardinality(rest) - y /\ y = 0 /\ x = Cardinality(Places(c, G))
      BY <2>3, <2>4, <2>5
  <2> HIDE DEF x, y, c
  <2> QED BY <2>2, <2>6
<1> QED BY <1>7, <1>9 DEF Count

(* None in G counts nothing, and what counts nothing has none in G.         *)
LEMMA CountNone ==
    ASSUME NEW S, NEW q \in Seq(S), NEW G
    PROVE  Count(q, G) = 0 <=> \A i \in DOMAIN q : q[i] \notin G
<1>1. IsFiniteSet(Places(q, G))
    BY CountType
<1>2. Count(q, G) = 0 <=> Places(q, G) = {}
    BY <1>1, FS_EmptySet DEF Count
<1> QED BY <1>2 DEF Places

(* One in G, in one place, counts one.                                      *)
LEMMA CountOne ==
    ASSUME NEW S, NEW q \in Seq(S), NEW G, NEW i \in DOMAIN q, q[i] \in G,
           \A j \in DOMAIN q : q[j] \in G => j = i
    PROVE  Count(q, G) = 1
<1>1. Places(q, G) = {i}
    BY DEF Places
<1> QED BY <1>1, FS_Singleton DEF Count

-----------------------------------------------------------------------------
(* Each attempt of a cancel, counted in the channel and among the answers.  *)
Results(o, n) == {Result(o, n, TRUE), Result(o, n, FALSE)}
InPlay(o, n) == Count(queue, {Cancel(o, n)}) + Count(answers, Results(o, n))
Attempts == Nat \ {0}

(* An attempt is in play once; none is for an order not cancelled yet, and  *)
(* for one that is, none newer than the newest, nor that one once answered. *)
AttemptInv ==
    \A o \in Orders, n \in Attempts :
        /\ InPlay(o, n) <= 1
        /\ o \in resting \cup todo => InPlay(o, n) = 0
        /\ park[o].owed /\ (n > park[o].sent \/ (n = park[o].sent /\ ~park[o].outstanding))
              => InPlay(o, n) = 0

(* A cancel sent is of an order with a venue id, and within its budgets.    *)
ParkOK(p, id) ==
    /\ p.sent > 0 => id
    /\ p.sent = 0 => p.refused = 0 /\ ~p.outstanding
    /\ p.sent <= MaxSends /\ p.refused <= MaxRefusals
    /\ p.outstanding => p.refused < MaxRefusals
    /\ ~p.owed => p.sent = 0

ParkInv ==
    /\ \A o \in Orders : ParkOK(park[o], o \in acked)
    /\ \A o \in resting \cup todo : ~park[o].owed
    /\ resting \cap todo = {}

(* An order is acknowledged once.                                           *)
AckInv == \A o \in Orders : Count(answers, {Ack(o)}) + (IF o \in acked THEN 1 ELSE 0) <= 1

(* No cancel queued is numbered beyond the budget.                          *)
BeyondBudget == {c \in Sent : c.cmd = "cancel" /\ c.attempt \notin 1..MaxSends}
RangeInv == Count(queue, BeyondBudget) = 0

NewestInv == AttemptInv /\ ParkInv /\ AckInv /\ RangeInv

(* The counts are numbers.                                                  *)
LEMMA InPlayType ==
    ASSUME CancelType, NEW o, NEW n
    PROVE  /\ Count(queue, {Cancel(o, n)}) \in Nat /\ Count(answers, Results(o, n)) \in Nat
           /\ Count(answers, {Ack(o)}) \in Nat /\ InPlay(o, n) \in Nat
<1>1. queue \in Seq(Sent) /\ answers \in Seq(Told)
    BY DEF CancelType
<1>2. /\ Count(queue, {Cancel(o, n)}) \in Nat /\ Count(answers, Results(o, n)) \in Nat
      /\ Count(answers, {Ack(o)}) \in Nat
    BY <1>1, CountType
<1> QED BY <1>2 DEF InPlay

(* Commands and messages that count for an attempt, and that do not.        *)
LEMMA WhatCounts ==
    ASSUME NEW o \in Orders, NEW n \in Attempts
    PROVE  /\ SweepCmd # Cancel(o, n)
           /\ \A c \in Sent : c.cmd # "cancel" => c # Cancel(o, n)
           /\ \A c \in Sent : c.cmd = "cancel" => c = Cancel(c.oid, c.attempt)
           /\ \A q, m : Cancel(q, m) = Cancel(o, n) <=> q = o /\ m = n
           /\ \A q, m, b : Result(q, m, b) \in Results(o, n) => q = o /\ m = n
           /\ \A b \in BOOLEAN : Result(o, n, b) \in Results(o, n)
           /\ \A m \in Told : m.kind # "cancel_result" => m \notin Results(o, n)
           /\ \A m \in Told : m.kind # "order_ack" => m # Ack(o)
           /\ \A q : Ack(q) = Ack(o) <=> q = o
<1>1. SweepCmd # Cancel(o, n) /\ \A c \in Sent : c.cmd # "cancel" => c # Cancel(o, n)
    BY DEF SweepCmd, Cancel
<1>2. \A c \in Sent : c.cmd = "cancel" => c = Cancel(c.oid, c.attempt)
    BY DEF Sent, SweepCmd, Cancel
<1>3. \A q, m : Cancel(q, m) = Cancel(o, n) <=> q = o /\ m = n
    BY DEF Cancel
<1>4. \A q, m, b : Result(q, m, b) \in Results(o, n) => q = o /\ m = n
    BY DEF Result, Results
<1>5. \A b \in BOOLEAN : Result(o, n, b) \in Results(o, n)
    BY DEF Result, Results
<1>6. \A m \in Told : m.kind # "cancel_result" => m \notin Results(o, n)
    BY DEF Results, Result
<1>7. \A m \in Told : m.kind # "order_ack" => m # Ack(o)
    BY DEF Ack
<1>8. \A q : Ack(q) = Ack(o) <=> q = o
    BY DEF Ack
<1> QED BY <1>1, <1>2, <1>3, <1>4, <1>5, <1>6, <1>7, <1>8

-----------------------------------------------------------------------------
(* The commands of a dispatch: one cancel at most of each order, the next   *)
(* attempt of a cancel owed, with budget left, of an order with a venue id  *)
(* (ids).                                                                   *)
Fits(t, p, ids) ==
    /\ \A i \in DOMAIN t : t[i].cmd = "cancel" =>
          LET o == t[i].oid
          IN  /\ o \in ids /\ t[i] = Cancel(o, p[o].sent + 1)
              /\ p[o].owed /\ ~Spent(p[o])
    /\ \A i, j \in DOMAIN t : t[i].cmd = "cancel" /\ t[j].cmd = "cancel" /\ t[i].oid = t[j].oid
                                 => i = j

(* What the channel takes of commands that fit fits.                        *)
LEMMA TakenIsPrefix ==
    ASSUME NEW q \in Seq(Sent), NEW cs \in Seq(Sent), Len(q) <= Depth
    PROVE  /\ Taken(q, cs) \in Seq(Sent)
           /\ \A i \in DOMAIN Taken(q, cs) : i \in DOMAIN cs /\ Taken(q, cs)[i] = cs[i]
<1>1. Depth \in Nat /\ Len(q) \in Nat /\ Len(cs) \in Nat
    BY KillSweepAssumption
<1> DEFINE n == IF Len(cs) <= Depth - Len(q) THEN Len(cs) ELSE Depth - Len(q)
<1>2. n \in 0..Len(cs)
    BY <1>1
<1> HIDE DEF n
<1>3. \A i \in DOMAIN SubSeq(cs, 1, n) : i \in DOMAIN cs /\ SubSeq(cs, 1, n)[i] = cs[i]
    BY <1>2
<1>4. Taken(q, cs) = SubSeq(cs, 1, n)
    BY DEF Taken, n
<1>5. Taken(q, cs) \in Seq(Sent)
    BY TakenFits
<1> QED BY <1>3, <1>4, <1>5

LEMMA TakenThatFit ==
    ASSUME NEW q \in Seq(Sent), NEW cs \in Seq(Sent), Len(q) <= Depth, NEW p, NEW ids,
           Fits(cs, p, ids)
    PROVE  Taken(q, cs) \in Seq(Sent) /\ Fits(Taken(q, cs), p, ids)
<1> DEFINE t == Taken(q, cs)
<1>1. t \in Seq(Sent) /\ \A i \in DOMAIN t : i \in DOMAIN cs /\ t[i] = cs[i]
    BY TakenIsPrefix
<1> HIDE DEF t
<1>2. Fits(t, p, ids)
    BY <1>1 DEF Fits
<1> QED BY <1>1, <1>2 DEF t

(* What a dispatch that fits adds for each attempt: one for the next of     *)
(* those it sends, and mark_sent makes that one the newest.                 *)
LEMMA SentCounts ==
    ASSUME NEW t \in Seq(Sent), NEW p \in [Orders -> Park], NEW ids, Fits(t, p, ids),
           NEW o \in Orders
    PROVE  \/ /\ o \in ids /\ p[o].owed /\ ~Spent(p[o])
              /\ \A n \in Attempts :
                    Count(t, {Cancel(o, n)}) = IF n = p[o].sent + 1 THEN 1 ELSE 0
              /\ Marked(p, t)[o] = [p[o] EXCEPT !.sent = p[o].sent + 1, !.outstanding = TRUE]
           \/ /\ \A n \in Attempts : Count(t, {Cancel(o, n)}) = 0
              /\ Marked(p, t)[o] \in {p[o], [p[o] EXCEPT !.escalated = TRUE]}
<1>0. p[o] \in Park /\ p[o].sent \in Nat
    BY DEF Park
<1>1. CASE \E i \in DOMAIN t : t[i].cmd = "cancel" /\ t[i].oid = o
  <2> PICK i \in DOMAIN t : t[i].cmd = "cancel" /\ t[i].oid = o
      BY <1>1
  <2>1. /\ o \in ids /\ t[i] = Cancel(o, p[o].sent + 1) /\ p[o].owed /\ ~Spent(p[o])
        /\ \A j \in DOMAIN t : t[j].cmd = "cancel" /\ t[j].oid = o => j = i
      BY DEF Fits
  <2>2. ASSUME NEW n \in Attempts
        PROVE  Count(t, {Cancel(o, n)}) = IF n = p[o].sent + 1 THEN 1 ELSE 0
    <3>1. \A j \in DOMAIN t : t[j] = Cancel(o, n) => j = i
      <4>1. Cancel(o, n).cmd = "cancel" /\ Cancel(o, n).oid = o
          BY DEF Cancel
      <4> QED BY <2>1, <4>1
    <3>2. t[i] = Cancel(o, n) <=> n = p[o].sent + 1
        BY <2>1, WhatCounts
    <3>3. CASE n = p[o].sent + 1
        BY <3>1, <3>2, <3>3, CountOne
    <3>4. CASE n # p[o].sent + 1
        BY <3>1, <3>2, <3>4, CountNone
    <3> QED BY <3>3, <3>4
  <2>3. Marked(p, t)[o] = [p[o] EXCEPT !.sent = p[o].sent + 1, !.outstanding = TRUE]
      BY <1>1 DEF Marked
  <2> QED BY <2>1, <2>2, <2>3
<1>2. CASE ~\E i \in DOMAIN t : t[i].cmd = "cancel" /\ t[i].oid = o
  <2>1. ASSUME NEW n \in Attempts PROVE Count(t, {Cancel(o, n)}) = 0
    <3>1. Cancel(o, n).cmd = "cancel" /\ Cancel(o, n).oid = o
        BY DEF Cancel
    <3>2. \A j \in DOMAIN t : t[j] # Cancel(o, n)
        BY <1>2, <3>1
    <3> QED BY <3>2, CountNone
  <2>2. Marked(p, t)[o] \in {p[o], [p[o] EXCEPT !.escalated = TRUE]}
      BY <1>2 DEF Marked
  <2> QED BY <2>1, <2>2
<1> QED BY <1>1, <1>2

(* A park as mark_sent leaves it, field by field.                           *)
LEMMA MarkFields ==
    ASSUME NEW r \in Park, NEW s
    PROVE  /\ s = [r EXCEPT !.sent = r.sent + 1, !.outstanding = TRUE] =>
                 s.sent = r.sent + 1 /\ s.outstanding /\ s.refused = r.refused /\ s.owed = r.owed
           /\ s \in {r, [r EXCEPT !.escalated = TRUE]} =>
                 /\ s.sent = r.sent /\ s.outstanding = r.outstanding
                 /\ s.refused = r.refused /\ s.owed = r.owed
BY DEF Park

(* A cancel just decided.                                                   *)
Fresh == [NotParked EXCEPT !.owed = TRUE]

(* A dispatch that fits, after orders taken off the record were parked:     *)
(* each attempt it sends is new, so it is in play once and is the newest.   *)
LEMMA SendKeeps ==
    ASSUME CancelInv, NewestInv,
           NEW p \in [Orders -> Park], NEW t \in Seq(Sent), Fits(t, p, acked'),
           park' = Marked(p, t), acked \subseteq acked',
           \A o \in Orders, n \in Attempts :
              InPlay(o, n)' = InPlay(o, n) + Count(t, {Cancel(o, n)}),
           \A o \in Orders : p[o] = park[o] \/ (o \in resting /\ o \notin resting' /\ p[o] = Fresh),
           resting' \cup todo' \subseteq resting \cup todo, todo' \subseteq todo,
           resting' \cap todo' = {}
    PROVE  AttemptInv' /\ ParkInv'
<1>0. /\ park \in [Orders -> Park] /\ MaxSends \in Attempts /\ MaxRefusals \in Attempts
      /\ resting \subseteq Orders /\ todo \subseteq Orders /\ CancelType
    BY CancelAssumption DEF CancelInv, CancelType, Attempts
<1>1. Fresh.owed /\ Fresh.sent = 0 /\ Fresh.refused = 0 /\ ~Fresh.outstanding
    BY DEF Fresh, NotParked
<1>2. ASSUME NEW o \in Orders
      PROVE  /\ ParkOK(p[o], o \in acked')
             /\ \A n \in Attempts :
                   /\ InPlay(o, n) \in Nat /\ InPlay(o, n) <= 1
                   /\ p[o].owed /\ (n > p[o].sent \/ (n = p[o].sent /\ ~p[o].outstanding))
                         => InPlay(o, n) = 0
             /\ o \in resting' \cup todo' => ~p[o].owed /\ \A n \in Attempts : InPlay(o, n) = 0
  <2>1. ParkOK(park[o], o \in acked) /\ park[o] \in Park
      BY <1>0 DEF NewestInv, ParkInv
  <2>2. \A n \in Attempts : InPlay(o, n) \in Nat /\ InPlay(o, n) <= 1
      BY <1>0, InPlayType DEF NewestInv, AttemptInv
  <2>3. CASE p[o] = park[o]
    <3>1. ParkOK(p[o], o \in acked')
        BY <1>0, <2>1, <2>3 DEF ParkOK
    <3>2. o \in resting' \cup todo' => ~p[o].owed /\ \A n \in Attempts : InPlay(o, n) = 0
        BY <2>3 DEF NewestInv, ParkInv, AttemptInv
    <3>3. \A n \in Attempts : p[o].owed /\ (n > p[o].sent \/ (n = p[o].sent /\ ~p[o].outstanding))
                                => InPlay(o, n) = 0
        BY <2>3 DEF NewestInv, AttemptInv
    <3> QED BY <2>2, <3>1, <3>2, <3>3
  <2>4. CASE o \in resting /\ o \notin resting' /\ p[o] = Fresh
    <3>1. ParkOK(p[o], o \in acked')
        BY <1>0, <1>1, <2>4 DEF ParkOK, Attempts
    <3>2. \A n \in Attempts : InPlay(o, n) = 0
        BY <2>4 DEF NewestInv, AttemptInv
    <3>3. o \notin resting' \cup todo'
        BY <2>4 DEF NewestInv, ParkInv
    <3> HIDE DEF Fresh
    <3> QED BY <2>2, <3>1, <3>2, <3>3
  <2> QED BY <2>3, <2>4
<1>3. ASSUME NEW o \in Orders
      PROVE  /\ ParkOK(park'[o], o \in acked')
             /\ o \in resting' \cup todo' => ~park'[o].owed
             /\ \A n \in Attempts :
                   /\ InPlay(o, n)' <= 1
                   /\ o \in resting' \cup todo' => InPlay(o, n)' = 0
                   /\ park'[o].owed /\ (n > park'[o].sent \/ (n = park'[o].sent /\ ~park'[o].outstanding))
                         => InPlay(o, n)' = 0
  <2> DEFINE r == p[o]
             s == park'[o]
  <2>1. r \in Park
      OBVIOUS
  <2>2. CASE /\ o \in acked' /\ r.owed /\ ~Spent(r)
             /\ \A n \in Attempts : Count(t, {Cancel(o, n)}) = IF n = r.sent + 1 THEN 1 ELSE 0
             /\ s = [r EXCEPT !.sent = r.sent + 1, !.outstanding = TRUE]
    <3> HIDE DEF r, s
    <3>1. s.sent = r.sent + 1 /\ s.outstanding /\ s.refused = r.refused /\ s.owed = r.owed
        BY <2>1, <2>2, MarkFields
    <3>2. r.sent \in Nat /\ r.refused \in Nat
        BY <2>1 DEF Park
    <3>3. o \notin resting' \cup todo'
        BY <1>2, <2>2 DEF r
    <3>4. ParkOK(s, o \in acked')
        BY <1>0, <2>2, <3>1, <3>2 DEF ParkOK, Spent, Attempts
    <3>5. ASSUME NEW n \in Attempts
          PROVE  /\ InPlay(o, n)' <= 1
                 /\ n > s.sent => InPlay(o, n)' = 0
      <4>1. InPlay(o, n) \in Nat /\ InPlay(o, n) <= 1 /\ (n > r.sent => InPlay(o, n) = 0)
          BY <1>2, <2>2 DEF r
      <4>2. InPlay(o, n)' = InPlay(o, n) + (IF n = r.sent + 1 THEN 1 ELSE 0)
          BY <2>2
      <4>3. n \in Nat
          BY DEF Attempts
      <4> QED BY <3>1, <3>2, <4>1, <4>2, <4>3
    <3>6. \A n \in Attempts : n = s.sent => s.outstanding
        BY <3>1
    <3> QED BY <3>3, <3>4, <3>5, <3>6 DEF s
  <2>3. CASE /\ \A n \in Attempts : Count(t, {Cancel(o, n)}) = 0
             /\ s \in {r, [r EXCEPT !.escalated = TRUE]}
    <3> HIDE DEF r, s
    <3>1. s.sent = r.sent /\ s.outstanding = r.outstanding /\ s.refused = r.refused /\ s.owed = r.owed
        BY <2>1, <2>3, MarkFields
    <3>2. ASSUME NEW n \in Attempts PROVE InPlay(o, n)' = InPlay(o, n)
      <4>1. InPlay(o, n) \in Nat /\ Count(t, {Cancel(o, n)}) = 0
          BY <1>2, <2>3
      <4>2. InPlay(o, n)' = InPlay(o, n) + Count(t, {Cancel(o, n)})
          OBVIOUS
      <4> QED BY <4>1, <4>2
    <3>3. /\ ParkOK(r, o \in acked')
          /\ \A n \in Attempts :
                /\ InPlay(o, n) <= 1
                /\ r.owed /\ (n > r.sent \/ (n = r.sent /\ ~r.outstanding)) => InPlay(o, n) = 0
          /\ o \in resting' \cup todo' => ~r.owed /\ \A n \in Attempts : InPlay(o, n) = 0
        BY <1>2 DEF r
    <3>4. ParkOK(s, o \in acked')
        BY <3>1, <3>3 DEF ParkOK
    <3> QED BY <3>1, <3>2, <3>3, <3>4 DEF s
  <2>4. \/ /\ o \in acked' /\ r.owed /\ ~Spent(r)
           /\ \A n \in Attempts : Count(t, {Cancel(o, n)}) = IF n = r.sent + 1 THEN 1 ELSE 0
           /\ Marked(p, t)[o] = [r EXCEPT !.sent = r.sent + 1, !.outstanding = TRUE]
        \/ /\ \A n \in Attempts : Count(t, {Cancel(o, n)}) = 0
           /\ Marked(p, t)[o] \in {r, [r EXCEPT !.escalated = TRUE]}
      BY SentCounts, Zenon
  <2>5. s = Marked(p, t)[o]
      OBVIOUS
  <2> HIDE DEF r, s
  <2> QED BY <2>2, <2>3, <2>4, <2>5, Zenon
<1>4. resting' \cup todo' \subseteq Orders
    BY <1>0
<1> QED BY <1>3, <1>4 DEF AttemptInv, ParkInv

(* A step that leaves every attempt where it is, or moves it on, and leaves *)
(* the park alone.                                                          *)
LEMMA PlayKept ==
    ASSUME CancelInv, NewestInv,
           \A o \in Orders, n \in Attempts : InPlay(o, n)' = InPlay(o, n),
           park' = park, acked' = acked,
           resting' \cup todo' \subseteq resting \cup todo, resting' \cap todo' = {}
    PROVE  AttemptInv' /\ ParkInv'
<1>1. AttemptInv /\ ParkInv /\ resting \cup todo \subseteq Orders
    BY DEF NewestInv, CancelInv, CancelType
<1>2. ParkInv'
    BY <1>1 DEF ParkInv
<1>3. ASSUME NEW o \in Orders, NEW n \in Attempts
      PROVE  /\ InPlay(o, n)' <= 1
             /\ o \in resting' \cup todo' => InPlay(o, n)' = 0
             /\ park'[o].owed /\ (n > park'[o].sent \/ (n = park'[o].sent /\ ~park'[o].outstanding))
                   => InPlay(o, n)' = 0
  <2>1. InPlay(o, n)' = InPlay(o, n)
      OBVIOUS
  <2> QED BY <1>1, <2>1 DEF AttemptInv
<1> QED BY <1>2, <1>3 DEF AttemptInv

(* Commands behind those already there, and sweeps among them.              *)
LEMMA QueueCounts ==
    ASSUME NEW q \in Seq(Sent), NEW r \in Seq(Sent), NEW t \in Seq(Sent),
           r \in {q \o t, Append(q, SweepCmd) \o t, Append(q \o t, SweepCmd),
                  Append(Append(q, SweepCmd) \o t, SweepCmd)},
           NEW G, SweepCmd \notin G
    PROVE  Count(r, G) = Count(q, G) + Count(t, G)
<1>0. SweepCmd \in Sent
    BY CommandsSent
<1>1. Count(q, G) \in Nat /\ Count(t, G) \in Nat
    BY CountType
<1>2. ASSUME NEW a \in Seq(Sent)
      PROVE  Append(a, SweepCmd) \in Seq(Sent) /\ Count(Append(a, SweepCmd), G) = Count(a, G)
  <2>1. Count(Append(a, SweepCmd), G) = Count(a, G) + (IF SweepCmd \in G THEN 1 ELSE 0)
      BY <1>0, CountAppend
  <2>2. Count(a, G) \in Nat
      BY CountType
  <2> QED BY <1>0, <2>1, <2>2
<1>3. ASSUME NEW a \in Seq(Sent)
      PROVE  a \o t \in Seq(Sent) /\ Count(a \o t, G) = Count(a, G) + Count(t, G)
    BY CountBoth
<1> DEFINE u == Append(q, SweepCmd)
           v == q \o t
           w == Append(q, SweepCmd) \o t
<1>4. u \in Seq(Sent) /\ Count(u, G) = Count(q, G)
    BY <1>2
<1>5. v \in Seq(Sent) /\ Count(v, G) = Count(q, G) + Count(t, G)
    BY <1>3
<1>6. w \in Seq(Sent) /\ Count(w, G) = Count(q, G) + Count(t, G)
  <2>1. w = u \o t
      OBVIOUS
  <2> HIDE DEF u, w
  <2>2. Count(u \o t, G) = Count(u, G) + Count(t, G) /\ u \o t \in Seq(Sent)
      BY <1>3, <1>4
  <2> QED BY <1>4, <2>1, <2>2
<1>7. r \in {v, w, Append(v, SweepCmd), Append(w, SweepCmd)}
    OBVIOUS
<1> HIDE DEF u, v, w
<1>8. Count(Append(v, SweepCmd), G) = Count(v, G) /\ Count(Append(w, SweepCmd), G) = Count(w, G)
    BY <1>2, <1>5, <1>6
<1> QED BY <1>5, <1>6, <1>7, <1>8

(* A dispatch keeps the invariant.                                          *)
LEMMA Dispatched ==
    ASSUME CancelInv, NewestInv, AckInv',
           NEW p \in [Orders -> Park], NEW t \in Seq(Sent), Fits(t, p, acked'),
           \A G : SweepCmd \notin G => Count(queue', G) = Count(queue, G) + Count(t, G),
           \A o \in Orders, n \in Attempts :
              Count(answers', Results(o, n)) = Count(answers, Results(o, n)),
           park' = Marked(p, t), acked \subseteq acked',
           \A o \in Orders : p[o] = park[o] \/ (o \in resting /\ o \notin resting' /\ p[o] = Fresh),
           resting' \cup todo' \subseteq resting \cup todo, todo' \subseteq todo,
           resting' \cap todo' = {}
    PROVE  NewestInv'
<1>0. CancelType /\ RangeInv /\ MaxSends \in Nat
    BY CancelAssumption DEF CancelInv, NewestInv
<1>1. ASSUME NEW o \in Orders, NEW n \in Attempts
      PROVE  InPlay(o, n)' = InPlay(o, n) + Count(t, {Cancel(o, n)})
  <2>1. SweepCmd \notin {Cancel(o, n)}
      BY WhatCounts
  <2>2. Count(queue', {Cancel(o, n)}) = Count(queue, {Cancel(o, n)}) + Count(t, {Cancel(o, n)})
      BY <2>1, Zenon
  <2>3. /\ Count(queue, {Cancel(o, n)}) \in Nat /\ Count(answers, Results(o, n)) \in Nat
        /\ Count(t, {Cancel(o, n)}) \in Nat
      BY <1>0, InPlayType, CountType
  <2>4. Count(answers', Results(o, n)) = Count(answers, Results(o, n))
      OBVIOUS
  <2>5. InPlay(o, n)' = Count(queue', {Cancel(o, n)}) + Count(answers', Results(o, n))
      BY DEF InPlay, Results, Result, Cancel
  <2> QED BY <2>2, <2>3, <2>4, <2>5 DEF InPlay
<1>2. AttemptInv' /\ ParkInv'
    BY <1>1, SendKeeps
<1>3. RangeInv'
  <2>1. SweepCmd \notin BeyondBudget
      BY DEF BeyondBudget, SweepCmd
  <2>2. ASSUME NEW i \in DOMAIN t, t[i] \in BeyondBudget PROVE FALSE
    <3> DEFINE o == t[i].oid
    <3>1. t[i].cmd = "cancel" /\ t[i].attempt \notin 1..MaxSends /\ t[i] \in Sent
        BY <2>2 DEF BeyondBudget
    <3>2. o \in Orders
        BY <3>1, CommandsSent
    <3>3. t[i] = Cancel(o, p[o].sent + 1) /\ ~Spent(p[o])
        BY <3>1 DEF Fits
    <3>4. p[o].sent \in Nat
        BY <3>2 DEF Park
    <3> HIDE DEF o
    <3>5. t[i].attempt = p[o].sent + 1 /\ p[o].sent < MaxSends
        BY <1>0, <3>3, <3>4 DEF Cancel, Spent
    <3> QED BY <1>0, <3>1, <3>4, <3>5
  <2>3. Count(t, BeyondBudget) = 0
      BY <2>2, CountNone
  <2>4. Count(queue', BeyondBudget) = Count(queue, BeyondBudget) + Count(t, BeyondBudget)
      BY <2>1
  <2> QED BY <1>0, <2>3, <2>4 DEF RangeInv, BeyondBudget
<1> QED BY <1>2, <1>3 DEF NewestInv

-----------------------------------------------------------------------------
(* The steps that send cancels.                                             *)

(* Cancels of orders each owed one with budget left fit.                    *)
LEMMA CancelsFit ==
    ASSUME CancelInv, NEW os \in SUBSET Orders, NEW p \in [Orders -> Park],
           NEW cs \in CancelsOf(os, p),
           \A o \in os \cap acked : p[o].owed /\ ~Spent(p[o])
    PROVE  cs \in Seq(Sent) /\ Fits(cs, p, acked)
<1>0. cs \in Seq(Sent)
    BY CancelsTyped
<1>1. PICK s \in SetToSeqs(os \cap acked) : cs = [i \in DOMAIN s |-> Cancel(s[i], p[s[i]].sent + 1)]
    BY DEF CancelsOf
<1> DEFINE n == Cardinality(os \cap acked)
<1>2. /\ s \in [1..n -> os \cap acked]
      /\ \A i, j \in 1..n : i # j => s[i] # s[j]
    BY DEF SetToSeqs, IsInjective
<1> HIDE DEF n
<1>3. DOMAIN cs = 1..n /\ \A i \in 1..n : cs[i] = Cancel(s[i], p[s[i]].sent + 1) /\ s[i] \in os \cap acked
    BY <1>1, <1>2
<1>4. \A i \in 1..n : cs[i].oid = s[i]
    BY <1>3 DEF Cancel
<1>5. ASSUME NEW i \in DOMAIN cs
      PROVE  /\ cs[i].oid \in acked /\ cs[i] = Cancel(cs[i].oid, p[cs[i].oid].sent + 1)
             /\ p[cs[i].oid].owed /\ ~Spent(p[cs[i].oid])
  <2>1. cs[i].oid = s[i] /\ s[i] \in os \cap acked /\ cs[i] = Cancel(s[i], p[s[i]].sent + 1)
      BY <1>3, <1>4
  <2> QED BY <2>1
<1>6. \A i, j \in DOMAIN cs : cs[i].oid = cs[j].oid => i = j
    BY <1>2, <1>3, <1>4
<1> QED BY <1>0, <1>5, <1>6 DEF Fits

(* One more command, that cancels nothing, behind those that fit.           *)
LEMMA FitsWithLast ==
    ASSUME NEW a \in Seq(Sent), NEW e \in Sent, e.cmd # "cancel", NEW p, NEW ids, Fits(a, p, ids)
    PROVE  a \o <<e>> \in Seq(Sent) /\ Fits(a \o <<e>>, p, ids)
<1> DEFINE b == a \o <<e>>
<1>1. /\ b \in Seq(Sent)
      /\ \A i \in DOMAIN b : (i \in DOMAIN a /\ b[i] = a[i]) \/ b[i] = e
    OBVIOUS
<1> HIDE DEF b
<1>2. \A i \in DOMAIN b : b[i].cmd = "cancel" => i \in DOMAIN a /\ b[i] = a[i]
    BY <1>1
<1>3. Fits(b, p, ids)
    BY <1>2 DEF Fits
<1> QED BY <1>1, <1>3 DEF b

(* What is parked when it leaves the record is parked anew.                 *)
LEMMA OwedAnew ==
    ASSUME CancelInv, NewestInv, NEW os \in SUBSET resting
    PROVE  /\ OwedFor(os) \in [Orders -> Park]
           /\ \A o \in os : OwedFor(os)[o] = Fresh
           /\ \A o \in Orders \ os : OwedFor(os)[o] = park[o]
           /\ Fresh.owed /\ ~Spent(Fresh)
<1>1. CancelType /\ resting \subseteq Orders /\ \A o \in resting : ~park[o].owed
    BY DEF CancelInv, CancelType, NewestInv, ParkInv
<1>2. OwedFor(os) \in [Orders -> Park]
    BY <1>1, OwedForTyped DEF CancelType
<1>3. Fresh.owed /\ ~Spent(Fresh)
    BY CancelAssumption DEF Fresh, NotParked, Spent
<1>4. /\ \A o \in os : OwedFor(os)[o] = Fresh
      /\ \A o \in Orders \ os : OwedFor(os)[o] = park[o]
    BY <1>1 DEF OwedFor, Fresh
<1> QED BY <1>2, <1>3, <1>4

(* Commands drained into the channel.                                       *)
LEMMA DrainedKeeps ==
    ASSUME CancelInv, NewestInv, NEW p \in [Orders -> Park], NEW cs \in Seq(Sent), Fits(cs, p, acked),
           Drains(p, cs), acked' = acked,
           \A o \in Orders : p[o] = park[o] \/ (o \in resting /\ o \notin resting' /\ p[o] = Fresh),
           resting' \cup todo' \subseteq resting \cup todo, todo' \subseteq todo,
           resting' \cap todo' = {}
    PROVE  NewestInv'
<1> DEFINE t == Taken(queue, cs)
<1>1. queue \in Seq(Sent) /\ Len(queue) <= Depth
    BY DEF CancelInv, CancelType
<1>2. t \in Seq(Sent) /\ Fits(t, p, acked)
    BY <1>1, TakenThatFit
<1>3. queue' = queue \o t /\ park' = Marked(p, t) /\ answers' = answers
    BY DEF Drains, execVars
<1> HIDE DEF t
<1>4. queue' \in Seq(Sent)
    BY <1>1, <1>2, <1>3
<1>5. \A G : SweepCmd \notin G => Count(queue', G) = Count(queue, G) + Count(t, G)
    BY <1>1, <1>2, <1>3, <1>4, QueueCounts
<1>6. AckInv'
    BY <1>3 DEF NewestInv, AckInv
<1> QED BY <1>2, <1>3, <1>5, <1>6, Dispatched

(* A quote places, and cancels nothing.                                     *)
LEMMA QuotesNewest ==
    ASSUME CancelInv, NewestInv, NEW o \in Orders, Quotes(o) PROVE NewestInv'
<1>1. /\ o \in todo /\ Drains(park, <<Place(o)>>)
      /\ todo' = todo \ {o} /\ resting' = resting \cup {o} /\ acked' = acked
    BY DEF Quotes
<1>2. park \in [Orders -> Park] /\ resting \cap todo = {}
    BY DEF CancelInv, CancelType, NewestInv, ParkInv
<1>3. Place(o) \in Sent /\ Place(o).cmd = "place"
    BY CommandsSent
<1>4. <<Place(o)>> \in Seq(Sent) /\ Fits(<<Place(o)>>, park, acked)
    BY <1>3 DEF Fits
<1> QED BY <1>1, <1>2, <1>4, DrainedKeeps

(* An amend cancels the order that it takes off the record.                 *)
LEMMA AmendsNewest ==
    ASSUME CancelInv, NewestInv, NEW o \in Orders, NEW r \in Orders, Amends(o, r) PROVE NewestInv'
<1> DEFINE p == OwedFor({r})
<1>1. /\ o \in todo /\ r \in resting
      /\ todo' = todo \ {o} /\ resting' = (resting \ {r}) \cup {o} /\ acked' = acked
    BY DEF Amends
<1>2. PICK cs \in CancelsOf({r}, p) : Drains(p, cs \o <<Place(o)>>)
    BY DEF Amends
<1>3. /\ p \in [Orders -> Park] /\ p[r] = Fresh /\ Fresh.owed /\ ~Spent(Fresh)
      /\ \A q \in Orders \ {r} : p[q] = park[q]
    BY <1>1, OwedAnew
<1> HIDE DEF p
<1>4. resting \cap todo = {}
    BY DEF NewestInv, ParkInv
<1>5. cs \in Seq(Sent) /\ Fits(cs, p, acked)
    BY <1>2, <1>3, CancelsFit
<1>6. Place(o) \in Sent /\ Place(o).cmd = "place"
    BY CommandsSent
<1>7. cs \o <<Place(o)>> \in Seq(Sent) /\ Fits(cs \o <<Place(o)>>, p, acked)
    BY <1>5, <1>6, FitsWithLast
<1>8. \A q \in Orders : p[q] = park[q] \/ (q \in resting /\ q \notin resting' /\ p[q] = Fresh)
    BY <1>1, <1>3, <1>4
<1> QED BY <1>1, <1>2, <1>3, <1>4, <1>7, <1>8, DrainedKeeps

(* So does a pull.                                                          *)
LEMMA PullsNewest == ASSUME CancelInv, NewestInv, NEW r \in Orders, Pulls(r) PROVE NewestInv'
<1> DEFINE p == OwedFor({r})
<1>1. r \in resting /\ resting' = resting \ {r} /\ UNCHANGED <<todo, acked>>
    BY DEF Pulls
<1>2. PICK cs \in CancelsOf({r}, p) : Drains(p, cs)
    BY DEF Pulls
<1>3. /\ p \in [Orders -> Park] /\ p[r] = Fresh /\ Fresh.owed /\ ~Spent(Fresh)
      /\ \A q \in Orders \ {r} : p[q] = park[q]
    BY <1>1, OwedAnew
<1> HIDE DEF p
<1>4. resting \cap todo = {}
    BY DEF NewestInv, ParkInv
<1>5. cs \in Seq(Sent) /\ Fits(cs, p, acked)
    BY <1>2, <1>3, CancelsFit
<1>6. \A q \in Orders : p[q] = park[q] \/ (q \in resting /\ q \notin resting' /\ p[q] = Fresh)
    BY <1>1, <1>3
<1> QED BY <1>1, <1>2, <1>3, <1>4, <1>5, <1>6, DrainedKeeps

(* A halt cancels what it stops believing in, between two sweeps at most.   *)
LEMMA HaltNewest ==
    ASSUME CancelInv, NewestInv, NEW cs \in HaltCancels, Abandons(cs), answers' = answers,
           queue' \in Seq(Sent),
           LET all == Halting(cs).queue IN queue' \in {all, Append(all, SweepCmd)}
    PROVE  NewestInv'
<1> DEFINE p     == OwedFor(resting)
           first == Offered(Owing, queue).queue
           t     == Taken(first, cs)
<1>1. /\ queue \in Seq(Sent) /\ Len(queue) <= Depth /\ resting \in SUBSET Orders
      /\ SweepCmd \in Sent /\ Owing \in OwedSweep
    BY CommandsSent, KillSweepAssumption DEF CancelInv, CancelType, Owing, OwedSweep
<1>2. /\ p \in [Orders -> Park] /\ \A o \in resting : p[o] = Fresh
      /\ Fresh.owed /\ ~Spent(Fresh) /\ \A o \in Orders \ resting : p[o] = park[o]
    BY OwedAnew
<1>3. cs \in CancelsOf(resting, p)
    BY DEF HaltCancels
<1>4. park' = Marked(p, t) /\ resting' = {} /\ UNCHANGED <<todo, acked>>
    BY DEF Abandons
<1>5. first \in Seq(Sent) /\ Len(first) <= Depth /\ first \in {queue, Append(queue, SweepCmd)}
    BY <1>1, OfferTyped
<1>6. queue' \in {first \o t, Append(first \o t, SweepCmd)}
    BY DEF Halting
<1> HIDE DEF p
<1>7. cs \in Seq(Sent) /\ Fits(cs, p, acked)
    BY <1>1, <1>2, <1>3, CancelsFit
<1> HIDE DEF first
<1>8. t \in Seq(Sent) /\ Fits(t, p, acked)
    BY <1>5, <1>7, TakenThatFit
<1> HIDE DEF t
<1>9. queue' \in {queue \o t, Append(queue, SweepCmd) \o t, Append(queue \o t, SweepCmd),
                  Append(Append(queue, SweepCmd) \o t, SweepCmd)}
    BY <1>5, <1>6
<1>10. \A G : SweepCmd \notin G => Count(queue', G) = Count(queue, G) + Count(t, G)
    BY <1>1, <1>8, <1>9, QueueCounts
<1>11. AckInv'
    BY <1>4 DEF NewestInv, AckInv
<1>12. \A o \in Orders : p[o] = park[o] \/ (o \in resting /\ o \notin resting' /\ p[o] = Fresh)
    BY <1>2, <1>4
<1> QED BY <1>2, <1>4, <1>8, <1>10, <1>11, <1>12, Dispatched

(* The kill switch's halt.                                                  *)
LEMMA KillCancelsNewest == ASSUME CancelInv, NewestInv, KillCancels PROVE NewestInv'
<1> PICK cs \in HaltCancels : KillEngages(cs) /\ Abandons(cs)
    BY DEF KillCancels
<1> DEFINE h == Halting(cs)
<1>1. queue' = Offered(h.owed, h.queue).queue /\ answers' = answers
    BY DEF KillEngages, execVars
<1>2. h.owed \in OwedSweep /\ h.queue \in Seq(Sent) /\ Len(h.queue) <= Depth
    BY HaltGrows
<1>3. SweepCmd \in Sent
    BY CommandsSent
<1>4. queue' \in Seq(Sent) /\ queue' \in {h.queue, Append(h.queue, SweepCmd)}
  <2> HIDE DEF h
  <2> QED BY <1>1, <1>2, <1>3, OfferTyped
<1> QED BY <1>1, <1>4, HaltNewest

(* The feed pull's.                                                         *)
LEMMA PullCancelsNewest == ASSUME CancelInv, NewestInv, PullCancels PROVE NewestInv'
<1> PICK cs \in HaltCancels : FeedPulls(cs) /\ Abandons(cs)
    BY DEF PullCancels
<1>1. queue' = Halting(cs).queue /\ answers' = answers
    BY DEF FeedPulls, execVars
<1>2. queue' \in Seq(Sent)
    BY <1>1, HaltGrows
<1> QED BY <1>1, <1>2, HaltNewest

-----------------------------------------------------------------------------
(* The engine's steps on its answers and its ticks.                         *)

(* An ack of an order that has none yet: no cancel of it was ever sent.     *)
LEMMA HearsAckNewest == ASSUME CancelInv, NewestInv, HearsAck PROVE NewestInv'
<1> DEFINE o  == Head(answers).oid
           cs == IF park[o].owed THEN <<Cancel(o, park[o].sent + 1)>> ELSE <<>>
           t  == Taken(queue, cs)
<1>1. /\ answers # <<>> /\ Head(answers).kind = "order_ack" /\ answers' = Tail(answers)
      /\ acked' = acked \cup {o} /\ queue' = queue \o t /\ park' = Marked(park, t)
      /\ UNCHANGED <<todo, resting>>
    BY DEF HearsAck
<1>2. /\ queue \in Seq(Sent) /\ Len(queue) <= Depth /\ park \in [Orders -> Park]
      /\ answers \in Seq(Told) /\ Tail(answers) \in Seq(Told) /\ resting \cup todo \subseteq Orders
    BY <1>1 DEF CancelInv, CancelType
<1>3. o \in Orders /\ Head(answers) = Ack(o)
    BY <1>1, HeadIsFirst DEF Told, Ack, Messages
<1> HIDE DEF o
<1>4. ASSUME NEW q \in Orders
      PROVE  /\ Count(answers, {Ack(q)}) = Count(answers', {Ack(q)}) + (IF q = o THEN 1 ELSE 0)
             /\ Count(answers', {Ack(q)}) \in Nat
  <2>1. Count(answers, {Ack(q)}) = Count(Tail(answers), {Ack(q)}) + (IF Head(answers) \in {Ack(q)} THEN 1 ELSE 0)
      BY <1>1, <1>2, CountTail
  <2>2. Head(answers) \in {Ack(q)} <=> q = o
      BY <1>3 DEF Ack
  <2>3. Count(Tail(answers), {Ack(q)}) \in Nat
      BY <1>2, CountType
  <2> QED BY <1>1, <2>1, <2>2, <2>3
<1>5. AckInv
    BY DEF NewestInv
<1>6. o \notin acked
  <2>1. Count(answers, {Ack(o)}) = Count(answers', {Ack(o)}) + 1 /\ Count(answers', {Ack(o)}) \in Nat
      BY <1>3, <1>4
  <2>2. Count(answers, {Ack(o)}) + (IF o \in acked THEN 1 ELSE 0) <= 1
      BY <1>3, <1>5 DEF AckInv
  <2> QED BY <2>1, <2>2
<1>7. AckInv'
  <2> SUFFICES ASSUME NEW q \in Orders
               PROVE  Count(answers', {Ack(q)}) + (IF q \in acked' THEN 1 ELSE 0) <= 1
      BY DEF AckInv, Ack
  <2>1. Count(answers, {Ack(q)}) + (IF q \in acked THEN 1 ELSE 0) <= 1
      BY <1>5 DEF AckInv
  <2>2. q \in acked' <=> q \in acked \/ q = o
      BY <1>1
  <2>3. CASE q = o
      BY <1>4, <1>6, <2>1, <2>3
  <2>4. CASE q # o
      BY <1>4, <2>1, <2>2, <2>4
  <2> QED BY <2>3, <2>4
<1>8. /\ park[o].sent = 0 /\ ~Spent(park[o]) /\ Cancel(o, park[o].sent + 1) \in Sent
  <2>1. park[o].sent = 0 /\ park[o].refused = 0
      BY <1>2, <1>3, <1>6 DEF NewestInv, ParkInv, ParkOK, Park
  <2>2. ~Spent(park[o])
      BY <2>1, CancelAssumption DEF Spent
  <2> QED BY <1>3, <2>1, <2>2, CommandsSent
<1>9. cs \in Seq(Sent) /\ Fits(cs, park, acked')
  <2>1. CASE park[o].owed
    <3> DEFINE c == Cancel(o, park[o].sent + 1)
    <3>1. c.oid = o /\ c \in Sent
        BY <1>8 DEF Cancel
    <3>2. cs = <<c>> /\ o \in acked'
        BY <1>1, <2>1
    <3>3. c = Cancel(o, park[o].sent + 1)
        OBVIOUS
    <3> HIDE DEF c, cs
    <3> QED BY <1>8, <2>1, <3>1, <3>2, <3>3 DEF Fits
  <2>2. CASE ~park[o].owed
      BY <2>2 DEF Fits
  <2> QED BY <2>1, <2>2
<1> HIDE DEF cs
<1>10. t \in Seq(Sent) /\ Fits(t, park, acked')
    BY <1>2, <1>9, TakenThatFit
<1> HIDE DEF t
<1>11. queue' \in Seq(Sent)
    BY <1>1, <1>2, <1>10
<1>12. \A G : SweepCmd \notin G => Count(queue', G) = Count(queue, G) + Count(t, G)
    BY <1>1, <1>2, <1>10, <1>11, QueueCounts
<1>13. ASSUME NEW q \in Orders, NEW n \in Attempts
       PROVE  Count(answers', Results(q, n)) = Count(answers, Results(q, n))
  <2>1. Count(answers, Results(q, n))
            = Count(Tail(answers), Results(q, n)) + (IF Head(answers) \in Results(q, n) THEN 1 ELSE 0)
      BY <1>1, <1>2, CountTail
  <2>2. Head(answers) \notin Results(q, n)
      BY <1>3 DEF Ack, Results, Result
  <2>3. Count(Tail(answers), Results(q, n)) \in Nat
      BY <1>2, CountType
  <2> QED BY <1>1, <2>1, <2>2, <2>3
<1>14. resting \cap todo = {}
    BY DEF NewestInv, ParkInv
<1> QED BY <1>1, <1>2, <1>7, <1>10, <1>12, <1>13, <1>14, Dispatched

(* A tick sends what is owed and has budget left.                           *)
LEMMA CancelTickNewest == ASSUME CancelInv, NewestInv, CancelTick PROVE NewestInv'
<1>0. acked \in SUBSET Orders /\ park \in [Orders -> Park] /\ resting \cap todo = {}
    BY DEF CancelInv, CancelType, NewestInv, ParkInv
<1>1. UNCHANGED <<todo, resting, acked>>
    BY DEF CancelTick
<1> PICK late \in SUBSET acked : \E cs \in Works(late) : Drains(park, cs)
    BY DEF CancelTick
<1>2. PICK cs \in Works(late) : Drains(park, cs)
    OBVIOUS
<1>3. Sendable(late) \in SUBSET Orders /\ \A o \in Sendable(late) \cap acked : park[o].owed /\ ~Spent(park[o])
    BY <1>0 DEF Sendable
<1>4. \A a \in CancelsOf(Sendable(late), park) : a \in Seq(Sent) /\ Fits(a, park, acked)
    BY <1>0, <1>3, CancelsFit
<1>5. cs \in Seq(Sent) /\ Fits(cs, park, acked)
  <2>1. CASE cs \in CancelsOf(Sendable(late), park)
      BY <1>4, <2>1
  <2>2. CASE \E a \in CancelsOf(Sendable(late), park), o \in Escalatable : cs = a \o <<Escalate(o)>>
    <3> PICK a \in CancelsOf(Sendable(late), park), o \in Escalatable : cs = a \o <<Escalate(o)>>
        BY <2>2
    <3>1. Escalate(o) \in Sent /\ Escalate(o).cmd # "cancel"
        BY CommandsSent DEF Escalatable
    <3> QED BY <1>4, <3>1, FitsWithLast
  <2> QED BY <2>1, <2>2 DEF Works
<1> QED BY <1>0, <1>1, <1>2, <1>5, DrainedKeeps

(* An answer heard, for each attempt.                                       *)
LEMMA PlayHeard ==
    ASSUME CancelInv, answers # <<>>, answers' = Tail(answers), queue' = queue,
           NEW o \in Orders, NEW n \in Attempts
    PROVE  /\ InPlay(o, n)' \in Nat
           /\ InPlay(o, n) = InPlay(o, n)' + (IF Head(answers) \in Results(o, n) THEN 1 ELSE 0)
<1>1. answers \in Seq(Told) /\ Tail(answers) \in Seq(Told) /\ CancelType
    BY DEF CancelInv, CancelType
<1>2. Count(answers, Results(o, n))
          = Count(Tail(answers), Results(o, n)) + (IF Head(answers) \in Results(o, n) THEN 1 ELSE 0)
    BY <1>1, CountTail
<1>3. Count(Tail(answers), Results(o, n)) \in Nat /\ Count(queue, {Cancel(o, n)}) \in Nat
    BY <1>1, CountType, InPlayType
<1>4. InPlay(o, n)' = Count(queue', {Cancel(o, n)}) + Count(answers', Results(o, n))
    BY DEF InPlay, Results, Result, Cancel
<1>5. InPlay(o, n)' = Count(queue, {Cancel(o, n)}) + Count(Tail(answers), Results(o, n))
    BY <1>4
<1> QED BY <1>2, <1>3, <1>5 DEF InPlay

(* The answer to the newest attempt re-arms the cancel, and no attempt of   *)
(* that number is left in play.                                             *)
LEMMA HearsCancelNewest == ASSUME CancelInv, NewestInv, HearsCancel PROVE NewestInv'
<1> DEFINE m == Head(answers)
           o == m.oid
           k == m.attempt
<1>1. /\ answers # <<>> /\ m.kind = "cancel_result" /\ answers' = Tail(answers) /\ queue' = queue
      /\ park' = [park EXCEPT ![o] = IF park[o].owed THEN Answered(o, k, m.ok) ELSE park[o]]
      /\ UNCHANGED <<todo, resting, acked>>
    BY DEF HearsCancel
<1>2. o \in Orders /\ k \in Nat /\ m.ok \in BOOLEAN /\ m = Result(o, k, m.ok)
    BY <1>1, HeadIsFirst DEF Told, Messages, Result
<1>3. park \in [Orders -> Park] /\ resting \cup todo \subseteq Orders /\ MaxSends \in Nat /\ MaxRefusals \in Nat
    BY CancelAssumption DEF CancelInv, CancelType
<1>4. \A q \in Orders, n \in Attempts : m \in Results(q, n) <=> q = o /\ n = k
    BY <1>2, WhatCounts
<1>5. ASSUME NEW q \in Orders, NEW n \in Attempts
      PROVE  /\ InPlay(q, n)' \in Nat
             /\ InPlay(q, n) = InPlay(q, n)' + (IF q = o /\ n = k THEN 1 ELSE 0)
    BY <1>1, <1>4, PlayHeard
<1>6. AttemptInv /\ ParkInv /\ AckInv /\ RangeInv
    BY DEF NewestInv
<1>7. AckInv'
  <2> SUFFICES ASSUME NEW q \in Orders
               PROVE  Count(answers', {Ack(q)}) + (IF q \in acked' THEN 1 ELSE 0) <= 1
      BY DEF AckInv, Ack
  <2>1. answers \in Seq(Told) /\ Tail(answers) \in Seq(Told)
      BY <1>1 DEF CancelInv, CancelType
  <2>2. Count(answers, {Ack(q)}) = Count(Tail(answers), {Ack(q)}) + (IF m \in {Ack(q)} THEN 1 ELSE 0)
      BY <1>1, <2>1, CountTail
  <2>3. m \notin {Ack(q)}
      BY <1>1 DEF Ack
  <2>4. Count(Tail(answers), {Ack(q)}) \in Nat
      BY <2>1, CountType
  <2> QED BY <1>1, <1>6, <2>2, <2>3, <2>4 DEF AckInv
<1>8. RangeInv'
    BY <1>1, <1>6 DEF RangeInv, BeyondBudget
<1> DEFINE r == park[o]
           s == park'[o]
<1>9. /\ r \in Park /\ ParkOK(r, o \in acked)
      /\ s = IF r.owed THEN Answered(o, k, m.ok) ELSE r
      /\ \A q \in Orders \ {o} : park'[q] = park[q]
    BY <1>1, <1>2, <1>3, <1>6 DEF ParkInv
<1>10. \/ s = r /\ ~(r.owed /\ r.outstanding /\ k > 0 /\ k = r.sent)
       \/ r.owed /\ s = NotParked
       \/ /\ r.owed /\ r.outstanding /\ k > 0 /\ k = r.sent
          /\ s = [r EXCEPT !.outstanding = FALSE, !.refused = r.refused + 1]
    BY <1>9 DEF Answered
<1> HIDE DEF r, s, m, o, k
<1>11. /\ s.owed => r.owed /\ s.sent = r.sent
       /\ ~s.outstanding /\ s.owed /\ s.sent > 0 => ~r.outstanding \/ k = r.sent
       /\ ParkOK(s, o \in acked)
  <2>1. CASE s = r
      BY <1>9, <2>1
  <2>2. CASE r.owed /\ s = NotParked
      BY <1>3, <1>9, <2>2 DEF NotParked, ParkOK
  <2>3. CASE /\ r.owed /\ r.outstanding /\ k > 0 /\ k = r.sent
             /\ s = [r EXCEPT !.outstanding = FALSE, !.refused = r.refused + 1]
    <3>1. s.sent = r.sent /\ s.owed = r.owed /\ s.refused = r.refused + 1 /\ ~s.outstanding
        BY <1>9, <2>3 DEF Park
    <3>2. r.sent \in Nat /\ r.refused \in Nat
        BY <1>9 DEF Park
    <3>3. /\ r.sent > 0 => o \in acked
          /\ r.sent <= MaxSends /\ r.refused < MaxRefusals
        BY <1>9, <2>3 DEF ParkOK
    <3>4. r.refused + 1 <= MaxRefusals /\ r.sent > 0
        BY <1>2, <1>3, <2>3, <3>2, <3>3
    <3>5. ParkOK(s, o \in acked)
        BY <2>3, <3>1, <3>2, <3>3, <3>4 DEF ParkOK
    <3> QED BY <2>3, <3>1, <3>5
  <2> QED BY <1>10, <2>1, <2>2, <2>3
<1>12. ParkInv'
  <2>1. \A q \in Orders : ParkOK(park'[q], q \in acked')
      BY <1>1, <1>6, <1>9, <1>11 DEF ParkInv, s
  <2>2. \A q \in resting' \cup todo' : ~park'[q].owed
      BY <1>1, <1>3, <1>6, <1>9, <1>11 DEF ParkInv, r, s
  <2> QED BY <1>1, <1>6, <2>1, <2>2 DEF ParkInv
<1>13. ASSUME NEW q \in Orders, NEW n \in Attempts
       PROVE  /\ InPlay(q, n)' <= 1
              /\ q \in resting' \cup todo' => InPlay(q, n)' = 0
              /\ park'[q].owed /\ (n > park'[q].sent \/ (n = park'[q].sent /\ ~park'[q].outstanding))
                    => InPlay(q, n)' = 0
  <2>1. /\ InPlay(q, n)' \in Nat
        /\ InPlay(q, n) = InPlay(q, n)' + (IF q = o /\ n = k THEN 1 ELSE 0)
      BY <1>5
  <2>2. /\ InPlay(q, n) <= 1
        /\ q \in resting \cup todo => InPlay(q, n) = 0
        /\ park[q].owed /\ (n > park[q].sent \/ (n = park[q].sent /\ ~park[q].outstanding))
              => InPlay(q, n) = 0
      BY <1>6 DEF AttemptInv
  <2>3. InPlay(q, n)' <= InPlay(q, n)
      BY <2>1
  <2>4. InPlay(q, n)' <= 1 /\ (q \in resting' \cup todo' => InPlay(q, n)' = 0)
      BY <1>1, <2>1, <2>2, <2>3
  <2>5. ASSUME park'[q].owed, n > park'[q].sent \/ (n = park'[q].sent /\ ~park'[q].outstanding)
        PROVE  InPlay(q, n)' = 0
    <3>1. CASE q # o
        BY <1>9, <2>1, <2>2, <2>5, <3>1
    <3>2. CASE q = o
      <4>1. /\ s.owed /\ (n > s.sent \/ (n = s.sent /\ ~s.outstanding))
            /\ r.owed /\ s.sent = r.sent
          BY <1>11, <2>5, <3>2 DEF s
      <4>2. n \in Nat /\ n > 0 /\ r.sent \in Nat
          BY <1>9 DEF Attempts, Park
      <4>3. r = park[q]
          BY <3>2 DEF r
      <4>4. CASE n > r.sent
          BY <2>1, <2>2, <2>3, <4>1, <4>3, <4>4
      <4>5. CASE n = r.sent /\ ~r.outstanding
          BY <2>1, <2>2, <2>3, <4>1, <4>3, <4>5
      <4>6. CASE n = r.sent /\ n = k
          BY <2>1, <2>2, <3>2, <4>6
      <4> QED BY <1>11, <4>1, <4>2, <4>4, <4>5, <4>6
    <3> QED BY <3>1, <3>2
  <2> QED BY <2>4, <2>5
<1>14. AttemptInv'
    BY <1>13 DEF AttemptInv
<1> QED BY <1>7, <1>8, <1>12, <1>14 DEF NewestInv

-----------------------------------------------------------------------------
(* The other steps.                                                         *)

(* A step that says nothing of any cancel: a sweep may be queued, or heard. *)
LEMMA QuietNewest ==
    ASSUME CancelInv, NewestInv, queue' \in {queue, Append(queue, SweepCmd)},
           \/ answers' = answers
           \/ /\ answers # <<>> /\ answers' = Tail(answers)
              /\ Head(answers).kind = "sweep_result",
           park' = park, acked' = acked, todo' = todo, resting' \subseteq resting
    PROVE  NewestInv'
<1>1. /\ queue \in Seq(Sent) /\ answers \in Seq(Told) /\ SweepCmd \in Sent
      /\ AttemptInv /\ ParkInv /\ AckInv /\ RangeInv
    BY CommandsSent DEF CancelInv, CancelType, NewestInv
<1>2. ASSUME NEW G, SweepCmd \notin G PROVE Count(queue', G) = Count(queue, G)
  <2>1. Count(Append(queue, SweepCmd), G) = Count(queue, G) + (IF SweepCmd \in G THEN 1 ELSE 0)
      BY <1>1, CountAppend
  <2>2. Count(queue, G) \in Nat
      BY <1>1, CountType
  <2>3. Count(Append(queue, SweepCmd), G) = Count(queue, G)
      BY <1>2, <2>1, <2>2
  <2> QED BY <2>3
<1>3. ASSUME NEW G, \A e \in G : e.kind # "sweep_result" PROVE Count(answers', G) = Count(answers, G)
  <2>1. CASE answers' = answers
      BY <2>1
  <2>2. CASE /\ answers # <<>> /\ answers' = Tail(answers)
             /\ Head(answers).kind = "sweep_result"
    <3>1. Tail(answers) \in Seq(Told) /\ Head(answers) \notin G
        BY <1>1, <1>3, <2>2
    <3>2. Count(answers, G) = Count(Tail(answers), G) + (IF Head(answers) \in G THEN 1 ELSE 0)
        BY <1>1, <2>2, CountTail
    <3>3. Count(Tail(answers), G) \in Nat
        BY <3>1, CountType
    <3>4. Count(answers, G) = Count(Tail(answers), G)
        BY <3>1, <3>2, <3>3
    <3> QED BY <2>2, <3>4
  <2> QED BY <2>1, <2>2
<1>4. ASSUME NEW o \in Orders, NEW n \in Attempts PROVE InPlay(o, n)' = InPlay(o, n)
  <2>1. SweepCmd \notin {Cancel(o, n)}
      BY WhatCounts
  <2>2. \A e \in Results(o, n) : e.kind # "sweep_result"
      BY DEF Results, Result
  <2>3. Count(queue', {Cancel(o, n)}) = Count(queue, {Cancel(o, n)})
      BY <1>2, <2>1
  <2>4. Count(answers', Results(o, n)) = Count(answers, Results(o, n))
      BY <1>3, <2>2
  <2>5. InPlay(o, n)' = Count(queue', {Cancel(o, n)}) + Count(answers', Results(o, n))
      BY DEF InPlay, Results, Result, Cancel
  <2> QED BY <2>3, <2>4, <2>5 DEF InPlay
<1>5. AttemptInv' /\ ParkInv'
    BY <1>1, <1>4, PlayKept DEF ParkInv
<1>6. AckInv'
  <2> SUFFICES ASSUME NEW q \in Orders
               PROVE  Count(answers', {Ack(q)}) + (IF q \in acked' THEN 1 ELSE 0) <= 1
      BY DEF AckInv, Ack
  <2>1. \A e \in {Ack(q)} : e.kind # "sweep_result"
      BY DEF Ack
  <2>2. Count(answers', {Ack(q)}) = Count(answers, {Ack(q)})
      BY <1>3, <2>1
  <2> QED BY <1>1, <2>2 DEF AckInv
<1>7. RangeInv'
  <2>1. SweepCmd \notin BeyondBudget
      BY DEF BeyondBudget, SweepCmd
  <2>2. Count(queue', BeyondBudget) = Count(queue, BeyondBudget)
      BY <1>2, <2>1
  <2> QED BY <1>1, <2>2 DEF RangeInv, BeyondBudget
<1> QED BY <1>5, <1>6, <1>7 DEF NewestInv

(* The executor done with its command, and the answer to it sent if it was  *)
(* a cancel.                                                                *)
LEMMA ServedNewest ==
    ASSUME CancelInv, NewestInv, queue # <<>>, queue' = Tail(queue),
           UNCHANGED <<todo, resting, acked, park>>,
           \A o \in Orders, n \in Attempts :
              Count(answers', Results(o, n))
                  = Count(answers, Results(o, n)) + (IF Head(queue) = Cancel(o, n) THEN 1 ELSE 0),
           AckInv'
    PROVE  NewestInv'
<1>1. queue \in Seq(Sent) /\ Tail(queue) \in Seq(Sent) /\ CancelType /\ ParkInv /\ RangeInv
    BY DEF CancelInv, CancelType, NewestInv
<1>2. ASSUME NEW G
      PROVE  /\ Count(queue, G) = Count(queue', G) + (IF Head(queue) \in G THEN 1 ELSE 0)
             /\ Count(queue', G) \in Nat
  <2>1. Count(queue, G) = Count(Tail(queue), G) + (IF Head(queue) \in G THEN 1 ELSE 0)
      BY <1>1, CountTail
  <2>2. Count(Tail(queue), G) \in Nat
      BY <1>1, CountType
  <2> QED BY <2>1, <2>2
<1>3. ASSUME NEW o \in Orders, NEW n \in Attempts PROVE InPlay(o, n)' = InPlay(o, n)
  <2>1. /\ Count(queue, {Cancel(o, n)})
               = Count(queue', {Cancel(o, n)}) + (IF Head(queue) = Cancel(o, n) THEN 1 ELSE 0)
        /\ Count(queue', {Cancel(o, n)}) \in Nat
      BY <1>2
  <2>2. Count(answers', Results(o, n))
            = Count(answers, Results(o, n)) + (IF Head(queue) = Cancel(o, n) THEN 1 ELSE 0)
      OBVIOUS
  <2>3. Count(answers, Results(o, n)) \in Nat
      BY <1>1, InPlayType
  <2>4. InPlay(o, n)' = Count(queue', {Cancel(o, n)}) + Count(answers', Results(o, n))
      BY DEF InPlay, Results, Result, Cancel
  <2> QED BY <2>1, <2>2, <2>3, <2>4 DEF InPlay
<1>4. AttemptInv' /\ ParkInv'
    BY <1>1, <1>3, PlayKept DEF ParkInv
<1>5. RangeInv'
  <2>1. /\ Count(queue, BeyondBudget)
               = Count(queue', BeyondBudget) + (IF Head(queue) \in BeyondBudget THEN 1 ELSE 0)
        /\ Count(queue', BeyondBudget) \in Nat
      BY <1>2
  <2>2. Count(queue', BeyondBudget) = 0
      BY <1>1, <2>1 DEF RangeInv
  <2> QED BY <2>2 DEF RangeInv, BeyondBudget
<1> QED BY <1>4, <1>5 DEF NewestInv

(* What one more answer counts.                                             *)
LEMMA ToldCounts ==
    ASSUME CancelInv, NEW m \in Told, answers' = Append(answers, m), NEW G
    PROVE  /\ Count(answers', G) = Count(answers, G) + (IF m \in G THEN 1 ELSE 0)
           /\ Count(answers, G) \in Nat
<1>1. answers \in Seq(Told)
    BY DEF CancelInv, CancelType
<1>2. Count(Append(answers, m), G) = Count(answers, G) + (IF m \in G THEN 1 ELSE 0)
    BY <1>1, CountAppend
<1>3. Count(answers, G) \in Nat
    BY <1>1, CountType
<1> QED BY <1>2, <1>3

(* An answer that acknowledges nothing.                                     *)
LEMMA NoAckTold ==
    ASSUME CancelInv, NewestInv, NEW m \in Told, answers' = Append(answers, m),
           m.kind # "order_ack", acked' = acked
    PROVE  AckInv'
<1> SUFFICES ASSUME NEW q \in Orders
             PROVE  Count(answers', {Ack(q)}) + (IF q \in acked' THEN 1 ELSE 0) <= 1
    BY DEF AckInv, Ack
<1>1. m \notin {Ack(q)}
    BY DEF Ack
<1>2. Count(answers', {Ack(q)}) = Count(answers, {Ack(q)}) + (IF m \in {Ack(q)} THEN 1 ELSE 0)
      /\ Count(answers, {Ack(q)}) \in Nat
    BY ToldCounts
<1>3. Count(answers', {Ack(q)}) = Count(answers, {Ack(q)})
    BY <1>1, <1>2
<1> QED BY <1>3 DEF NewestInv, AckInv

(* A place is acknowledged once: it is queued once.                         *)
LEMMA PlaceServedNewest == ASSUME CancelInv, NewestInv, PlaceServed PROVE NewestInv'
<1> DEFINE o == Head(queue).oid
<1>1. /\ queue # <<>> /\ Head(queue).cmd = "place" /\ queue' = Tail(queue)
      /\ answers' \in {answers, Append(answers, Ack(o))}
      /\ UNCHANGED <<todo, resting, acked, park>>
    BY DEF PlaceServed, Serves, Tells
<1>2. Head(queue) \in Sent /\ \A q \in Orders : Head(queue) = Place(q) => at[q] = "none"
    BY <1>1, ServedFromHead
<1>3. o \in Orders /\ at[o] = "none"
    BY <1>1, <1>2, CommandsSent
<1> HIDE DEF o
<1>4. answers \in Seq(Told) /\ AckInv
    BY DEF CancelInv, CancelType, NewestInv
<1>5. Ack(o) \in Told
    BY <1>3 DEF Ack, Told
<1>6. o \notin acked /\ Count(answers, {Ack(o)}) = 0
  <2>1. o \notin acked
      BY <1>3 DEF CancelInv, VenueInv
  <2>2. \A i \in DOMAIN answers : answers[i] \notin {Ack(o)}
      BY <1>3 DEF CancelInv, AnswerInv
  <2> QED BY <1>4, <2>1, <2>2, CountNone
<1>7. AckInv'
  <2>1. CASE answers' = answers
      BY <1>1, <1>4, <2>1 DEF AckInv
  <2>2. CASE answers' = Append(answers, Ack(o))
    <3> SUFFICES ASSUME NEW q \in Orders
                 PROVE  Count(answers', {Ack(q)}) + (IF q \in acked' THEN 1 ELSE 0) <= 1
        BY DEF AckInv, Ack
    <3>1. /\ Count(answers', {Ack(q)}) = Count(answers, {Ack(q)}) + (IF Ack(o) \in {Ack(q)} THEN 1 ELSE 0)
          /\ Count(answers, {Ack(q)}) \in Nat
        BY <1>5, <2>2, ToldCounts
    <3>2. CASE q = o
        BY <1>1, <1>6, <3>1, <3>2
    <3>3. CASE q # o
      <4>1. Ack(o) \notin {Ack(q)}
          BY <3>3 DEF Ack
      <4>2. Count(answers', {Ack(q)}) = Count(answers, {Ack(q)})
          BY <3>1, <4>1
      <4> QED BY <1>1, <1>4, <4>2 DEF AckInv
    <3> QED BY <3>2, <3>3
  <2> QED BY <1>1, <2>1, <2>2
<1>8. ASSUME NEW q \in Orders, NEW n \in Attempts
      PROVE  Count(answers', Results(q, n))
                 = Count(answers, Results(q, n)) + (IF Head(queue) = Cancel(q, n) THEN 1 ELSE 0)
  <2>1. Head(queue) # Cancel(q, n) /\ Count(answers, Results(q, n)) \in Nat
      BY <1>1, <1>4, CountType DEF Cancel
  <2>2. Count(answers', Results(q, n)) = Count(answers, Results(q, n))
    <3>1. CASE answers' = answers
        BY <3>1
    <3>2. CASE answers' = Append(answers, Ack(o))
      <4>1. Ack(o) \notin Results(q, n)
          BY DEF Ack, Results, Result
      <4>2. Count(answers', Results(q, n))
                = Count(answers, Results(q, n)) + (IF Ack(o) \in Results(q, n) THEN 1 ELSE 0)
          BY <1>5, <3>2, ToldCounts
      <4> QED BY <2>1, <4>1, <4>2
    <3> QED BY <1>1, <3>1, <3>2
  <2> QED BY <2>1, <2>2
<1> QED BY <1>1, <1>7, <1>8, ServedNewest

(* An attempt served leaves the channel as its answer is sent.              *)
LEMMA CancelServedNewest == ASSUME CancelInv, NewestInv, CancelServed PROVE NewestInv'
<1> DEFINE c == Head(queue)
<1>1. /\ queue # <<>> /\ c.cmd = "cancel" /\ queue' = Tail(queue)
      /\ UNCHANGED <<todo, resting, acked, park>>
    BY DEF CancelServed, Serves
<1>2. PICK ok \in BOOLEAN : answers' = Append(answers, Result(c.oid, c.attempt, ok))
    BY DEF CancelServed, Tells
<1>3. c \in Sent
    BY <1>1, ServedFromHead
<1>4. c.oid \in Orders /\ c.attempt \in Nat /\ c = Cancel(c.oid, c.attempt)
    BY <1>1, <1>3 DEF Sent, SweepCmd, Cancel
<1> DEFINE m == Result(c.oid, c.attempt, ok)
<1>5. m \in Told /\ m.kind = "cancel_result"
    BY <1>4 DEF Result, Told
<1>6. AckInv'
  <2> HIDE DEF m
  <2> QED BY <1>1, <1>2, <1>5, NoAckTold DEF m
<1>7. ASSUME NEW q \in Orders, NEW n \in Attempts
      PROVE  Count(answers', Results(q, n))
                 = Count(answers, Results(q, n)) + (IF Head(queue) = Cancel(q, n) THEN 1 ELSE 0)
  <2>1. m \in Results(q, n) <=> Head(queue) = Cancel(q, n)
    <3>1. m \in Results(q, n) <=> c.oid = q /\ c.attempt = n
        BY WhatCounts
    <3>2. Cancel(c.oid, c.attempt) = Cancel(q, n) <=> c.oid = q /\ c.attempt = n
        BY WhatCounts
    <3> QED BY <1>4, <3>1, <3>2
  <2> HIDE DEF m
  <2>2. Count(answers', Results(q, n)) = Count(answers, Results(q, n)) + (IF m \in Results(q, n) THEN 1 ELSE 0)
      BY <1>2, <1>5, ToldCounts DEF m
  <2> QED BY <2>1, <2>2
<1> QED BY <1>1, <1>6, <1>7, ServedNewest

(* An escalation's answer is numbered 0, which answers no attempt; a        *)
(* sweep's answers none either.                                             *)
LEMMA UncountedNewest ==
    ASSUME CancelInv, NewestInv, queue # <<>>, Head(queue).cmd # "cancel", queue' = Tail(queue),
           UNCHANGED <<todo, resting, acked, park>>,
           NEW m \in Told, m.kind # "order_ack", answers' = Append(answers, m),
           \A o \in Orders, n \in Attempts : m \notin Results(o, n)
    PROVE  NewestInv'
<1>1. AckInv'
    BY NoAckTold
<1>2. ASSUME NEW q \in Orders, NEW n \in Attempts
      PROVE  Count(answers', Results(q, n))
                 = Count(answers, Results(q, n)) + (IF Head(queue) = Cancel(q, n) THEN 1 ELSE 0)
  <2>1. Head(queue) # Cancel(q, n) /\ m \notin Results(q, n)
      BY DEF Cancel
  <2>2. Count(answers', Results(q, n)) = Count(answers, Results(q, n)) + (IF m \in Results(q, n) THEN 1 ELSE 0)
      BY ToldCounts
  <2> QED BY <2>1, <2>2
<1> QED BY <1>1, <1>2, ServedNewest

(* An escalation served.                                                    *)
LEMMA EscalateServedNewest == ASSUME CancelInv, NewestInv, EscalateServed PROVE NewestInv'
<1> DEFINE o == Head(queue).oid
<1>1. /\ queue # <<>> /\ Head(queue).cmd = "escalate" /\ queue' = Tail(queue)
      /\ UNCHANGED <<todo, resting, acked, park>>
    BY DEF EscalateServed, Serves
<1>2. PICK ok \in BOOLEAN : answers' = Append(answers, Result(o, 0, ok))
    BY DEF EscalateServed, Tells
<1>3. Head(queue) \in Sent
    BY <1>1, ServedFromHead
<1>4. o \in Orders
    BY <1>1, <1>3 DEF Sent, SweepCmd
<1> HIDE DEF o
<1>5. Result(o, 0, ok) \in Told /\ Result(o, 0, ok).kind = "cancel_result"
    BY <1>4 DEF Result, Told
<1>6. \A q \in Orders, n \in Attempts : Result(o, 0, ok) \notin Results(q, n)
    BY WhatCounts DEF Attempts
<1> QED BY <1>1, <1>2, <1>5, <1>6, UncountedNewest

(* A sweep that ended.                                                      *)
LEMMA BookSweptNewest == ASSUME CancelInv, NewestInv, NEW ok \in BOOLEAN, BookSwept(ok) PROVE NewestInv'
<1>1. /\ running # NoSweep /\ queue' = Tail(queue) /\ answers' = Append(answers, Verified(ok))
      /\ UNCHANGED <<todo, resting, acked, park>>
    BY DEF BookSwept, SweepEnds
<1>2. queue # <<>> /\ Head(queue).cmd # "cancel"
    BY <1>1 DEF CancelInv, RunsItsHead, SweepCmd
<1>3. Verified(ok) \in Told /\ Verified(ok).kind = "sweep_result"
    BY DEF Verified, Told, Messages
<1>4. \A q \in Orders, n \in Attempts : Verified(ok) \notin Results(q, n)
    BY <1>3, WhatCounts
<1> QED BY <1>1, <1>2, <1>3, <1>4, UncountedNewest

-----------------------------------------------------------------------------
(* At the start nothing was sent.                                           *)
LEMMA NewestInvInit == Init => NewestInv
<1> SUFFICES ASSUME Init PROVE NewestInv
    OBVIOUS
<1>1. /\ queue = <<>> /\ answers = <<>> /\ todo = Orders /\ resting = {} /\ acked = {}
      /\ park = [o \in Orders |-> NotParked]
    BY DEF Init, SweepInit
<1>2. queue \in Seq(Sent) /\ answers \in Seq(Told) /\ DOMAIN queue = {} /\ DOMAIN answers = {}
    BY <1>1
<1>3. \A G : Count(queue, G) = 0 /\ Count(answers, G) = 0
    BY <1>2, CountNone
<1>4. AttemptInv
    BY <1>3 DEF AttemptInv, InPlay
<1>5. ParkInv
    BY <1>1, CancelAssumption DEF ParkInv, ParkOK, NotParked
<1>6. AckInv /\ RangeInv
    BY <1>1, <1>3 DEF AckInv, RangeInv
<1> QED BY <1>4, <1>5, <1>6 DEF NewestInv

(* The halts' other steps, and the venue's fills, are silent about cancels. *)
LEMMA HaltStepNewest == ASSUME CancelInv, NewestInv, HaltStep, UNCHANGED quoteVars PROVE NewestInv'
<1>1. UNCHANGED <<todo, resting, acked, park>>
    BY DEF quoteVars
<1>2. CASE KillFileSet \/ KillFileRemoved \/ FeedHealthy \/ SweepBegins
  <2>1. UNCHANGED <<queue, answers>>
      BY <1>2 DEF KillFileSet, KillFileRemoved, FeedHealthy, SweepBegins, execVars
  <2> QED BY <1>1, <2>1, QuietNewest
<1>3. CASE KillWatch
  <2>1. /\ queue' \in {queue, Offered(owed, queue).queue} /\ answers' = answers
      BY <1>3 DEF KillWatch, execVars
  <2>2. queue \in Seq(Sent) /\ Len(queue) <= Depth /\ owed \in OwedSweep /\ SweepCmd \in Sent
      BY CommandsSent DEF CancelInv, CancelType
  <2>3. Offered(owed, queue).queue \in {queue, Append(queue, SweepCmd)}
      BY <2>2, OfferTyped
  <2> QED BY <1>1, <2>1, <2>3, QuietNewest
<1>4. CASE HearsSweep
  <2>1. /\ queue' = queue /\ answers # <<>> /\ answers' = Tail(answers)
        /\ Head(answers).kind = "sweep_result"
      BY <1>4 DEF HearsSweep
  <2> QED BY <1>1, <2>1, QuietNewest
<1> QED BY <1>2, <1>3, <1>4 DEF HaltStep

(* Every step keeps it.                                                     *)
LEMMA NewestInvNext == CancelInv /\ NewestInv /\ [Next]_vars => NewestInv'
<1> SUFFICES ASSUME CancelInv, NewestInv, [Next]_vars PROVE NewestInv'
    OBVIOUS
<1>1. CASE HaltStep /\ UNCHANGED quoteVars
    BY <1>1, HaltStepNewest
<1>2. CASE KillCancels \/ PullCancels
    BY <1>2, KillCancelsNewest, PullCancelsNewest
<1>3. CASE \E o \in Orders : Quotes(o) \/ Pulls(o)
    BY <1>3, QuotesNewest, PullsNewest
<1>4. CASE \E o \in Orders : QuoteFilled(o)
  <2>1. UNCHANGED <<queue, answers, park, acked, todo>> /\ resting' \subseteq resting
      BY <1>4 DEF QuoteFilled, sweepVars, execVars
  <2> QED BY <2>1, QuietNewest
<1>5. CASE \E o, r \in Orders : Amends(o, r)
    BY <1>5, AmendsNewest
<1>6. CASE HearsAck \/ HearsCancel \/ CancelTick
    BY <1>6, HearsAckNewest, HearsCancelNewest, CancelTickNewest
<1>7. CASE Serving
    BY <1>7, PlaceServedNewest, CancelServedNewest, EscalateServedNewest DEF Serving
<1>8. CASE (\E o \in Orders : OrderFills(o)) \/ UNCHANGED vars
  <2>1. UNCHANGED <<queue, answers, park, acked, todo, resting>>
      BY <1>8 DEF OrderFills, vars, quoteVars, sweepVars, execVars
  <2> QED BY <2>1, QuietNewest
<1>9. CASE \E ok \in BOOLEAN : BookSwept(ok)
    BY <1>9, BookSweptNewest
<1> QED BY <1>1, <1>2, <1>3, <1>4, <1>5, <1>6, <1>7, <1>8, <1>9 DEF Next

(* A cancel is due again only when the newest attempt has been answered:    *)
(* none of that number is queued, and no answer to it is still to be heard. *)
THEOREM NewestAttemptIsAnswered == Spec => []NewestIsAnswered
<1>1. CancelInv /\ NewestInv => NewestIsAnswered
  <2> SUFFICES ASSUME CancelInv, NewestInv, NEW o \in Orders,
                      park[o].owed, ~park[o].outstanding, park[o].sent > 0
               PROVE  /\ \A i \in DOMAIN queue : queue[i] # Cancel(o, park[o].sent)
                      /\ \A i \in DOMAIN answers, b \in BOOLEAN :
                            answers[i] # Result(o, park[o].sent, b)
      BY DEF NewestIsAnswered
  <2> DEFINE n == park[o].sent
  <2>1. n \in Attempts /\ CancelType /\ queue \in Seq(Sent) /\ answers \in Seq(Told)
      BY DEF CancelInv, CancelType, Park, Attempts
  <2>2. InPlay(o, n) = 0
      BY <2>1 DEF NewestInv, AttemptInv
  <2> HIDE DEF n
  <2>3. Count(queue, {Cancel(o, n)}) = 0 /\ Count(answers, Results(o, n)) = 0
    <3>1. Count(queue, {Cancel(o, n)}) \in Nat /\ Count(answers, Results(o, n)) \in Nat
        BY <2>1, InPlayType
    <3>2. Count(queue, {Cancel(o, n)}) + Count(answers, Results(o, n)) = 0
        BY <2>2 DEF InPlay
    <3> QED BY <3>1, <3>2
  <2>4. /\ \A i \in DOMAIN queue : queue[i] \notin {Cancel(o, n)}
        /\ \A i \in DOMAIN answers : answers[i] \notin Results(o, n)
      BY <2>1, <2>3, CountNone
  <2>5. \A b \in BOOLEAN : Result(o, n, b) \in Results(o, n)
      BY DEF Results
  <2> QED BY <2>4, <2>5 DEF n
<1> QED BY CancelInvInit, CancelInvNext, NewestInvInit, NewestInvNext, <1>1, PTL DEF Spec

-----------------------------------------------------------------------------
(* The histories stay within their bounds, a halt being still to come of a  *)
(* file no watch has found.                                                 *)
CounterInv ==
    /\ halts \in 0..MaxHalts /\ spell \in 0..halts /\ proven \in 0..spell
    /\ running \in {NoSweep} \cup 0..spell
    /\ killFile /\ ~killed => halts < MaxHalts

(* A halt counted.                                                          *)
LEMMA HaltCounted ==
    ASSUME CounterInv, Counted, halts < MaxHalts, UNCHANGED <<running, proven>>,
           killFile' /\ ~killed' => halts + 1 < MaxHalts
    PROVE  CounterInv'
BY KillSweepAssumption DEF CounterInv, Counted

(* At the start there was no halt.                                          *)
LEMMA CounterInvInit == Init => CounterInv
BY KillSweepAssumption DEF Init, SweepInit, CounterInv, NoSweep

(* Every step keeps the histories within their bounds.                      *)
LEMMA CounterInvNext == CounterInv /\ [Next]_vars => CounterInv'
<1> SUFFICES ASSUME CounterInv, [Next]_vars PROVE CounterInv'
    OBVIOUS
<1> DEFINE kept == UNCHANGED <<killFile, killed, halts, spell, running, proven>>
<1>0. MaxHalts \in Nat
    BY KillSweepAssumption
<1>1. ASSUME kept PROVE CounterInv'
    BY <1>1 DEF CounterInv
<1>2. CASE HaltStep /\ UNCHANGED quoteVars
  <2>1. CASE KillFileSet
      BY <2>1 DEF KillFileSet, execVars, CounterInv
  <2>2. CASE KillFileRemoved
      BY <2>2 DEF KillFileRemoved, execVars, CounterInv
  <2>3. CASE KillWatch
      BY <2>3 DEF KillWatch, execVars, CounterInv
  <2>4. CASE FeedHealthy
      BY <1>1, <2>4 DEF FeedHealthy, execVars
  <2>5. CASE HearsSweep
      BY <1>1, <2>5 DEF HearsSweep, haltVars
  <2>6. CASE SweepBegins
    <3>1. UNCHANGED <<killFile, killed, halts, spell, proven>> /\ running' = spell
        BY <2>6 DEF SweepBegins, haltVars
    <3>2. spell \in 0..spell
        BY <1>0 DEF CounterInv
    <3> QED BY <3>1, <3>2 DEF CounterInv
  <2> QED BY <1>2, <2>1, <2>2, <2>3, <2>4, <2>5, <2>6 DEF HaltStep
<1>3. CASE KillCancels
  <2>1. Counted /\ killFile /\ ~killed /\ killed' = TRUE /\ UNCHANGED <<running, proven>>
      BY <1>3 DEF KillCancels, KillEngages, execVars
  <2>2. halts < MaxHalts
      BY <2>1 DEF CounterInv
  <2> QED BY <2>1, <2>2, HaltCounted
<1>4. CASE PullCancels
  <2>1. Counted /\ FeedMayPull /\ UNCHANGED <<killFile, killed, running, proven>>
      BY <1>4 DEF PullCancels, FeedPulls, execVars
  <2>2. halts \in Nat
      BY <1>0 DEF CounterInv
  <2>3. halts < MaxHalts /\ (killFile /\ ~killed => halts + 1 < MaxHalts)
      BY <1>0, <2>1, <2>2 DEF FeedMayPull
  <2> QED BY <2>1, <2>3, HaltCounted
<1>5. CASE \E o \in Orders : Quotes(o) \/ Pulls(o) \/ QuoteFilled(o)
    BY <1>1, <1>5 DEF Quotes, Pulls, QuoteFilled, Drains, sweepVars, haltVars, execVars
<1>6. CASE \E o, r \in Orders : Amends(o, r)
    BY <1>1, <1>6 DEF Amends, Drains, haltVars, execVars
<1>7. CASE HearsAck \/ HearsCancel \/ CancelTick
    BY <1>1, <1>7 DEF HearsAck, HearsCancel, CancelTick, Drains, haltVars, execVars
<1>8. CASE Serving
    BY <1>1, <1>8 DEF Serving, PlaceServed, CancelServed, EscalateServed, haltVars
<1>9. CASE (\E o \in Orders : OrderFills(o)) \/ UNCHANGED vars
    BY <1>1, <1>9 DEF OrderFills, vars, sweepVars, haltVars, execVars
<1>10. CASE \E ok \in BOOLEAN : BookSwept(ok)
  <2>1. UNCHANGED <<killFile, killed, halts, spell>> /\ running # NoSweep /\ running' = NoSweep
        /\ proven' \in {running, proven}
      BY <1>10 DEF BookSwept, SweepEnds, haltVars
  <2> QED BY <2>1 DEF CounterInv
<1> QED BY <1>2, <1>3, <1>4, <1>5, <1>6, <1>7, <1>8, <1>9, <1>10 DEF Next

(* Every variable keeps its type, and every cancel its budgets.             *)
THEOREM CancelTyped == Spec => []TypeOK
<1>1. CancelInv /\ NewestInv /\ CounterInv => TypeOK
  <2> SUFFICES ASSUME CancelInv, NewestInv, CounterInv PROVE TypeOK
      OBVIOUS
  <2>1. CancelType /\ queue \in Seq(Sent) /\ Count(queue, BeyondBudget) = 0
      BY DEF CancelInv, CancelType, NewestInv, RangeInv
  <2>2. \A i \in DOMAIN queue : queue[i] \in Sent /\ queue[i] \notin BeyondBudget
      BY <2>1, CountNone
  <2>3. \A c \in Sent : c \notin BeyondBudget => c \in Commands
      BY DEF Sent, BeyondBudget, Commands, SweepCmd
  <2>4. queue \in Seq(Commands)
      BY <2>1, <2>2, <2>3
  <2>5. \A o \in Orders : park[o] \in ParkedCancel
    <3> TAKE o \in Orders
    <3>1. park[o] \in Park /\ ParkOK(park[o], o \in acked)
        BY <2>1 DEF CancelType, NewestInv, ParkInv
    <3>2. MaxSends \in Nat /\ MaxRefusals \in Nat
        BY CancelAssumption
    <3>3. park[o].sent \in 0..MaxSends /\ park[o].refused \in 0..MaxRefusals
        BY <3>1, <3>2 DEF Park, ParkOK
    <3> QED BY <3>1, <3>3 DEF Park, ParkedCancel
  <2>6. park \in [Orders -> ParkedCancel]
      BY <2>1, <2>5 DEF CancelType
  <2> QED BY <2>1, <2>4, <2>6 DEF TypeOK, CancelType, CounterInv, Spot
<1> QED BY CancelInvInit, CancelInvNext, NewestInvInit, NewestInvNext, CounterInvInit, CounterInvNext,
           <1>1, PTL DEF Spec
=============================================================================
