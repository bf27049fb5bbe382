---------------------------- MODULE HaltProofs -----------------------------
(* What holds of every sweep and of every exit, for any venues, orders,     *)
(* entry points and sweep policy.                                           *)
EXTENDS Halt, SequenceTheorems, TLAPS

-----------------------------------------------------------------------------
(* The sweep: the invariant that makes a verdict of clean a proof, kept by  *)
(* each step of Sweep, whatever else starts sweeps and lands orders.        *)

(* One sweep s, over a book b whose list last showed l.  Whatever rests     *)
(* during a run of empty reads was on the list at the last access or landed *)
(* since the run began; after the second, only the latter.                  *)
SweepSound(s, b, l) ==
    /\ s.pc = "cancel" => s.round < Rounds /\ s.empties < NeedEmpty
    /\ s.pc = "read" => s.poll < Polls /\ s.empties < NeedEmpty
    /\ s.empties >= 1 => b \subseteq l \cup s.late
    /\ s.empties >= 2 => b \subseteq s.late
    /\ s.pc = "clean" => s.empties >= NeedEmpty

SweepInv == SweepTypeOK /\ \A v \in Venues : SweepSound(sweep[v], book[v], listed[v])

(* The sweep's policy, from the assumption on its constants.                *)
LEMMA Policy == Rounds \in Nat \ {0} /\ Polls \in Nat \ {0} /\ NeedEmpty \in Nat \ {0}
  BY SweepAssumption

(* A sweep about to begin, or not begun, is sound over any book. *)
LEMMA FreshIsSound ==
  ASSUME NEW pc \in {"idle", "cancel"}, NEW b, NEW l
  PROVE  FreshSweep(pc) \in Sweeps /\ SweepSound(FreshSweep(pc), b, l)
  BY Policy DEF FreshSweep, Sweeps, Verdicts, SweepSound

(* The invariant holds before the first sweep.                              *)
LEMMA SweepInitInv == SweepInit => SweepInv
  BY FreshIsSound DEF SweepInit, SweepInv, SweepTypeOK

(* What the loops make of a poll that did not prove the book empty. *)
LEMMA AfterPollSound ==
  ASSUME NEW s \in Sweeps, s.pc = "read", s.empties < NeedEmpty, NEW t \in AfterPoll(s),
         NEW b, NEW l,
         s.empties >= 1 => b \subseteq l \cup s.late,
         s.empties >= 2 => b \subseteq s.late
  PROVE  t \in Sweeps /\ SweepSound(t, b, l) /\ t.late = s.late
  <1>1. Verdict(s) \in {"unconfirmed", "unclean"}
    BY DEF Verdict
  <1>2. CASE t = [s EXCEPT !.pc = Verdict(s)]
    BY <1>1, <1>2 DEF Sweeps, Verdicts, SweepSound
  <1>3. CASE s.poll < Polls /\ t = s
    BY <1>3 DEF SweepSound
  <1>4. CASE s.poll = Polls /\ s.round < Rounds /\ t = [s EXCEPT !.pc = "cancel"]
    BY <1>4 DEF Sweeps, SweepSound
  <1>. QED BY <1>2, <1>3, <1>4 DEF AfterPoll

(* A step at one venue that gives it a sound sweep keeps the invariant, and *)
(* the books and histories of the others.                                   *)
LEMMA OneSweepMoves ==
  ASSUME SweepInv, NEW v \in Venues, NEW s \in Sweeps,
         NEW b \in SUBSET Orders, NEW l \in SUBSET Orders, SweepSound(s, b, l),
         sweep' = [sweep EXCEPT ![v] = s],
         book' = [book EXCEPT ![v] = b],
         listed' = [listed EXCEPT ![v] = l]
  PROVE  SweepInv'
  <1>1. SweepTypeOK'
    BY DEF SweepInv, SweepTypeOK
  <1>2. ASSUME NEW w \in Venues PROVE SweepSound(sweep[w], book[w], listed[w])'
    <2>1. CASE w = v
      BY <2>1 DEF SweepInv, SweepTypeOK, SweepSound
    <2>2. CASE w # v
      BY <2>2 DEF SweepInv, SweepTypeOK, SweepSound
    <2>. QED BY <2>1, <2>2
  <1>. QED BY <1>1, <1>2 DEF SweepInv

(* An order that lands during a run of empty reads is one of its `late`. *)
LEMMA LandsInv ==
  ASSUME SweepInv, NEW v \in Venues, NEW o \in Orders, Lands(v, o)
  PROVE  SweepInv'
  <1>. DEFINE n == IF sweep[v].empties > 0 THEN sweep[v].late \cup {o} ELSE sweep[v].late
              s == [sweep[v] EXCEPT !.late = n]
              b == book[v] \cup {o}
  <1>1. /\ sweep[v] \in Sweeps /\ book[v] \in SUBSET Orders /\ listed[v] \in SUBSET Orders
        /\ SweepSound(sweep[v], book[v], listed[v])
    BY DEF SweepInv, SweepTypeOK
  <1>2. s \in Sweeps
    BY <1>1 DEF Sweeps
  <1>3. sweep[v].empties \in Nat
    BY <1>1, Policy DEF Sweeps
  <1>4. SweepSound(s, b, listed[v])
    BY <1>1, <1>3 DEF SweepSound, Sweeps
  <1>5. sweep' = [sweep EXCEPT ![v] = s] /\ book' = [book EXCEPT ![v] = b]
    BY DEF Lands
  <1>6. listed' = [listed EXCEPT ![v] = listed[v]]
    BY DEF Lands, SweepInv, SweepTypeOK
  <1>7. b \in SUBSET Orders
    BY <1>1
  <1>. HIDE DEF s, b
  <1>. QED BY <1>1, <1>2, <1>4, <1>5, <1>6, <1>7, OneSweepMoves

(* A book that shrinks under an unmoved sweep stays sound. *)
LEMMA LeavesInv ==
  ASSUME SweepInv, NEW v \in Venues, NEW o, Leaves(v, o)
  PROVE  SweepInv' /\ \A w \in Venues : book'[w] \subseteq book[w]
  BY DEF SweepInv, SweepTypeOK, SweepSound, Leaves

(* A poll: the list is accessed, and the sweep goes on as `answers` say. *)
LEMMA PolledInv ==
  ASSUME SweepInv, NEW v \in Venues, NEW answers, Polled(v, answers),
         \A s \in answers : s \in Sweeps /\ SweepSound(s, book[v], book[v])
  PROVE  SweepInv'
  <1>1. PICK s \in answers : sweep' = [sweep EXCEPT ![v] = s]
    BY DEF Polled
  <1>2. book' = [book EXCEPT ![v] = book[v]] /\ listed' = [listed EXCEPT ![v] = book[v]]
    BY DEF Polled, SweepInv, SweepTypeOK
  <1>3. book[v] \in SUBSET Orders
    BY DEF SweepInv, SweepTypeOK
  <1>. QED BY <1>1, <1>2, <1>3, OneSweepMoves

(* An empty read keeps the invariant, and extends the run.                  *)
LEMMA ReadsEmptyInv ==
  ASSUME SweepInv, NEW v \in Venues, ReadsEmpty(v)
  PROVE  SweepInv'
  <1>. DEFINE n == IF sweep[v].empties = 0 THEN {} ELSE sweep[v].late
              s == [sweep[v] EXCEPT !.poll = @ + 1, !.empties = @ + 1, !.late = n]
              c == [s EXCEPT !.pc = "clean"]
              answers == IF s.empties >= NeedEmpty THEN {c} ELSE AfterPoll(s)
  <1>1. /\ sweep[v] \in Sweeps /\ sweep[v].pc = "read"
        /\ SweepSound(sweep[v], book[v], listed[v])
        /\ {} \in {listed[v], book[v]}
    BY DEF SweepInv, SweepTypeOK, ReadsEmpty, Polled, Answers
  <1>2. sweep[v].poll + 1 \in 0..Polls /\ sweep[v].empties + 1 \in 0..NeedEmpty
    BY <1>1, Policy DEF SweepSound, Sweeps
  <1>3. /\ s \in Sweeps /\ s.pc = "read" /\ s.late = n
        /\ s.empties = sweep[v].empties + 1 /\ s.poll = sweep[v].poll + 1
    BY <1>1, <1>2 DEF Sweeps
  <1>4. s.empties >= 2 => book[v] \subseteq s.late
    BY <1>1, <1>2, <1>3, Policy DEF SweepSound, Sweeps
  <1>5. Polled(v, answers)
    BY DEF ReadsEmpty
  <1>6. ASSUME NEW t \in answers PROVE t \in Sweeps /\ SweepSound(t, book[v], book[v])
    <2>1. CASE s.empties >= NeedEmpty
      <3>1. t = c
        BY <1>6, <2>1
      <3>2. c \in Sweeps /\ c.pc = "clean" /\ c.empties = s.empties /\ c.late = s.late
        BY <1>3 DEF Sweeps, Verdicts
      <3>. HIDE DEF s, c
      <3>. QED BY <1>4, <2>1, <3>1, <3>2 DEF SweepSound
    <2>2. CASE ~(s.empties >= NeedEmpty)
      <3>1. t \in AfterPoll(s)
        BY <1>6, <2>2
      <3>2. s.empties < NeedEmpty
        BY <1>2, <1>3, <2>2, Policy
      <3>. HIDE DEF s
      <3>. QED BY <1>3, <1>4, <3>1, <3>2, AfterPollSound
    <2>. QED BY <2>1, <2>2
  <1>. HIDE DEF answers
  <1>. QED BY <1>5, <1>6, PolledInv

(* The two polls that break a run of empty reads. *)
LEMMA BrokenRunInv ==
  ASSUME SweepInv, NEW v \in Venues, NEW s \in Sweeps, s.pc = "read", s.empties = 0,
         Polled(v, AfterPoll(s))
  PROVE  SweepInv'
  BY PolledInv, AfterPollSound, Policy

(* A read that lists orders keeps it, and ends the run.                     *)
LEMMA ReadsOrdersInv ==
  ASSUME SweepInv, NEW v \in Venues, ReadsOrders(v)
  PROVE  SweepInv'
  <1>. DEFINE s == [sweep[v] EXCEPT !.poll = @ + 1, !.empties = 0, !.seen = TRUE]
  <1>1. sweep[v] \in Sweeps /\ sweep[v].pc = "read" /\ sweep[v].poll < Polls
    BY DEF SweepInv, SweepTypeOK, ReadsOrders, Polled, SweepSound
  <1>2. sweep[v].poll + 1 \in 0..Polls /\ 0 \in 0..NeedEmpty
    BY <1>1, Policy DEF Sweeps
  <1>3. s \in Sweeps /\ s.pc = "read" /\ s.empties = 0
    BY <1>1, <1>2 DEF Sweeps
  <1>4. Polled(v, AfterPoll(s))
    BY DEF ReadsOrders
  <1>. HIDE DEF s
  <1>. QED BY <1>3, <1>4, BrokenRunInv

(* A read that fails keeps it, and ends the run.                            *)
LEMMA CannotReadInv ==
  ASSUME SweepInv, NEW v \in Venues, CannotRead(v)
  PROVE  SweepInv'
  <1>. DEFINE s == [sweep[v] EXCEPT !.poll = @ + 1, !.empties = 0]
  <1>1. sweep[v] \in Sweeps /\ sweep[v].pc = "read" /\ sweep[v].poll < Polls
    BY DEF SweepInv, SweepTypeOK, CannotRead, Polled, SweepSound
  <1>2. sweep[v].poll + 1 \in 0..Polls /\ 0 \in 0..NeedEmpty
    BY <1>1, Policy DEF Sweeps
  <1>3. s \in Sweeps /\ s.pc = "read" /\ s.empties = 0
    BY <1>1, <1>2 DEF Sweeps
  <1>4. Polled(v, AfterPoll(s))
    BY DEF CannotRead
  <1>. HIDE DEF s
  <1>. QED BY <1>3, <1>4, BrokenRunInv

(* A cancel-all only removes orders, so it does not break a run of empties. *)
LEMMA CancelRoundInv ==
  ASSUME SweepInv, NEW v \in Venues, NEW accepted \in BOOLEAN, NEW gone,
         CancelRound(v, accepted, gone)
  PROVE  SweepInv'
  <1>. DEFINE f == listed[v] \cap book[v]
              s == [sweep[v] EXCEPT !.pc = "read", !.round = @ + 1, !.poll = 0,
                                    !.accepted = accepted, !.before = f]
              b == book[v] \ gone
  <1>1. /\ sweep[v] \in Sweeps /\ sweep[v].pc = "cancel"
        /\ book[v] \in SUBSET Orders /\ f \in SUBSET Orders
        /\ SweepSound(sweep[v], book[v], listed[v])
    BY DEF SweepInv, SweepTypeOK, CancelRound
  <1>2. sweep[v].round + 1 \in 0..Rounds /\ 0 \in 0..Polls
    BY <1>1, Policy DEF SweepSound, Sweeps
  <1>. HIDE DEF f
  <1>3. /\ s \in Sweeps /\ s.pc = "read" /\ s.poll = 0
        /\ s.empties = sweep[v].empties /\ s.late = sweep[v].late
    BY <1>1, <1>2 DEF Sweeps
  <1>4. sweep' = [sweep EXCEPT ![v] = s]
    BY DEF CancelRound, f
  <1>5. book' = [book EXCEPT ![v] = b] /\ listed' = [listed EXCEPT ![v] = book[v]]
    BY DEF CancelRound
  <1>. HIDE DEF s
  <1>6. SweepSound(s, b, book[v])
    BY <1>1, <1>3, Policy DEF SweepSound, Sweeps
  <1>7. b \in SUBSET Orders
    BY <1>1
  <1>. HIDE DEF b
  <1>. QED BY <1>1, <1>3, <1>4, <1>5, <1>6, <1>7, OneSweepMoves

(* A sweep cut off by its budget keeps it.                                  *)
LEMMA SweepAbandonedInv ==
  ASSUME SweepInv, NEW v \in Venues, SweepAbandoned(v)
  PROVE  SweepInv'
  <1>. DEFINE s == [sweep[v] EXCEPT !.pc = "unclean"]
  <1>1. /\ sweep[v] \in Sweeps /\ book[v] \in SUBSET Orders /\ listed[v] \in SUBSET Orders
        /\ SweepSound(sweep[v], book[v], listed[v])
    BY DEF SweepInv, SweepTypeOK
  <1>2. s \in Sweeps /\ SweepSound(s, book[v], listed[v])
    BY <1>1 DEF Sweeps, Verdicts, SweepSound
  <1>3. /\ sweep' = [sweep EXCEPT ![v] = s]
        /\ book' = [book EXCEPT ![v] = book[v]] /\ listed' = [listed EXCEPT ![v] = listed[v]]
    BY DEF SweepAbandoned, SweepInv, SweepTypeOK
  <1>. HIDE DEF s
  <1>. QED BY <1>1, <1>2, <1>3, OneSweepMoves

(* Every step of a sweep keeps it.                                          *)
LEMMA SweepStepInv ==
  ASSUME SweepInv, NEW v \in Venues, SweepStep(v)
  PROVE  SweepInv'
  <1>1. ASSUME NEW shown, CancelRound(v, TRUE, shown) PROVE SweepInv'
    BY <1>1, CancelRoundInv
  <1>2. ASSUME NEW gone, CancelRound(v, FALSE, gone) PROVE SweepInv'
    BY <1>2, CancelRoundInv
  <1>3. CASE CancelAll(v) \/ CancelRefused(v)
    BY <1>1, <1>2, <1>3 DEF CancelAll, CancelRefused
  <1>. QED BY <1>3, ReadsEmptyInv, ReadsOrdersInv, CannotReadInv, SweepAbandonedInv DEF SweepStep

(* No step of a sweep lands an order, or adds to the late ones of a run of empty reads. *)
LEMMA SweepOnlyRemoves ==
  ASSUME SweepInv, NEW v \in Venues, SweepStep(v), NEW w \in Venues
  PROVE  book'[w] \subseteq book[w] /\ sweep'[w].late \subseteq sweep[w].late
  <1>1. sweep[v] \in Sweeps /\ sweep \in [Venues -> Sweeps] /\ book \in [Venues -> SUBSET Orders]
    BY DEF SweepInv, SweepTypeOK
  <1>2. ASSUME NEW s \in Sweeps, NEW t \in AfterPoll(s) PROVE t.late = s.late
    BY <1>2 DEF AfterPoll, Sweeps
  <1>0. ASSUME NEW answers, Polled(v, answers)
        PROVE  sweep[v].poll + 1 \in 0..Polls /\ sweep[v].empties + 1 \in 0..NeedEmpty
               /\ 0 \in 0..NeedEmpty
    <2>1. sweep[v].pc = "read" /\ SweepSound(sweep[v], book[v], listed[v])
      BY <1>0 DEF Polled, SweepInv
    <2>. QED BY <1>1, <2>1, Policy DEF SweepSound, Sweeps
  <1>3. ASSUME NEW answers, Polled(v, answers), \A t \in answers : t.late \subseteq sweep[v].late
        PROVE  book'[w] \subseteq book[w] /\ sweep'[w].late \subseteq sweep[w].late
    BY <1>1, <1>3 DEF Polled
  <1>4. ASSUME NEW accepted, NEW gone, CancelRound(v, accepted, gone)
        PROVE  book'[w] \subseteq book[w] /\ sweep'[w].late \subseteq sweep[w].late
    <2>. DEFINE f == listed[v] \cap book[v]
                s == [sweep[v] EXCEPT !.pc = "read", !.round = sweep[v].round + 1, !.poll = 0,
                                      !.accepted = accepted, !.before = f]
    <2>1. s.late = sweep[v].late
      BY <1>1 DEF Sweeps
    <2>2. sweep' = [sweep EXCEPT ![v] = s] /\ book' = [book EXCEPT ![v] = book[v] \ gone]
      BY <1>4 DEF CancelRound
    <2>. HIDE DEF s
    <2>. QED BY <1>1, <2>1, <2>2
  <1>5. CASE ReadsEmpty(v)
    <2>. DEFINE n == IF sweep[v].empties = 0 THEN {} ELSE sweep[v].late
                s == [sweep[v] EXCEPT !.poll = @ + 1, !.empties = @ + 1, !.late = n]
                c == [s EXCEPT !.pc = "clean"]
                answers == IF s.empties >= NeedEmpty THEN {c} ELSE AfterPoll(s)
    <2>1. Polled(v, answers)
      BY <1>5 DEF ReadsEmpty
    <2>2. s \in Sweeps /\ s.late = n /\ n \subseteq sweep[v].late
      BY <1>0, <1>1, <2>1 DEF Sweeps
    <2>3. c.late = s.late
      <3>. HIDE DEF s
      <3>. QED BY <2>2 DEF Sweeps
    <2>4. ASSUME NEW t \in answers PROVE t.late \subseteq sweep[v].late
      <3>1. t = c \/ t \in AfterPoll(s)
        BY <2>4
      <3>. HIDE DEF s, c, n
      <3>. QED BY <1>2, <2>2, <2>3, <3>1
    <2>. HIDE DEF answers
    <2>. QED BY <1>3, <2>1, <2>4
  <1>6. CASE ReadsOrders(v)
    <2>. DEFINE s == [sweep[v] EXCEPT !.poll = @ + 1, !.empties = 0, !.seen = TRUE]
    <2>1. Polled(v, AfterPoll(s))
      BY <1>6 DEF ReadsOrders
    <2>2. s \in Sweeps /\ s.late = sweep[v].late
      BY <1>0, <1>1, <2>1 DEF Sweeps
    <2>. HIDE DEF s
    <2>. QED BY <1>2, <1>3, <2>1, <2>2
  <1>7. CASE CannotRead(v)
    <2>. DEFINE s == [sweep[v] EXCEPT !.poll = @ + 1, !.empties = 0]
    <2>1. Polled(v, AfterPoll(s))
      BY <1>7 DEF CannotRead
    <2>2. s \in Sweeps /\ s.late = sweep[v].late
      BY <1>0, <1>1, <2>1 DEF Sweeps
    <2>. HIDE DEF s
    <2>. QED BY <1>2, <1>3, <2>1, <2>2
  <1>8. CASE CancelAll(v) \/ CancelRefused(v)
    BY <1>4, <1>8 DEF CancelAll, CancelRefused
  <1>9. CASE SweepAbandoned(v)
    BY <1>1, <1>9 DEF SweepAbandoned, Sweeps
  <1>. QED BY <1>5, <1>6, <1>7, <1>8, <1>9 DEF SweepStep

-----------------------------------------------------------------------------
(* The exit: one owner; no place that slips out after the latch; and, with  *)
(* a policy of two empty reads or more, a clean exit code that means a      *)
(* clean book.                                                              *)

(* An entry point that owns the exit, and an exit whose owner found no      *)
(* place in flight.                                                         *)
Owning  == {"quiescing", "sweeping", "concluded"}
Settled == ~stuck /\ \E h \in Halters : halter[h] \in {"sweeping", "concluded"}
OnWire  == {"wire", "answering"}
ForVenue(v) == {o \in Orders : At[o] = v}

Latched   == \A h \in Halters : halter[h] # "running" => halted
Owned     == \A h \in Halters : halter[h] \in Owning => claimed
Routed    == \A v \in Venues :
                /\ queue[v] \in Seq(ForVenue(v))
                /\ ex[v].pc # "idle" => ex[v].cmd \in ForVenue(v)
Aside     == aside \subseteq Sidecars
Counted   == \A v \in Venues : ex[v].pc \in OnWire \cup {"counted"} => ex[v].cmd \in inflight
Settles   == Settled => \A v \in Venues : ex[v].pc \notin OnWire /\ sweep[v].late \subseteq Sidecars
Decided   == \A h \in Halters : halter[h] = "concluded" => \A v \in Venues : sweep[v].pc \in Verdicts
Certified == exit \in {0, 70, 101} => Settled /\ \A v \in Venues : sweep[v].pc = "clean"

HInv ==
    /\ TypeOK /\ SweepInv
    /\ Latched /\ Owned /\ OneOwner
    /\ Routed /\ Counted /\ Aside
    /\ Settles /\ Decided /\ Certified

-----------------------------------------------------------------------------
(* A queue with one command taken out holds the others, of the same type.   *)
LEMMA RemoveAtSeq ==
  ASSUME NEW S, NEW q \in Seq(S), NEW i \in 1..Len(q)
  PROVE  RemoveAt(q, i) \in Seq(S)
  <1>1. SubSeq(q, 1, i - 1) \in Seq(S) /\ SubSeq(q, i + 1, Len(q)) \in Seq(S)
    BY SubSeqProperties
  <1>. QED BY <1>1, ConcatProperties DEF RemoveAt

(* The command that next_cmd picks is one of those queued.                  *)
LEMMA NextCmdIn ==
  ASSUME NEW S, NEW q \in Seq(S), NEW i \in NextCmd(q)
  PROVE  i \in 1..Len(q) /\ q[i] \in S
  BY DEF NextCmd

(* The set an executor's state is in, for one named place in its loop. *)
LEMMA BusyType ==
  ASSUME NEW pc \in {"held", "counted", "wire", "answering"}, NEW o \in Orders
  PROVE  /\ Busy(pc, o) \in [pc : {"held", "counted", "wire", "answering"}, cmd : Orders]
         /\ Busy(pc, o).pc = pc /\ Busy(pc, o).cmd = o
  BY DEF Busy

(* The type of an executor's command, field by field.                       *)
LEMMA ExType ==
  ASSUME TypeOK, NEW v \in Venues
  PROVE  /\ ex[v].pc \in {"idle", "held", "counted", "wire", "answering"}
         /\ ex[v].pc = "idle" => ex[v] = Idle
         /\ ex[v].pc # "idle" => ex[v].cmd \in Orders
  BY DEF TypeOK, Idle

(* An executor with nothing to serve is idle.                               *)
LEMMA IdleType == Idle.pc = "idle"
  BY DEF Idle

(* The invariant holds at the start.                                        *)
LEMMA HaltInit == Init => HInv
  <1>. SUFFICES ASSUME Init PROVE HInv
    OBVIOUS
  <1>1. SweepInv
    BY SweepInitInv DEF Init
  <1>2. TypeOK
    <2>1. ex \in [Venues -> {Idle} \cup [pc : {"held", "counted", "wire", "answering"}, cmd : Orders]]
      BY DEF Init
    <2>2. queue \in [Venues -> Seq(Orders)]
      BY DEF Init
    <2>3. /\ halted \in BOOLEAN /\ claimed \in BOOLEAN /\ stuck \in BOOLEAN /\ leg \in BOOLEAN
          /\ inflight \subseteq Orders /\ discarded \subseteq Orders
          /\ todo \subseteq Orders /\ aside \subseteq Orders
      BY DEF Init
    <2>4. halter \in [Halters -> {"running", "claiming", "quiescing", "sweeping",
                                  "concluded", "waiting", "gone"}]
      BY DEF Init
    <2>5. exit \in {Running, 0, 17, 18, 19, 70, 101}
      BY DEF Init
    <2>. QED BY <1>1, <2>1, <2>2, <2>3, <2>4, <2>5 DEF TypeOK, SweepInv
  <1>3. Latched /\ Owned /\ OneOwner
    BY DEF Init, Latched, Owned, OneOwner, Owning
  <1>4. Routed /\ Counted /\ Aside
    BY IdleType DEF Init, Routed, Counted, OnWire, Aside
  <1>5. Settles /\ Decided /\ Certified
    BY DEF Init, Settles, Settled, Decided, Certified, Running
  <1>. QED BY <1>1, <1>2, <1>3, <1>4, <1>5 DEF HInv

(* An order lands only by an executor's call or the maker-exit task's.      *)
LEMMA StepSweep ==
  ASSUME HInv, Next PROVE SweepInv'
  <1>. USE HaltAssumption DEF HInv
  <1>1. ASSUME NEW o \in Orders, Emits(o) \/ SidecarSends(o) PROVE SweepInv'
    BY <1>1 DEF Emits, SidecarSends, sweepVars, SweepInv, SweepTypeOK, SweepSound
  <1>2. ASSUME NEW o \in Orders, SidecarReaches(o) PROVE SweepInv'
    BY <1>2, LandsInv DEF SidecarReaches
  <1>3. ASSUME NEW v \in Venues, Takes(v) PROVE SweepInv'
    BY <1>3 DEF Takes, sweepVars, SweepInv, SweepTypeOK, SweepSound
  <1>4. ASSUME NEW v \in Venues,
               LetsGo(v) \/ EntersCount(v) \/ EntersLatch(v) \/ Returns(v)
        PROVE  SweepInv'
    BY <1>4 DEF LetsGo, EntersCount, EntersLatch, Returns, sweepVars, SweepInv, SweepTypeOK, SweepSound
  <1>5. ASSUME NEW v \in Venues, Reaches(v) PROVE SweepInv'
    <2>1. CASE UNCHANGED sweepVars
      BY <2>1 DEF sweepVars, SweepInv, SweepTypeOK, SweepSound
    <2>2. CASE Lands(v, ex[v].cmd)
      <3>1. ex[v].cmd \in Orders
        BY <1>5, ExType DEF Reaches
      <3>. QED BY <2>2, <3>1, LandsInv
    <2>. QED BY <1>5, <2>1, <2>2 DEF Reaches
  <1>6. ASSUME NEW v \in Venues, Sweeping(v) PROVE SweepInv'
    BY <1>6, SweepStepInv DEF Sweeping
  <1>7. ASSUME NEW v \in Venues, NEW o \in Orders, OrderLeaves(v, o) PROVE SweepInv'
    BY <1>7, LeavesInv DEF OrderLeaves
  <1>8. CASE CheckpointFails
    BY <1>8 DEF CheckpointFails, sweepVars, SweepInv, SweepTypeOK, SweepSound
  <1>9. ASSUME NEW h \in Halters,
               Begins(h) \/ Claims(h) \/ Concludes(h) \/ Exits(h) \/ LoserExits(h)
        PROVE  SweepInv'
    BY <1>9 DEF Begins, Claims, Concludes, Exits, LoserExits, sweepVars, SweepInv, SweepTypeOK, SweepSound
  <1>10. ASSUME NEW h \in Halters, Quiesces(h) PROVE SweepInv'
    <2>1. sweep' = [v \in Venues |-> FreshSweep("cancel")] /\ UNCHANGED <<book, listed>>
      BY <1>10 DEF Quiesces
    <2>2. SweepTypeOK'
      BY <2>1, FreshIsSound DEF SweepInv, SweepTypeOK
    <2>3. \A v \in Venues : SweepSound(sweep[v], book[v], listed[v])'
      <3>. TAKE v \in Venues
      <3>1. SweepSound(FreshSweep("cancel"), book[v], listed[v])
        BY FreshIsSound
      <3>. QED BY <2>1, <3>1
    <2>. QED BY <2>2, <2>3 DEF SweepInv
  <1>. QED BY <1>1, <1>2, <1>3, <1>4, <1>5, <1>6, <1>7, <1>8, <1>9, <1>10 DEF Next, Halting

(* What an executor holds, waits for and counts. *)
LEMMA StepExecType ==
  ASSUME HInv, Next
  PROVE  /\ queue' \in [Venues -> Seq(Orders)]
         /\ ex' \in [Venues -> {Idle} \cup [pc : {"held", "counted", "wire", "answering"}, cmd : Orders]]
         /\ inflight' \subseteq Orders /\ discarded' \subseteq Orders
         /\ todo' \subseteq Orders /\ aside' \subseteq Orders
         /\ Routed'
  <1>. DEFINE Goal == /\ queue' \in [Venues -> Seq(Orders)]
                     /\ ex' \in [Venues -> {Idle} \cup [pc : {"held", "counted", "wire", "answering"}, cmd : Orders]]
                     /\ inflight' \subseteq Orders /\ discarded' \subseteq Orders
                     /\ todo' \subseteq Orders /\ aside' \subseteq Orders
                     /\ Routed'
  <1>0. /\ queue \in [Venues -> Seq(Orders)]
        /\ ex \in [Venues -> {Idle} \cup [pc : {"held", "counted", "wire", "answering"}, cmd : Orders]]
        /\ inflight \subseteq Orders /\ discarded \subseteq Orders
        /\ todo \subseteq Orders /\ aside \subseteq Orders
        /\ Routed
    BY DEF HInv, TypeOK
  <1>1. ASSUME NEW o \in Orders, Emits(o) PROVE Goal
    <2>1. o \in ForVenue(At[o]) /\ At[o] \in Venues
      BY HaltAssumption DEF ForVenue
    <2>2. /\ Append(queue[At[o]], o) \in Seq(Orders)
          /\ Append(queue[At[o]], o) \in Seq(ForVenue(At[o]))
      BY <1>0, <2>1 DEF Routed
    <2>3. queue' \in [Venues -> Seq(Orders)]
      BY <1>0, <1>1, <2>2 DEF Emits
    <2>4. Routed'
      BY <1>0, <1>1, <2>2 DEF Emits, Routed
    <2>. QED BY <1>0, <1>1, <2>3, <2>4 DEF Emits
  <1>2. ASSUME NEW o \in Orders, SidecarSends(o) \/ SidecarReaches(o) PROVE Goal
    BY <1>0, <1>2 DEF SidecarSends, SidecarReaches, Routed
  <1>3. ASSUME NEW v \in Venues, Takes(v) PROVE Goal
    <2>1. PICK i \in NextCmd(queue[v]) :
             /\ queue' = [queue EXCEPT ![v] = RemoveAt(queue[v], i)]
             /\ \/ discarded' = discarded \cup {queue[v][i]} /\ ex' = ex
                \/ discarded' = discarded /\ ex' = [ex EXCEPT ![v] = Busy("held", queue[v][i])]
             /\ UNCHANGED <<inflight, todo, aside>>
      BY <1>3 DEF Takes
    <2>2. queue[v] \in Seq(ForVenue(v)) /\ queue[v] \in Seq(Orders)
      BY <1>0 DEF Routed
    <2>3. i \in 1..Len(queue[v]) /\ queue[v][i] \in ForVenue(v) /\ queue[v][i] \in Orders
      BY <2>2, NextCmdIn
    <2>4. RemoveAt(queue[v], i) \in Seq(ForVenue(v)) /\ RemoveAt(queue[v], i) \in Seq(Orders)
      BY <2>2, <2>3, RemoveAtSeq
    <2>. DEFINE o == queue[v][i]
    <2>5. o \in ForVenue(v) /\ o \in Orders
      BY <2>3
    <2>. HIDE DEF o
    <2>6. ex' = ex \/ ex' = [ex EXCEPT ![v] = Busy("held", o)]
      BY <2>1 DEF o
    <2>7. discarded' \subseteq Orders
      BY <1>0, <2>1, <2>3
    <2>8. ex' \in [Venues -> {Idle} \cup [pc : {"held", "counted", "wire", "answering"}, cmd : Orders]]
      BY <1>0, <2>5, <2>6, BusyType
    <2>9. \A w \in Venues : ex'[w].pc # "idle" => ex'[w].cmd \in ForVenue(w)
      BY <1>0, <2>5, <2>6, BusyType DEF Routed
    <2>10. queue' \in [Venues -> Seq(Orders)] /\ \A w \in Venues : queue'[w] \in Seq(ForVenue(w))
      BY <1>0, <2>1, <2>4 DEF Routed
    <2>. QED BY <1>0, <2>1, <2>7, <2>8, <2>9, <2>10 DEF Routed
  <1>4. ASSUME NEW v \in Venues, NEW e,
               e = Idle \/ e \in [pc : {"held", "counted", "wire", "answering"}, cmd : {ex[v].cmd}],
               e # Idle => ex[v].pc # "idle",
               ex' = [ex EXCEPT ![v] = e],
               inflight' \subseteq Orders, discarded' \subseteq Orders,
               UNCHANGED <<queue, todo, aside>>
        PROVE  Goal
    <2>1. ex[v].pc # "idle" => ex[v].cmd \in ForVenue(v) /\ ex[v].cmd \in Orders
      BY <1>0 DEF Routed, ForVenue
    <2>2. e = Idle \/ (e \in [pc : {"held", "counted", "wire", "answering"}, cmd : Orders]
                         /\ e.cmd \in ForVenue(v))
      BY <1>4, <2>1
    <2>3. ex' \in [Venues -> {Idle} \cup [pc : {"held", "counted", "wire", "answering"}, cmd : Orders]]
      BY <1>0, <1>4, <2>2
    <2>4. Routed'
      BY <1>0, <1>4, <2>2, IdleType DEF Routed
    <2>. QED BY <1>0, <1>4, <2>3, <2>4
  <1>5. ASSUME NEW v \in Venues, LetsGo(v) \/ Returns(v) PROVE Goal
    BY <1>0, <1>4, <1>5 DEF LetsGo, Returns
  <1>6. ASSUME NEW v \in Venues, EntersCount(v) PROVE Goal
    <2>1. ex[v].cmd \in Orders
      BY <1>6, ExType DEF EntersCount, HInv
    <2>2. Busy("counted", ex[v].cmd) \in [pc : {"held", "counted", "wire", "answering"}, cmd : {ex[v].cmd}]
      BY DEF Busy
    <2>. QED BY <1>0, <1>4, <1>6, <2>1, <2>2 DEF EntersCount
  <1>7. ASSUME NEW v \in Venues, EntersLatch(v) PROVE Goal
    <2>1. ex[v].cmd \in Orders
      BY <1>7, ExType DEF EntersLatch, HInv
    <2>2. Busy("wire", ex[v].cmd) \in [pc : {"held", "counted", "wire", "answering"}, cmd : {ex[v].cmd}]
      BY DEF Busy
    <2>3. /\ ex[v].pc # "idle" /\ UNCHANGED <<queue, todo, aside>>
          /\ inflight' \subseteq Orders /\ discarded' \subseteq Orders
      BY <1>0, <1>7, <2>1 DEF EntersLatch
    <2>4. ex' = [ex EXCEPT ![v] = Idle] \/ ex' = [ex EXCEPT ![v] = Busy("wire", ex[v].cmd)]
      BY <1>7 DEF EntersLatch
    <2>5. CASE ex' = [ex EXCEPT ![v] = Idle]
      BY <1>4, <2>3, <2>5
    <2>6. CASE ex' = [ex EXCEPT ![v] = Busy("wire", ex[v].cmd)]
      BY <1>4, <2>2, <2>3, <2>6
    <2>. QED BY <2>4, <2>5, <2>6
  <1>8. ASSUME NEW v \in Venues, Reaches(v) PROVE Goal
    <2>1. Busy("answering", ex[v].cmd) \in [pc : {"held", "counted", "wire", "answering"}, cmd : {ex[v].cmd}]
      BY DEF Busy
    <2>. QED BY <1>0, <1>4, <1>8, <2>1 DEF Reaches
  <1>9. ASSUME UNCHANGED <<queue, ex, inflight, discarded, todo, aside>> PROVE Goal
    BY <1>0, <1>9 DEF Routed
  <1>10. ASSUME NEW v \in Venues, NEW o \in Orders, Sweeping(v) \/ OrderLeaves(v, o) PROVE Goal
    BY <1>9, <1>10 DEF Sweeping, OrderLeaves, execVars
  <1>11. ASSUME CheckpointFails PROVE Goal
    BY <1>9, <1>11 DEF CheckpointFails, execVars
  <1>12. ASSUME NEW h \in Halters, Begins(h) \/ Halting(h) PROVE Goal
    BY <1>9, <1>12 DEF Begins, Halting, Claims, Quiesces, Concludes, Exits, LoserExits, execVars
  <1>13. ASSUME NEW v \in Venues, Sweeping(v) PROVE Goal
    BY <1>9, <1>13 DEF Sweeping, execVars
  <1>. HIDE DEF Goal
  <1>14. ASSUME NEW o \in Orders, Emits(o) \/ SidecarSends(o) \/ SidecarReaches(o) PROVE Goal
    BY <1>1, <1>2, <1>14
  <1>15. ASSUME NEW v \in Venues, Takes(v) \/ LetsGo(v) \/ EntersCount(v) \/ EntersLatch(v) PROVE Goal
    BY <1>3, <1>5, <1>6, <1>7, <1>15
  <1>16. ASSUME NEW v \in Venues, Reaches(v) \/ Returns(v) \/ Sweeping(v) PROVE Goal
    BY <1>5, <1>8, <1>13, <1>16
  <1>17. ASSUME NEW v \in Venues, NEW o \in Orders, OrderLeaves(v, o) PROVE Goal
    BY <1>10, <1>17
  <1>18. Goal
    BY <1>11, <1>12, <1>14, <1>15, <1>16, <1>17 DEF Next
  <1>. QED BY <1>18 DEF Goal

(* Who owns the exit, and what has been decided. *)
LEMMA StepOwner ==
  ASSUME HInv, Next
  PROVE  /\ halted' \in BOOLEAN /\ claimed' \in BOOLEAN /\ stuck' \in BOOLEAN /\ leg' \in BOOLEAN
         /\ halter' \in [Halters -> {"running", "claiming", "quiescing", "sweeping",
                                     "concluded", "waiting", "gone"}]
         /\ exit' \in {Running, 0, 17, 18, 19, 70, 101}
         /\ Latched' /\ Owned' /\ OneOwner'
  <1>. DEFINE Goal == /\ halted' \in BOOLEAN /\ claimed' \in BOOLEAN /\ stuck' \in BOOLEAN /\ leg' \in BOOLEAN
                     /\ halter' \in [Halters -> {"running", "claiming", "quiescing", "sweeping",
                                                 "concluded", "waiting", "gone"}]
                     /\ exit' \in {Running, 0, 17, 18, 19, 70, 101}
                     /\ Latched' /\ Owned' /\ OneOwner'
  <1>0. /\ halted \in BOOLEAN /\ claimed \in BOOLEAN /\ stuck \in BOOLEAN /\ leg \in BOOLEAN
        /\ halter \in [Halters -> {"running", "claiming", "quiescing", "sweeping",
                                   "concluded", "waiting", "gone"}]
        /\ exit \in {Running, 0, 17, 18, 19, 70, 101}
        /\ Latched /\ Owned /\ OneOwner
    BY DEF HInv, TypeOK
  <1>1. ASSUME UNCHANGED <<halted, halterVars>> PROVE Goal
    BY <1>0, <1>1 DEF halterVars, Latched, Owned, OneOwner
  <1>2. ASSUME NEW o \in Orders, Emits(o) \/ SidecarSends(o) \/ SidecarReaches(o) PROVE Goal
    BY <1>1, <1>2 DEF Emits, SidecarSends, SidecarReaches
  <1>3. ASSUME NEW v \in Venues, Takes(v) \/ LetsGo(v) \/ EntersCount(v) \/ EntersLatch(v) PROVE Goal
    BY <1>1, <1>3 DEF Takes, LetsGo, EntersCount, EntersLatch
  <1>4. ASSUME NEW v \in Venues, Reaches(v) \/ Returns(v) \/ Sweeping(v) PROVE Goal
    BY <1>1, <1>4 DEF Reaches, Returns, Sweeping, execVars
  <1>5. ASSUME NEW v \in Venues, NEW o \in Orders, OrderLeaves(v, o) PROVE Goal
    BY <1>1, <1>5 DEF OrderLeaves, execVars
  <1>6. ASSUME CheckpointFails PROVE Goal
    BY <1>0, <1>6 DEF CheckpointFails, execVars, Latched, Owned, OneOwner
  <1>7. ASSUME NEW h \in Halters, Begins(h) PROVE Goal
    BY <1>0, <1>7 DEF Begins, Latched, Owned, OneOwner, Owning
  <1>8. ASSUME NEW h \in Halters, Claims(h) PROVE Goal
    BY <1>0, <1>8 DEF Claims, execVars, Latched, Owned, OneOwner, Owning
  <1>9. ASSUME NEW h \in Halters, Quiesces(h) \/ Concludes(h) PROVE Goal
    <2>1. stuck' \in BOOLEAN /\ leg' \in BOOLEAN
      BY <1>0, <1>9 DEF Quiesces, Concludes
    <2>2. /\ UNCHANGED <<halted, claimed, exit>>
          /\ \/ halter[h] = "quiescing" /\ halter' = [halter EXCEPT ![h] = "sweeping"]
             \/ halter[h] = "sweeping" /\ halter' = [halter EXCEPT ![h] = "concluded"]
      BY <1>9 DEF Quiesces, Concludes, execVars
    <2>3. Latched' /\ Owned' /\ OneOwner'
      BY <1>0, <2>2 DEF Latched, Owned, OneOwner, Owning
    <2>. QED BY <1>0, <2>1, <2>2, <2>3
  <1>10. ASSUME NEW h \in Halters, Exits(h) \/ LoserExits(h) PROVE Goal
    <2>1. OwnCode(h) \in {0, 70, 101}
      BY HaltAssumption DEF OwnCode
    <2>2. exit' \in {Running, 0, 17, 18, 19, 70, 101}
      BY <1>10, <2>1 DEF Exits, LoserExits, ExitCode
    <2>. QED BY <1>0, <1>10, <2>2 DEF Exits, LoserExits, execVars, Latched, Owned, OneOwner
  <1>. HIDE DEF Goal
  <1>11. ASSUME NEW h \in Halters, Begins(h) \/ Halting(h) PROVE Goal
    BY <1>7, <1>8, <1>9, <1>10, <1>11 DEF Halting
  <1>12. Goal
    BY <1>2, <1>3, <1>4, <1>5, <1>6, <1>11 DEF Next
  <1>. QED BY <1>12 DEF Goal

(* An executor's place on the wire is counted until its call returns. *)
LEMMA StepCounted ==
  ASSUME HInv, Next PROVE Counted'
  <1>0. /\ ex \in [Venues -> {Idle} \cup [pc : {"held", "counted", "wire", "answering"}, cmd : Orders]]
        /\ Counted
    BY DEF HInv, TypeOK
  <1>1. ASSUME NEW v \in Venues, NEW w \in Venues, ex[v].pc # "idle", ex[w].pc # "idle",
               ex[v].cmd = ex[w].cmd
        PROVE  v = w
    BY <1>1 DEF HInv, Routed, ForVenue
  <1>2. ASSUME UNCHANGED <<ex, inflight>> PROVE Counted'
    BY <1>0, <1>2 DEF Counted
  <1>3. ASSUME NEW o \in Orders, Emits(o) \/ SidecarSends(o) \/ SidecarReaches(o) PROVE Counted'
    BY <1>2, <1>3 DEF Emits, SidecarSends, SidecarReaches
  <1>4. ASSUME NEW v \in Venues, Takes(v) PROVE Counted'
    <2>1. inflight' = inflight /\ (ex' = ex \/ \E o : ex' = [ex EXCEPT ![v] = Busy("held", o)])
      BY <1>4 DEF Takes
    <2>. QED BY <1>0, <2>1 DEF Counted, Busy, OnWire
  <1>5. ASSUME NEW v \in Venues, LetsGo(v) PROVE Counted'
    BY <1>0, <1>5, IdleType DEF LetsGo, Counted, OnWire
  <1>6. ASSUME NEW v \in Venues, EntersCount(v) PROVE Counted'
    BY <1>0, <1>6 DEF EntersCount, Counted, Busy, OnWire
  <1>7. ASSUME NEW v \in Venues, NEW e, ex[v].pc \in OnWire \cup {"counted"}, e = Idle,
               ex' = [ex EXCEPT ![v] = e], inflight' = inflight \ {ex[v].cmd}
        PROVE  Counted'
    <2>1. ASSUME NEW w \in Venues, ex'[w].pc \in OnWire \cup {"counted"} PROVE ex'[w].cmd \in inflight'
      <3>1. w # v
        BY <1>0, <1>7, <2>1, IdleType DEF OnWire
      <3>2. ex'[w] = ex[w] /\ ex[w].cmd \in inflight
        BY <1>0, <1>7, <2>1, <3>1 DEF Counted
      <3>3. ex[w].cmd # ex[v].cmd
        BY <1>1, <1>7, <2>1, <3>1, <3>2 DEF OnWire
      <3>. QED BY <1>7, <3>2, <3>3
    <2>. QED BY <2>1 DEF Counted
  <1>8. ASSUME NEW v \in Venues, EntersLatch(v) PROVE Counted'
    <2>1. CASE halted
      BY <1>7, <1>8, <2>1 DEF EntersLatch, OnWire
    <2>2. CASE ~halted
      BY <1>0, <1>8, <2>2 DEF EntersLatch, Counted, Busy, OnWire
    <2>. QED BY <2>1, <2>2
  <1>9. ASSUME NEW v \in Venues, Reaches(v) PROVE Counted'
    BY <1>0, <1>9 DEF Reaches, Counted, Busy, OnWire
  <1>10. ASSUME NEW v \in Venues, Returns(v) PROVE Counted'
    BY <1>7, <1>10 DEF Returns, OnWire
  <1>11. ASSUME NEW v \in Venues, Sweeping(v) PROVE Counted'
    BY <1>2, <1>11 DEF Sweeping, execVars
  <1>12. ASSUME NEW v \in Venues, NEW o \in Orders, OrderLeaves(v, o) PROVE Counted'
    BY <1>2, <1>12 DEF OrderLeaves, execVars
  <1>13. ASSUME CheckpointFails PROVE Counted'
    BY <1>2, <1>13 DEF CheckpointFails, execVars
  <1>14. ASSUME NEW h \in Halters, Begins(h) \/ Halting(h) PROVE Counted'
    BY <1>2, <1>14 DEF Begins, Halting, Claims, Quiesces, Concludes, Exits, LoserExits, execVars
  <1>15. ASSUME NEW v \in Venues,
                \/ Takes(v) \/ LetsGo(v) \/ EntersCount(v) \/ EntersLatch(v)
                \/ Reaches(v) \/ Returns(v) \/ Sweeping(v)
         PROVE  Counted'
    BY <1>4, <1>5, <1>6, <1>8, <1>9, <1>10, <1>11, <1>15
  <1>. QED BY <1>3, <1>12, <1>13, <1>14, <1>15 DEF Next

(* Once the owner has found no place in flight, none goes on the wire, and  *)
(* what lands during the reads is the maker-exit task's.                    *)
LEMMA StepSettles ==
  ASSUME HInv, Next PROVE Settles'
  <1>0. /\ ex \in [Venues -> {Idle} \cup [pc : {"held", "counted", "wire", "answering"}, cmd : Orders]]
        /\ halter \in [Halters -> {"running", "claiming", "quiescing", "sweeping",
                                   "concluded", "waiting", "gone"}]
        /\ sweep \in [Venues -> Sweeps] /\ SweepInv
        /\ Settles /\ Counted /\ aside \subseteq Sidecars
    BY DEF HInv, TypeOK, SweepTypeOK, Aside
  <1>1. Settled => halted
    BY DEF HInv, Latched, Settled
  <1>2. ASSUME NEW v \in Venues, NEW o \in Sidecars, Lands(v, o), UNCHANGED <<ex, stuck, halter>>
        PROVE  Settles'
    <2>. DEFINE n == IF sweep[v].empties > 0 THEN sweep[v].late \cup {o} ELSE sweep[v].late
                s == [sweep[v] EXCEPT !.late = n]
    <2>1. sweep' = [sweep EXCEPT ![v] = s]
      BY <1>2 DEF Lands
    <2>2. s.late \subseteq sweep[v].late \cup Sidecars
      BY <1>0 DEF Sweeps
    <2>. HIDE DEF s
    <2>. QED BY <1>0, <1>2, <2>1, <2>2 DEF Settles, Settled
  <1>3. ASSUME UNCHANGED <<ex, sweep, stuck, halter>> PROVE Settles'
    BY <1>0, <1>3 DEF Settles, Settled
  <1>4. ASSUME NEW o \in Orders, Emits(o) \/ SidecarSends(o) PROVE Settles'
    BY <1>3, <1>4 DEF Emits, SidecarSends, sweepVars, halterVars
  <1>5. ASSUME NEW o \in Orders, SidecarReaches(o) PROVE Settles'
    <2>1. At[o] \in Venues /\ o \in Sidecars
      BY <1>0, <1>5, HaltAssumption DEF SidecarReaches
    <2>. QED BY <1>2, <1>5, <2>1 DEF SidecarReaches, halterVars
  <1>6. ASSUME NEW v \in Venues, NEW e, UNCHANGED <<sweep, stuck, halter>>,
               ex' = ex \/ (ex' = [ex EXCEPT ![v] = e] /\ e.pc \notin OnWire)
        PROVE  Settles'
    BY <1>0, <1>6 DEF Settles, Settled
  <1>7. ASSUME NEW v \in Venues, Takes(v) PROVE Settles'
    <2>1. PICK o : ex' = ex \/ ex' = [ex EXCEPT ![v] = Busy("held", o)]
      BY <1>7 DEF Takes
    <2>2. Busy("held", o).pc \notin OnWire
      BY DEF Busy, OnWire
    <2>. QED BY <1>6, <1>7, <2>1, <2>2 DEF Takes, sweepVars, halterVars
  <1>8. ASSUME NEW v \in Venues, LetsGo(v) \/ Returns(v) PROVE Settles'
    BY <1>6, <1>8, IdleType DEF LetsGo, Returns, sweepVars, halterVars, OnWire
  <1>9. ASSUME NEW v \in Venues, EntersCount(v) PROVE Settles'
    <2>1. Busy("counted", ex[v].cmd).pc \notin OnWire
      BY DEF Busy, OnWire
    <2>. QED BY <1>6, <1>9, <2>1 DEF EntersCount, sweepVars, halterVars
  <1>10. ASSUME NEW v \in Venues, EntersLatch(v) PROVE Settles'
    <2>1. CASE halted
      BY <1>6, <1>10, <2>1, IdleType DEF EntersLatch, sweepVars, halterVars, OnWire
    <2>2. CASE ~halted
      BY <1>1, <1>10, <2>2 DEF EntersLatch, sweepVars, halterVars, Settles, Settled
    <2>. QED BY <2>1, <2>2
  <1>11. ASSUME NEW v \in Venues, Reaches(v) PROVE Settles'
    <2>1. ~Settled
      BY <1>0, <1>11 DEF Reaches, Settles, OnWire
    <2>. QED BY <1>11, <2>1 DEF Reaches, halterVars, Settles, Settled
  <1>12. ASSUME NEW v \in Venues, Sweeping(v) PROVE Settles'
    <2>1. \A w \in Venues : sweep'[w].late \subseteq sweep[w].late
      BY <1>0, <1>12, SweepOnlyRemoves DEF Sweeping
    <2>. QED BY <1>0, <1>12, <2>1 DEF Sweeping, execVars, halterVars, Settles, Settled
  <1>13. ASSUME NEW v \in Venues, NEW o \in Orders, OrderLeaves(v, o) PROVE Settles'
    BY <1>3, <1>13 DEF OrderLeaves, Leaves, execVars, halterVars
  <1>14. ASSUME CheckpointFails PROVE Settles'
    BY <1>3, <1>14 DEF CheckpointFails, sweepVars, execVars
  <1>15. ASSUME NEW h \in Halters, Begins(h) \/ Claims(h) \/ Concludes(h) PROVE Settles'
    <2>1. UNCHANGED <<ex, sweep, stuck>>
      BY <1>15 DEF Begins, Claims, Concludes, sweepVars, execVars
    <2>2. Settled' => Settled
      BY <1>0, <1>15, <2>1 DEF Begins, Claims, Concludes, Settled
    <2>. QED BY <1>0, <2>1, <2>2 DEF Settles
  <1>16. ASSUME NEW h \in Halters, Exits(h) \/ LoserExits(h) PROVE Settles'
    BY <1>3, <1>16 DEF Exits, LoserExits, sweepVars, execVars
  <1>17. ASSUME NEW h \in Halters, Quiesces(h) PROVE Settles'
    <2>1. ~stuck' => \A v \in Venues : ex[v].pc \notin OnWire
      BY <1>0, <1>17 DEF Quiesces, Counted
    <2>2. \A v \in Venues : sweep'[v].late = {}
      BY <1>17 DEF Quiesces, FreshSweep
    <2>. QED BY <1>17, <2>1, <2>2 DEF Quiesces, execVars, Settles, Settled
  <1>18. ASSUME NEW h \in Halters, Begins(h) \/ Halting(h) PROVE Settles'
    BY <1>15, <1>16, <1>17, <1>18 DEF Halting
  <1>19. ASSUME NEW v \in Venues,
                \/ Takes(v) \/ LetsGo(v) \/ EntersCount(v) \/ EntersLatch(v)
                \/ Reaches(v) \/ Returns(v) \/ Sweeping(v)
         PROVE  Settles'
    BY <1>7, <1>8, <1>9, <1>10, <1>11, <1>12, <1>19
  <1>. QED BY <1>4, <1>5, <1>13, <1>14, <1>18, <1>19 DEF Next

(* Verdicts stand once the owner has concluded, and the exit code, once     *)
(* there is one, is what they say.                                          *)
LEMMA StepDecided ==
  ASSUME HInv, Next PROVE Decided' /\ Certified'
  <1>. DEFINE Goal == Decided' /\ Certified'
  <1>0. /\ halter \in [Halters -> {"running", "claiming", "quiescing", "sweeping",
                                   "concluded", "waiting", "gone"}]
        /\ sweep \in [Venues -> Sweeps]
        /\ Decided /\ Certified /\ OneOwner
    BY DEF HInv, TypeOK, SweepTypeOK
  <1>1. exit = Running
    BY DEF Next, Halting, Emits, SidecarSends, SidecarReaches, Takes, LetsGo, EntersCount,
           EntersLatch, Reaches, Returns, Sweeping, OrderLeaves, CheckpointFails, Begins,
           Claims, Quiesces, Concludes, Exits, LoserExits, Up
  <1>2. ASSUME exit' = exit, Decided' PROVE Goal
    BY <1>1, <1>2 DEF Certified, Running
  <1>3. ASSUME UNCHANGED <<sweep, halter, exit>> PROVE Goal
    BY <1>0, <1>2, <1>3 DEF Decided
  <1>4. ASSUME NEW v \in Venues, NEW o \in Orders, Lands(v, o), UNCHANGED <<halter, exit>> PROVE Goal
    <2>. DEFINE n == IF sweep[v].empties > 0 THEN sweep[v].late \cup {o} ELSE sweep[v].late
                s == [sweep[v] EXCEPT !.late = n]
    <2>1. sweep' = [sweep EXCEPT ![v] = s]
      BY <1>4 DEF Lands
    <2>2. s.pc = sweep[v].pc
      BY <1>0 DEF Sweeps
    <2>. HIDE DEF s
    <2>. QED BY <1>0, <1>2, <1>4, <2>1, <2>2 DEF Decided
  <1>5. ASSUME NEW o \in Orders, Emits(o) \/ SidecarSends(o) PROVE Goal
    BY <1>3, <1>5 DEF Emits, SidecarSends, sweepVars, halterVars
  <1>6. ASSUME NEW o \in Orders, SidecarReaches(o) PROVE Goal
    BY <1>4, <1>6, HaltAssumption DEF SidecarReaches, halterVars
  <1>7. ASSUME NEW v \in Venues,
               Takes(v) \/ LetsGo(v) \/ EntersCount(v) \/ EntersLatch(v) \/ Returns(v)
        PROVE  Goal
    BY <1>3, <1>7 DEF Takes, LetsGo, EntersCount, EntersLatch, Returns, sweepVars, halterVars
  <1>8. ASSUME NEW v \in Venues, Reaches(v) PROVE Goal
    <2>1. ex[v].cmd \in Orders
      BY <1>8, ExType DEF Reaches, HInv
    <2>. QED BY <1>3, <1>4, <1>8, <2>1 DEF Reaches, sweepVars, halterVars
  <1>9. ASSUME NEW v \in Venues, Sweeping(v) PROVE Goal
    <2>1. sweep[v].pc \notin Verdicts
      BY <1>9 DEF Sweeping, SweepStep, CancelAll, CancelRefused, CancelRound, ReadsEmpty, ReadsOrders,
                  CannotRead, Polled, SweepAbandoned, Verdicts
    <2>. QED BY <1>0, <1>2, <1>9, <2>1 DEF Sweeping, halterVars, Decided
  <1>10. ASSUME NEW v \in Venues, NEW o \in Orders, OrderLeaves(v, o) PROVE Goal
    BY <1>3, <1>10 DEF OrderLeaves, Leaves, halterVars
  <1>11. ASSUME CheckpointFails PROVE Goal
    BY <1>0, <1>11 DEF CheckpointFails, sweepVars, Decided, Certified
  <1>12. ASSUME NEW h \in Halters, Begins(h) \/ Claims(h) PROVE Goal
    BY <1>0, <1>2, <1>12 DEF Begins, Claims, sweepVars, Decided
  <1>13. ASSUME NEW h \in Halters, Quiesces(h) PROVE Goal
    <2>1. \A g \in Halters : halter[g] # "concluded"
      BY <1>13 DEF Quiesces, HInv, OneOwner
    <2>. QED BY <1>0, <1>2, <1>13, <2>1 DEF Quiesces, Decided
  <1>14. ASSUME NEW h \in Halters, Concludes(h) PROVE Goal
    BY <1>0, <1>2, <1>14 DEF Concludes, sweepVars, Decided
  <1>15. ASSUME NEW h \in Halters, LoserExits(h) PROVE Goal
    BY <1>0, <1>15 DEF LoserExits, sweepVars, Decided, Certified
  <1>16. ASSUME NEW h \in Halters, Exits(h) PROVE Goal
    <2>1. UNCHANGED <<sweep, halter, stuck>> /\ halter[h] = "concluded" /\ exit' = ExitCode(h)
      BY <1>16 DEF Exits, sweepVars
    <2>2. \A v \in Venues : sweep[v].pc \in Verdicts
      BY <1>0, <2>1 DEF Decided
    <2>3. exit' \in {0, 70, 101} => ~stuck /\ \A v \in Venues : sweep[v].pc = "clean"
      BY <2>1, <2>2 DEF ExitCode, Verdicts
    <2>4. Certified'
      BY <2>1, <2>3 DEF Certified, Settled
    <2>. QED BY <1>0, <2>1, <2>4 DEF Decided
  <1>. HIDE DEF Goal
  <1>17. ASSUME NEW h \in Halters, Begins(h) \/ Halting(h) PROVE Goal
    BY <1>12, <1>13, <1>14, <1>15, <1>16, <1>17 DEF Halting
  <1>18. ASSUME NEW v \in Venues,
                \/ Takes(v) \/ LetsGo(v) \/ EntersCount(v) \/ EntersLatch(v)
                \/ Reaches(v) \/ Returns(v) \/ Sweeping(v)
         PROVE  Goal
    BY <1>7, <1>8, <1>9, <1>18
  <1>19. Goal
    BY <1>5, <1>6, <1>10, <1>11, <1>17, <1>18 DEF Next
  <1>. QED BY <1>19 DEF Goal

(* Only the maker-exit task calls a sink past the executors. *)
LEMMA StepAside ==
  ASSUME HInv, Next PROVE Aside'
  <1>0. aside \subseteq Sidecars
    BY DEF HInv, Aside
  <1>1. aside' \subseteq aside \/ \E o \in Orders : Kind[o] = "sidecar" /\ aside' = aside \cup {o}
    BY DEF Next, Halting, Emits, SidecarSends, SidecarReaches, Takes, LetsGo, EntersCount,
           EntersLatch, Reaches, Returns, Sweeping, OrderLeaves, CheckpointFails, Begins,
           Claims, Quiesces, Concludes, Exits, LoserExits, execVars
  <1>. QED BY <1>0, <1>1 DEF Aside, Sidecars

(* The invariant survives a step that changes nothing.                      *)
LEMMA StepStutter ==
  ASSUME HInv, UNCHANGED vars PROVE HInv'
  <1>. USE DEF vars, sweepVars, execVars, halterVars
  <1>1. TypeOK' /\ SweepInv'
    BY DEF HInv, TypeOK, SweepInv, SweepTypeOK, SweepSound
  <1>2. Latched' /\ Owned' /\ OneOwner'
    BY DEF HInv, Latched, Owned, OneOwner
  <1>3. Routed' /\ Counted' /\ Aside'
    BY DEF HInv, Routed, Counted, Aside
  <1>4. Settles' /\ Decided' /\ Certified'
    BY DEF HInv, Settles, Settled, Decided, Certified
  <1>. QED BY <1>1, <1>2, <1>3, <1>4 DEF HInv

(* Every step keeps the invariant.                                          *)
LEMMA HaltStep == HInv /\ [Next]_vars => HInv'
  <1>. SUFFICES ASSUME HInv, Next PROVE HInv'
    BY StepStutter
  <1>1. SweepInv' /\ SweepTypeOK'
    BY StepSweep DEF SweepInv
  <1>2. TypeOK'
    BY <1>1, StepExecType, StepOwner DEF TypeOK
  <1>. QED BY <1>1, <1>2, StepExecType, StepOwner, StepCounted, StepAside, StepSettles, StepDecided DEF HInv

-----------------------------------------------------------------------------
(* The strengthened invariant holds of every behaviour of the exit.         *)
THEOREM Invariance == Spec => []HInv
  <1>. QED BY HaltInit, HaltStep, PTL DEF Spec

(* Every variable of the exit keeps its type.                               *)
THEOREM TypeCorrect == Spec => []TypeOK
  <1>1. HInv => TypeOK
    BY DEF HInv
  <1>. QED BY <1>1, Invariance, PTL

(* However many entry points halt the process, and in whatever order they   *)
(* latch and claim, at most one quiesces, sweeps and decides the code.      *)
THEOREM OneOwnerOfTheExit == Spec => []OneOwner
  <1>1. HInv => OneOwner
    BY DEF HInv
  <1>. QED BY <1>1, Invariance, PTL

(* With a policy that asks for two empty reads or more, a verdict of clean  *)
(* leaves at a venue only what landed after the first of them: the lag of   *)
(* the list cannot hide an order.                                           *)
THEOREM CleanVerdictIsProof ==
  ASSUME NeedEmpty >= 2
  PROVE  Spec => []CleanIsProof
  <1>1. HInv => CleanIsProof
    <2>. SUFFICES ASSUME HInv, NEW v \in Venues, sweep[v].pc = "clean"
                  PROVE  book[v] \subseteq sweep[v].late
      BY DEF CleanIsProof
    <2>1. SweepSound(sweep[v], book[v], listed[v]) /\ sweep[v].empties \in Nat
      BY Policy DEF HInv, SweepInv, SweepTypeOK, Sweeps
    <2>. QED BY <2>1, Policy DEF SweepSound
  <1>. QED BY <1>1, Invariance, PTL

(* Under the same policy, an exit code that says clean means that no order  *)
(* of an executor rests at a venue or is on the wire to one: what may be    *)
(* left is the maker-exit task's.                                           *)
THEOREM CleanExitIsClean ==
  ASSUME NeedEmpty >= 2
  PROVE  Spec => []CleanExitLeavesNothing
  <1>1. HInv => CleanExitLeavesNothing
    <2>. SUFFICES ASSUME HInv, exit \in {0, 70, 101}, NEW v \in Venues
                  PROVE  book[v] \subseteq Sidecars /\ ex[v].pc # "wire"
      BY DEF CleanExitLeavesNothing
    <2>1. sweep[v].pc = "clean" /\ sweep[v].late \subseteq Sidecars /\ ex[v].pc \notin OnWire
      BY DEF HInv, Certified, Settles
    <2>2. SweepSound(sweep[v], book[v], listed[v]) /\ sweep[v].empties \in Nat
      BY Policy DEF HInv, SweepInv, SweepTypeOK, Sweeps
    <2>. QED BY <2>1, <2>2, Policy DEF SweepSound, OnWire
  <1>. QED BY <1>1, Invariance, PTL

(* The count and the latch of Halt::enter leave no interleaving in which a  *)
(* place of an executor reaches a venue after the owner found none in       *)
(* flight: every order that lands from then on is the maker-exit task's.    *)
THEOREM NonePastTheLatch == Spec => NoneSlipsOut
  <1>. DEFINE Step == Settled => \A v \in Venues : book'[v] \ book[v] \subseteq Sidecars
  <1>1. HInv /\ [Next]_vars => [Step]_vars
    <2>. SUFFICES ASSUME HInv, Next, Settled, NEW w \in Venues
                  PROVE  book'[w] \ book[w] \subseteq Sidecars
      OBVIOUS
    <2>0. book \in [Venues -> SUBSET Orders] /\ SweepInv /\ aside \subseteq Sidecars
          /\ \A v \in Venues : ex[v].pc \notin OnWire
      BY DEF HInv, TypeOK, SweepTypeOK, Aside, Settles
    <2>1. ASSUME book' = book PROVE book'[w] \ book[w] \subseteq Sidecars
      BY <2>1
    <2>2. ASSUME NEW o \in Orders, SidecarReaches(o) PROVE book'[w] \ book[w] \subseteq Sidecars
      BY <2>0, <2>2 DEF SidecarReaches, Lands
    <2>3. ASSUME NEW v \in Venues, Reaches(v) PROVE FALSE
      BY <2>0, <2>3 DEF Reaches, OnWire
    <2>4. ASSUME NEW v \in Venues, Sweeping(v) PROVE book'[w] \ book[w] \subseteq Sidecars
      BY <2>0, <2>4, SweepOnlyRemoves DEF Sweeping
    <2>5. ASSUME NEW v \in Venues, NEW o \in Orders, OrderLeaves(v, o)
          PROVE  book'[w] \ book[w] \subseteq Sidecars
      BY <2>0, <2>5 DEF OrderLeaves, Leaves
    <2>6. CASE UNCHANGED sweepVars
      BY <2>1, <2>6 DEF sweepVars
    <2>7. ASSUME NEW h \in Halters, Quiesces(h) PROVE book'[w] \ book[w] \subseteq Sidecars
      BY <2>1, <2>7 DEF Quiesces
    <2>8. ASSUME NEW o \in Orders, Emits(o) \/ SidecarSends(o) PROVE UNCHANGED sweepVars
      BY <2>8 DEF Emits, SidecarSends
    <2>9. ASSUME NEW v \in Venues,
                 Takes(v) \/ LetsGo(v) \/ EntersCount(v) \/ EntersLatch(v) \/ Returns(v)
          PROVE  UNCHANGED sweepVars
      BY <2>9 DEF Takes, LetsGo, EntersCount, EntersLatch, Returns
    <2>10. ASSUME NEW h \in Halters,
                  Begins(h) \/ Claims(h) \/ Concludes(h) \/ Exits(h) \/ LoserExits(h)
           PROVE  UNCHANGED sweepVars
      BY <2>10 DEF Begins, Claims, Concludes, Exits, LoserExits
    <2>11. ASSUME CheckpointFails PROVE UNCHANGED sweepVars
      BY <2>11 DEF CheckpointFails
    <2>. QED BY <2>2, <2>3, <2>4, <2>5, <2>6, <2>7, <2>8, <2>9, <2>10, <2>11 DEF Next, Halting
  <1>2. [][Step]_vars <=> NoneSlipsOut
    BY DEF NoneSlipsOut, Settled
  <1>. QED BY <1>1, <1>2, Invariance, PTL DEF Spec

-----------------------------------------------------------------------------
(* What an accepted cancel-all must have been shown is gone, and comes back *)
(* no more: an order is sent once, and lands at most once.                  *)

(* An accepted cancel-all has left nothing of what it must have been shown, *)
(* and nothing else makes a verdict of unconfirmed.                         *)
Hides(s, b) ==
    /\ s.accepted => b \cap s.before = {}
    /\ s.pc = "unconfirmed" => s.accepted

(* Whatever has rested at v, as far as a sweep can tell.                    *)
Rested(v) == book[v] \cup listed[v] \cup sweep[v].before

(* The places that may yet land at v: not sent, on the wire, or on the way  *)
(* there by v's executor.                                                   *)
ToReach == {"held", "counted", "wire"}
Ahead(v, o) ==
    /\ At[o] = v
    /\ \/ o \in todo \cup aside
       \/ \E i \in DOMAIN queue[v] : queue[v][i] = o
       \/ ex[v].pc \in ToReach /\ ex[v].cmd = o

(* Each order is in one place only.                                         *)
SentOnce ==
    /\ aside \cap todo = {}
    /\ \A v \in Venues : \A i, j \in DOMAIN queue[v] : queue[v][i] = queue[v][j] => i = j
    /\ \A v \in Venues : \A i \in DOMAIN queue[v] :
          queue[v][i] \notin todo /\ Kind[queue[v][i]] # "sidecar"
    /\ \A v \in Venues : ex[v].pc \in ToReach =>
          /\ ex[v].cmd \notin todo /\ Kind[ex[v].cmd] # "sidecar"
          /\ \A i \in DOMAIN queue[v] : queue[v][i] # ex[v].cmd

LandsOnce == \A v \in Venues : \A o \in Rested(v) : At[o] = v /\ ~Ahead(v, o)

HidesNone == \A v \in Venues : Hides(sweep[v], book[v])

HideInv == SentOnce /\ LandsOnce /\ HidesNone

(* A poll moves neither the last cancel-all's answer nor what it was shown. *)
LEMMA AfterPollHides ==
  ASSUME NEW s \in Sweeps, s.pc = "read", NEW t \in AfterPoll(s)
  PROVE  /\ t.before = s.before /\ t.accepted = s.accepted
         /\ t.pc = "unconfirmed" => t.accepted
  <1>1. CASE t = [s EXCEPT !.pc = Verdict(s)]
    BY <1>1 DEF Sweeps, Verdict
  <1>2. CASE t = s
    BY <1>2
  <1>3. CASE t = [s EXCEPT !.pc = "cancel"]
    BY <1>3 DEF Sweeps
  <1>. QED BY <1>1, <1>2, <1>3 DEF AfterPoll

(* A poll that goes on as `answers` say hides nothing.                      *)
LEMMA PolledHides ==
  ASSUME SweepInv, NEW v \in Venues, NEW answers, Polled(v, answers), HidesNone,
         \A t \in answers : /\ t.before = sweep[v].before /\ t.accepted = sweep[v].accepted
                            /\ t.pc = "unconfirmed" => t.accepted
  PROVE  HidesNone' /\ \A w \in Venues : Rested(w)' \subseteq Rested(w)
  <1>1. PICK t \in answers : sweep' = [sweep EXCEPT ![v] = t]
    BY DEF Polled
  <1>2. /\ sweep \in [Venues -> Sweeps] /\ listed \in [Venues -> SUBSET Orders]
        /\ listed' = [listed EXCEPT ![v] = book[v]] /\ book' = book
    BY DEF SweepInv, SweepTypeOK, Polled
  <1>. QED BY <1>1, <1>2 DEF HidesNone, Hides, Rested

(* A step of a sweep hides nothing, and brings nothing back.                *)
LEMMA SweepHides ==
  ASSUME SweepInv, NEW v \in Venues, SweepStep(v), HidesNone
  PROVE  HidesNone' /\ \A w \in Venues : Rested(w)' \subseteq Rested(w)
  <1>0. /\ sweep[v] \in Sweeps /\ sweep \in [Venues -> Sweeps]
        /\ book \in [Venues -> SUBSET Orders] /\ listed \in [Venues -> SUBSET Orders]
        /\ SweepSound(sweep[v], book[v], listed[v])
    BY DEF SweepInv, SweepTypeOK
  <1>1. ASSUME sweep[v].pc = "read"
        PROVE  /\ sweep[v].poll + 1 \in 0..Polls /\ sweep[v].empties + 1 \in 0..NeedEmpty
               /\ 0 \in 0..NeedEmpty
    BY <1>0, <1>1, Policy DEF SweepSound, Sweeps
  <1>2. ASSUME NEW s \in Sweeps, s.pc = "read", s.before = sweep[v].before,
               s.accepted = sweep[v].accepted, Polled(v, AfterPoll(s))
        PROVE  HidesNone' /\ \A w \in Venues : Rested(w)' \subseteq Rested(w)
    BY <1>2, AfterPollHides, PolledHides
  <1>3. CASE ReadsEmpty(v)
    <2>. DEFINE n == IF sweep[v].empties = 0 THEN {} ELSE sweep[v].late
                s == [sweep[v] EXCEPT !.poll = @ + 1, !.empties = @ + 1, !.late = n]
                c == [s EXCEPT !.pc = "clean"]
    <2>1. sweep[v].pc = "read" /\ (Polled(v, {c}) \/ Polled(v, AfterPoll(s)))
      BY <1>3 DEF ReadsEmpty, Polled
    <2>2. /\ s \in Sweeps /\ s.pc = "read"
          /\ s.before = sweep[v].before /\ s.accepted = sweep[v].accepted
      BY <1>0, <1>1, <2>1 DEF Sweeps
    <2>. HIDE DEF s
    <2>3. c.before = s.before /\ c.accepted = s.accepted /\ c.pc = "clean"
      BY <2>2 DEF Sweeps
    <2>. HIDE DEF c
    <2>4. CASE Polled(v, {c})
      BY <2>2, <2>3, <2>4, PolledHides
    <2>5. CASE Polled(v, AfterPoll(s))
      BY <1>2, <2>2, <2>5
    <2>. QED BY <2>1, <2>4, <2>5
  <1>4. CASE ReadsOrders(v)
    <2>. DEFINE s == [sweep[v] EXCEPT !.poll = @ + 1, !.empties = 0, !.seen = TRUE]
    <2>1. sweep[v].pc = "read" /\ Polled(v, AfterPoll(s))
      BY <1>4 DEF ReadsOrders, Polled
    <2>2. /\ s \in Sweeps /\ s.pc = "read"
          /\ s.before = sweep[v].before /\ s.accepted = sweep[v].accepted
      BY <1>0, <1>1, <2>1 DEF Sweeps
    <2>. HIDE DEF s
    <2>. QED BY <1>2, <2>1, <2>2
  <1>5. CASE CannotRead(v)
    <2>. DEFINE s == [sweep[v] EXCEPT !.poll = @ + 1, !.empties = 0]
    <2>1. sweep[v].pc = "read" /\ Polled(v, AfterPoll(s))
      BY <1>5 DEF CannotRead, Polled
    <2>2. /\ s \in Sweeps /\ s.pc = "read"
          /\ s.before = sweep[v].before /\ s.accepted = sweep[v].accepted
      BY <1>0, <1>1, <2>1 DEF Sweeps
    <2>. HIDE DEF s
    <2>. QED BY <1>2, <2>1, <2>2
  <1>6. ASSUME NEW accepted \in BOOLEAN, NEW gone, CancelRound(v, accepted, gone),
               accepted => listed[v] \cap book[v] \subseteq gone
        PROVE  HidesNone' /\ \A w \in Venues : Rested(w)' \subseteq Rested(w)
    <2>. DEFINE f == listed[v] \cap book[v]
                s == [sweep[v] EXCEPT !.pc = "read", !.round = sweep[v].round + 1, !.poll = 0,
                                      !.accepted = accepted, !.before = f]
    <2>1. /\ sweep' = [sweep EXCEPT ![v] = s] /\ book' = [book EXCEPT ![v] = book[v] \ gone]
          /\ listed' = [listed EXCEPT ![v] = book[v]]
      BY <1>6 DEF CancelRound
    <2>2. s.before = f /\ s.accepted = accepted /\ s.pc = "read"
      BY <1>0 DEF Sweeps
    <2>. HIDE DEF s
    <2>3. HidesNone'
      BY <1>0, <1>6, <2>1, <2>2 DEF HidesNone, Hides
    <2>4. \A w \in Venues : Rested(w)' \subseteq Rested(w)
      BY <1>0, <2>1, <2>2 DEF Rested
    <2>. QED BY <2>3, <2>4
  <1>7. CASE CancelAll(v)
    <2>1. PICK shown \in Answers(v) : CancelRound(v, TRUE, shown)
      BY <1>7 DEF CancelAll
    <2>2. listed[v] \cap book[v] \subseteq shown
      BY <2>1 DEF Answers
    <2>. QED BY <1>6, <2>1, <2>2
  <1>8. CASE CancelRefused(v)
    BY <1>6, <1>8 DEF CancelRefused
  <1>9. CASE SweepAbandoned(v)
    <2>. DEFINE s == [sweep[v] EXCEPT !.pc = "unclean"]
    <2>1. sweep' = [sweep EXCEPT ![v] = s] /\ book' = book /\ listed' = listed
      BY <1>9 DEF SweepAbandoned
    <2>2. s.before = sweep[v].before /\ s.accepted = sweep[v].accepted /\ s.pc = "unclean"
      BY <1>0 DEF Sweeps
    <2>. HIDE DEF s
    <2>. QED BY <1>0, <2>1, <2>2 DEF HidesNone, Hides, Rested
  <1>. QED BY <1>3, <1>4, <1>5, <1>7, <1>8, <1>9 DEF SweepStep

(* A queue with one command taken out holds the others, in their order.     *)
LEMMA RemoveAtKeeps ==
  ASSUME NEW S, NEW q \in Seq(S), NEW i \in 1..Len(q)
  PROVE  /\ DOMAIN RemoveAt(q, i) = 1..(Len(q) - 1)
         /\ \A k \in 1..(Len(q) - 1) :
               RemoveAt(q, i)[k] = IF k < i THEN q[k] ELSE q[k + 1]
  <1>. DEFINE a == SubSeq(q, 1, i - 1)
              b == SubSeq(q, i + 1, Len(q))
  <1>0. Len(q) \in Nat /\ i \in Nat /\ 1 <= i /\ i <= Len(q)
    OBVIOUS
  <1>1. a \in Seq(S) /\ Len(a) = i - 1 /\ \A k \in 1..(i - 1) : a[k] = q[k]
    BY <1>0, SubSeqProperties
  <1>2. b \in Seq(S) /\ Len(b) = Len(q) - i /\ \A k \in 1..(Len(q) - i) : b[k] = q[k + i]
    BY <1>0, SubSeqProperties
  <1>. HIDE DEF a, b
  <1>3. /\ Len(a \o b) = Len(a) + Len(b) /\ a \o b \in Seq(S)
        /\ \A k \in 1..(Len(a) + Len(b)) :
              (a \o b)[k] = IF k <= Len(a) THEN a[k] ELSE b[k - Len(a)]
    BY <1>1, <1>2, ConcatProperties
  <1>4. DOMAIN (a \o b) = 1..(Len(q) - 1)
    BY <1>0, <1>1, <1>2, <1>3
  <1>5. ASSUME NEW k \in 1..(Len(q) - 1)
        PROVE  (a \o b)[k] = IF k < i THEN q[k] ELSE q[k + 1]
    <2>1. CASE k < i
      BY <1>0, <1>1, <1>2, <1>3, <2>1
    <2>2. CASE ~(k < i)
      <3>1. (a \o b)[k] = b[k - (i - 1)]
        BY <1>0, <1>1, <1>2, <1>3, <2>2
      <3>2. k - (i - 1) \in 1..(Len(q) - i) /\ k - (i - 1) + i = k + 1
        BY <1>0, <2>2
      <3>. QED BY <1>2, <2>2, <3>1, <3>2
    <2>. QED BY <2>1, <2>2
  <1>6. RemoveAt(q, i) = a \o b
    BY DEF RemoveAt, a, b
  <1>. QED BY <1>4, <1>5, <1>6

(* Where an order is only moves on: what one step sends, takes or serves is *)
(* one order's, from the place it was in to the next.                       *)
LEMMA MovesOn ==
  ASSUME HInv, SentOnce, Next
  PROVE  SentOnce' /\ \A v \in Venues, o \in Orders : Ahead(v, o)' => Ahead(v, o)
  <1>. DEFINE Goal == SentOnce' /\ \A v \in Venues, o \in Orders : Ahead(v, o)' => Ahead(v, o)
  <1>0. /\ queue \in [Venues -> Seq(Orders)]
        /\ ex \in [Venues -> {Idle} \cup [pc : {"held", "counted", "wire", "answering"}, cmd : Orders]]
        /\ todo \subseteq Orders /\ aside \subseteq Sidecars
        /\ Routed
    BY DEF HInv, TypeOK, Aside
  <1>1. ASSUME NEW o \in Orders, Emits(o) PROVE Goal
    <2>. DEFINE u == At[o]
    <2>1. /\ u \in Venues /\ o \in todo /\ Kind[o] # "sidecar"
          /\ todo' = todo \ {o} /\ queue' = [queue EXCEPT ![u] = Append(queue[u], o)]
          /\ ex' = ex /\ aside' = aside
      BY <1>1, HaltAssumption DEF Emits
    <2>2. /\ queue[u] \in Seq(Orders) /\ DOMAIN queue[u] = 1..Len(queue[u]) /\ Len(queue[u]) \in Nat
          /\ DOMAIN Append(queue[u], o) = 1..(Len(queue[u]) + 1)
          /\ Append(queue[u], o)[Len(queue[u]) + 1] = o
          /\ \A i \in DOMAIN queue[u] : Append(queue[u], o)[i] = queue[u][i]
      BY <1>0, <2>1
    <2>3. \A w \in Venues : w # u => queue'[w] = queue[w]
      BY <1>0, <2>1
    <2>4. queue'[u] = Append(queue[u], o)
      BY <1>0, <2>1
    <2>5. \A i \in DOMAIN queue'[u] :
             \/ i \in DOMAIN queue[u] /\ queue'[u][i] = queue[u][i]
             \/ i = Len(queue[u]) + 1 /\ queue'[u][i] = o
      <3>. HIDE DEF u
      <3>. TAKE i \in DOMAIN queue'[u]
      <3>1. i \in DOMAIN queue[u] \/ i = Len(queue[u]) + 1
        BY <2>2, <2>4
      <3>. QED BY <2>2, <2>4, <3>1
    <2>. HIDE DEF u
    <2>6. aside' \cap todo' = {}
      BY <2>1 DEF SentOnce
    <2>7. \A i \in DOMAIN queue[u] : queue[u][i] # o
      BY <2>1 DEF SentOnce
    <2>8. \A i, j \in DOMAIN queue'[u] : queue'[u][i] = queue'[u][j] => i = j
      BY <2>1, <2>5, <2>7 DEF SentOnce
    <2>9. \A i \in DOMAIN queue'[u] : queue'[u][i] \notin todo' /\ Kind[queue'[u][i]] # "sidecar"
      BY <2>1, <2>5 DEF SentOnce
    <2>10. ex[u].pc \in ToReach => \A i \in DOMAIN queue'[u] : queue'[u][i] # ex[u].cmd
      BY <2>1, <2>5 DEF SentOnce
    <2>11. SentOnce'
      BY <2>1, <2>3, <2>6, <2>8, <2>9, <2>10 DEF SentOnce
    <2>12. ASSUME NEW v \in Venues, NEW x \in Orders, Ahead(v, x)' PROVE Ahead(v, x)
      <3>1. CASE x = o
        BY <2>1, <2>12, <3>1 DEF Ahead, u
      <3>2. CASE x # o
        BY <2>1, <2>3, <2>5, <2>12, <3>2 DEF Ahead
      <3>. QED BY <3>1, <3>2
    <2>. QED BY <2>11, <2>12
  <1>2. ASSUME NEW o \in Orders, SidecarSends(o) PROVE Goal
    BY <1>2 DEF SidecarSends, SentOnce, Ahead
  <1>3. ASSUME NEW o \in Orders, SidecarReaches(o) PROVE Goal
    BY <1>3 DEF SidecarReaches, SentOnce, Ahead
  <1>4. ASSUME NEW v \in Venues, NEW e, UNCHANGED <<todo, queue, aside>>,
               ex' = [ex EXCEPT ![v] = e],
               e.pc \in ToReach => ex[v].pc \in ToReach /\ e.cmd = ex[v].cmd
        PROVE  Goal
    <2>1. \A w \in Venues : ex'[w].pc \in ToReach => ex[w].pc \in ToReach /\ ex'[w].cmd = ex[w].cmd
      BY <1>0, <1>4
    <2>2. SentOnce'
      BY <1>4, <2>1 DEF SentOnce
    <2>. QED BY <1>4, <2>1, <2>2 DEF Ahead
  <1>5. ASSUME UNCHANGED execVars PROVE Goal
    BY <1>5 DEF execVars, SentOnce, Ahead
  <1>6. ASSUME NEW v \in Venues, Takes(v) PROVE Goal
    <2>1. PICK i \in NextCmd(queue[v]) :
             /\ queue' = [queue EXCEPT ![v] = RemoveAt(queue[v], i)]
             /\ \/ ex' = ex
                \/ ex' = [ex EXCEPT ![v] = Busy("held", queue[v][i])]
             /\ UNCHANGED <<todo, aside>>
      BY <1>6 DEF Takes
    <2>. DEFINE o == queue[v][i]
                n == Len(queue[v])
    <2>2. queue[v] \in Seq(Orders) /\ queue[v] \in Seq(ForVenue(v)) /\ DOMAIN queue[v] = 1..n /\ n \in Nat
      BY <1>0 DEF Routed
    <2>3. i \in 1..n /\ o \in ForVenue(v) /\ o \in Orders
      BY <2>2, NextCmdIn
    <2>4. /\ DOMAIN queue'[v] = 1..(n - 1)
          /\ \A k \in 1..(n - 1) : queue'[v][k] = IF k < i THEN queue[v][k] ELSE queue[v][k + 1]
      <3>1. queue'[v] = RemoveAt(queue[v], i)
        BY <1>0, <2>1
      <3>. QED BY <2>2, <2>3, <3>1, RemoveAtKeeps
    <2>5. \A w \in Venues : w # v => queue'[w] = queue[w]
      BY <1>0, <2>1
    <2>. DEFINE from(k) == IF k < i THEN k ELSE k + 1
    <2>6. \A k \in DOMAIN queue'[v] : from(k) \in DOMAIN queue[v] /\ from(k) # i
                                      /\ queue'[v][k] = queue[v][from(k)]
      BY <2>2, <2>3, <2>4
    <2>7. \A j, k \in DOMAIN queue'[v] : from(j) = from(k) => j = k
      BY <2>2, <2>3, <2>4
    <2>8. ex[v].pc = "idle"
      BY <1>6 DEF Takes
    <2>9. Busy("held", o).pc = "held" /\ Busy("held", o).cmd = o
      BY DEF Busy
    <2>. HIDE DEF from
    <2>10. \A j, k \in DOMAIN queue'[v] : queue'[v][j] = queue'[v][k] => j = k
      BY <2>6, <2>7 DEF SentOnce
    <2>11. \A k \in DOMAIN queue'[v] : /\ queue'[v][k] \notin todo' /\ Kind[queue'[v][k]] # "sidecar"
                                       /\ queue'[v][k] # o
      <3>. TAKE k \in DOMAIN queue'[v]
      <3>1. from(k) \in DOMAIN queue[v] /\ i \in DOMAIN queue[v] /\ queue'[v][k] = queue[v][from(k)]
        BY <2>2, <2>3, <2>6
      <3>2. queue[v][from(k)] # o
        BY <2>6, <3>1 DEF SentOnce
      <3>. QED BY <2>1, <3>1, <3>2 DEF SentOnce
    <2>12. o \notin todo' /\ Kind[o] # "sidecar"
      BY <2>1, <2>2, <2>3 DEF SentOnce
    <2>. DEFINE e == Busy("held", o)
    <2>. HIDE DEF o
    <2>13. ex' = ex \/ ex' = [ex EXCEPT ![v] = e]
      BY <2>1 DEF o
    <2>. HIDE DEF e
    <2>14. /\ \A w \in Venues : w # v => ex'[w] = ex[w]
           /\ ex'[v].pc \in ToReach => ex'[v].cmd = o
      BY <1>0, <2>8, <2>9, <2>13 DEF ToReach, e
    <2>15. SentOnce'
      <3>1. aside' \cap todo' = {} /\ todo' = todo
        BY <2>1 DEF SentOnce
      <3>2. \A w \in Venues : \A j, k \in DOMAIN queue'[w] : queue'[w][j] = queue'[w][k] => j = k
        BY <2>5, <2>10 DEF SentOnce
      <3>3. \A w \in Venues : \A k \in DOMAIN queue'[w] :
               queue'[w][k] \notin todo' /\ Kind[queue'[w][k]] # "sidecar"
        BY <2>5, <2>11, <3>1 DEF SentOnce
      <3>4. \A w \in Venues : ex'[w].pc \in ToReach =>
               /\ ex'[w].cmd \notin todo' /\ Kind[ex'[w].cmd] # "sidecar"
               /\ \A k \in DOMAIN queue'[w] : queue'[w][k] # ex'[w].cmd
        BY <2>5, <2>11, <2>12, <2>14, <3>1 DEF SentOnce
      <3>. QED BY <3>1, <3>2, <3>3, <3>4 DEF SentOnce
    <2>16. ASSUME NEW w \in Venues, NEW x \in Orders, Ahead(w, x)' PROVE Ahead(w, x)
      <3>1. CASE w # v
        BY <2>1, <2>5, <2>14, <2>16, <3>1 DEF Ahead
      <3>2. CASE w = v
        <4>1. At[x] = v /\ (\/ x \in todo \cup aside
                            \/ \E k \in DOMAIN queue'[v] : queue'[v][k] = x
                            \/ x = o)
          BY <2>1, <2>14, <2>16, <3>2 DEF Ahead
        <4>2. \E k \in DOMAIN queue[v] : queue[v][k] = o
          BY <2>2, <2>3 DEF o
        <4>. QED BY <2>6, <3>2, <4>1, <4>2 DEF Ahead
      <3>. QED BY <3>1, <3>2
    <2>. QED BY <2>15, <2>16
  <1>7. ASSUME NEW v \in Venues, LetsGo(v) \/ Returns(v) PROVE Goal
    BY <1>4, <1>7, IdleType DEF LetsGo, Returns, ToReach
  <1>8. ASSUME NEW v \in Venues, EntersCount(v) PROVE Goal
    <2>1. Busy("counted", ex[v].cmd).cmd = ex[v].cmd
      BY DEF Busy
    <2>. QED BY <1>4, <1>8, <2>1 DEF EntersCount, ToReach
  <1>9. ASSUME NEW v \in Venues, EntersLatch(v) PROVE Goal
    <2>1. Busy("wire", ex[v].cmd).cmd = ex[v].cmd
      BY DEF Busy
    <2>2. UNCHANGED <<todo, queue, aside>> /\ ex[v].pc = "counted"
      BY <1>9 DEF EntersLatch
    <2>3. ex' = [ex EXCEPT ![v] = Idle] \/ ex' = [ex EXCEPT ![v] = Busy("wire", ex[v].cmd)]
      BY <1>9 DEF EntersLatch
    <2>4. CASE ex' = [ex EXCEPT ![v] = Idle]
      BY <1>4, <2>2, <2>4, IdleType DEF ToReach
    <2>5. CASE ex' = [ex EXCEPT ![v] = Busy("wire", ex[v].cmd)]
      BY <1>4, <2>1, <2>2, <2>5 DEF ToReach
    <2>. QED BY <2>3, <2>4, <2>5
  <1>10. ASSUME NEW v \in Venues, Reaches(v) PROVE Goal
    <2>1. Busy("answering", ex[v].cmd).pc = "answering"
      BY DEF Busy
    <2>. QED BY <1>4, <1>10, <2>1 DEF Reaches, ToReach
  <1>11. ASSUME NEW v \in Venues, NEW o \in Orders, Sweeping(v) \/ OrderLeaves(v, o) PROVE Goal
    BY <1>5, <1>11 DEF Sweeping, OrderLeaves
  <1>12. ASSUME NEW v \in Venues, Sweeping(v) PROVE Goal
    BY <1>5, <1>12 DEF Sweeping
  <1>13. ASSUME CheckpointFails PROVE Goal
    BY <1>5, <1>13 DEF CheckpointFails
  <1>14. ASSUME NEW h \in Halters, Begins(h) \/ Halting(h) PROVE Goal
    <2>1. UNCHANGED <<todo, queue, ex, aside>>
      BY <1>14 DEF Begins, Halting, Claims, Quiesces, Concludes, Exits, LoserExits, execVars
    <2>. QED BY <2>1 DEF SentOnce, Ahead
  <1>. HIDE DEF Goal
  <1>15. Goal
    BY <1>1, <1>2, <1>3, <1>6, <1>7, <1>8, <1>9, <1>10, <1>11, <1>12, <1>13, <1>14 DEF Next
  <1>. QED BY <1>15 DEF Goal

(* An order that lands was ahead, so no cancel-all has been shown it, and   *)
(* is ahead no more.                                                        *)
LEMMA LandsHides ==
  ASSUME SweepInv, HidesNone, LandsOnce, NEW v \in Venues, NEW o \in Orders, Lands(v, o),
         Ahead(v, o), ~Ahead(v, o)',
         \A w \in Venues, x \in Orders : Ahead(w, x)' => Ahead(w, x)
  PROVE  LandsOnce' /\ HidesNone'
  <1>. DEFINE late == IF sweep[v].empties > 0 THEN sweep[v].late \cup {o} ELSE sweep[v].late
              s == [sweep[v] EXCEPT !.late = late]
  <1>1. /\ sweep \in [Venues -> Sweeps] /\ listed \in [Venues -> SUBSET Orders]
        /\ book \in [Venues -> SUBSET Orders]
    BY DEF SweepInv, SweepTypeOK
  <1>2. /\ sweep' = [sweep EXCEPT ![v] = s] /\ listed' = listed
        /\ book' = [book EXCEPT ![v] = book[v] \cup {o}]
    BY DEF Lands
  <1>3. s.pc = sweep[v].pc /\ s.accepted = sweep[v].accepted /\ s.before = sweep[v].before
    BY <1>1 DEF Sweeps
  <1>. HIDE DEF s, late
  <1>4. o \notin sweep[v].before
    BY DEF LandsOnce, Rested
  <1>5. HidesNone'
    BY <1>1, <1>2, <1>3, <1>4 DEF HidesNone, Hides
  <1>6. \A w \in Venues : /\ w # v => Rested(w)' = Rested(w)
                          /\ Rested(v)' \subseteq Rested(v) \cup {o}
                          /\ Rested(w) \subseteq Orders
    BY <1>1, <1>2, <1>3 DEF Rested, Sweeps
  <1>7. ASSUME NEW w \in Venues, NEW x \in Rested(w)'
        PROVE  At[x] = w /\ ~Ahead(w, x)'
    <2>1. CASE x \in Rested(w)
      <3>1. x \in Orders
        BY <1>6, <2>1
      <3>. QED BY <2>1, <3>1 DEF LandsOnce
    <2>2. CASE w = v /\ x = o
      BY <2>2 DEF Ahead
    <2>. QED BY <1>6, <1>7, <2>1, <2>2
  <1>8. LandsOnce'
    BY <1>7 DEF LandsOnce
  <1>. QED BY <1>5, <1>8

(* A step that brings nothing back keeps what has landed behind.            *)
LEMMA RestedShrinks ==
  ASSUME SweepInv, LandsOnce, \A w \in Venues : Rested(w)' \subseteq Rested(w),
         \A w \in Venues, x \in Orders : Ahead(w, x)' => Ahead(w, x)
  PROVE  LandsOnce'
  <1>1. \A w \in Venues : Rested(w) \subseteq Orders
    BY DEF SweepInv, SweepTypeOK, Rested, Sweeps
  <1>. QED BY <1>1 DEF LandsOnce

(* Nothing is hidden, or due, before the first order.                       *)
LEMMA HideInit == Init => HideInv
  <1>. SUFFICES ASSUME Init PROVE HideInv
    OBVIOUS
  <1>1. SentOnce
    BY IdleType DEF Init, SentOnce, ToReach
  <1>2. \A v \in Venues : /\ Rested(v) = {} /\ sweep[v].accepted = FALSE
                          /\ sweep[v].pc = "idle" /\ sweep[v].before = {}
    BY DEF Init, SweepInit, FreshSweep, Rested
  <1>. QED BY <1>1, <1>2 DEF HideInv, LandsOnce, HidesNone, Hides

(* No step brings an order back that an accepted cancel-all was shown.      *)
LEMMA HideStep == HInv /\ HideInv /\ [Next]_vars => HideInv'
  <1>0. CASE UNCHANGED vars
    BY <1>0 DEF vars, sweepVars, execVars, HideInv, SentOnce, LandsOnce, HidesNone, Hides,
                Rested, Ahead
  <1>. SUFFICES ASSUME HInv, HideInv, Next PROVE HideInv'
    BY <1>0
  <1>1. /\ SentOnce' /\ \A v \in Venues, o \in Orders : Ahead(v, o)' => Ahead(v, o)
        /\ SweepInv /\ SentOnce /\ LandsOnce /\ HidesNone
    BY MovesOn DEF HInv, HideInv
  <1>2. ASSUME UNCHANGED sweepVars PROVE HideInv'
    <2>1. HidesNone' /\ \A v \in Venues : Rested(v)' \subseteq Rested(v)
      BY <1>1, <1>2 DEF sweepVars, HidesNone, Hides, Rested
    <2>. QED BY <1>1, <2>1, RestedShrinks DEF HideInv
  <1>3. ASSUME NEW v \in Venues, Sweeping(v) PROVE HideInv'
    BY <1>1, <1>3, SweepHides, RestedShrinks DEF Sweeping, HideInv
  <1>4. ASSUME NEW v \in Venues, NEW o \in Orders, OrderLeaves(v, o) PROVE HideInv'
    <2>1. HidesNone' /\ \A w \in Venues : Rested(w)' \subseteq Rested(w)
      BY <1>1, <1>4 DEF OrderLeaves, Leaves, SweepInv, SweepTypeOK, HidesNone, Hides, Rested
    <2>. QED BY <1>1, <2>1, RestedShrinks DEF HideInv
  <1>5. ASSUME NEW h \in Halters, Quiesces(h) PROVE HideInv'
    <2>1. /\ sweep' = [v \in Venues |-> FreshSweep("cancel")] /\ UNCHANGED <<book, listed>>
      BY <1>5 DEF Quiesces
    <2>2. \A v \in Venues : /\ sweep'[v].pc = "cancel" /\ sweep'[v].accepted = FALSE
                            /\ sweep'[v].before = {}
      BY <2>1 DEF FreshSweep
    <2>3. HidesNone' /\ \A w \in Venues : Rested(w)' \subseteq Rested(w)
      BY <2>1, <2>2 DEF HidesNone, Hides, Rested
    <2>. QED BY <1>1, <2>3, RestedShrinks DEF HideInv
  <1>6. ASSUME NEW o \in Orders, SidecarReaches(o) PROVE HideInv'
    <2>1. /\ At[o] \in Venues /\ o \in aside /\ aside' = aside \ {o} /\ Lands(At[o], o)
          /\ UNCHANGED <<todo, queue, ex>> /\ aside \subseteq Sidecars
      BY <1>6, HaltAssumption DEF SidecarReaches, HInv, Aside
    <2>2. Ahead(At[o], o) /\ ~Ahead(At[o], o)'
      BY <1>1, <2>1 DEF Ahead, SentOnce, Sidecars
    <2>. QED BY <1>1, <2>1, <2>2, LandsHides DEF HideInv
  <1>7. ASSUME NEW v \in Venues, Reaches(v), ~IsTaker(ex[v].cmd) PROVE HideInv'
    <2>. PICK o \in Orders : o = ex[v].cmd
      BY <1>7 DEF Reaches, HInv, Routed, ForVenue
    <2>1. /\ At[o] = v /\ ex[v].pc = "wire" /\ Lands(v, o)
          /\ UNCHANGED <<todo, queue, aside>> /\ aside \subseteq Sidecars /\ o = ex[v].cmd
      BY <1>7 DEF Reaches, HInv, Routed, ForVenue, Aside
    <2>2. ex'[v].pc = "answering"
      <3>1. ex \in [Venues -> {Idle} \cup [pc : {"held", "counted", "wire", "answering"}, cmd : Orders]]
        BY DEF HInv, TypeOK
      <3>. QED BY <1>7, <3>1 DEF Reaches, Busy
    <2>3. Ahead(v, o)
      BY <2>1 DEF Ahead, ToReach
    <2>4. o \notin todo /\ o \notin aside /\ \A i \in DOMAIN queue[v] : queue[v][i] # o
      BY <1>1, <2>1 DEF SentOnce, ToReach, Sidecars
    <2>5. ~Ahead(v, o)'
      BY <2>1, <2>2, <2>4 DEF Ahead, ToReach
    <2>. QED BY <1>1, <2>1, <2>3, <2>5, LandsHides DEF HideInv
  <1>8. ASSUME NEW v \in Venues, Reaches(v) PROVE HideInv'
    BY <1>2, <1>7, <1>8 DEF Reaches
  <1>9. ASSUME NEW o \in Orders, Emits(o) \/ SidecarSends(o) PROVE UNCHANGED sweepVars
    BY <1>9 DEF Emits, SidecarSends
  <1>10. ASSUME NEW v \in Venues,
                Takes(v) \/ LetsGo(v) \/ EntersCount(v) \/ EntersLatch(v) \/ Returns(v)
         PROVE  UNCHANGED sweepVars
    BY <1>10 DEF Takes, LetsGo, EntersCount, EntersLatch, Returns
  <1>11. ASSUME NEW h \in Halters,
                Begins(h) \/ Claims(h) \/ Concludes(h) \/ Exits(h) \/ LoserExits(h)
         PROVE  UNCHANGED sweepVars
    BY <1>11 DEF Begins, Claims, Concludes, Exits, LoserExits
  <1>12. ASSUME CheckpointFails PROVE UNCHANGED sweepVars
    BY <1>12 DEF CheckpointFails
  <1>. QED BY <1>2, <1>3, <1>4, <1>5, <1>6, <1>8, <1>9, <1>10, <1>11, <1>12 DEF Next, Halting

(* A verdict of unconfirmed, on which callers proceed, never covers an      *)
(* order that the last cancel-all must have been shown, whatever the list   *)
(* said before and whatever lands meanwhile.                                *)
THEOREM UnconfirmedIsNotHiding == Spec => []UnconfirmedHidesNothing
  <1>1. HideInv => UnconfirmedHidesNothing
    BY DEF HideInv, HidesNone, Hides, UnconfirmedHidesNothing
  <1>. QED BY <1>1, HideInit, HideStep, Invariance, PTL DEF Spec
=============================================================================
