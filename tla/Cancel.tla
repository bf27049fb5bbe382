------------------------------- MODULE Cancel -------------------------------
(***************************************************************************)
(* The quotes of one venue from the quoter's record of them to the venue's *)
(* book, and the cancels the engine owes for those it has given up: parked *)
(* when decided, addressable only once an order_ack has brought the        *)
(* venue's own id, sent and sent again, escalated once, and retired by the *)
(* venue's answer.  The halts and their sweeps are those of KillSweep, and *)
(* share its executor and its channel.                                     *)
(*                                                                         *)
(* The executor serves makers, cancels and sweeps in order (next_cmd lets  *)
(* only takers past), and a command it serves is answered before the next  *)
(* one; what a command does at the venue and what the engine is told of it *)
(* are one step here, except for a sweep.                                  *)
(***************************************************************************)
EXTENDS KillSweep, SequencesExt

CONSTANTS
    Orders,       \* bound: the orders the quoter may place
    MaxRefusals,  \* MAX_CANCEL_REFUSALS
    MaxSends      \* MAX_CANCEL_SENDS

ASSUME CancelAssumption ==
    /\ {MaxRefusals, MaxSends} \subseteq Nat \ {0}
    /\ IsFiniteSet(Orders)

VARIABLES
    todo,       \* the orders the quoter has not placed yet
    resting,    \* Quoter.resting: what it believes rests
    acked,      \* Engine.oid_venue: the orders with a venue id
    park,       \* Engine.parked_cancels
    at          \* where each order is at the venue

quoteVars == <<todo, resting, acked, park, at>>
vars      == <<sweepVars, quoteVars>>

ParkedCancel ==
    [owed : BOOLEAN, sent : 0..MaxSends, refused : 0..MaxRefusals,
     outstanding : BOOLEAN, escalated : BOOLEAN]

NotParked == [owed |-> FALSE, sent |-> 0, refused |-> 0, outstanding |-> FALSE,
              escalated |-> FALSE]
Spent(p) == p.refused >= MaxRefusals \/ p.sent >= MaxSends

Place(o)     == [cmd |-> "place", oid |-> o]
Cancel(o, n) == [cmd |-> "cancel", oid |-> o, attempt |-> n]
Escalate(o)  == [cmd |-> "escalate", oid |-> o]
Commands ==
    {SweepCmd} \cup [cmd : {"place", "escalate"}, oid : Orders]
               \cup [cmd : {"cancel"}, oid : Orders, attempt : 1..MaxSends]

Ack(o)           == [kind |-> "order_ack", oid |-> o]
Result(o, n, ok) == [kind |-> "cancel_result", oid |-> o, attempt |-> n, ok |-> ok]

-----------------------------------------------------------------------------
(* The park.                                                                *)

(* Only a cancel that cannot be sent yet is parked, as before 2026-07-29.   *)
MutOwedFor(os) ==
    [o \in Orders |-> IF o \in os \ acked /\ ~park[o].owed
                      THEN [NotParked EXCEPT !.owed = TRUE] ELSE park[o]]

(* resolve_cancel: a cancel is parked when it is decided. *)
OwedFor(os) ==
    [o \in Orders |-> IF o \in os /\ ~park[o].owed
                      THEN [NotParked EXCEPT !.owed = TRUE] ELSE park[o]]

(* ... and sent, with its attempt number, if the venue's id is known.       *)
CancelsOf(os, p) ==
    {[i \in DOMAIN s |-> Cancel(s[i], p[s[i]].sent + 1)] : s \in SetToSeqs(os \cap acked)}

(* mark_sent and settle, for the commands cs that were really queued. *)
Marked(p, cs) ==
    [o \in Orders |->
        IF \E i \in DOMAIN cs : cs[i].cmd = "cancel" /\ cs[i].oid = o
        THEN [p[o] EXCEPT !.sent = p[o].sent + 1, !.outstanding = TRUE]
        ELSE IF \E i \in DOMAIN cs : cs[i] = Escalate(o)
        THEN [p[o] EXCEPT !.escalated = TRUE]
        ELSE p[o]]

(* The answer to any attempt re-arms the cancel. *)
MutAnswered(o, n, ok) ==
    IF ok THEN NotParked
    ELSE IF park[o].outstanding /\ n > 0
    THEN [park[o] EXCEPT !.outstanding = FALSE, !.refused = park[o].refused + 1]
    ELSE park[o]

(* on_venue_answer. *)
Answered(o, n, ok) ==
    IF ok THEN NotParked
    ELSE IF park[o].outstanding /\ n > 0 /\ n = park[o].sent
    THEN [park[o] EXCEPT !.outstanding = FALSE, !.refused = park[o].refused + 1]
    ELSE park[o]

-----------------------------------------------------------------------------
(* The quoter, and the intents of one of its decisions.                     *)

(* drain_intents: the commands of one intent, up to the first that is lost. *)
Drains(p, cs) ==
    /\ queue' = queue \o Taken(queue, cs)
    /\ park' = Marked(p, Taken(queue, cs))
    /\ UNCHANGED <<haltVars, execVars, owed>>

Quotes(o) ==
    /\ ~Halted /\ o \in todo
    /\ todo' = todo \ {o} /\ resting' = resting \cup {o}
    /\ Drains(park, <<Place(o)>>)
    /\ UNCHANGED <<acked, at>>

(* An amend is a cancel of the order replaced and a place, in that order.   *)
Amends(o, r) ==
    /\ ~Halted /\ o \in todo /\ r \in resting
    /\ todo' = todo \ {o} /\ resting' = (resting \ {r}) \cup {o}
    /\ LET p == OwedFor({r})
       IN  \E cs \in CancelsOf({r}, p) : Drains(p, cs \o <<Place(o)>>)
    /\ UNCHANGED <<acked, at>>

Pulls(r) ==
    /\ r \in resting
    /\ resting' = resting \ {r}
    /\ LET p == OwedFor({r}) IN \E cs \in CancelsOf({r}, p) : Drains(p, cs)
    /\ UNCHANGED <<todo, acked, at>>

(* Quoter::on_fill, of a quote that filled whole: the engine knows whose    *)
(* fill it is once the order's ack has come.                                *)
QuoteFilled(r) ==
    /\ r \in resting \cap acked /\ at[r] = "filled"
    /\ resting' = resting \ {r}
    /\ UNCHANGED <<sweepVars, todo, acked, park, at>>

(* A halt's cancels go out and are not parked. *)
MutAbandons(cs) ==
    /\ park' = Marked(park, Taken(Offered(Owing, queue).queue, cs))
    /\ resting' = {}
    /\ UNCHANGED <<todo, acked, at>>

(* cancel_all of a halt, its cancels cs behind the sweep it owes.           *)
Abandons(cs) ==
    /\ park' = Marked(OwedFor(resting), Taken(Offered(Owing, queue).queue, cs))
    /\ resting' = {}
    /\ UNCHANGED <<todo, acked, at>>

HaltCancels == CancelsOf(resting, OwedFor(resting))
KillCancels == \E cs \in HaltCancels : KillEngages(cs) /\ Abandons(cs)
PullCancels == FeedMayPull /\ \E cs \in HaltCancels : FeedPulls(cs) /\ Abandons(cs)

-----------------------------------------------------------------------------
(* The engine on its messages and its ticks.                                *)

(* on_order_ack: the moment a parked cancel becomes addressable. *)
HearsAck ==
    /\ answers # <<>> /\ Head(answers).kind = "order_ack"
    /\ answers' = Tail(answers)
    /\ LET o == Head(answers).oid
           cs == IF park[o].owed THEN <<Cancel(o, park[o].sent + 1)>> ELSE <<>>
       IN  /\ acked' = acked \cup {o}
           /\ queue' = queue \o Taken(queue, cs)
           /\ park' = Marked(park, Taken(queue, cs))
    /\ UNCHANGED <<haltVars, owed, running, proven, todo, resting, at>>

(* on_cancel_result. *)
HearsCancel ==
    /\ answers # <<>> /\ Head(answers).kind = "cancel_result"
    /\ answers' = Tail(answers)
    /\ LET m == Head(answers)
       IN  park' = [park EXCEPT ![m.oid] =
                       IF park[m.oid].owed THEN Answered(m.oid, m.attempt, m.ok) ELSE @]
    /\ UNCHANGED <<haltVars, owed, queue, running, proven, todo, resting, acked, at>>

(* cancel_work, on a tick that finds the results of `late` overdue: every   *)
(* cancel that is addressable, waits for no answer and has budget left.     *)
Sendable(late) ==
    {o \in acked : park[o].owed /\ ~Spent(park[o]) /\ (park[o].outstanding => o \in late)}

(* And one escalation of those whose ack may be overdue; none while killed. *)
Escalatable ==
    {o \in Orders \ acked : ~killed /\ park[o].owed /\ ~park[o].escalated}

Works(late) ==
    LET sends == CancelsOf(Sendable(late), park)
    IN  sends \cup {cs \o <<Escalate(o)>> : cs \in sends, o \in Escalatable}

(* Either grace may have passed for any of them. *)
CancelTick ==
    /\ \E late \in SUBSET acked : \E cs \in Works(late) : cs # <<>> /\ Drains(park, cs)
    /\ UNCHANGED <<todo, resting, acked, at>>

-----------------------------------------------------------------------------
(* The executor, and the venue.                                             *)

Serves(what) == queue # <<>> /\ Head(queue).cmd = what /\ queue' = Tail(queue)
Tells(m)     == answers' = Append(answers, m)

(* Accepted and acknowledged, accepted with an answer that was lost and not *)
(* recovered, or rejected.                                                  *)
PlaceServed ==
    /\ Serves("place")
    /\ LET o == Head(queue).oid
       IN  \/ at' = [at EXCEPT ![o] = "book"] /\ Tells(Ack(o))
           \/ at' = [at EXCEPT ![o] = "book"] /\ UNCHANGED answers
           \/ UNCHANGED <<at, answers>>
    /\ UNCHANGED <<haltVars, owed, running, proven, todo, resting, acked, park>>

(* Success is that the order is gone; an error says nothing of it. *)
CancelServed ==
    /\ Serves("cancel")
    /\ LET c == Head(queue)
       IN  \E done, ok \in BOOLEAN :
              /\ ok => done
              /\ at' = [at EXCEPT ![c.oid] = IF done /\ @ = "book" THEN "gone" ELSE @]
              /\ Tells(Result(c.oid, c.attempt, ok))
    /\ UNCHANGED <<haltVars, owed, running, proven, todo, resting, acked, park>>

(* By our id: an order the venue never had, or does not list, is an error,  *)
(* and PM-US refuses every one.                                             *)
EscalateServed ==
    /\ Serves("escalate")
    /\ LET o == Head(queue).oid
       IN  \E done, ok \in BOOLEAN :
              /\ ok => done /\ at[o] # "none"
              /\ at' = [at EXCEPT ![o] = IF done /\ @ = "book" THEN "gone" ELSE @]
              /\ Tells(Result(o, 0, ok))
    /\ UNCHANGED <<haltVars, owed, running, proven, todo, resting, acked, park>>

(* A verified sweep leaves nothing; one that failed, any part of the book.  *)
BookSwept(ok) ==
    /\ SweepEnds(ok)
    /\ \E left \in SUBSET {o \in Orders : at[o] = "book"} :
          /\ ok => left = {}
          /\ at' = [o \in Orders |-> IF at[o] = "book" /\ o \notin left THEN "gone" ELSE at[o]]
    /\ UNCHANGED <<todo, resting, acked, park>>

OrderFills(o) ==
    /\ at[o] = "book" /\ at' = [at EXCEPT ![o] = "filled"]
    /\ UNCHANGED <<sweepVars, todo, resting, acked, park>>

-----------------------------------------------------------------------------
Init ==
    /\ SweepInit
    /\ todo = Orders /\ resting = {} /\ acked = {}
    /\ park = [o \in Orders |-> NotParked]
    /\ at = [o \in Orders |-> "none"]

HaltStep ==
    \/ KillFileSet \/ KillFileRemoved \/ KillWatch \/ FeedHealthy
    \/ HearsSweep \/ SweepBegins

Serving == PlaceServed \/ CancelServed \/ EscalateServed

Next ==
    \/ HaltStep /\ UNCHANGED quoteVars
    \/ KillCancels \/ PullCancels
    \/ \E o \in Orders : Quotes(o) \/ Pulls(o) \/ QuoteFilled(o)
    \/ \E o, r \in Orders : Amends(o, r)
    \/ HearsAck \/ HearsCancel \/ CancelTick
    \/ Serving \/ \E o \in Orders : OrderFills(o)
    \/ \E ok \in BOOLEAN : BookSwept(ok)

Spec == Init /\ [][Next]_vars

-----------------------------------------------------------------------------
TypeOK ==
    /\ owed \in OwedSweep /\ Len(queue) <= Depth
    /\ halts \in 0..MaxHalts /\ spell \in 0..halts /\ proven \in 0..spell
    /\ running \in {NoSweep} \cup 0..spell
    /\ queue \in Seq(Commands)
    /\ todo \subseteq Orders /\ resting \subseteq Orders /\ acked \subseteq Orders
    /\ park \in [Orders -> ParkedCancel]
    /\ at \in [Orders -> {"none", "book", "filled", "gone"}]

(* No order rests at the venue that this process has forgotten: the quoter  *)
(* believes it rests, or a cancel is owed for it - through lost commands,   *)
(* lost answers, late ones, refusals and halts.                             *)
NoneForgotten ==
    \A o \in Orders : at[o] = "book" => o \in resting \/ park[o].owed

(* A cancel is on its way at most once: it is due again only when the       *)
(* newest attempt has been answered, whatever late answers came before, or  *)
(* its grace has passed.                                                    *)
NewestIsAnswered ==
    \A o \in Orders : park[o].owed /\ ~park[o].outstanding /\ park[o].sent > 0 =>
        /\ \A i \in DOMAIN queue : queue[i] # Cancel(o, park[o].sent)
        /\ \A i \in DOMAIN answers, b \in BOOLEAN :
               answers[i] # Result(o, park[o].sent, b)

(* A halted engine believes nothing rests, so that whatever does is owed a  *)
(* cancel as well as a sweep.                                               *)
HaltedOwesEveryQuote ==
    Halted => \A o \in Orders : at[o] = "book" => park[o].owed
=============================================================================
