------------------------------ MODULE KillSweep ------------------------------
(***************************************************************************)
(* The halts a running engine enters and leaves - the kill switch and the  *)
(* feed pull - and the sweep each of them owes a venue: offered on the     *)
(* halt and then on the kill watch, queued to the venue's executor, run    *)
(* there, and answered back into the engine's one ordered channel.         *)
(*                                                                         *)
(* Venues owe and answer apart from each other, so this is one venue.      *)
(* Whatever else is sent to its executor is opaque here (a module that     *)
(* extends this one says what it is), and so is the inside of a sweep      *)
(* (module Sweep): it runs as long as it likes and verifies the book clean *)
(* or fails.                                                               *)
(***************************************************************************)
EXTENDS Integers, Sequences, FiniteSets

CONSTANTS
    Depth,      \* EXEC_QUEUE: the commands an executor holds
    Floor,      \* sweep_backoff's FLOOR, in kill watches
    Ceiling,    \* and its CEILING
    MaxHalts    \* bound: how often this process is halted

ASSUME KillSweepAssumption ==
    /\ {Depth, Floor, Ceiling, MaxHalts} \subseteq Nat \ {0}
    /\ Floor <= Ceiling

VARIABLES
    killFile,   \* the kill file exists
    killed,     \* Engine.killed
    pulled,     \* Engine.feed_reason is some
    owed,       \* the venue's entry of Engine.sweeps_owed
    queue,      \* the commands at its executor, the one being served first
    running,    \* the spell in which the sweep being served began
    answers,    \* the executor's messages to the engine
    halts,      \* history: the halts so far, each of which owed a sweep
    spell,      \* history: how often the engine stopped quoting for one
    apart,      \* history: no sweep was at large when it last did
    alone,      \* history: nor at the last halt, the venue owed one anew by it
    proven      \* history: the last spell in which a sweep proved the book

haltVars  == <<killFile, killed, pulled, halts, spell, apart, alone>>
execVars  == <<running, answers, proven>>
sweepVars == <<haltVars, execVars, owed, queue>>

NoSweep     == -1
SweepCmd    == [cmd |-> "sweep"]
Other       == [cmd |-> "other"]
Verified(b) == [kind |-> "sweep_result", ok |-> b]

(* `attempts` is kept as the wait it stands for: none yet, or its backoff.  *)
OwedSweep == [owed : BOOLEAN, wait : 0..Ceiling, backoff : 0..Ceiling, inFlight : BOOLEAN]
NotOwed == [owed |-> FALSE, wait |-> 0, backoff |-> 0, inFlight |-> FALSE]
Owing   == [owed |-> TRUE, wait |-> 0, backoff |-> 0, inFlight |-> FALSE]

Halted == killed \/ pulled

(* A sweep is queued, running, or answered and not heard of. *)
AtLarge ==
    \/ \E i \in DOMAIN queue : queue[i] = SweepCmd
    \/ \E i \in DOMAIN answers : answers[i].kind = "sweep_result"

-----------------------------------------------------------------------------
(* The engine.                                                              *)

(* A channel that always has room. *)
MutTaken(q, cs) == cs

(* dispatch, of several commands: what the channel has no room for is lost. *)
Taken(q, cs) ==
    SubSeq(cs, 1, IF Len(cs) <= Depth - Len(q) THEN Len(cs) ELSE Depth - Len(q))

(* sweep_backoff, from one attempt to the next. *)
NextBackoff(b) ==
    IF b = 0 THEN Floor ELSE IF 2 * b <= Ceiling THEN 2 * b ELSE Ceiling

(* A sweep discharged by being queued, as it was before 2026-07-29. *)
MutOffered(o, q) ==
    IF ~o.owed THEN [owed |-> o, queue |-> q]
    ELSE IF Len(q) < Depth THEN [owed |-> NotOwed, queue |-> Append(q, SweepCmd)]
    ELSE [owed |-> o, queue |-> q]

(* A sweep offered again by the clock, whether or not one is at large. *)
MutOfferedAnyway(o, q) ==
    IF ~o.owed THEN [owed |-> o, queue |-> q]
    ELSE IF o.wait > 0 THEN [owed |-> [o EXCEPT !.wait = o.wait - 1], queue |-> q]
    ELSE IF Len(q) < Depth
    THEN [owed |-> [o EXCEPT !.backoff = NextBackoff(o.backoff), !.inFlight = TRUE],
          queue |-> Append(q, SweepCmd)]
    ELSE [owed |-> o, queue |-> q]

(* sweep_owed_venues, over the entry o and the channel q: a sweep at large  *)
(* is waited for, a backoff sat out, a full channel tried again.            *)
Offered(o, q) ==
    IF ~o.owed \/ o.inFlight THEN [owed |-> o, queue |-> q]
    ELSE IF o.wait > 0 THEN [owed |-> [o EXCEPT !.wait = o.wait - 1], queue |-> q]
    ELSE IF Len(q) < Depth
    THEN [owed |-> [o EXCEPT !.backoff = NextBackoff(o.backoff), !.inFlight = TRUE],
          queue |-> Append(q, SweepCmd)]
    ELSE [owed |-> o, queue |-> q]

(* owe_sweeps, over any entry still owed, and then the cancels cs that      *)
(* cancel_all makes of the resting quotes.                                  *)
Halting(cs) ==
    LET first == Offered(Owing, queue)
    IN  [owed |-> first.owed, queue |-> first.queue \o Taken(first.queue, cs)]

Counted ==
    /\ halts' = halts + 1
    /\ spell' = IF Halted THEN spell ELSE spell + 1
    /\ apart' = IF Halted THEN apart ELSE ~AtLarge
    /\ alone' = ~AtLarge

(* kill_tick finds the file.  It offers what is owed once more on its way.  *)
KillEngages(cs) ==
    /\ killFile /\ ~killed
    /\ killed' = TRUE
    /\ LET h == Halting(cs)
           s == Offered(h.owed, h.queue)
       IN  owed' = s.owed /\ queue' = s.queue
    /\ Counted
    /\ UNCHANGED <<killFile, pulled, execVars>>

(* The watch offers what is owed before it reads the kill file. *)
MutKillWatch ==
    /\ ~killFile \/ killed
    /\ killed' = killFile
    /\ LET s == IF killed \/ pulled THEN Offered(owed, queue)
                ELSE [owed |-> owed, queue |-> queue]
       IN  owed' = s.owed /\ queue' = s.queue
    /\ UNCHANGED <<killFile, pulled, halts, spell, apart, alone, execVars>>

(* kill_tick otherwise: the switch as the file has it, and the retry while  *)
(* a halt is in force.                                                      *)
KillWatch ==
    /\ ~killFile \/ killed
    /\ killed' = killFile
    /\ LET s == IF killFile \/ pulled THEN Offered(owed, queue)
                ELSE [owed |-> owed, queue |-> queue]
       IN  owed' = s.owed /\ queue' = s.queue
    /\ UNCHANGED <<killFile, pulled, halts, spell, apart, alone, execVars>>

(* health_tick or on_link_line, on the way in: pull_quotes. *)
FeedPulls(cs) ==
    /\ ~pulled /\ pulled' = TRUE
    /\ LET h == Halting(cs) IN owed' = h.owed /\ queue' = h.queue
    /\ Counted
    /\ UNCHANGED <<killFile, killed, execVars>>

FeedHealthy ==
    /\ pulled /\ pulled' = FALSE
    /\ UNCHANGED <<killFile, killed, halts, spell, apart, alone, execVars, owed, queue>>

(* A refusal that leaves the entry waiting for an answer. *)
MutHearsSweepDeaf ==
    /\ answers # <<>> /\ Head(answers).kind = "sweep_result"
    /\ answers' = Tail(answers)
    /\ owed' = IF Head(answers).ok THEN NotOwed ELSE owed
    /\ UNCHANGED <<haltVars, queue, running, proven>>

(* on_sweep_result. *)
HearsSweep ==
    /\ answers # <<>> /\ Head(answers).kind = "sweep_result"
    /\ answers' = Tail(answers)
    /\ owed' = IF ~owed.owed \/ Head(answers).ok THEN NotOwed
               ELSE [owed EXCEPT !.inFlight = FALSE,
                         !.wait = IF owed.backoff = 0 THEN Floor ELSE owed.backoff]
    /\ UNCHANGED <<haltVars, queue, running, proven>>

-----------------------------------------------------------------------------
(* The operator and the executor.                                           *)

(* A halt is still to come of a file no watch has found. *)
KillFileSet ==
    /\ ~killFile /\ halts < MaxHalts
    /\ killFile' = TRUE
    /\ UNCHANGED <<killed, pulled, halts, spell, apart, alone, execVars, owed, queue>>

KillFileRemoved ==
    /\ killFile /\ killFile' = FALSE
    /\ UNCHANGED <<killed, pulled, halts, spell, apart, alone, execVars, owed, queue>>

FeedMayPull == halts + (IF killFile /\ ~killed THEN 1 ELSE 0) < MaxHalts

SweepBegins ==
    /\ queue # <<>> /\ Head(queue) = SweepCmd /\ running = NoSweep
    /\ running' = spell
    /\ UNCHANGED <<haltVars, owed, queue, answers, proven>>

(* cancel_all_and_verify returns, and the engine is told what it returned.  *)
SweepEnds(ok) ==
    /\ running # NoSweep
    /\ running' = NoSweep
    /\ queue' = Tail(queue)
    /\ answers' = Append(answers, Verified(ok))
    /\ proven' = IF ok THEN running ELSE proven
    /\ UNCHANGED <<haltVars, owed>>

OtherQueued ==
    /\ Len(queue) < Depth
    /\ queue' = Append(queue, Other)
    /\ UNCHANGED <<haltVars, execVars, owed>>

OtherServed ==
    /\ queue # <<>> /\ Head(queue) = Other
    /\ queue' = Tail(queue)
    /\ UNCHANGED <<haltVars, execVars, owed>>

-----------------------------------------------------------------------------
(* The arming sweep has proved the book, and no halt of this run owes       *)
(* anything yet; a run with a health file starts pulled.                    *)
SweepInit ==
    /\ killFile \in BOOLEAN /\ killed = FALSE
    /\ pulled \in BOOLEAN
    /\ owed = NotOwed
    /\ queue = <<>> /\ answers = <<>>
    /\ running = NoSweep
    /\ halts = 0 /\ spell = 0 /\ apart = TRUE /\ alone = TRUE /\ proven = 0

Cancels == {<<>>, <<Other>>}

Ticks == KillWatch \/ \E cs \in Cancels : KillEngages(cs)

SweepNext ==
    \/ KillFileSet \/ KillFileRemoved
    \/ Ticks
    \/ FeedMayPull /\ \E cs \in Cancels : FeedPulls(cs)
    \/ FeedHealthy
    \/ HearsSweep
    \/ SweepBegins
    \/ \E ok \in BOOLEAN : SweepEnds(ok)
    \/ OtherQueued \/ OtherServed

SweepSpec == SweepInit /\ [][SweepNext]_sweepVars

(* The engine's loop and the executor's go on, and every request a sweep    *)
(* makes times out.  The channel drains at the venue's rate limit, so a     *)
(* tick finds room in it again and again, and is not always the unlucky     *)
(* one; and a venue asked again and again answers in the end.               *)
SweepFairness ==
    /\ WF_sweepVars(Ticks)
    /\ SF_sweepVars(Ticks /\ Len(queue) < Depth)
    /\ WF_sweepVars(HearsSweep)
    /\ WF_sweepVars(SweepBegins) /\ WF_sweepVars(OtherServed)
    /\ WF_sweepVars(\E ok \in BOOLEAN : SweepEnds(ok))
    /\ SF_sweepVars(SweepEnds(TRUE))

FairSweepSpec == SweepSpec /\ SweepFairness

-----------------------------------------------------------------------------
Messages == [kind : {"sweep_result"}, ok : BOOLEAN]

SweepTypeOK ==
    /\ killFile \in BOOLEAN /\ killed \in BOOLEAN /\ pulled \in BOOLEAN
    /\ owed \in OwedSweep
    /\ Len(queue) <= Depth
    /\ halts \in 0..MaxHalts /\ spell \in 0..halts
    /\ apart \in BOOLEAN /\ alone \in BOOLEAN
    /\ proven \in 0..spell
    /\ running \in {NoSweep} \cup 0..spell
    /\ queue \in Seq({SweepCmd, Other})
    /\ answers \in Seq(Messages)

Outstanding ==
    Cardinality({i \in DOMAIN queue : queue[i] = SweepCmd})
        + Cardinality({i \in DOMAIN answers : answers[i].kind = "sweep_result"})

(* However long a venue takes over a sweep and whatever the clock retries,  *)
(* there is never a second account-wide cancel-all behind one at large.     *)
(* Except after a halt that owed the venue anew while one was: the answer   *)
(* to the old sweep is then taken for the new one's.                        *)
NeverStacked == alone => Outstanding <= 1

(* Stopped with no sweep at large, the engine owes one until there is proof *)
(* and whatever halts come on top: once it owes none, a sweep that began    *)
(* after it stopped has verified the book clean.                            *)
OwedUntilProven == apart /\ ~owed.owed => proven = spell

(* No sweep is ever offered on the way out of a halt: it would be a         *)
(* cancel-all over quotes that have just been rested again.                 *)
OfferedOnlyInForce ==
    [][Len(queue') > Len(queue) /\ queue'[Len(queue')] = SweepCmd
          => (killFile /\ killed') \/ pulled']_sweepVars

(* A halt that began with no sweep at large and stays in force is proven in *)
(* the end: a sweep begun after it verifies the book clean, whatever the    *)
(* venue refuses, however often the channel is full and however often the   *)
(* other halt owes the venue anew.                                          *)
HaltIsProven == Halted /\ apart ~> proven = spell \/ ~Halted

(* The doc of on_sweep_result, of a halt that re-owes a venue while a sweep *)
(* is in flight: "so the book still gets proven and the gauge is early      *)
(* rather than wrong".  A halt that owes nothing and has no sweep at large  *)
(* was proven.                                                              *)
GaugeIsEarlyNotWrong == Halted /\ ~owed.owed /\ ~AtLarge => proven = spell
=============================================================================
