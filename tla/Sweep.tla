------------------------------- MODULE Sweep -------------------------------
(***************************************************************************)
(* cancel_all_and_verify: cancel everything resting at a venue and prove   *)
(* it gone.  One implementation serves the start, the kill switch and the  *)
(* exit; this module is that implementation, one sweep per venue, with the *)
(* venue's book and its lagging list of resting orders.  A module that     *)
(* extends it says when a sweep starts and when orders land.               *)
(*                                                                         *)
(* A venue's list lags a write.  The bound the code counts on is stated    *)
(* here: an access to the list answers with the book as it is, or as it    *)
(* was at the access before (poll_delay outlasts the lag).                 *)
(***************************************************************************)
EXTENDS Integers

CONSTANTS
    Venues,     \* the armed venues
    Orders,     \* every order this process may place at one
    Rounds,     \* SweepPolicy.rounds: how often cancel-all may be issued
    Polls,      \* SweepPolicy.polls_per_round
    NeedEmpty   \* SweepPolicy.confirm_empty_reads

ASSUME SweepAssumption == {Rounds, Polls, NeedEmpty} \subseteq Nat \ {0}

VARIABLES
    book,       \* the orders resting at each venue
    listed,     \* the book of each venue at the last access to its list
    sweep       \* the sweep of each venue

sweepVars == <<book, listed, sweep>>

(* pc is the place in the loop or the verdict; `late` and `before` are a    *)
(* history: the orders landed since the current run of empty reads began,   *)
(* and those every answer to the last cancel-all must have shown.           *)
Verdicts == {"clean", "unconfirmed", "unclean"}

Sweeps ==
    [pc : {"idle", "cancel", "read"} \cup Verdicts, round : 0..Rounds, poll : 0..Polls,
     empties : 0..NeedEmpty, seen : BOOLEAN, accepted : BOOLEAN,
     late : SUBSET Orders, before : SUBSET Orders]

FreshSweep(pc) ==
    [pc |-> pc, round |-> 0, poll |-> 0, empties |-> 0, seen |-> FALSE,
     accepted |-> FALSE, late |-> {}, before |-> {}]

SweepInit ==
    /\ book = [v \in Venues |-> {}]
    /\ listed = [v \in Venues |-> {}]
    /\ sweep = [v \in Venues |-> FreshSweep("idle")]

-----------------------------------------------------------------------------
(* The venue.                                                               *)

Answers(v) == {listed[v], book[v]}

(* An order comes to rest, or leaves by a fill or a cancel of its own.      *)
Lands(v, o) ==
    /\ book' = [book EXCEPT ![v] = @ \cup {o}]
    /\ sweep' = [sweep EXCEPT ![v].late = IF sweep[v].empties > 0 THEN @ \cup {o} ELSE @]
    /\ UNCHANGED listed

Leaves(v, o) ==
    /\ o \in book[v]
    /\ book' = [book EXCEPT ![v] = @ \ {o}]
    /\ UNCHANGED <<listed, sweep>>

-----------------------------------------------------------------------------
(* What a sweep that gives up can say.  `seen` latches; `accepted` is the   *)
(* last cancel-all's, so that an early success cannot vouch for a late      *)
(* refusal.                                                                 *)
Verdict(s) == IF ~s.seen /\ s.accepted THEN "unconfirmed" ELSE "unclean"

(* After a poll that did not prove the book empty: the budget may be spent, *)
(* or the round goes on, or the next one begins, or none is left.           *)
AfterPoll(s) ==
    {[s EXCEPT !.pc = Verdict(s)]}
        \cup (IF s.poll < Polls THEN {s} ELSE {})
        \cup (IF s.poll = Polls /\ s.round < Rounds THEN {[s EXCEPT !.pc = "cancel"]} ELSE {})

Polled(v, answers) ==
    /\ sweep[v].pc = "read"
    /\ \E s \in answers : sweep' = [sweep EXCEPT ![v] = s]
    /\ listed' = [listed EXCEPT ![v] = book[v]]
    /\ UNCHANGED book

(* One accepted cancel-all vouches for every later one. *)
MutCancelLatched(v, accepted, gone) ==
    /\ sweep[v].pc = "cancel"
    /\ sweep' = [sweep EXCEPT ![v] =
                    [sweep[v] EXCEPT !.pc = "read", !.round = sweep[v].round + 1, !.poll = 0,
                                     !.accepted = sweep[v].accepted \/ accepted,
                                     !.before = listed[v] \cap book[v]]]
    /\ book' = [book EXCEPT ![v] = @ \ gone]
    /\ listed' = [listed EXCEPT ![v] = book[v]]

(* cancel_all_open, accepted: all it was shown is cancelled.  Refused: some *)
(* of it may be.  Either way the round's reads follow.                      *)
CancelRound(v, accepted, gone) ==
    /\ sweep[v].pc = "cancel"
    /\ sweep' = [sweep EXCEPT ![v] =
                    [sweep[v] EXCEPT !.pc = "read", !.round = sweep[v].round + 1, !.poll = 0,
                                     !.accepted = accepted, !.before = listed[v] \cap book[v]]]
    /\ book' = [book EXCEPT ![v] = @ \ gone]
    /\ listed' = [listed EXCEPT ![v] = book[v]]

CancelAll(v)     == \E shown \in Answers(v) : CancelRound(v, TRUE, shown)
CancelRefused(v) == \E shown \in Answers(v) : \E gone \in SUBSET shown : CancelRound(v, FALSE, gone)

(* The first empty read is believed. *)
MutBelievesFirst(v) ==
    /\ {} \in Answers(v)
    /\ Polled(v, {[sweep[v] EXCEPT !.poll = @ + 1, !.empties = @ + 1, !.pc = "clean",
                                    !.late = IF sweep[v].empties = 0 THEN {} ELSE @]})

(* An empty list: proof once NeedEmpty reads in a row have said so.  The    *)
(* count carries over from one round to the next.                           *)
ReadsEmpty(v) ==
    LET s == [sweep[v] EXCEPT !.poll = @ + 1, !.empties = @ + 1,
                              !.late = IF sweep[v].empties = 0 THEN {} ELSE @]
    IN  /\ {} \in Answers(v)
        /\ Polled(v, IF s.empties >= NeedEmpty THEN {[s EXCEPT !.pc = "clean"]} ELSE AfterPoll(s))

ReadsOrders(v) ==
    LET s == [sweep[v] EXCEPT !.poll = @ + 1, !.empties = 0, !.seen = TRUE]
    IN  /\ \E shown \in Answers(v) : shown # {}
        /\ Polled(v, AfterPoll(s))

(* An unreadable list is not an empty one. *)
CannotRead(v) ==
    LET s == [sweep[v] EXCEPT !.poll = @ + 1, !.empties = 0] IN Polled(v, AfterPoll(s))

(* The sweep's task panics, or its caller's deadline passes first. *)
SweepAbandoned(v) ==
    /\ sweep[v].pc \in {"cancel", "read"}
    /\ sweep' = [sweep EXCEPT ![v].pc = "unclean"]
    /\ UNCHANGED <<book, listed>>

SweepStep(v) ==
    \/ CancelAll(v)
    \/ CancelRefused(v)
    \/ ReadsEmpty(v)
    \/ ReadsOrders(v)
    \/ CannotRead(v)
    \/ SweepAbandoned(v)

-----------------------------------------------------------------------------
SweepTypeOK ==
    /\ book \in [Venues -> SUBSET Orders]
    /\ listed \in [Venues -> SUBSET Orders]
    /\ sweep \in [Venues -> Sweeps]

(* A verdict of clean is proof, lag or no lag: whatever still rests landed  *)
(* after the first of the empty reads that proved the book empty.           *)
CleanIsProof ==
    \A v \in Venues : sweep[v].pc = "clean" => book[v] \subseteq sweep[v].late

(* A verdict of unconfirmed, on which callers proceed, never covers an      *)
(* order that the last cancel-all must have been shown.                     *)
UnconfirmedHidesNothing ==
    \A v \in Venues : sweep[v].pc = "unconfirmed" => book[v] \cap sweep[v].before = {}
=============================================================================
