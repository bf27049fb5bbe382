-------------------------------- MODULE Halt --------------------------------
(***************************************************************************)
(* The way out of an armed arb-trader: the latch at the effects boundary,  *)
(* the executors that dispatch against it, the entry points that halt, the *)
(* sweep of every venue (module Sweep) and the exit code.                  *)
(*                                                                         *)
(* Each venue's executor serves one command at a time: a place of a maker  *)
(* (which rests) or of a taker (which does not), or another command that   *)
(* only keeps it busy.  The maker-exit task places resting orders too, on  *)
(* the same sinks and past the executors.  A place that reaches its venue  *)
(* does so before the call for it returns.                                 *)
(***************************************************************************)
EXTENDS Sweep, Sequences, SequencesExt

CONSTANTS
    Kind,       \* what each order is
    At,         \* the venue each order is for
    Halters,    \* the entry points that may halt this process
    Entry       \* how each of them enters

ASSUME HaltAssumption ==
    /\ Kind \in [Orders -> {"maker", "taker", "other", "sidecar"}]
    /\ At \in [Orders -> Venues]
    /\ Entry \in [Halters -> {"signal", "crash", "panic"}]

VARIABLES
    halted,     \* Halt.halted
    inflight,   \* the places counted by Halt.inflight_places
    discarded,  \* the places counted by Halt.discarded
    todo,       \* the orders this process has not decided on yet
    queue,      \* the commands waiting at each venue's executor
    ex,         \* what each executor is doing, and with which command
    aside,      \* places of the maker-exit task on the wire
    claimed,    \* HALTING: some entry point owns the exit
    halter,     \* where each entry point is
    stuck,      \* places_inflight_at_verify is not zero
    leg,        \* discarded_takers, as the outcome has it, is not zero
    exit        \* the exit code, Running until there is one

execVars   == <<halted, inflight, discarded, todo, queue, ex, aside>>
halterVars == <<claimed, halter, stuck, leg, exit>>
vars       == <<sweepVars, execVars, halterVars>>

Running     == -1
Up          == exit = Running
IsPlace(o)  == Kind[o] \in {"maker", "taker"}
IsTaker(o)  == Kind[o] = "taker"
Idle       == [pc |-> "idle"]
Busy(pc, o) == [pc |-> pc, cmd |-> o]

-----------------------------------------------------------------------------
(* The engine keeps deciding until the process is gone.                     *)
Emits(o) ==
    /\ Up /\ o \in todo /\ Kind[o] # "sidecar"
    /\ todo' = todo \ {o}
    /\ queue' = [queue EXCEPT ![At[o]] = Append(@, o)]
    /\ UNCHANGED <<sweepVars, halted, inflight, discarded, ex, aside, halterVars>>

(* next_cmd: the oldest taker, or the oldest command. *)
NextCmd(q) ==
    IF \E i \in DOMAIN q : IsTaker(q[i])
    THEN {i \in DOMAIN q : IsTaker(q[i]) /\ \A j \in 1..(i - 1) : ~IsTaker(q[j])}
    ELSE DOMAIN q \cap {1}

(* The executor takes a command; the gate discards a place once halted.     *)
Takes(v) ==
    /\ Up /\ ex[v].pc = "idle"
    /\ \E i \in NextCmd(queue[v]) :
          LET o == queue[v][i]
          IN  /\ queue' = [queue EXCEPT ![v] = RemoveAt(queue[v], i)]
              /\ IF halted /\ IsPlace(o)
                 THEN discarded' = discarded \cup {o} /\ ex' = ex
                 ELSE discarded' = discarded /\ ex' = [ex EXCEPT ![v] = Busy("held", o)]
    /\ UNCHANGED <<sweepVars, halted, inflight, todo, aside, halterVars>>

(* The token bucket, and what a hedge retry asks before it is placed, hold  *)
(* the command for a while; the latter may refuse it, and a command that is *)
(* not a place is served.                                                   *)
LetsGo(v) ==
    /\ Up /\ ex[v].pc = "held"
    /\ ~IsPlace(ex[v].cmd) \/ IsTaker(ex[v].cmd)
    /\ ex' = [ex EXCEPT ![v] = Idle]
    /\ UNCHANGED <<sweepVars, halted, inflight, discarded, todo, queue, aside, halterVars>>

(* Halt::enter: count the place first, read the latch after. *)
EntersCount(v) ==
    /\ Up /\ ex[v].pc = "held" /\ IsPlace(ex[v].cmd)
    /\ inflight' = inflight \cup {ex[v].cmd}
    /\ ex' = [ex EXCEPT ![v] = Busy("counted", ex[v].cmd)]
    /\ UNCHANGED <<sweepVars, halted, discarded, todo, queue, aside, halterVars>>

(* The latch is read at the gate only, not after the place is counted. *)
MutEntersUnread(v) ==
    /\ Up /\ ex[v].pc = "counted"
    /\ ex' = [ex EXCEPT ![v] = Busy("wire", ex[v].cmd)]
    /\ UNCHANGED <<sweepVars, halted, inflight, discarded, todo, queue, aside, halterVars>>

EntersLatch(v) ==
    /\ Up /\ ex[v].pc = "counted"
    /\ IF halted
       THEN /\ inflight' = inflight \ {ex[v].cmd}
            /\ discarded' = discarded \cup {ex[v].cmd}
            /\ ex' = [ex EXCEPT ![v] = Idle]
       ELSE /\ UNCHANGED <<inflight, discarded>>
            /\ ex' = [ex EXCEPT ![v] = Busy("wire", ex[v].cmd)]
    /\ UNCHANGED <<sweepVars, halted, todo, queue, aside, halterVars>>

(* The place reaches the venue: a maker rests, a taker is gone. *)
Reaches(v) ==
    /\ Up /\ ex[v].pc = "wire"
    /\ ex' = [ex EXCEPT ![v] = Busy("answering", ex[v].cmd)]
    /\ IF IsTaker(ex[v].cmd) THEN UNCHANGED sweepVars ELSE Lands(v, ex[v].cmd)
    /\ UNCHANGED <<halted, inflight, discarded, todo, queue, aside, halterVars>>

(* The call returns, answered or refused, and drops its guard. *)
Returns(v) ==
    /\ Up /\ ex[v].pc \in {"wire", "answering"}
    /\ inflight' = inflight \ {ex[v].cmd}
    /\ ex' = [ex EXCEPT ![v] = Idle]
    /\ UNCHANGED <<sweepVars, halted, discarded, todo, queue, aside, halterVars>>

OrderLeaves(v, o) == Up /\ Leaves(v, o) /\ UNCHANGED <<execVars, halterVars>>

-----------------------------------------------------------------------------
(* The maker-exit task: it calls the sinks itself, and reads no latch.      *)
SidecarSends(o) ==
    /\ Up /\ o \in todo /\ Kind[o] = "sidecar"
    /\ todo' = todo \ {o}
    /\ aside' = aside \cup {o}
    /\ UNCHANGED <<sweepVars, halted, inflight, discarded, queue, ex, halterVars>>

SidecarReaches(o) ==
    /\ Up /\ o \in aside
    /\ aside' = aside \ {o}
    /\ Lands(At[o], o)
    /\ UNCHANGED <<halted, inflight, discarded, todo, queue, ex, halterVars>>

(* A checkpoint it cannot write ends the process there and then. *)
CheckpointFails ==
    /\ Up /\ \E o \in Orders : Kind[o] = "sidecar"
    /\ exit' = 19
    /\ UNCHANGED <<sweepVars, execVars, claimed, halter, stuck, leg>>

-----------------------------------------------------------------------------
(* The halt.                                                                *)

(* Latch first.  A crash (WAL or ledger write) that finds the exit owned    *)
(* goes no further.                                                         *)
Begins(h) ==
    /\ Up /\ halter[h] = "running"
    /\ halted' = TRUE
    /\ halter' = [halter EXCEPT ![h] =
                     IF Entry[h] = "crash" /\ claimed THEN "gone" ELSE "claiming"]
    /\ UNCHANGED <<sweepVars, inflight, discarded, todo, queue, ex, aside,
                   claimed, stuck, leg, exit>>

(* A signal's halt does not claim the exit. *)
MutSignalUnclaimed(h) ==
    /\ Up /\ halter[h] = "claiming"
    /\ claimed' = (claimed \/ Entry[h] # "signal")
    /\ halter' = [halter EXCEPT ![h] =
                     IF ~claimed \/ Entry[h] = "signal" THEN "quiescing"
                     ELSE IF Entry[h] = "panic" THEN "waiting" ELSE "gone"]
    /\ UNCHANGED <<sweepVars, execVars, stuck, leg, exit>>

(* claim_halt: the first owns the exit.  The others leave it to the owner,  *)
(* except a panic, which may not return and waits to be killed.             *)
Claims(h) ==
    /\ Up /\ halter[h] = "claiming"
    /\ claimed' = TRUE
    /\ halter' = [halter EXCEPT ![h] =
                     IF ~claimed THEN "quiescing"
                     ELSE IF Entry[h] = "panic" THEN "waiting" ELSE "gone"]
    /\ UNCHANGED <<sweepVars, execVars, stuck, leg, exit>>

(* The wait for the places in flight has no budget. *)
MutQuiescesForever(h) ==
    /\ Up /\ halter[h] = "quiescing" /\ inflight = {}
    /\ stuck' = FALSE
    /\ halter' = [halter EXCEPT ![h] = "sweeping"]
    /\ sweep' = [v \in Venues |-> FreshSweep("cancel")]
    /\ UNCHANGED <<book, listed, execVars, claimed, leg, exit>>

(* await_quiescent: no place in flight, or its budget spent over some.      *)
Quiesces(h) ==
    /\ Up /\ halter[h] = "quiescing"
    /\ stuck' = (inflight # {})
    /\ halter' = [halter EXCEPT ![h] = "sweeping"]
    /\ sweep' = [v \in Venues |-> FreshSweep("cancel")]
    /\ UNCHANGED <<book, listed, execVars, claimed, leg, exit>>

(* shutdown_sweep is done when every venue has a verdict; then the outcome  *)
(* takes the latch's counts.                                                *)
Concludes(h) ==
    /\ Up /\ halter[h] = "sweeping"
    /\ \A v \in Venues : sweep[v].pc \in Verdicts
    /\ leg' = (\E o \in discarded : IsTaker(o))
    /\ halter' = [halter EXCEPT ![h] = "concluded"]
    /\ UNCHANGED <<sweepVars, execVars, claimed, stuck, exit>>

(* ShutdownOutcome::exit_code, and halt_exit_code over a stop's own code.   *)
OwnCode(h) ==
    CASE Entry[h] = "signal" -> 0 [] Entry[h] = "crash" -> 70 [] Entry[h] = "panic" -> 101

(* Places in flight at the verify are a warning and not a verdict. *)
MutExitCodeIgnoresStuck(h) ==
    IF leg \/ \E v \in Venues : sweep[v].pc = "unclean" THEN 17
    ELSE IF \E v \in Venues : sweep[v].pc = "unconfirmed" THEN 18
    ELSE OwnCode(h)

ExitCode(h) ==
    IF stuck \/ leg \/ \E v \in Venues : sweep[v].pc = "unclean" THEN 17
    ELSE IF \E v \in Venues : sweep[v].pc = "unconfirmed" THEN 18
    ELSE OwnCode(h)

Exits(h) ==
    /\ Up /\ halter[h] = "concluded"
    /\ exit' = ExitCode(h)
    /\ UNCHANGED <<sweepVars, execVars, claimed, halter, stuck, leg>>

(* A panic that lost the claim and was not killed in HALT_LOSER_WAIT. *)
LoserExits(h) ==
    /\ Up /\ halter[h] = "waiting"
    /\ exit' = 17
    /\ UNCHANGED <<sweepVars, execVars, claimed, halter, stuck, leg>>

Sweeping(v) == Up /\ SweepStep(v) /\ UNCHANGED <<execVars, halterVars>>

-----------------------------------------------------------------------------
Init ==
    /\ SweepInit
    /\ halted = FALSE /\ inflight = {} /\ discarded = {} /\ aside = {}
    /\ todo = Orders
    /\ queue = [v \in Venues |-> <<>>]
    /\ ex = [v \in Venues |-> Idle]
    /\ claimed = FALSE /\ stuck = FALSE /\ leg = FALSE
    /\ halter = [h \in Halters |-> "running"]
    /\ exit = Running

Halting(h) ==
    \/ Claims(h)
    \/ Quiesces(h)
    \/ Concludes(h)
    \/ Exits(h)
    \/ LoserExits(h)

Next ==
    \/ \E o \in Orders : Emits(o) \/ SidecarSends(o) \/ SidecarReaches(o)
    \/ \E v \in Venues : Takes(v) \/ LetsGo(v) \/ EntersCount(v) \/ EntersLatch(v)
    \/ \E v \in Venues : Reaches(v) \/ Returns(v) \/ Sweeping(v)
    \/ \E v \in Venues, o \in Orders : OrderLeaves(v, o)
    \/ CheckpointFails
    \/ \E h \in Halters : Begins(h) \/ Halting(h)

(* Every wait of a halt is under a deadline; a place on the wire is not.    *)
Fairness ==
    /\ \A h \in Halters : WF_vars(Halting(h))
    /\ \A v \in Venues : WF_vars(Sweeping(v))

Spec == Init /\ [][Next]_vars
FairSpec == Spec /\ Fairness

-----------------------------------------------------------------------------
TypeOK ==
    /\ SweepTypeOK
    /\ halted \in BOOLEAN /\ claimed \in BOOLEAN /\ stuck \in BOOLEAN /\ leg \in BOOLEAN
    /\ inflight \subseteq Orders /\ discarded \subseteq Orders
    /\ todo \subseteq Orders /\ aside \subseteq Orders
    /\ queue \in [Venues -> Seq(Orders)]
    /\ ex \in [Venues -> {Idle} \cup
                         [pc : {"held", "counted", "wire", "answering"}, cmd : Orders]]
    /\ halter \in [Halters -> {"running", "claiming", "quiescing", "sweeping",
                               "concluded", "waiting", "gone"}]
    /\ exit \in {Running, 0, 17, 18, 19, 70, 101}

Sidecars == {o \in Orders : Kind[o] = "sidecar"}

(* Only one entry point ever quiesces, sweeps and decides the exit code.    *)
OneOwner ==
    \A g, h \in Halters :
        {halter[g], halter[h]} \subseteq {"quiescing", "sweeping", "concluded"} => g = h

(* Once the owner has found no place in flight, no executor's order reaches *)
(* a venue: the count and the latch leave no interleaving in which a place  *)
(* slips out unseen.                                                        *)
NoneSlipsOut ==
    [][(~stuck /\ \E h \in Halters : halter[h] \in {"sweeping", "concluded"})
          => \A v \in Venues : book'[v] \ book[v] \subseteq Sidecars]_vars

(* The process never exits with a code that says the book is clean while an *)
(* order an executor placed rests at a venue or is on its way to one.       *)
CleanExitLeavesNothing ==
    exit \in {0, 70, 101}
        => \A v \in Venues : book[v] \subseteq Sidecars /\ ex[v].pc # "wire"

(* A halt ends the process, whatever hangs at the venues. *)
HaltEnds == halted ~> (exit # Running)

(* The doc of Halt: "Once [`Halt::begin`] has been called, no `Place` may   *)
(* reach a venue from this process again", which is what makes the verify   *)
(* of a book meaningful: no clean exit leaves an order resting.             *)
CleanExitIsEmpty ==
    exit \in {0, 70, 101} => \A v \in Venues : book[v] = {}
=============================================================================
