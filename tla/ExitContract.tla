---------------------------- MODULE ExitContract ----------------------------
(***************************************************************************)
(* What a maker exit promises of the orders it rests, with no process, no  *)
(* file, no answer and no crash in it.  An order is taken on; while it is  *)
(* open it trades; only once it is dead are its contracts closed on the    *)
(* other venue, never more of them than it traded; it is let go of when    *)
(* all of them are closed; and it is never taken up again.                 *)
(***************************************************************************)
EXTENDS Naturals

CONSTANT Rests   \* the orders that may ever be rested

VARIABLES
    held,     \* the orders somebody answers for
    gone,     \* the orders that have been let go of
    open,     \* the orders that may still trade
    traded,   \* contracts of each that traded
    closed    \* contracts closed against each

promised == <<held, gone, open, traded, closed>>

Begin ==
    /\ held = {} /\ gone = {} /\ open = {}
    /\ traded = [r \in Rests |-> 0]
    /\ closed = [r \in Rests |-> 0]

TakeOn(r) ==
    /\ r \notin held \cup gone
    /\ traded[r] = 0 /\ closed[r] = 0
    /\ held' = held \cup {r}
    /\ open' = open \cup {r}
    /\ UNCHANGED <<gone, traded, closed>>

(* The venue decides when.  An order that trades may be gone with it.      *)
Trade(r) ==
    /\ r \in open
    /\ traded'[r] \in Nat /\ traded'[r] >= traded[r]
    /\ traded' = [traded EXCEPT ![r] = traded'[r]]
    /\ open' \in {open, open \ {r}}
    /\ UNCHANGED <<held, gone, closed>>

(* Orders die without trading, several at once when a sweep takes them.    *)
Die ==
    /\ open' \subseteq open
    /\ UNCHANGED <<held, gone, traded, closed>>

Close(r) ==
    /\ r \in held /\ r \notin open
    /\ closed'[r] \in closed[r]..traded[r]
    /\ closed' = [closed EXCEPT ![r] = closed'[r]]
    /\ UNCHANGED <<held, gone, open, traded>>

(* A venue that refuses an order lets it go and kills it.                  *)
Refuse(r) == r \in open /\ traded[r] = 0

LetGo(r) ==
    /\ r \in held
    /\ r \notin open \/ Refuse(r)
    /\ closed[r] = traded[r]
    /\ held' = held \ {r}
    /\ gone' = gone \cup {r}
    /\ open' = open \ {r}
    /\ UNCHANGED <<traded, closed>>

Move == Die \/ \E r \in Rests : TakeOn(r) \/ Trade(r) \/ Close(r) \/ LetGo(r)

Promise == Begin /\ [][Move]_promised
=============================================================================
