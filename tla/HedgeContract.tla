--------------------------- MODULE HedgeContract ---------------------------
(***************************************************************************)
(* What arb-trader promises of the fills of its maker orders, with no      *)
(* attempt, no frame, no ack and no executor in it.  Every contract an     *)
(* entry order sells is answered at most once: some obligation owes it, or *)
(* it is given up.  An obligation is chased while it is naked.  What is    *)
(* booked against it has traded for it, and is never more than it owes;    *)
(* the rest of what has traded for it is alarmed, once it is covered; and  *)
(* more than it owes trades for it only if it was chased blind, past an    *)
(* attempt that had traded and could not be asked about.                   *)
(***************************************************************************)
EXTENDS Naturals

CONSTANTS
    Entries,   \* the maker orders
    Debts      \* the obligations that may ever be minted

VARIABLES
    sold,      \* contracts each entry order sold
    answered,  \* of those, the contracts answered
    forgone,   \* of those answered, the contracts given up
    owes,      \* contracts each obligation owes
    whose,     \* the entry order it owes them for
    traded,    \* contracts traded at the venues for each obligation
    booked,    \* of those, the contracts in the trade ledger
    extra,     \* of those, the contracts alarmed as over-hedged
    alarmed,   \* obligations alarmed as naked
    blind      \* obligations chased blind

promised == <<sold, answered, forgone, owes, whose, traded, booked, extra, alarmed, blind>>

Begin ==
    /\ sold     = [m \in Entries |-> 0]
    /\ answered = [m \in Entries |-> 0]
    /\ forgone  = [m \in Entries |-> 0]
    /\ whose \in [Debts -> Entries]
    /\ owes   = [c \in Debts |-> 0]
    /\ traded = [c \in Debts |-> 0]
    /\ booked = [c \in Debts |-> 0]
    /\ extra  = [c \in Debts |-> 0]
    /\ alarmed = {} /\ blind = {}

Naked(c) == booked[c] < owes[c]

Sell(m) ==
    /\ sold' = [sold EXCEPT ![m] = @ + 1]
    /\ UNCHANGED <<answered, forgone, owes, whose, traded, booked, extra, alarmed, blind>>

(* The next contracts of an entry order, n of them, are answered.          *)
Answer(m, n) ==
    /\ n > 0 /\ answered[m] + n <= sold[m]
    /\ answered' = [answered EXCEPT ![m] = @ + n]
    /\ UNCHANGED <<sold, traded, booked, extra, alarmed, blind>>

Forgo(m, n) ==
    /\ Answer(m, n)
    /\ forgone' = [forgone EXCEPT ![m] = @ + n]
    /\ UNCHANGED <<owes, whose>>

Owe(m, n, c) ==
    /\ Answer(m, n)
    /\ owes[c] = 0 /\ traded[c] = 0 /\ booked[c] = 0 /\ extra[c] = 0
    /\ c \notin alarmed \cup blind
    /\ owes' = [owes EXCEPT ![c] = n]
    /\ whose' = [whose EXCEPT ![c] = m]
    /\ UNCHANGED forgone

(* A deadline passes: the obligation may be alarmed, another attempt made.  *)
Chase(c) ==
    /\ Naked(c)
    /\ alarmed' \in {alarmed, alarmed \cup {c}}
    /\ blind' \in {blind, blind \cup {c}}
    /\ UNCHANGED <<sold, answered, forgone, owes, whose, traded, booked, extra>>

(* The venues trade for an obligation, however late.                       *)
Trade(c) ==
    /\ owes[c] > 0
    /\ traded'[c] > traded[c]
    /\ traded' = [traded EXCEPT ![c] = traded'[c]]
    /\ blind' \in {blind, blind \cup {c}}
    /\ traded'[c] <= owes[c] \/ c \in blind'
    /\ UNCHANGED <<sold, answered, forgone, owes, whose, booked, extra, alarmed>>

(* n contracts of what has traded are booked, x more alarmed.              *)
Settle(c, n, x) ==
    /\ n + x > 0 /\ booked[c] + extra[c] + n + x <= traded[c]
    /\ booked[c] + n <= owes[c]
    /\ x > 0 => booked[c] + n = owes[c]
    /\ booked' = [booked EXCEPT ![c] = @ + n]
    /\ extra' = [extra EXCEPT ![c] = @ + x]
    /\ UNCHANGED <<sold, answered, forgone, owes, whose, traded, alarmed, blind>>

Move ==
    \/ \E m \in Entries : Sell(m)
    \/ \E m \in Entries : \E n \in 1..sold[m] : Forgo(m, n) \/ \E c \in Debts : Owe(m, n, c)
    \/ \E c \in Debts : Chase(c) \/ Trade(c) \/ \E n, x \in 0..traded[c] : Settle(c, n, x)

Promise == Begin /\ [][Move]_promised
=============================================================================
