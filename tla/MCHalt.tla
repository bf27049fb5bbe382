------------------------------- MODULE MCHalt -------------------------------
(* Instances of Halt for TLC: Kalshi with a maker, a hedge, a cancel and a   *)
(* maker-exit order of its own; three entry points, one of each kind.        *)
EXTENDS Halt

CONSTANTS kalshi, maker, hedge, cancel, resting, sigterm, wal, panic

KindEach ==
    [o \in Orders |-> CASE o = maker -> "maker" [] o = hedge -> "taker"
                        [] o = cancel -> "other" [] o = resting -> "sidecar"]
AtKalshi == [o \in Orders |-> kalshi]
EntryEach ==
    [h \in Halters |-> CASE h = sigterm -> "signal" [] h = wal -> "crash"
                         [] h = panic -> "panic"]
=============================================================================
