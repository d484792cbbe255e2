---------------------------- MODULE MCScheduler ----------------------------
(* Small instances of Scheduler; the first two calls share a run id, as the *)
(* attempts of one run may.                                                 *)
EXTENDS Scheduler, TLC

CONSTANTS c1, c2, c3, id1, id2

MCCalls  == {c1, c2, c3}
MCRunIds == {id1, id2}
MCRunId  == c1 :> id1 @@ c2 :> id1 @@ c3 :> id2

\* The rank definition of Drop is SelectSeq.
ASSUME DropIsSelectSeq ==
  \A n \in 0..3 : \A q \in [1..n -> {1, 2, 3}] : \A gone \in SUBSET {1, 2, 3} :
    Drop(q, gone) = SelectSeq(q, LAMBDA c : c \notin gone)

\* A call's target means nothing before run(): one initial value stands for all.
AnyTarget  == CHOOSE t \in Targets : TRUE
MCInit     == Init /\ target = [c \in Calls |-> AnyTarget]
MCSpec     == MCInit /\ [][Next]_vars
MCFairSpec == MCSpec /\ Fairness
=============================================================================
