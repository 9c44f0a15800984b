----------------------------- MODULE MC_Capacity -----------------------------
(* Two mutation tasks share one local quota with the three reconcilers.       *)
EXTENDS CapacityAccounting

\* The bound of the run: an I/O error, a second running mutation and a lifted
\* limit do not meet.  It holds back only clients, administrators and faults, to
\* which Fairness owes nothing.
Bound ==
    /\ Cardinality({o \in Owners : pc[o] # "idle"}) <= 1 \/ faults = 0
    /\ limit = NoLimit =>
        faults = 0 /\ Cardinality({o \in Owners : pc[o] # "idle"}) <= 1

MCNext == Next /\ Bound'

MCSpec == Init /\ [][MCNext]_vars /\ Fairness
=============================================================================
