--------------------------- MODULE MC_DirectUpload ---------------------------
(* Two handlers work on the direct upload of one file, and one on its retry; or two
   starts meet in the store, under a policy that changes. *)
EXTENDS DirectUpload

CONSTANTS a, b

Retry ==
    \/ owner[2] # "unborn"
    \/ owner[1] # "unborn" /\ \E r \in Requests : rq[r].at = "begin"

\* One fault, and a retry without a second handler, a fault or a part that the first
\* attempt had signed.
OneFile ==
    /\ drops + Cardinality(interrupted) <= 1
    /\ Retry => /\ Cardinality({r \in Requests : rq[r].at # "idle"}) <= 1
                /\ \A r \in Requests : rq[r].id # 1
                /\ drops = 0 /\ interrupted = {} /\ signed[1] = {}
                /\ signs = Cardinality(signed[2])

\* Browsers that start uploads and go away, and uploads that end one after another,
\* known not to be published.
TwoFiles ==
    /\ interrupted = {} /\ signs = 0
    /\ \A r \in Requests : rq[r].op \in {None, "start"}
    /\ Cardinality({id \in Ids : owner[id] \in Settling \ {"ended"}}) <= 1
    /\ \A id \in Ids : outcome[id] # "unknown"

\* The bound of the run.  It holds back only clients, administrators and faults, to
\* which Fairness owes nothing.
Second == \/ concurrency = 2 \/ \E id \in Ids : session[id].path = b
          \/ \E r \in Requests : rq[r].path = b
Bound == IF Second THEN TwoFiles ELSE OneFile

MCSpec == Init /\ [][Next /\ Bound']_vars /\ Fairness
=============================================================================
