--------------------------- MODULE MCCollections ---------------------------
(***************************************************************************)
(* Small instances of Collections.  A behaviour has one charge, one        *)
(* request that reports it and one dunning job, and two of one of these.   *)
(* An execution may die where there are two jobs.                          *)
(***************************************************************************)
EXTENDS Collections, TLC

CONSTANTS e1, k1, k2, w1, w2, q1, q2

VARIABLE shape

MCYearOf == [d \in Days |-> 0]

\* A period lasts longer than the calendar of the model.
MCPeriods == [e \in Enrollments |-> [d \in 0 .. Cycle - 1 |-> MaxDay + 1]]

InShape ==
    /\ shape # "charges" => results[k2] = None
    /\ shape # "deliveries" => settling[q2].pc = "idle"
    /\ shape # "jobs" => dunning[w2].pc = "idle" /\ crashes = 0

MCInit == CollectingInit /\ shape \in {"charges", "deliveries", "jobs"}
MCNext == (CollectingNext \/ Surroundings) /\ UNCHANGED shape /\ InShape'

MCSpec ==
    /\ MCInit
    /\ [][MCNext]_<<shape, collectingVars>>
    /\ WF_collectingVars(NextDay /\ UNCHANGED collectionVars)
    /\ CollectingFairness
=============================================================================
