---------------------------- MODULE MCScheduling ----------------------------
(***************************************************************************)
(* One class, the members who want its seats and two callers at a time.    *)
(* Every pair of operations overlaps in one of the workloads.  Members and *)
(* callers are interchangeable.  A class has two seats only where capacity *)
(* is edited.  With no operation to overlap, the horizon of a schedule is  *)
(* moved forward instead.                                                  *)
(***************************************************************************)
EXTENDS Scheduling, Recurrence, TLC

BookingAndOneMore ==
    {{"edit", "materialize", "book", "crash"}, {"materialize", "book", "time", "attend"},
     {"materialize", "book", "time", "remind", "crash"}, {}}

\* A week of two days of four ticks.
rule(days, interval, until, count) ==
    [byDay |-> days, interval |-> interval, until |-> until, count |-> count]
zone(before, change, after) == [before |-> before, change |-> change, after |-> after]
WeeklyRules ==
    {rule({0}, 1, Never, Never), rule({0, 1}, 1, Never, Never), rule({1}, 1, 9, Never),
     rule({1}, 2, Never, Never), rule({0, 1}, 1, Never, 2)}
ZonesEastAndWest == {zone(0, 0, 0), zone(1, 9, 2), zone(2, 10, 1), zone(-1, 9, 0)}
AnySchedule == CHOOSE s \in [rule : Rules, zone : Zones, hour : Hours] : TRUE

MCInit ==
    /\ SchedulingInit /\ RecurrenceInit
    /\ workload # {} => schedule = AnySchedule /\ start = 0
    /\ "edit" \notin workload => capacity = 1
MCNext ==
    \/ workload # {} /\ SchedulingNext /\ UNCHANGED recurrenceVars
    \/ workload = {} /\ RecurrenceNext /\ UNCHANGED schedulingVars
MCSpec == MCInit /\ [][MCNext]_<<schedulingVars, recurrenceVars>>

InterchangeableCallers == Permutations(Members) \cup Permutations(Callers)
=============================================================================
