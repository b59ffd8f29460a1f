----------------------------- MODULE Recurrence -----------------------------
(***************************************************************************)
(* The expansion of a weekly schedule into classes (packages/db/src/       *)
(* rrule.ts), and the horizon that occurrences.service.ts moves forward    *)
(* with it, window after window, each anchored at the local day it starts. *)
(*                                                                         *)
(* Time is in ticks, Day of them in a day; day 0 is the first of the model *)
(* and the first of a week.  A zone has one offset up to an instant and    *)
(* another from then on.                                                   *)
(***************************************************************************)
EXTENDS Integers, FiniteSets

CONSTANTS
    Day,            \* ticks in a day
    Week,           \* days in a week
    LastDay,        \* bound: the days of the model
    Rules,          \* [byDay, interval, until, count]: until and count may be Never
    Zones,          \* [before, change, after]
    Hours,          \* the times of day classes start at
    Never,          \* no bound of its kind
    MaxWindows      \* bound: windows materialized

\* The local times that a change of the clocks skips or repeats, and as many
\* after those skipped, are of one day: no change is made across midnight.
ChangesWithinADay(zone) ==
    LET ahead == zone.change + zone.before
        back  == zone.change + zone.after
    IN  IF zone.before <= zone.after
        THEN (2 * back - ahead - 1) \div Day <= ahead \div Day
        ELSE (ahead - 1) \div Day <= back \div Day

ASSUME RecurrenceAssumption ==
    /\ Day \in Nat \ {0} /\ Week \in Nat \ {0} /\ LastDay \in Nat
    /\ Never \notin Int
    /\ Hours \subseteq 0..(Day - 1)
    /\ Rules \subseteq [byDay : SUBSET Nat, interval : Nat \ {0},
                       until : Int \cup {Never}, count : Nat \cup {Never}]
    /\ Zones \subseteq [before : Int, change : Int, after : Int]
    /\ \A zone \in Zones :
           /\ zone.before - zone.after < Day /\ zone.after - zone.before < Day
           /\ ChangesWithinADay(zone)

VARIABLES
    schedule,       \* [rule, zone, hour]
    start,          \* where the first window began
    ends,           \* where windows have ended, and the next begins
    classes         \* the starts of the classes created

recurrenceVars == <<schedule, start, ends, classes>>

Walked == 0..LastDay
Instants == 0..(LastDay - 1) * Day

Offset(zone, i) == IF i < zone.change THEN zone.before ELSE zone.after

\* localWallTimeToUtc: a second measure settles what a change of offset upsets.
StartOf(d) ==
    LET naive == d * Day + schedule.hour
    IN  naive - Offset(schedule.zone, naive - Offset(schedule.zone, naive))

LocalDay(i) == (i + Offset(schedule.zone, i)) \div Day

OnRule(anchor, d) ==
    /\ d >= anchor
    /\ d % Week \in schedule.rule.byDay
    /\ ((d - anchor) \div Week) % schedule.rule.interval = 0

\* How many instances the walk has seen before day d.
Emitted(anchor, d) == Cardinality({e \in Walked : e < d /\ OnRule(anchor, e)})

\* The first day that stops the walk is not an instance of the rule.
Stops(anchor, d) ==
    LET rule == schedule.rule
    IN  /\ OnRule(anchor, d)
        /\ \/ rule.until # Never /\ StartOf(d) > rule.until
           \/ rule.count # Never /\ Emitted(anchor, d) >= rule.count

\* The walk ends after the first day on which it is past the window: by the
\* start of the class, or by the next date read as midnight in UTC.
Leaves(anchor, d, to) ==
    /\ schedule.rule.count = Never
    /\ \/ OnRule(anchor, d) /\ schedule.rule.until = Never /\ StartOf(d) >= to
       \/ (d + 1) * Day > to

Visited(anchor, d, to) ==
    \A e \in anchor..(d - 1) : ~Stops(anchor, e) /\ ~Leaves(anchor, e, to)

\* A slip to catch: the lower bound is taken as exclusive.
AfterStart(s, from, to) == from < s /\ s < to
InWindow(s, from, to) == from <= s /\ s < to

ExpandWeekly(anchor, from, to) ==
    {StartOf(d) : d \in {e \in Walked :
        /\ OnRule(anchor, e) /\ Visited(anchor, e, to) /\ ~Stops(anchor, e)
        /\ InWindow(StartOf(e), from, to)}}

-----------------------------------------------------------------------------
LastEnd == CHOOSE e \in ends : \A o \in ends : o <= e

RecurrenceInit ==
    /\ schedule \in [rule : Rules, zone : Zones, hour : Hours]
    /\ start \in 0..Day
    /\ ends = {start}
    /\ classes = {}

\* A window may overlap the one before, by up to a tick (bound): the unique key
\* of a class drops what exists already.
MaterializeUpTo(from, to) ==
    /\ start <= from /\ to > LastEnd
    /\ Cardinality(ends) <= MaxWindows
    /\ classes' = classes \cup ExpandWeekly(LocalDay(from), from, to)
    /\ ends' = ends \cup {to}
    /\ UNCHANGED <<schedule, start>>

RecurrenceNext ==
    \E from \in {LastEnd - 1, LastEnd}, to \in Instants : MaterializeUpTo(from, to)

RecurrenceSpec == RecurrenceInit /\ [][RecurrenceNext]_recurrenceVars

-----------------------------------------------------------------------------
(* Properties.                                                             *)
Due(d) ==
    /\ d % Week \in schedule.rule.byDay
    /\ start <= StartOf(d) /\ StartOf(d) < LastEnd
    /\ schedule.rule.until # Never => StartOf(d) <= schedule.rule.until

\* East of UTC a class of the local day that a window ends in is not reached when
\* that day begins, by UTC, after the window.
CutOff(d) == \E to \in ends : start < to /\ StartOf(d) < to /\ d * Day > to

\* However the horizon is moved forward, over a change of the clocks too, a rule
\* of every week gives each class of the weekdays it names once, at its local
\* time, until it ends and not after: none is lost between two windows but those
\* cut off at the end of one, and none is made up.  (COUNT and INTERVAL start
\* again in every window, so they hold within one only.)
HorizonComplete ==
    ends # {start} =>
    LET rule == schedule.rule
    IN  /\ rule.interval = 1 /\ rule.count = Never =>
              /\ classes \subseteq {StartOf(d) : d \in {e \in Walked : Due(e)}}
              /\ \A d \in Walked : Due(d) => StartOf(d) \in classes \/ CutOff(d)
        /\ rule.count # Never =>
              Cardinality(classes) <= rule.count * (Cardinality(ends) - 1)
=============================================================================
