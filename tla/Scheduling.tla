----------------------------- MODULE Scheduling -----------------------------
(***************************************************************************)
(* A class from its schedule to the mat: OccurrencesService (materialize,  *)
(* cancel), BookingsService (create, cancel and the promotion from the     *)
(* waitlist), CheckInService and AttendanceService (self check-in, the     *)
(* instructor's roster) and the worker's reminder sweep.                   *)
(*                                                                         *)
(* An action is the code from one database call to the next, so any two    *)
(* callers (API requests, worker jobs) interleave at every await.  A       *)
(* caller may crash between two steps; what it wrote stays written.        *)
(***************************************************************************)
EXTENDS Naturals, FiniteSets

CONSTANTS
    Occurrences,    \* instants of a schedule's rule
    Members,
    Callers,        \* executions of API requests and worker jobs
    Capacities,     \* capacities a schedule may be edited to
    MaxPresent,     \* bound: members of a class whose attendance is recorded
    Workloads,      \* bound: the sets of operations that overlap in a behaviour
    None            \* null

ASSUME SchedulingAssumption ==
    /\ IsFiniteSet(Occurrences) /\ IsFiniteSet(Members) /\ IsFiniteSet(Callers)
    /\ Capacities \subseteq Nat \ {0} /\ Capacities # {}
    /\ MaxPresent \in Nat
    /\ Workloads \subseteq
           SUBSET {"edit", "materialize", "book", "time", "attend", "remind", "crash"}
    /\ Workloads # {}
    /\ None \notin Occurrences \X Members
    /\ None \notin {"booked", "waitlisted", "cancelled", "scheduled"}

VARIABLES
    capacity,       \* the schedule's capacity
    occurrences,    \* the materialized classes
    bookings,       \* one row per occurrence and member, its unique key
    attendance,     \* number of attendance rows, by occurrence and member
    mails,          \* number of class reminders mailed, by booking
    calls,          \* what each caller is in the middle of
    phase,          \* how near the start of each class is
    raced,          \* history: a seat was written on a stale read, or a crash
    workload        \* the operations this behaviour is made of

rows == <<capacity, occurrences, bookings>>
presence == <<attendance, mails>>
history == <<raced, workload>>
schedulingVars == <<rows, presence, calls, phase, history>>

Bookings == Occurrences \X Members
Live == {"booked", "waitlisted"}

\* place is bookedAt: the order in which a class's bookings were made.
Booking ==
    [status : Live \cup {"cancelled"}, place : Nat \ {0}, reminded : BOOLEAN]
NoBooking == [status |-> None, place |-> 0, reminded |-> FALSE]

Occurrence == [status : {"scheduled", "cancelled"}, capacity : Capacities]
NoOccurrence == [status |-> None, capacity |-> 0]

\* booking: the row the call is about; status: what the call has read or
\* decided for it; todo: the rows, classes: the classes, still to visit.
Call ==
    [pc : {"idle", "upsert", "list", "count", "insert", "withdraw", "waitlist",
           "promote", "booking", "existing", "record", "sweep", "send"},
     booking : Bookings \cup {None},
     status : Live \cup {None},
     todo : SUBSET Bookings,
     classes : SUBSET Occurrences]
Idle == [pc |-> "idle", booking |-> None, status |-> None, todo |-> {}, classes |-> {}]

RowsOf(o) == {b \in Bookings : b[1] = o}
WithStatus(o, s) == {b \in RowsOf(o) : bookings[b].status = s}
Seats(o) == Cardinality(WithStatus(o, "booked"))
Oldest(S) == CHOOSE b \in S : \A d \in S : bookings[b].place <= bookings[d].place

\* Calls that have freed a seat of o and not yet handed it on.
Promoting(o) ==
    {c \in Callers : calls[c].pc \in {"waitlist", "promote"} /\ calls[c].booking[1] = o}

\* The phases of a class: 0 far ahead, 1 within the reminder lead, 2 about to
\* start (check-in is open too), 3 under way (reminders are over).
RemindersDue(o) == phase[o] \in {1, 2}
CheckInOpen(o) == phase[o] \in {2, 3}

SchedulingInit ==
    /\ capacity \in Capacities
    /\ occurrences = [o \in Occurrences |-> NoOccurrence]
    /\ bookings = [b \in Bookings |-> NoBooking]
    /\ attendance = [b \in Bookings |-> 0]
    /\ mails = [b \in Bookings |-> 0]
    /\ calls = [c \in Callers |-> Idle]
    /\ phase = [o \in Occurrences |-> 0]
    /\ raced = FALSE
    /\ workload \in Workloads

\* The bound on check-ins: rows for at most MaxPresent members of a class.
Recorded(b) == attendance[b] > 0
FewPresent(b) ==
    Recorded(b) \/ Cardinality({d \in RowsOf(b[1]) : Recorded(d)}) < MaxPresent

\* The call goes on with the given fields changed, or ends.
Continue(c, call) == calls' = [calls EXCEPT ![c] = call]
End(c) == Continue(c, Idle)

-----------------------------------------------------------------------------
(* Schedules and occurrences.                                              *)
EditSchedule ==
    /\ "edit" \in workload
    /\ capacity' \in Capacities \ {capacity}
    /\ UNCHANGED <<occurrences, bookings, presence, calls, phase, history>>

\* materialize expands the schedule's rule to the instants S, then upserts
\* them in one bulk write that fills in the rows that are missing.
ReadSchedule(c, S) ==
    /\ calls[c].pc = "idle"
    /\ Continue(c, [Idle EXCEPT !.pc = "upsert", !.classes = S])
    /\ UNCHANGED <<rows, presence, phase, history>>

Upserted(old) ==
    IF old = NoOccurrence THEN [status |-> "scheduled", capacity |-> capacity] ELSE old

Materialize(c) ==
    /\ calls[c].pc = "upsert"
    /\ occurrences' = [o \in Occurrences |->
                          IF o \in calls[c].classes THEN Upserted(occurrences[o])
                                                    ELSE occurrences[o]]
    /\ End(c)
    /\ UNCHANGED <<capacity, bookings, presence, phase, history>>

CancelOccurrence(o) ==
    /\ occurrences[o].status # None
    /\ occurrences' = [occurrences EXCEPT ![o].status = "cancelled"]
    /\ UNCHANGED <<capacity, bookings, presence, calls, phase, history>>

-----------------------------------------------------------------------------
(* BookingsService.create.                                                 *)
RequestBooking(c, b) ==
    /\ calls[c].pc = "idle"
    /\ occurrences[b[1]].status = "scheduled"
    /\ Continue(c, [Idle EXCEPT !.pc = "list", !.booking = b])
    /\ UNCHANGED <<rows, presence, phase, history>>

\* A live booking of the member ends the call; a cancelled one does not.
CheckExisting(c) ==
    /\ calls[c].pc = "list"
    /\ IF bookings[calls[c].booking].status \in Live
       THEN End(c)
       ELSE Continue(c, [calls[c] EXCEPT !.pc = "count"])
    /\ UNCHANGED <<rows, presence, phase, history>>

Decision(o) == IF Seats(o) < occurrences[o].capacity THEN "booked" ELSE "waitlisted"

CountSeats(c) ==
    /\ calls[c].pc = "count"
    /\ Continue(c, [calls[c] EXCEPT !.pc = "insert",
                                    !.status = Decision(calls[c].booking[1])])
    /\ UNCHANGED <<rows, presence, phase, history>>

\* The unique key refuses a second row of the member, a cancelled one included.
InsertBooking(c) ==
    LET b == calls[c].booking
        o == b[1]
    IN  /\ calls[c].pc = "insert"
        /\ IF bookings[b] # NoBooking
           THEN UNCHANGED <<bookings, raced>>
           ELSE /\ bookings' = [bookings EXCEPT ![b] =
                      [status |-> calls[c].status,
                       place |-> Cardinality({d \in RowsOf(o) : bookings[d] # NoBooking}) + 1,
                       reminded |-> FALSE]]
                /\ raced' = (raced \/ calls[c].status # Decision(o) \/ Promoting(o) # {})
        /\ End(c)
        /\ UNCHANGED <<capacity, occurrences, presence, phase, workload>>

-----------------------------------------------------------------------------
(* BookingsService.cancel.                                                 *)
RequestCancel(c, b) ==
    /\ calls[c].pc = "idle"
    /\ bookings[b].status \in Live
    /\ Continue(c, [Idle EXCEPT !.pc = "withdraw", !.booking = b,
                                !.status = bookings[b].status])
    /\ UNCHANGED <<rows, presence, phase, history>>

\* The write is unconditional; whether it frees a seat was read before it.
Withdraw(c) ==
    LET b == calls[c].booking
    IN  /\ calls[c].pc = "withdraw"
        /\ bookings' = [bookings EXCEPT ![b].status = "cancelled"]
        /\ IF calls[c].status = "booked"
           THEN Continue(c, [calls[c] EXCEPT !.pc = "waitlist"])
           ELSE End(c)
        /\ raced' = (raced \/ bookings[b].status # calls[c].status)
        /\ UNCHANGED <<capacity, occurrences, presence, phase, workload>>

\* The promotion loop over the candidates S ends with the last of them.
WithCandidates(c, S) ==
    IF S = {} THEN End(c) ELSE Continue(c, [calls[c] EXCEPT !.pc = "promote", !.todo = S])

ListWaitlist(c) ==
    /\ calls[c].pc = "waitlist"
    /\ WithCandidates(c, WithStatus(calls[c].booking[1], "waitlisted"))
    /\ UNCHANGED <<rows, presence, phase, history>>

\* Two slips to catch: the candidate is promoted whatever it has become, and
\* the loop ends with a candidate lost to another cancel.
AnyCandidate(b) == TRUE
GiveUp(c, b) == {}
StillWaitlisted(b) == bookings[b].status = "waitlisted"
Others(c, b) == calls[c].todo \ {b}

PromoteIfWaitlisted(c) ==
    LET b == Oldest(calls[c].todo)
    IN  /\ calls[c].pc = "promote"
        /\ IF StillWaitlisted(b)
           THEN /\ bookings' = [bookings EXCEPT ![b].status = "booked"]
                /\ End(c)
           ELSE /\ WithCandidates(c, Others(c, b))
                /\ UNCHANGED bookings
        /\ UNCHANGED <<capacity, occurrences, presence, phase, history>>

-----------------------------------------------------------------------------
(* Attendance: the member's own check-in, and the instructor's roster,     *)
(* which asks neither for a booking nor for the time.                      *)
SelfCheckIn(c, b) ==
    /\ calls[c].pc = "idle"
    /\ occurrences[b[1]].status = "scheduled"
    /\ CheckInOpen(b[1])
    /\ FewPresent(b)
    /\ Continue(c, [Idle EXCEPT !.pc = "booking", !.booking = b])
    /\ UNCHANGED <<rows, presence, phase, history>>

ConfirmBooked(c) ==
    /\ calls[c].pc = "booking"
    /\ IF bookings[calls[c].booking].status \in Live
       THEN Continue(c, [calls[c] EXCEPT !.pc = "existing"])
       ELSE End(c)
    /\ UNCHANGED <<rows, presence, phase, history>>

MarkPresent(c, b) ==
    /\ calls[c].pc = "idle"
    /\ occurrences[b[1]].status # None
    /\ FewPresent(b)
    /\ Continue(c, [Idle EXCEPT !.pc = "existing", !.booking = b])
    /\ UNCHANGED <<rows, presence, phase, history>>

\* A slip to catch: what there is is not looked for.
NeverFound(b) == FALSE
Found(b) == Recorded(b)

FindAttendance(c) ==
    /\ calls[c].pc = "existing"
    /\ IF Found(calls[c].booking)
       THEN End(c)
       ELSE Continue(c, [calls[c] EXCEPT !.pc = "record"])
    /\ UNCHANGED <<rows, presence, phase, history>>

RecordAttendance(c) ==
    /\ calls[c].pc = "record"
    /\ attendance' = [attendance EXCEPT ![calls[c].booking] = @ + 1]
    /\ End(c)
    /\ UNCHANGED <<rows, mails, phase, history>>

-----------------------------------------------------------------------------
(* The worker's reminder sweep.                                            *)
\* The sweep goes on with the rows todo of one class, then the other classes.
Sweep(c, todo, classes) ==
    IF todo = {} /\ classes = {}
    THEN End(c)
    ELSE Continue(c, [Idle EXCEPT !.pc = "sweep", !.todo = todo, !.classes = classes])

SweepReminders(c) ==
    LET upcoming == {o \in Occurrences : occurrences[o].status = "scheduled" /\ RemindersDue(o)}
    IN  /\ calls[c].pc = "idle"
        /\ upcoming # {}
        /\ Sweep(c, {}, upcoming)
        /\ UNCHANGED <<rows, presence, phase, history>>

ListBooked(c, o) ==
    /\ calls[c].pc = "sweep" /\ calls[c].todo = {} /\ o \in calls[c].classes
    /\ Sweep(c, WithStatus(o, "booked"), calls[c].classes \ {o})
    /\ UNCHANGED <<rows, presence, phase, history>>

\* A slip to catch: the claim is a write without its condition.
AnyClaim(b) == TRUE
Unclaimed(b) == ~bookings[b].reminded

ClaimForReminder(c) ==
    LET b == Oldest(calls[c].todo)
        rest == calls[c].todo \ {b}
    IN  /\ calls[c].pc = "sweep" /\ calls[c].todo # {}
        /\ IF Unclaimed(b)
           THEN /\ bookings' = [bookings EXCEPT ![b].reminded = TRUE]
                /\ Continue(c, [calls[c] EXCEPT !.pc = "send", !.booking = b, !.todo = rest])
           ELSE /\ Sweep(c, rest, calls[c].classes)
                /\ UNCHANGED bookings
        /\ UNCHANGED <<capacity, occurrences, presence, phase, history>>

\* A member without an address is not mailed, nor one whose send fails.
SendReminder(c, sent) ==
    /\ calls[c].pc = "send"
    /\ mails' = IF sent THEN [mails EXCEPT ![calls[c].booking] = @ + 1] ELSE mails
    /\ Sweep(c, calls[c].todo, calls[c].classes)
    /\ UNCHANGED <<rows, attendance, phase, history>>

-----------------------------------------------------------------------------
(* The environment: time passes, and processes crash.                      *)
TimePasses(o) ==
    /\ "time" \in workload
    /\ phase[o] < 3
    /\ phase' = [phase EXCEPT ![o] = @ + 1]
    /\ UNCHANGED <<rows, presence, calls, history>>

Crash(c) ==
    /\ "crash" \in workload
    /\ calls[c].pc # "idle"
    /\ End(c)
    /\ raced' = (raced \/ calls[c].pc \in {"waitlist", "promote"})
    /\ UNCHANGED <<rows, presence, phase, workload>>

CallStep(c) ==
    \/ Materialize(c)
    \/ CheckExisting(c) \/ CountSeats(c) \/ InsertBooking(c)
    \/ Withdraw(c) \/ ListWaitlist(c) \/ PromoteIfWaitlisted(c)
    \/ ConfirmBooked(c) \/ FindAttendance(c) \/ RecordAttendance(c)
    \/ \E o \in Occurrences : ListBooked(c, o)
    \/ ClaimForReminder(c)
    \/ \E sent \in BOOLEAN : SendReminder(c, sent)
    \/ Crash(c)

NewCall(c) ==
    \/ /\ "materialize" \in workload
       /\ \E S \in SUBSET Occurrences : ReadSchedule(c, S)
    \/ /\ "book" \in workload
       /\ \E b \in Bookings : RequestBooking(c, b) \/ RequestCancel(c, b)
    \/ /\ "attend" \in workload
       /\ \E b \in Bookings : SelfCheckIn(c, b) \/ MarkPresent(c, b)
    \/ /\ "remind" \in workload
       /\ SweepReminders(c)

SchedulingNext ==
    \/ \E c \in Callers : NewCall(c) \/ CallStep(c)
    \/ \E o \in Occurrences : CancelOccurrence(o) \/ TimePasses(o)
    \/ EditSchedule

SchedulingSpec == SchedulingInit /\ [][SchedulingNext]_schedulingVars

-----------------------------------------------------------------------------
\* Every row and every call has its type, and a call between two steps holds
\* what it has read (bookings.service.ts, check-in.service.ts).
SchedulingTypeOK ==
    /\ capacity \in Capacities
    /\ occurrences \in [Occurrences -> Occurrence \cup {NoOccurrence}]
    /\ bookings \in [Bookings -> Booking \cup {NoBooking}]
    /\ attendance \in [Bookings -> Nat]
    /\ mails \in [Bookings -> Nat]
    /\ calls \in [Callers -> Call]
    /\ phase \in [Occurrences -> 0..3]
    /\ raced \in BOOLEAN
    /\ workload \in Workloads

\* No class is overbooked, and nobody waits while a seat is free and no cancel
\* is about to hand it on: so long as no booking and no cancel wrote on a
\* stale read and no cancel crashed after freeing its seat.  Cancels of
\* different seats may interleave in any way.
ClassInOrder ==
    ~raced => \A o \in Occurrences :
                 /\ Seats(o) <= occurrences[o].capacity
                 /\ WithStatus(o, "waitlisted") # {} =>
                        Seats(o) + Cardinality(Promoting(o)) >= occurrences[o].capacity

\* A booking that was cancelled never holds or waits for a seat again, however
\* cancels, promotions and bookings interleave; a class keeps the capacity it
\* was materialized with and, once cancelled, is not scheduled again by a
\* later materialization of an overlapping horizon.
CancelledIsFinal ==
    [][ /\ \A b \in Bookings :
              bookings[b].status = "cancelled" => bookings'[b].status = "cancelled"
        /\ \A o \in Occurrences :
              /\ occurrences[o].status = "cancelled" => occurrences'[o].status = "cancelled"
              /\ occurrences[o].status # None =>
                     occurrences'[o].capacity = occurrences[o].capacity
      ]_schedulingVars

\* A booking is reminded of its class at most once, whichever sweeps overlap,
\* crash or are repeated by the queue.
RemindedAtMostOnce == \A b \in Bookings : mails[b] <= 1

\* Looking for a record and making one are two steps and no index is unique, so
\* taps that overlap record a class twice.  But only they do: a member's class
\* is recorded no more often than calls overlap, however often it is tapped.
OnlyOverlapRepeats == \A b \in Bookings : attendance[b] <= Cardinality(Callers)
=============================================================================
