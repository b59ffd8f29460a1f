---------------------------- MODULE ClassProofs ----------------------------
(***************************************************************************)
(* A class is in order, and the horizon of a schedule: proofs of           *)
(* SchedulingTypeOK, CancelledIsFinal, RemindedAtMostOnce, ClassInOrder    *)
(* and OnlyOverlapRepeats for every number of classes, members, callers    *)
(* and capacities, and of HorizonComplete for every rule, zone and hour.   *)
(*                                                                         *)
(* The type invariant needs that a call holds what its next step uses, and *)
(* that rows are never taken away (TypeInv).  A mail is under way or sent  *)
(* only for a booking that is claimed, by one sweep (MailInv).  A class is *)
(* in order because a cancel that frees a seat owns that seat until it has *)
(* handed it on: the seats taken and the cancels under way together never  *)
(* exceed the capacity, and reach it while anybody waits; and the members  *)
(* who wait are among the candidates of every cancel (OrderInv).  What is  *)
(* recorded of a member's class and what calls are about to record are     *)
(* together no more than the calls (PresenceInv).                          *)
(* The horizon loses nothing because the starts of classes grow with their *)
(* days and a window never reads the day it begins in too late.            *)
(***************************************************************************)
EXTENDS Scheduling, Recurrence, Functions, FiniteSetTheorems, WellFoundedInduction, TLAPS

Exists(b) == bookings[b] # NoBooking
Offered(o) == occurrences[o] # NoOccurrence

AboutBooking ==
    {"list", "count", "insert", "withdraw", "waitlist", "promote", "booking", "existing",
     "record", "send"}

CallOK(a) ==
    /\ a \in Call
    /\ a.pc \in AboutBooking => a.booking \in Bookings
    /\ a.pc = "insert" => a.status \in Live
    /\ a.pc = "promote" => a.todo # {} /\ \A b \in a.todo : b[1] = a.booking[1]

CallSound(a) ==
    /\ a.pc \in {"list", "count", "insert"} => Offered(a.booking[1])
    /\ a.pc \in {"withdraw", "waitlist", "promote"} => Exists(a.booking)
    /\ \A b \in a.todo : Exists(b)

RowsInv ==
    /\ capacity \in Capacities
    /\ occurrences \in [Occurrences -> Occurrence \cup {NoOccurrence}]
    /\ bookings \in [Bookings -> Booking \cup {NoBooking}]
    /\ \A b \in Bookings : Exists(b) => Offered(b[1])

OthersInv ==
    /\ attendance \in [Bookings -> Nat]
    /\ mails \in [Bookings -> Nat]
    /\ phase \in [Occurrences -> 0..3]
    /\ raced \in BOOLEAN
    /\ workload \in Workloads

CallsInv ==
    /\ calls \in [Callers -> Call]
    /\ \A c \in Callers : CallOK(calls[c]) /\ CallSound(calls[c])

TypeInv == RowsInv /\ OthersInv /\ CallsInv

LEMMA IdleCall == CallOK(Idle) /\ Idle.pc = "idle" /\ Idle.todo = {}
  BY DEF CallOK, Idle, Call, AboutBooking

LEMMA TypeInvInit == SchedulingInit => TypeInv
<1> SUFFICES ASSUME SchedulingInit PROVE TypeInv
  OBVIOUS
<1>1. RowsInv
  <2>1. \A b \in Bookings : bookings[b] = NoBooking
    BY DEF SchedulingInit
  <2>2. /\ occurrences \in [Occurrences -> Occurrence \cup {NoOccurrence}]
        /\ bookings \in [Bookings -> Booking \cup {NoBooking}]
    BY DEF SchedulingInit
  <2>3. capacity \in Capacities
    BY DEF SchedulingInit
  <2> QED
    BY <2>1, <2>2, <2>3, Zenon DEF RowsInv, Exists
<1>2. OthersInv
  <2>1. attendance \in [Bookings -> Nat] /\ mails \in [Bookings -> Nat]
    BY DEF SchedulingInit
  <2>2. phase \in [Occurrences -> 0..3]
    BY DEF SchedulingInit
  <2>3. raced \in BOOLEAN /\ workload \in Workloads
    BY DEF SchedulingInit
  <2> QED
    BY <2>1, <2>2, <2>3 DEF OthersInv
<1>3. CallsInv
  <2>1. calls = [c \in Callers |-> Idle] /\ Idle \in Call
    BY IdleCall DEF SchedulingInit, CallOK
  <2>2. CallSound(Idle)
    BY IdleCall DEF CallSound
  <2> QED
    BY <2>1, <2>2, IdleCall DEF CallsInv
<1> QED
  BY <1>1, <1>2, <1>3 DEF TypeInv

(***************************************************************************)
(* The call of one caller moves; rows are only ever added.                 *)
(***************************************************************************)
Special == {"waitlist", "promote", "send"}

Moves(c, a) == calls' = [calls EXCEPT ![c] = a] /\ CallOK(a) /\ CallSound(a)'
Plain(c) == \E a : Moves(c, a) /\ a.pc \notin Special

Grows ==
    /\ \A b \in Bookings : Exists(b) => Exists(b)'
    /\ \A o \in Occurrences : Offered(o) => Offered(o)'

LEMMA MovesFacts ==
  ASSUME TypeInv, NEW c \in Callers, NEW a, Moves(c, a)
  PROVE  calls'[c] = a /\ \A d \in Callers \ {c} : calls'[d] = calls[d]
  BY DEF TypeInv, CallsInv, Moves

LEMMA BookingParts ==
  ASSUME NEW b \in Bookings
  PROVE  b[1] \in Occurrences /\ b[2] \in Members /\ b # None
  BY SchedulingAssumption DEF Bookings

LEMMA SoundGrows ==
  ASSUME Grows, NEW a, CallOK(a), CallSound(a)
  PROVE  CallSound(a)'
<1>1. a.pc \in {"list", "count", "insert"} => Offered(a.booking[1])'
  BY BookingParts DEF Grows, CallOK, CallSound, AboutBooking
<1>2. a.pc \in {"withdraw", "waitlist", "promote"} => Exists(a.booking)'
  BY DEF Grows, CallOK, CallSound, AboutBooking
<1>3. \A b \in a.todo : Exists(b)'
  BY DEF Grows, CallOK, CallSound, Call
<1> QED
  BY <1>1, <1>2, <1>3 DEF CallSound

LEMMA MovesKeepsCalls ==
  ASSUME TypeInv, NEW c \in Callers, NEW a, Moves(c, a), Grows
  PROVE  CallsInv'
<1>1. calls' \in [Callers -> Call]
  BY DEF TypeInv, CallsInv, Moves, CallOK
<1>2. ASSUME NEW d \in Callers PROVE (CallOK(calls[d]) /\ CallSound(calls[d]))'
  <2>1. CASE d = c
    <3>1. calls'[d] = a /\ CallOK(a) /\ CallSound(a)'
      BY <2>1, MovesFacts DEF Moves
    <3>2. CallOK(calls[d])'
      BY <3>1 DEF CallOK
    <3>3. CallSound(calls[d])'
      BY <3>1 DEF CallSound, Exists, Offered
    <3> QED
      BY <3>2, <3>3
  <2>2. CASE d # c
    <3>1. PICK e : e = calls[d] /\ calls'[d] = e /\ CallOK(e) /\ CallSound(e)
      BY <2>2, MovesFacts DEF TypeInv, CallsInv
    <3>2. CallSound(e)'
      BY <3>1, SoundGrows
    <3>3. CallOK(calls[d])'
      BY <3>1 DEF CallOK
    <3>4. CallSound(calls[d])'
      BY <3>1, <3>2 DEF CallSound, Exists, Offered
    <3> QED
      BY <3>3, <3>4
  <2> QED
    BY <2>1, <2>2
<1> QED
  BY <1>1, <1>2 DEF CallsInv

LEMMA SameRows ==
  ASSUME TypeInv, UNCHANGED <<occurrences, bookings>>, capacity' \in Capacities
  PROVE  RowsInv' /\ Grows
  BY DEF TypeInv, RowsInv, Grows, Exists, Offered

LEMMA EndMoves ==
  ASSUME NEW c, End(c) PROVE Moves(c, Idle) /\ Plain(c)
<1>1. Moves(c, Idle)
  BY IdleCall DEF End, Continue, Moves, CallSound
<1> QED
  BY <1>1, IdleCall DEF Plain, Special

LEMMA SweepPlain ==
  ASSUME NEW c, NEW todo \in SUBSET Bookings, NEW left \in SUBSET Occurrences,
         \A b \in todo : Exists(b)', Sweep(c, todo, left)
  PROVE  Plain(c)
<1>1. CASE End(c)
  BY <1>1, EndMoves
<1>2. CASE Continue(c, [Idle EXCEPT !.pc = "sweep", !.todo = todo, !.classes = left])
  <2> DEFINE a == [Idle EXCEPT !.pc = "sweep", !.todo = todo, !.classes = left]
  <2>1. CallOK(a) /\ a.pc = "sweep" /\ a.todo = todo
    BY DEF CallOK, Idle, Call, AboutBooking
  <2> HIDE DEF a
  <2>2. CallSound(a)'
    BY <2>1 DEF CallSound
  <2> QED
    BY <1>2, <2>1, <2>2 DEF Plain, Moves, Special, Continue, a
<1> QED
  BY <1>1, <1>2 DEF Sweep

(***************************************************************************)
(* The invariants of reminders and of seats.                               *)
(***************************************************************************)
Sending(c, b) == calls[c].pc = "send" /\ calls[c].booking = b

MailInv ==
    /\ \A b \in Bookings : mails[b] <= 1
    /\ \A b \in Bookings : mails[b] # 0 => bookings[b].reminded
    /\ \A c \in Callers, b \in Bookings :
          Sending(c, b) => bookings[b].reminded /\ mails[b] = 0
    /\ \A c, d \in Callers, b \in Bookings : Sending(c, b) /\ Sending(d, b) => c = d

Waiting(o) == WithStatus(o, "waitlisted")
Claims(o) == Seats(o) + Cardinality(Promoting(o))

OrderInv ==
    ~raced => \A o \in Occurrences :
        /\ Claims(o) <= occurrences[o].capacity
        /\ Waiting(o) # {} => Claims(o) >= occurrences[o].capacity
        /\ \A c \in Callers :
              calls[c].pc = "promote" /\ calls[c].booking[1] = o => Waiting(o) \subseteq calls[c].todo

ClassInv == TypeInv /\ MailInv /\ OrderInv

LEMMA FiniteSets ==
  ASSUME NEW o
  PROVE  /\ \A s : IsFiniteSet(WithStatus(o, s)) /\ Cardinality(WithStatus(o, s)) \in Nat
         /\ IsFiniteSet(Promoting(o)) /\ Cardinality(Promoting(o)) \in Nat
<1>1. IsFiniteSet(Bookings)
  BY SchedulingAssumption, FS_Product DEF Bookings
<1>2. \A s : IsFiniteSet(WithStatus(o, s))
  <2> TAKE s
  <2>1. WithStatus(o, s) \subseteq Bookings
    BY DEF WithStatus, RowsOf
  <2> QED
    BY <1>1, <2>1, FS_Subset
<1>3. IsFiniteSet(Promoting(o))
  <2>1. Promoting(o) \subseteq Callers
    BY DEF Promoting
  <2> QED
    BY <2>1, SchedulingAssumption, FS_Subset
<1> QED
  BY <1>2, <1>3, FS_CardinalityType

LEMMA SeatsType ==
  ASSUME NEW o
  PROVE  Seats(o) \in Nat /\ Seats(o)' \in Nat
<1>1. IsFiniteSet(Bookings)
  BY SchedulingAssumption, FS_Product DEF Bookings
<1>2. WithStatus(o, "booked") \subseteq Bookings /\ WithStatus(o, "booked")' \subseteq Bookings
  BY DEF WithStatus, RowsOf
<1>3. IsFiniteSet(WithStatus(o, "booked")) /\ IsFiniteSet(WithStatus(o, "booked")')
  BY <1>1, <1>2, FS_Subset
<1> QED
  BY <1>3, FS_CardinalityType DEF Seats

LEMMA CapacityType ==
  ASSUME TypeInv, NEW o \in Occurrences
  PROVE  occurrences[o].capacity \in Nat
<1>1. \A x \in Occurrence : x.capacity \in Nat
  BY SchedulingAssumption DEF Occurrence
<1>2. NoOccurrence.capacity \in Nat
  BY DEF NoOccurrence
<1> QED
  BY <1>1, <1>2 DEF TypeInv, RowsInv

LEMMA ClassInvInit == SchedulingInit => ClassInv
<1> SUFFICES ASSUME SchedulingInit PROVE ClassInv
  OBVIOUS
<1>1. \A c \in Callers : calls[c].pc = "idle"
  BY IdleCall DEF SchedulingInit
<1>2. \A b \in Bookings : mails[b] = 0 /\ bookings[b].status = None
  BY DEF SchedulingInit, NoBooking
<1>3. MailInv
  BY <1>1, <1>2 DEF MailInv, Sending
<1>4. OrderInv
  <2>1. \A o \in Occurrences : Promoting(o) = {} /\ occurrences[o].capacity = 0
    BY <1>1 DEF Promoting, SchedulingInit, NoOccurrence
  <2>2. \A o : WithStatus(o, "booked") = {} /\ Waiting(o) = {}
    BY <1>2, SchedulingAssumption DEF WithStatus, RowsOf, Waiting
  <2>3. \A o \in Occurrences : Claims(o) = 0
    <3>1. Cardinality({}) = 0
      BY FS_EmptySet
    <3> QED
      BY <2>1, <2>2, <3>1 DEF Claims, Seats
  <2> QED
    BY <1>1, <2>1, <2>2, <2>3 DEF OrderInv
<1> QED
  BY <1>3, <1>4, TypeInvInit DEF ClassInv

(***************************************************************************)
(* Steps that read, and go on.                                             *)
(***************************************************************************)
Quiet(c) ==
    /\ UNCHANGED <<rows, mails, phase, history>>
    /\ attendance' \in [Bookings -> Nat]
    /\ Plain(c)
    /\ raced \/ calls[c].pc \notin {"waitlist", "promote"}

LEMMA QuietKeeps ==
  ASSUME ClassInv, NEW c \in Callers, Quiet(c)
  PROVE  ClassInv'
<1>0. TypeInv /\ UNCHANGED <<capacity, occurrences, bookings, mails, phase, raced, workload>>
  BY DEF ClassInv, Quiet, rows, history
<1>1. PICK a : Moves(c, a) /\ a.pc \notin Special
  BY DEF Quiet, Plain
<1>2. calls'[c] = a /\ \A d \in Callers \ {c} : calls'[d] = calls[d]
  BY <1>0, <1>1, MovesFacts
<1>3. TypeInv'
  <2>1. RowsInv' /\ Grows
    BY <1>0, SameRows DEF TypeInv, RowsInv
  <2>2. OthersInv'
    BY <1>0 DEF Quiet, TypeInv, OthersInv
  <2> QED
    BY <1>0, <1>1, <2>1, <2>2, MovesKeepsCalls DEF TypeInv
<1>4. MailInv'
  <2>1. \A d \in Callers, b \in Bookings : Sending(d, b)' => Sending(d, b)
    BY <1>1, <1>2 DEF Sending, Special
  <2> QED
    BY <1>0, <2>1 DEF ClassInv, MailInv
<1>5. OrderInv'
  <2> SUFFICES ASSUME ~raced PROVE OrderInv'
    BY <1>0 DEF OrderInv
  <2>1. \A o : Promoting(o)' = Promoting(o)
    BY <1>1, <1>2 DEF Promoting, Quiet, Special
  <2>2. \A o, t : WithStatus(o, t)' = WithStatus(o, t)
    BY <1>0 DEF WithStatus, RowsOf
  <2>3. \A o : Claims(o)' = Claims(o) /\ Waiting(o)' = Waiting(o)
    BY <2>1, <2>2 DEF Claims, Seats, Waiting
  <2>4. \A d \in Callers : calls'[d].pc = "promote" => calls'[d] = calls[d]
    BY <1>1, <1>2 DEF Special
  <2> QED
    BY <1>0, <2>3, <2>4 DEF ClassInv, OrderInv
<1> QED
  BY <1>3, <1>4, <1>5 DEF ClassInv

LEMMA NewPlain ==
  ASSUME NEW c, NEW a, Continue(c, a), CallOK(a), CallSound(a)', a.pc \notin Special
  PROVE  Plain(c)
  BY DEF Continue, Plain, Moves

LEMMA EndPlainQuiet ==
  ASSUME NEW c, End(c) PROVE Plain(c)
  BY EndMoves

LEMMA RequestsQuiet ==
  ASSUME ClassInv, NEW c \in Callers, NewCall(c)
  PROVE  Quiet(c)
<1>0. TypeInv
  BY DEF ClassInv
<1>1. ASSUME NEW S \in SUBSET Occurrences, ReadSchedule(c, S) PROVE Quiet(c)
  <2> DEFINE a == [Idle EXCEPT !.pc = "upsert", !.classes = S]
  <2>1. CallOK(a) /\ a.pc = "upsert" /\ a.todo = {}
    BY DEF CallOK, Idle, Call, AboutBooking
  <2> HIDE DEF a
  <2>2. Plain(c)
    BY <1>1, <2>1, NewPlain DEF ReadSchedule, CallSound, Special, a
  <2> QED
    BY <1>0, <1>1, <2>2 DEF ReadSchedule, Quiet, presence, TypeInv, OthersInv
<1>2. ASSUME NEW b \in Bookings, RequestBooking(c, b) PROVE Quiet(c)
  <2> DEFINE a == [Idle EXCEPT !.pc = "list", !.booking = b]
  <2>1. CallOK(a) /\ a.pc = "list" /\ a.todo = {} /\ a.booking = b
    BY <1>2 DEF CallOK, Idle, Call, AboutBooking
  <2>2. Offered(b[1])'
    BY <1>2, SchedulingAssumption DEF RequestBooking, Offered, NoOccurrence, rows
  <2> HIDE DEF a
  <2>3. Plain(c)
    BY <1>2, <2>1, <2>2, NewPlain DEF RequestBooking, CallSound, Special, a
  <2> QED
    BY <1>0, <1>2, <2>3 DEF RequestBooking, Quiet, presence, TypeInv, OthersInv
<1>3. ASSUME NEW b \in Bookings, RequestCancel(c, b) PROVE Quiet(c)
  <2> DEFINE a == [Idle EXCEPT !.pc = "withdraw", !.booking = b, !.status = bookings[b].status]
  <2>1. CallOK(a) /\ a.pc = "withdraw" /\ a.todo = {} /\ a.booking = b
    BY <1>3 DEF RequestCancel, CallOK, Idle, Call, AboutBooking
  <2>2. Exists(b)'
    BY <1>3, SchedulingAssumption DEF RequestCancel, Exists, NoBooking, Live, rows
  <2>3. Continue(c, a)
    BY <1>3 DEF RequestCancel
  <2>4. PICK d : d = a
    OBVIOUS
  <2>5. CallSound(d)'
    BY <2>1, <2>2, <2>4 DEF CallSound
  <2>6. Plain(c)
    BY <2>1, <2>3, <2>4, <2>5, NewPlain DEF Special
  <2> QED
    BY <1>0, <1>3, <2>6 DEF RequestCancel, Quiet, presence, TypeInv, OthersInv
<1>4. ASSUME NEW b \in Bookings, SelfCheckIn(c, b) PROVE Quiet(c)
  <2> DEFINE a == [Idle EXCEPT !.pc = "booking", !.booking = b]
  <2>1. CallOK(a) /\ a.pc = "booking" /\ a.todo = {}
    BY <1>4 DEF CallOK, Idle, Call, AboutBooking
  <2> HIDE DEF a
  <2>2. Plain(c)
    BY <1>4, <2>1, NewPlain DEF SelfCheckIn, CallSound, Special, a
  <2> QED
    BY <1>0, <1>4, <2>2 DEF SelfCheckIn, Quiet, presence, TypeInv, OthersInv
<1>5. ASSUME NEW b \in Bookings, MarkPresent(c, b) PROVE Quiet(c)
  <2> DEFINE a == [Idle EXCEPT !.pc = "existing", !.booking = b]
  <2>1. CallOK(a) /\ a.pc = "existing" /\ a.todo = {}
    BY <1>5 DEF CallOK, Idle, Call, AboutBooking
  <2> HIDE DEF a
  <2>2. Plain(c)
    BY <1>5, <2>1, NewPlain DEF MarkPresent, CallSound, Special, a
  <2> QED
    BY <1>0, <1>5, <2>2 DEF MarkPresent, Quiet, presence, TypeInv, OthersInv
<1>6. ASSUME SweepReminders(c) PROVE Quiet(c)
  <2>1. PICK S \in SUBSET Occurrences : Sweep(c, {}, S)
    BY <1>6 DEF SweepReminders
  <2>2. Plain(c)
    BY <2>1, SweepPlain
  <2> QED
    BY <1>0, <1>6, <2>2 DEF SweepReminders, Quiet, presence, TypeInv, OthersInv
<1> QED
  BY <1>1, <1>2, <1>3, <1>4, <1>5, <1>6 DEF NewCall

LEMMA StepsQuiet ==
  ASSUME ClassInv, NEW c \in Callers,
         \/ CheckExisting(c) \/ CountSeats(c)
         \/ ConfirmBooked(c) \/ FindAttendance(c) \/ RecordAttendance(c)
         \/ \E o \in Occurrences : ListBooked(c, o)
         \/ Crash(c) /\ ~(raced' /\ ~raced)
  PROVE  Quiet(c)
<1> PICK k : k = calls[c]
  OBVIOUS
<1>0. /\ TypeInv /\ CallOK(k) /\ CallSound(k)
      /\ attendance \in [Bookings -> Nat]
  BY DEF ClassInv, TypeInv, CallsInv, OthersInv
<1>1. ASSUME UNCHANGED rows, NEW pc, NEW st \in Live \cup {None},
             Continue(c, [k EXCEPT !.pc = pc, !.status = st]),
             \/ k.pc = "list" /\ pc = "count"
             \/ k.pc = "count" /\ pc = "insert" /\ st \in Live
             \/ k.pc = "booking" /\ pc = "existing"
             \/ k.pc = "existing" /\ pc = "record"
      PROVE  Plain(c)
  <2> DEFINE a == [k EXCEPT !.pc = pc, !.status = st]
  <2>1. CallOK(a) /\ a.pc = pc /\ a.booking = k.booking /\ a.todo = k.todo
    BY <1>0, <1>1 DEF CallOK, Call, AboutBooking
  <2> HIDE DEF a
  <2>2. CallSound(a)
    BY <1>0, <1>1, <2>1 DEF CallSound
  <2>3. CallSound(a)'
    BY <1>1, <2>2 DEF CallSound, Exists, Offered, rows
  <2> QED
    BY <1>1, <2>1, <2>3, NewPlain DEF Special, a
<1>2. CASE CheckExisting(c)
  <2>1. End(c) \/ Continue(c, [k EXCEPT !.pc = "count", !.status = k.status])
    BY <1>0, <1>2 DEF CheckExisting, CallOK, Call
  <2> QED
    BY <1>0, <1>1, <1>2, <2>1, EndPlainQuiet DEF CheckExisting, Quiet, presence, CallOK, Call
<1>3. CASE CountSeats(c)
  <2>1. Decision(k.booking[1]) \in Live
    BY DEF Decision, Live
  <2>2. Plain(c)
    BY <1>0, <1>1, <1>3, <2>1 DEF CountSeats
  <2> QED
    BY <1>0, <1>3, <2>2 DEF CountSeats, Quiet, presence
<1>4. CASE ConfirmBooked(c)
  <2>1. End(c) \/ Continue(c, [k EXCEPT !.pc = "existing", !.status = k.status])
    BY <1>0, <1>4 DEF ConfirmBooked, CallOK, Call
  <2> QED
    BY <1>0, <1>1, <1>4, <2>1, EndPlainQuiet DEF ConfirmBooked, Quiet, presence, CallOK, Call
<1>5. CASE FindAttendance(c)
  <2>1. End(c) \/ Continue(c, [k EXCEPT !.pc = "record", !.status = k.status])
    BY <1>0, <1>5 DEF FindAttendance, CallOK, Call
  <2> QED
    BY <1>0, <1>1, <1>5, <2>1, EndPlainQuiet DEF FindAttendance, Quiet, presence, CallOK, Call
<1>6. CASE RecordAttendance(c)
  <2>1. attendance' \in [Bookings -> Nat]
    <3>1. k.booking \in Bookings
      BY <1>0, <1>6 DEF RecordAttendance, CallOK, AboutBooking
    <3>2. attendance[k.booking] + 1 \in Nat
      BY <1>0, <3>1
    <3> QED
      BY <1>0, <1>6, <3>2 DEF RecordAttendance
  <2> QED
    BY <1>6, <2>1, EndPlainQuiet DEF RecordAttendance, Quiet
<1>7. ASSUME NEW o \in Occurrences, ListBooked(c, o) PROVE Quiet(c)
  <2> PICK todo, cl : todo = WithStatus(o, "booked") /\ cl = k.classes \ {o}
    OBVIOUS
  <2>1. cl \in SUBSET Occurrences
    BY <1>0 DEF CallOK, Call
  <2>2. todo \in SUBSET Bookings /\ \A b \in todo : Exists(b)'
    BY <1>7, SchedulingAssumption DEF WithStatus, RowsOf, ListBooked, rows, Exists, NoBooking
  <2>3. Plain(c)
    BY <1>7, <2>1, <2>2, SweepPlain DEF ListBooked
  <2> QED
    BY <1>0, <1>7, <2>3 DEF ListBooked, Quiet, presence
<1>8. CASE Crash(c) /\ ~(raced' /\ ~raced)
  <2>1. raced \in BOOLEAN /\ raced' = (raced \/ k.pc \in {"waitlist", "promote"})
    BY <1>0, <1>8 DEF Crash, TypeInv, OthersInv
  <2>2. raced' = raced
    BY <1>8, <2>1, Zenon
  <2>3. raced \/ k.pc \notin {"waitlist", "promote"}
    BY <1>8, <2>1, Zenon
  <2> QED
    BY <1>0, <1>8, <2>2, <2>3, EndPlainQuiet DEF Crash, Quiet, presence, history
<1> QED
  BY <1>2, <1>3, <1>4, <1>5, <1>6, <1>7, <1>8

(***************************************************************************)
(* Steps of the schedule and the clock.                                    *)
(***************************************************************************)
LEMMA OfferSteps ==
  ASSUME ClassInv, UNCHANGED <<bookings, attendance, mails, raced, workload>>,
         capacity' \in Capacities,
         phase' \in [Occurrences -> 0..3],
         occurrences' \in [Occurrences -> Occurrence \cup {NoOccurrence}],
         \A o \in Occurrences : Offered(o) =>
            Offered(o)' /\ occurrences'[o].capacity = occurrences[o].capacity,
         \/ UNCHANGED calls
         \/ \E c \in Callers : End(c) /\ calls[c].pc \notin {"waitlist", "promote"}
  PROVE  ClassInv'
<1>1. RowsInv' /\ Grows
  <2>1. Grows
    BY DEF Grows, Exists
  <2>2. \A b \in Bookings : Exists(b)' => Offered(b[1])'
    BY BookingParts DEF ClassInv, TypeInv, RowsInv, Exists
  <2>3. bookings' \in [Bookings -> Booking \cup {NoBooking}]
    BY DEF ClassInv, TypeInv, RowsInv
  <2> QED
    BY <2>1, <2>2, <2>3 DEF RowsInv
<1>2. OthersInv'
  BY DEF ClassInv, TypeInv, OthersInv
<1>3. /\ CallsInv'
      /\ \A c \in Callers :
            \/ calls'[c] = calls[c]
            \/ calls'[c].pc = "idle" /\ calls[c].pc \notin {"waitlist", "promote"}
  <2>1. CASE UNCHANGED calls
    <3>1. ASSUME NEW c \in Callers PROVE CallOK(calls[c])' /\ CallSound(calls[c])'
      <4>1. PICK k : k = calls[c] /\ CallOK(k) /\ CallSound(k)
        BY DEF ClassInv, TypeInv, CallsInv
      <4>2. CallSound(k)'
        BY <1>1, <4>1, SoundGrows
      <4>3. CallOK(calls[c])'
        BY <2>1, <4>1 DEF CallOK
      <4>4. CallSound(calls[c])'
        BY <2>1, <4>1, <4>2 DEF CallSound, Exists, Offered
      <4> QED
        BY <4>3, <4>4
    <3>2. calls' \in [Callers -> Call]
      BY <2>1 DEF ClassInv, TypeInv, CallsInv
    <3>3. CallsInv'
      BY <3>1, <3>2 DEF CallsInv
    <3> QED
      BY <2>1, <3>3
  <2>2. ASSUME NEW c \in Callers, End(c), calls[c].pc \notin {"waitlist", "promote"}
        PROVE  /\ CallsInv'
               /\ \A d \in Callers :
                     \/ calls'[d] = calls[d]
                     \/ calls'[d].pc = "idle" /\ calls[d].pc \notin {"waitlist", "promote"}
    <3>1. Moves(c, Idle) /\ TypeInv
      BY <2>2, EndMoves DEF ClassInv
    <3>2. CallsInv'
      BY <1>1, <3>1, MovesKeepsCalls
    <3>3. calls'[c] = Idle /\ \A d \in Callers \ {c} : calls'[d] = calls[d]
      BY <3>1, MovesFacts
    <3> QED
      BY <2>2, <3>2, <3>3, IdleCall
  <2> QED
    BY <2>1, <2>2
<1>4. MailInv'
  <2>1. \A d \in Callers, b \in Bookings : Sending(d, b)' => Sending(d, b)
    BY <1>3 DEF Sending
  <2> QED
    BY <2>1 DEF ClassInv, MailInv
<1>5. OrderInv'
  <2> SUFFICES ASSUME ~raced, NEW o \in Occurrences
               PROVE  /\ Claims(o)' <= occurrences'[o].capacity
                      /\ Waiting(o)' # {} => Claims(o)' >= occurrences'[o].capacity
                      /\ \A c \in Callers : calls'[c].pc = "promote" /\ calls'[c].booking[1] = o
                             => Waiting(o)' \subseteq calls'[c].todo
    BY DEF OrderInv
  <2>1. /\ Promoting(o)' = Promoting(o)
        /\ \A t : WithStatus(o, t)' = WithStatus(o, t)
    BY <1>3 DEF Promoting, WithStatus, RowsOf
  <2>2. Claims(o)' = Claims(o) /\ Waiting(o)' = Waiting(o) /\ Claims(o) \in Nat
    BY <2>1, FiniteSets DEF Claims, Seats, Waiting
  <2>3. /\ Claims(o) <= occurrences[o].capacity
        /\ Waiting(o) # {} => Claims(o) >= occurrences[o].capacity
        /\ \A c \in Callers :
              calls[c].pc = "promote" /\ calls[c].booking[1] = o => Waiting(o) \subseteq calls[c].todo
    BY DEF ClassInv, OrderInv
  <2>4. CASE Offered(o)
    BY <1>3, <2>2, <2>3, <2>4
  <2>5. CASE ~Offered(o)
    <3>1. Waiting(o) = {}
      BY <2>5, SchedulingAssumption
      DEF Waiting, WithStatus, RowsOf, ClassInv, TypeInv, RowsInv, Exists, NoBooking
    <3>2. occurrences[o].capacity = 0
      BY <2>5 DEF Offered, NoOccurrence
    <3>3. occurrences'[o].capacity \in Nat
      <4>1. \A q \in Occurrence : q.capacity \in Nat
        BY SchedulingAssumption DEF Occurrence
      <4>2. NoOccurrence.capacity \in Nat
        BY DEF NoOccurrence
      <4> QED
        BY <4>1, <4>2
    <3> QED
      BY <1>3, <2>2, <2>3, <3>1, <3>2, <3>3
  <2> QED
    BY <2>4, <2>5
<1> QED
  BY <1>1, <1>2, <1>3, <1>4, <1>5 DEF ClassInv, TypeInv

LEMMA ScheduleSteps ==
  ASSUME ClassInv,
         \/ EditSchedule
         \/ \E o \in Occurrences : CancelOccurrence(o) \/ TimePasses(o)
         \/ \E c \in Callers : Materialize(c)
         \/ UNCHANGED schedulingVars
  PROVE  ClassInv'
<1>0. /\ capacity \in Capacities /\ Capacities \subseteq Nat \ {0}
      /\ occurrences \in [Occurrences -> Occurrence \cup {NoOccurrence}]
      /\ phase \in [Occurrences -> 0..3]
  BY SchedulingAssumption DEF ClassInv, TypeInv, RowsInv, OthersInv
<1>1. CASE EditSchedule
  BY <1>0, <1>1, OfferSteps DEF EditSchedule, presence, history, Offered
<1>2. ASSUME NEW o \in Occurrences, CancelOccurrence(o) PROVE ClassInv'
  <2>1. PICK p : p = occurrences[o] /\ p \in Occurrence
    BY <1>0, <1>2 DEF CancelOccurrence, NoOccurrence
  <2>2. PICK q : /\ q = [p EXCEPT !.status = "cancelled"]
                 /\ q \in Occurrence /\ q.capacity = p.capacity
    <3> DEFINE q == [p EXCEPT !.status = "cancelled"]
    <3>1. q \in Occurrence /\ q.capacity = p.capacity
      BY <2>1 DEF Occurrence
    <3> QED
      BY <3>1
  <2>3. occurrences' = [occurrences EXCEPT ![o] = q]
    BY <1>2, <2>1, <2>2 DEF CancelOccurrence
  <2>4. q # NoOccurrence
    BY <2>2, SchedulingAssumption DEF Occurrence, NoOccurrence
  <2> QED
    BY <1>0, <1>2, <2>1, <2>2, <2>3, <2>4, OfferSteps DEF CancelOccurrence, presence, history, Offered
<1>3. ASSUME NEW o \in Occurrences, TimePasses(o) PROVE ClassInv'
  <2>1. phase' \in [Occurrences -> 0..3]
    <3>1. phase[o] + 1 \in 0..3
      BY <1>0, <1>3 DEF TimePasses
    <3> QED
      BY <1>0, <1>3, <3>1 DEF TimePasses
  <2> QED
    BY <1>0, <1>3, <2>1, OfferSteps DEF TimePasses, rows, presence, history, Offered
<1>4. ASSUME NEW c \in Callers, Materialize(c) PROVE ClassInv'
  <2>1. [status |-> "scheduled", capacity |-> capacity] \in Occurrence
    BY <1>0 DEF Occurrence
  <2>2. /\ occurrences' \in [Occurrences -> Occurrence \cup {NoOccurrence}]
        /\ \A o \in Occurrences : Offered(o) => occurrences'[o] = occurrences[o]
    BY <1>0, <1>4, <2>1 DEF Materialize, Upserted, Offered
  <2> QED
    BY <1>0, <1>4, <2>2, OfferSteps DEF Materialize, presence, history, Offered
<1>5. CASE UNCHANGED schedulingVars
  BY <1>0, <1>5, OfferSteps DEF schedulingVars, rows, presence, history, Offered
<1> QED
  BY <1>1, <1>2, <1>3, <1>4, <1>5

(***************************************************************************)
(* One booking is written.                                                 *)
(***************************************************************************)
Writes(b, r) ==
    /\ bookings' = [bookings EXCEPT ![b] = r]
    /\ r \in Booking
    /\ Offered(b[1])
    /\ UNCHANGED <<capacity, occurrences>>

LEMMA WriteFacts ==
  ASSUME TypeInv, NEW b \in Bookings, NEW r, Writes(b, r)
  PROVE  /\ RowsInv' /\ Grows
         /\ bookings'[b] = r
         /\ \A d \in Bookings \ {b} : bookings'[d] = bookings[d]
         /\ Exists(b)'
<1>1. bookings'[b] = r /\ \A d \in Bookings \ {b} : bookings'[d] = bookings[d]
  BY DEF TypeInv, RowsInv, Writes
<1>2. r # NoBooking
  BY SchedulingAssumption DEF Writes, Booking, NoBooking, Live
<1>3. bookings' \in [Bookings -> Booking \cup {NoBooking}]
  BY DEF TypeInv, RowsInv, Writes
<1>4. \A d \in Bookings : (Exists(d) => Offered(d[1]))'
  BY <1>1 DEF TypeInv, RowsInv, Writes, Exists, Offered
<1>5. RowsInv'
  BY <1>3, <1>4 DEF RowsInv, TypeInv, Writes
<1>6. Grows
  BY <1>1, <1>2 DEF Grows, Exists, Offered, Writes
<1> QED
  BY <1>1, <1>2, <1>5, <1>6 DEF Exists

(* How the rows of a status, and the cancels under way, change with it.     *)
LEMMA StatusChange ==
  ASSUME TypeInv, NEW b \in Bookings, NEW r, Writes(b, r), NEW o, NEW t
  PROVE  WithStatus(o, t)' = IF o = b[1] /\ r.status = t THEN WithStatus(o, t) \cup {b}
                                                         ELSE WithStatus(o, t) \ {b}
<1>1. bookings'[b] = r /\ \A d \in Bookings \ {b} : bookings'[d] = bookings[d]
  BY WriteFacts
<1> QED
  BY <1>1 DEF WithStatus, RowsOf

Cancelling(a, o) == a.pc \in {"waitlist", "promote"} /\ a.booking[1] = o

LEMMA PromotingChange ==
  ASSUME TypeInv, NEW c \in Callers, NEW a, Moves(c, a), NEW o
  PROVE  Promoting(o)' = IF Cancelling(a, o) THEN Promoting(o) \cup {c} ELSE Promoting(o) \ {c}
<1>1. calls'[c] = a /\ \A d \in Callers \ {c} : calls'[d] = calls[d]
  BY MovesFacts
<1> QED
  BY <1>1 DEF Promoting, Cancelling

LEMMA Plus ==
  ASSUME NEW S, IsFiniteSet(S), NEW x
  PROVE  /\ x \notin S => Cardinality(S \cup {x}) = Cardinality(S) + 1
         /\ x \in S => Cardinality(S \ {x}) = Cardinality(S) - 1
         /\ x \in S => S \cup {x} = S
         /\ x \notin S => S \ {x} = S
         /\ Cardinality(S) \in Nat
<1>1. Cardinality(S) \in Nat
  BY FS_CardinalityType
<1>2. Cardinality(S \cup {x}) = IF x \in S THEN Cardinality(S) ELSE Cardinality(S) + 1
  BY FS_AddElement
<1>3. Cardinality(S \ {x}) = IF x \in S THEN Cardinality(S) - 1 ELSE Cardinality(S)
  BY FS_RemoveElement
<1>4. (x \in S => S \cup {x} = S) /\ (x \notin S => S \ {x} = S)
  OBVIOUS
<1> QED
  BY <1>1, <1>2, <1>3, <1>4

LEMMA OldestIsOne ==
  ASSUME TypeInv, NEW S \in SUBSET Bookings, S # {}
  PROVE  Oldest(S) \in S
<1> DEFINE places == {bookings[b].place : b \in S}
<1>1. \A b \in S : bookings[b].place \in Nat
  <2>1. \A r \in Booking : r.place \in Nat
    BY DEF Booking
  <2>2. NoBooking.place \in Nat
    BY DEF NoBooking
  <2> QED
    BY <2>1, <2>2 DEF TypeInv, RowsInv
<1>2. places \subseteq Nat /\ places # {}
  BY <1>1
<1>3. PICK i \in places : \A j \in places : <<j, i>> \notin OpToRel(<, Nat)
  <2> HIDE DEF places
  <2> QED
    BY <1>2, WFMin, NatLessThanWellFounded, Zenon
<1>4. \A j \in places : i <= j
  <2> HIDE DEF places
  <2> SUFFICES ASSUME NEW j \in places PROVE i <= j
    OBVIOUS
  <2>1. i \in Nat /\ j \in Nat
    BY <1>2
  <2>2. ~(j < i)
    BY <1>3, <2>1, Zenon DEF OpToRel
  <2> QED
    BY <2>1, <2>2
<1>5. PICK b \in S : bookings[b].place = i
  OBVIOUS
<1>6. \A d \in S : bookings[b].place <= bookings[d].place
  BY <1>4, <1>5
<1> QED
  BY <1>6 DEF Oldest

(* A write that leaves claims and mails alone keeps MailInv.                *)
LEMMA MailSteps ==
  ASSUME ClassInv, NEW c \in Callers, NEW a, Moves(c, a), a.pc # "send", UNCHANGED mails,
         \A b \in Bookings : bookings[b].reminded => bookings'[b].reminded
  PROVE  MailInv'
<1>1. calls'[c] = a /\ \A d \in Callers \ {c} : calls'[d] = calls[d]
  BY MovesFacts DEF ClassInv
<1>2. \A d \in Callers, b \in Bookings : Sending(d, b)' => Sending(d, b)
  BY <1>1 DEF Sending
<1> QED
  BY <1>2 DEF ClassInv, MailInv

(***************************************************************************)
(* Booking.                                                                *)
(***************************************************************************)
LEMMA InsertKeeps ==
  ASSUME ClassInv, NEW c \in Callers, InsertBooking(c)
  PROVE  ClassInv'
<1> PICK k, b, o : k = calls[c] /\ b = k.booking /\ o = b[1]
  OBVIOUS
<1>0. /\ TypeInv /\ CallOK(k) /\ CallSound(k) /\ k.pc = "insert"
      /\ b \in Bookings /\ o \in Occurrences /\ Offered(o) /\ k.status \in Live
      /\ End(c) /\ raced \in BOOLEAN
      /\ UNCHANGED <<capacity, occurrences, attendance, mails, phase, workload>>
  <2>1. TypeInv /\ CallOK(k) /\ CallSound(k) /\ k.pc = "insert" /\ raced \in BOOLEAN
    BY DEF ClassInv, TypeInv, CallsInv, OthersInv, InsertBooking
  <2>2. b \in Bookings /\ k.status \in Live /\ Offered(o)
    BY <2>1 DEF CallOK, CallSound, AboutBooking
  <2> QED
    BY <2>1, <2>2, BookingParts DEF InsertBooking, presence
<1>1. CASE bookings[b] # NoBooking
  <2>1. Quiet(c)
    BY <1>0, <1>1, EndPlainQuiet
    DEF InsertBooking, Quiet, rows, history, TypeInv, OthersInv
  <2> QED
    BY <2>1, QuietKeeps
<1>2. CASE bookings[b] = NoBooking
  <2>1. PICK r : /\ r \in Booking /\ r.status = k.status /\ ~r.reminded
                 /\ bookings' = [bookings EXCEPT ![b] = r]
    <3>1. PICK n : n = Cardinality({d \in RowsOf(o) : bookings[d] # NoBooking}) + 1
      OBVIOUS
    <3>2. n \in Nat \ {0}
      <4>1. {d \in RowsOf(o) : bookings[d] # NoBooking} \subseteq Bookings
        BY DEF RowsOf
      <4>2. IsFiniteSet(Bookings)
        BY SchedulingAssumption, FS_Product DEF Bookings
      <4>3. Cardinality({d \in RowsOf(o) : bookings[d] # NoBooking}) \in Nat
        BY <4>1, <4>2, FS_Subset, FS_CardinalityType
      <4> QED
        BY <3>1, <4>3
    <3> DEFINE r == [status |-> k.status, place |-> n, reminded |-> FALSE]
    <3>3. r \in Booking /\ r.status = k.status /\ ~r.reminded
      BY <1>0, <3>2 DEF Booking
    <3>4. bookings' = [bookings EXCEPT ![b] = r]
      BY <1>2, <3>1 DEF InsertBooking
    <3> QED
      BY <3>3, <3>4
  <2>2. Writes(b, r)
    BY <1>0, <2>1 DEF Writes
  <2>3. Moves(c, Idle)
    BY <1>0, EndMoves
  <2>4. /\ RowsInv' /\ Grows
        /\ bookings'[b] = r
        /\ \A d \in Bookings \ {b} : bookings'[d] = bookings[d]
    BY <1>0, <2>2, WriteFacts
  <2>5. raced' = (raced \/ k.status # Decision(o) \/ Promoting(o) # {})
    BY <1>2 DEF InsertBooking
  <2>6. TypeInv'
    <3>1. raced' \in BOOLEAN
      BY <2>5
    <3> QED
      BY <1>0, <2>3, <2>4, <3>1, MovesKeepsCalls DEF TypeInv, OthersInv
  <2>7. MailInv'
    <3>1. ~bookings[b].reminded
      BY <1>2 DEF NoBooking
    <3> QED
      BY <1>0, <2>3, <2>4, <3>1, IdleCall, MailSteps
  <2>8. OrderInv'
    <3> SUFFICES ASSUME ~raced', NEW q \in Occurrences
                 PROVE  /\ Claims(q)' <= occurrences[q].capacity
                        /\ Waiting(q)' # {} => Claims(q)' >= occurrences[q].capacity
                        /\ \A d \in Callers : calls'[d].pc = "promote" /\ calls'[d].booking[1] = q
                               => Waiting(q)' \subseteq calls'[d].todo
      BY <1>0 DEF OrderInv
    <3>1. ~raced /\ k.status = Decision(o) /\ Promoting(o) = {}
      BY <2>5
    <3>2. /\ Claims(q) <= occurrences[q].capacity
          /\ Waiting(q) # {} => Claims(q) >= occurrences[q].capacity
          /\ \A d \in Callers :
                calls[d].pc = "promote" /\ calls[d].booking[1] = q => Waiting(q) \subseteq calls[d].todo
      BY <3>1 DEF ClassInv, OrderInv
    <3>3. Promoting(q)' = Promoting(q)
      <4>1. Promoting(q)' = Promoting(q) \ {c}
        BY <1>0, <2>3, PromotingChange, IdleCall DEF Cancelling
      <4>2. c \notin Promoting(q)
        BY <1>0 DEF Promoting
      <4> QED
        BY <4>1, <4>2
    <3>4. b \notin WithStatus(q, "booked") /\ b \notin WithStatus(q, "waitlisted")
      BY <1>2, SchedulingAssumption DEF WithStatus, NoBooking
    <3>5. calls'[c].pc = "idle" /\ \A d \in Callers \ {c} : calls'[d] = calls[d]
      BY <1>0, <2>3, MovesFacts, IdleCall
    <3>6. CASE q # o
      <4>1. \A t \in {"booked", "waitlisted"} : WithStatus(q, t)' = WithStatus(q, t)
        BY <1>0, <2>2, <3>4, <3>6, StatusChange
      <4> QED
        BY <3>2, <3>3, <3>5, <4>1 DEF Claims, Seats, Waiting
    <3>7. CASE q = o
      <4>1. Claims(q) = Seats(q) /\ Claims(q)' = Seats(q)' /\ Seats(q) \in Nat
        <5>1. Cardinality(Promoting(q)) = 0 /\ Cardinality(Promoting(q))' = 0
          BY <3>1, <3>3, <3>7, FS_EmptySet
        <5>2. Seats(q) \in Nat /\ Seats(q)' \in Nat
          BY SeatsType
        <5> QED
          BY <5>1, <5>2 DEF Claims
      <4>2. \A d \in Callers : ~(calls'[d].pc = "promote" /\ calls'[d].booking[1] = q)
        BY <3>1, <3>3, <3>7 DEF Promoting
      <4>3. occurrences[q].capacity \in Nat
        BY <1>0, CapacityType
      <4>4. CASE k.status = "booked"
        <5>1. Seats(q) < occurrences[q].capacity
          BY <3>1, <3>7, <4>4 DEF Decision
        <5>2. Seats(q)' = Seats(q) + 1
          <6>1. WithStatus(q, "booked")' = WithStatus(q, "booked") \cup {b}
            BY <1>0, <2>1, <2>2, <3>7, <4>4, StatusChange
          <6>2. IsFiniteSet(WithStatus(q, "booked"))
            BY FiniteSets
          <6>3. Cardinality(WithStatus(q, "booked") \cup {b}) = Cardinality(WithStatus(q, "booked")) + 1
            BY <3>4, <6>2, Plus
          <6> QED
            BY <6>1, <6>3 DEF Seats
        <5>3. Waiting(q)' = Waiting(q)
          <6>1. r.status # "waitlisted"
            BY <2>1, <4>4
          <6>2. WithStatus(q, "waitlisted")' = WithStatus(q, "waitlisted") \ {b}
            BY <1>0, <2>2, <6>1, StatusChange
          <6> QED
            BY <3>4, <6>2 DEF Waiting
        <5> QED
          BY <3>2, <4>1, <4>2, <4>3, <5>1, <5>2, <5>3
      <4>5. CASE k.status = "waitlisted"
        <5>1. ~(Seats(q) < occurrences[q].capacity)
          BY <3>1, <3>7, <4>5 DEF Decision
        <5>2. Seats(q)' = Seats(q)
          <6>1. r.status # "booked"
            BY <2>1, <4>5
          <6>2. WithStatus(q, "booked")' = WithStatus(q, "booked") \ {b}
            BY <1>0, <2>2, <6>1, StatusChange
          <6> QED
            BY <3>4, <6>2 DEF Seats
        <5> QED
          BY <3>2, <4>1, <4>2, <4>3, <5>1, <5>2
      <4> QED
        BY <1>0, <4>4, <4>5 DEF Live
    <3> QED
      BY <3>6, <3>7
  <2> QED
    BY <2>6, <2>7, <2>8 DEF ClassInv
<1> QED
  BY <1>1, <1>2

(***************************************************************************)
(* Cancelling and handing on the seat.                                     *)
(***************************************************************************)
LEMMA WithdrawKeeps ==
  ASSUME ClassInv, NEW c \in Callers, Withdraw(c)
  PROVE  ClassInv'
<1> PICK k, b, o : k = calls[c] /\ b = k.booking /\ o = b[1]
  OBVIOUS
<1>0. /\ TypeInv /\ CallOK(k) /\ CallSound(k) /\ k.pc = "withdraw"
      /\ b \in Bookings /\ o \in Occurrences /\ Exists(b) /\ Offered(o)
      /\ raced \in BOOLEAN
      /\ UNCHANGED <<capacity, occurrences, attendance, mails, phase, workload>>
      /\ raced' = (raced \/ bookings[b].status # k.status)
  <2>1. TypeInv /\ CallOK(k) /\ CallSound(k) /\ k.pc = "withdraw" /\ raced \in BOOLEAN
    BY DEF ClassInv, TypeInv, CallsInv, OthersInv, Withdraw
  <2>2. b \in Bookings /\ Exists(b)
    BY <2>1 DEF CallOK, CallSound, AboutBooking
  <2>3. Offered(o)
    BY <2>1, <2>2 DEF TypeInv, RowsInv
  <2> QED
    BY <2>1, <2>2, <2>3, BookingParts DEF Withdraw, presence
<1>1. PICK p : p = bookings[b] /\ p \in Booking
  BY <1>0 DEF TypeInv, RowsInv, Exists
<1>2. PICK r : /\ r \in Booking /\ r.status = "cancelled" /\ r.reminded = p.reminded
               /\ bookings' = [bookings EXCEPT ![b] = r]
  <2> DEFINE r == [p EXCEPT !.status = "cancelled"]
  <2>1. r \in Booking /\ r.status = "cancelled" /\ r.reminded = p.reminded
    BY <1>1 DEF Booking
  <2>2. bookings' = [bookings EXCEPT ![b] = r]
    BY <1>1 DEF Withdraw
  <2> QED
    BY <2>1, <2>2
<1>3. PICK a : /\ a = IF k.status = "booked" THEN [k EXCEPT !.pc = "waitlist"] ELSE Idle
               /\ Continue(c, a)
  BY DEF Withdraw, End
<1>4. /\ CallOK(a)
      /\ IF k.status = "booked" THEN a.pc = "waitlist" /\ a.booking = b /\ a.todo = k.todo
                               ELSE a.pc = "idle" /\ a.todo = {}
  <2>1. CASE k.status = "booked"
    BY <1>0, <1>3, <2>1 DEF CallOK, Call, AboutBooking
  <2>2. CASE k.status # "booked"
    BY <1>3, <2>2, IdleCall
  <2> QED
    BY <2>1, <2>2
<1>5. Writes(b, r)
  BY <1>0, <1>2 DEF Writes
<1>6. /\ RowsInv' /\ Grows
      /\ bookings'[b] = r
      /\ \A d \in Bookings \ {b} : bookings'[d] = bookings[d]
  BY <1>0, <1>5, WriteFacts
<1>7. Moves(c, a)
  <2>1. CallSound(k)'
    BY <1>0, <1>6, SoundGrows
  <2>2. Exists(b)'
    BY <1>0, <1>6 DEF Grows
  <2>3. CallSound(a)'
    BY <1>4, <2>1, <2>2 DEF CallSound
  <2> QED
    BY <1>3, <1>4, <2>3 DEF Moves, Continue
<1>8. TypeInv'
  BY <1>0, <1>6, <1>7, MovesKeepsCalls DEF TypeInv, OthersInv
<1>9. MailInv'
  BY <1>0, <1>1, <1>2, <1>4, <1>6, <1>7, MailSteps
<1>10. OrderInv'
  <2> SUFFICES ASSUME ~raced', NEW q \in Occurrences
               PROVE  /\ Claims(q)' <= occurrences[q].capacity
                      /\ Waiting(q)' # {} => Claims(q)' >= occurrences[q].capacity
                      /\ \A d \in Callers : calls'[d].pc = "promote" /\ calls'[d].booking[1] = q
                             => Waiting(q)' \subseteq calls'[d].todo
    BY <1>0 DEF OrderInv
  <2>1. ~raced /\ p.status = k.status
    BY <1>0, <1>1
  <2>2. /\ Claims(q) <= occurrences[q].capacity
        /\ Waiting(q) # {} => Claims(q) >= occurrences[q].capacity
        /\ \A d \in Callers :
              calls[d].pc = "promote" /\ calls[d].booking[1] = q => Waiting(q) \subseteq calls[d].todo
    BY <2>1 DEF ClassInv, OrderInv
  <2>3. WithStatus(q, "booked")' = WithStatus(q, "booked") \ {b}
    BY <1>0, <1>2, <1>5, StatusChange
  <2>4. Waiting(q)' = Waiting(q) \ {b}
    <3>1. WithStatus(q, "waitlisted")' = WithStatus(q, "waitlisted") \ {b}
      BY <1>0, <1>2, <1>5, StatusChange
    <3> QED
      BY <3>1 DEF Waiting
  <2>5. c \notin Promoting(q)
    BY <1>0 DEF Promoting
  <2>6. b \in WithStatus(q, "booked") <=> q = o /\ k.status = "booked"
    BY <1>0, <1>1, <2>1 DEF WithStatus, RowsOf
  <2>7. Claims(q)' = Claims(q)
    <3>1. CASE q = o /\ k.status = "booked"
      <4>1. Promoting(q)' = Promoting(q) \cup {c}
        BY <1>0, <1>4, <1>7, <3>1, PromotingChange DEF Cancelling
      <4>2. Cardinality(Promoting(q))' = Cardinality(Promoting(q)) + 1
        BY <2>5, <4>1, FiniteSets, Plus
      <4>3. Cardinality(WithStatus(q, "booked") \ {b}) = Cardinality(WithStatus(q, "booked")) - 1
        BY <2>6, <3>1, FiniteSets, Plus
      <4>4. Seats(q)' = Seats(q) - 1
        BY <2>3, <4>3 DEF Seats
      <4> QED
        BY <4>2, <4>4, SeatsType, FiniteSets DEF Claims
    <3>2. CASE ~(q = o /\ k.status = "booked")
      <4>1. Promoting(q)' = Promoting(q)
        BY <1>0, <1>4, <1>7, <2>5, <3>2, PromotingChange DEF Cancelling
      <4>2. WithStatus(q, "booked")' = WithStatus(q, "booked")
        BY <2>3, <2>6, <3>2
      <4> QED
        BY <4>1, <4>2 DEF Claims, Seats
    <3> QED
      BY <3>1, <3>2
  <2>8. a.pc # "promote" /\ calls'[c] = a /\ \A d \in Callers \ {c} : calls'[d] = calls[d]
    BY <1>0, <1>4, <1>7, MovesFacts
  <2> QED
    BY <2>2, <2>4, <2>7, <2>8
<1> QED
  BY <1>8, <1>9, <1>10 DEF ClassInv

(* A cancel that goes on, or ends, without a write.                         *)
LEMMA CandidatesLeft ==
  ASSUME ClassInv, NEW c \in Callers, NEW S, WithCandidates(c, S),
         calls[c].pc \in {"waitlist", "promote"},
         S \in SUBSET RowsOf(calls[c].booking[1]),
         \A b \in S : Exists(b),
         ~raced => Waiting(calls[c].booking[1]) \subseteq S,
         UNCHANGED <<rows, presence, phase, history>>
  PROVE  ClassInv'
<1> PICK k, o : k = calls[c] /\ o = k.booking[1]
  OBVIOUS
<1>0. /\ TypeInv /\ CallOK(k) /\ CallSound(k) /\ k.booking \in Bookings /\ o \in Occurrences
      /\ S \in SUBSET RowsOf(o) /\ S \in SUBSET Bookings
      /\ UNCHANGED <<capacity, occurrences, bookings, attendance, mails, phase, raced, workload>>
  <2>1. TypeInv /\ CallOK(k) /\ CallSound(k)
    BY DEF ClassInv, TypeInv, CallsInv
  <2>2. k.booking \in Bookings
    BY <2>1 DEF CallOK, AboutBooking
  <2> QED
    BY <2>1, <2>2, BookingParts DEF RowsOf, rows, presence, history
<1>1. PICK a : /\ a = IF S = {} THEN Idle ELSE [k EXCEPT !.pc = "promote", !.todo = S]
               /\ Continue(c, a)
  BY DEF WithCandidates, End
<1>2. /\ CallOK(a)
      /\ IF S = {} THEN a.pc = "idle" /\ a.todo = {}
                   ELSE a.pc = "promote" /\ a.booking = k.booking /\ a.todo = S
  <2>1. CASE S = {}
    BY <1>1, <2>1, IdleCall
  <2>2. CASE S # {}
    <3>1. \A b \in S : b[1] = o
      BY <1>0 DEF RowsOf
    <3>2. /\ a \in Call /\ a.pc = "promote" /\ a.booking = k.booking /\ a.todo = S
          /\ a.status = k.status
      BY <1>0, <1>1, <2>2 DEF CallOK, Call
    <3> QED
      BY <1>0, <2>2, <3>1, <3>2 DEF CallOK
  <2> QED
    BY <2>1, <2>2
<1>3. RowsInv' /\ Grows
  BY <1>0, SameRows DEF TypeInv, RowsInv
<1>4. Moves(c, a)
  <2>1. Exists(k.booking)
    BY <1>0 DEF CallSound
  <2>2. CallSound(a)
    BY <1>2, <2>1 DEF CallSound
  <2> QED
    BY <1>1, <1>2, <1>3, <2>2, SoundGrows DEF Moves, Continue
<1>5. TypeInv'
  BY <1>0, <1>3, <1>4, MovesKeepsCalls DEF TypeInv, OthersInv
<1>6. MailInv'
  BY <1>0, <1>2, <1>4, MailSteps
<1>7. OrderInv'
  <2> SUFFICES ASSUME ~raced, NEW q \in Occurrences
               PROVE  /\ Claims(q)' <= occurrences[q].capacity
                      /\ Waiting(q)' # {} => Claims(q)' >= occurrences[q].capacity
                      /\ \A d \in Callers : calls'[d].pc = "promote" /\ calls'[d].booking[1] = q
                             => Waiting(q)' \subseteq calls'[d].todo
    BY <1>0 DEF OrderInv
  <2>1. /\ Claims(q) <= occurrences[q].capacity
        /\ Waiting(q) # {} => Claims(q) >= occurrences[q].capacity
        /\ \A d \in Callers :
              calls[d].pc = "promote" /\ calls[d].booking[1] = q => Waiting(q) \subseteq calls[d].todo
    BY DEF ClassInv, OrderInv
  <2>2. WithStatus(q, "booked")' = WithStatus(q, "booked") /\ Waiting(q)' = Waiting(q)
    BY <1>0 DEF WithStatus, RowsOf, Waiting
  <2>3. calls'[c] = a /\ \A d \in Callers \ {c} : calls'[d] = calls[d]
    BY <1>0, <1>4, MovesFacts
  <2>4. \A d \in Callers : calls'[d].pc = "promote" /\ calls'[d].booking[1] = q
                             => Waiting(q)' \subseteq calls'[d].todo
    BY <1>2, <2>1, <2>2, <2>3
  <2>5. c \in Promoting(q) <=> q = o
    BY DEF Promoting
  <2>6. CASE S # {} \/ q # o
    <3>1. Promoting(q)' = Promoting(q)
      BY <1>0, <1>2, <1>4, <2>5, <2>6, PromotingChange DEF Cancelling
    <3>2. Claims(q)' = Claims(q)
      BY <2>2, <3>1 DEF Claims, Seats
    <3> QED
      BY <2>1, <2>2, <2>4, <3>2
  <2>7. CASE S = {} /\ q = o
    <3>1. Promoting(q)' = Promoting(q) \ {c}
      BY <1>0, <1>2, <1>4, <2>7, PromotingChange DEF Cancelling
    <3>2. Cardinality(Promoting(q))' = Cardinality(Promoting(q)) - 1
      BY <2>5, <2>7, <3>1, FiniteSets, Plus
    <3>3. Claims(q)' = Claims(q) - 1
      <4>1. Seats(q)' = Seats(q)
        BY <2>2 DEF Seats
      <4>2. Seats(q) \in Nat /\ Cardinality(Promoting(q)) \in Nat
        BY SeatsType, FiniteSets
      <4> QED
        BY <3>2, <4>1, <4>2 DEF Claims
    <3>4. Waiting(q)' = {}
      BY <2>2, <2>7
    <3>5. Claims(q) - 1 <= occurrences[q].capacity
      <4>1. occurrences[q].capacity \in Nat
        BY <1>0, CapacityType
      <4>2. Claims(q) \in Nat
        BY SeatsType, FiniteSets DEF Claims
      <4> QED
        BY <2>1, <4>1, <4>2
    <3> QED
      BY <2>4, <3>3, <3>4, <3>5
  <2> QED
    BY <2>6, <2>7
<1> QED
  BY <1>5, <1>6, <1>7 DEF ClassInv

LEMMA ListWaitlistKeeps ==
  ASSUME ClassInv, NEW c \in Callers, ListWaitlist(c)
  PROVE  ClassInv'
<1> DEFINE S == Waiting(calls[c].booking[1])
<1>1. S \in SUBSET RowsOf(calls[c].booking[1]) /\ \A b \in S : Exists(b)
  BY SchedulingAssumption DEF Waiting, WithStatus, Exists, NoBooking
<1> QED
  BY <1>1, CandidatesLeft DEF ListWaitlist, Waiting

(* A row handed on to the oldest candidate who still waits.                 *)
LEMMA PromoteKeeps ==
  ASSUME ClassInv, NEW c \in Callers, PromoteIfWaitlisted(c)
  PROVE  ClassInv'
<1> PICK k, b, o : k = calls[c] /\ b = Oldest(k.todo) /\ o = k.booking[1]
  OBVIOUS
<1>0. /\ TypeInv /\ CallOK(k) /\ CallSound(k) /\ k.pc = "promote"
      /\ b \in k.todo /\ b \in Bookings /\ b[1] = o /\ o \in Occurrences
      /\ Exists(b) /\ Offered(o)
      /\ k.todo \in SUBSET RowsOf(o) /\ \A d \in k.todo : Exists(d)
      /\ UNCHANGED <<capacity, occurrences, attendance, mails, phase, raced, workload>>
  <2>1. TypeInv /\ CallOK(k) /\ CallSound(k) /\ k.pc = "promote"
    BY DEF ClassInv, TypeInv, CallsInv, PromoteIfWaitlisted
  <2>2. k.todo \in SUBSET Bookings /\ k.todo # {} /\ \A d \in k.todo : d[1] = o
    BY <2>1 DEF CallOK, Call
  <2>3. b \in k.todo
    BY <2>1, <2>2, OldestIsOne
  <2>4. Exists(b) /\ \A d \in k.todo : Exists(d)
    BY <2>1, <2>3 DEF CallSound
  <2>5. Offered(o)
    BY <2>1, <2>2, <2>3, <2>4 DEF TypeInv, RowsInv
  <2>6. UNCHANGED <<capacity, occurrences, attendance, mails, phase, raced, workload>>
    BY DEF PromoteIfWaitlisted, presence, history
  <2> QED
    BY <2>1, <2>2, <2>3, <2>4, <2>5, <2>6, BookingParts DEF RowsOf
<1>1. PICK p : p = bookings[b] /\ p \in Booking
  BY <1>0 DEF TypeInv, RowsInv, Exists
<1>2. CASE p.status # "waitlisted"
  <2> DEFINE S == k.todo \ {b}
  <2>1. WithCandidates(c, S) /\ UNCHANGED <<rows, presence, phase, history>>
    BY <1>1, <1>2 DEF PromoteIfWaitlisted, StillWaitlisted, Others, rows
  <2>2. ~raced => Waiting(o) \subseteq S
    <3>1. ~raced => Waiting(o) \subseteq k.todo
      BY <1>0 DEF ClassInv, OrderInv
    <3>2. b \notin Waiting(o)
      BY <1>1, <1>2 DEF Waiting, WithStatus
    <3> QED
      BY <3>1, <3>2
  <2> QED
    BY <1>0, <2>1, <2>2, CandidatesLeft
<1>3. CASE p.status = "waitlisted"
  <2>1. PICK r : /\ r \in Booking /\ r.status = "booked" /\ r.reminded = p.reminded
                 /\ bookings' = [bookings EXCEPT ![b] = r]
    <3> DEFINE r == [p EXCEPT !.status = "booked"]
    <3>1. r \in Booking /\ r.status = "booked" /\ r.reminded = p.reminded
      BY <1>1 DEF Booking, Live
    <3>2. bookings' = [bookings EXCEPT ![b] = r]
      BY <1>1, <1>3 DEF PromoteIfWaitlisted, StillWaitlisted
    <3> QED
      BY <3>1, <3>2
  <2>2. Writes(b, r) /\ Moves(c, Idle) /\ UNCHANGED raced
    BY <1>0, <1>1, <1>3, <2>1, EndMoves DEF Writes, PromoteIfWaitlisted, StillWaitlisted
  <2>3. /\ RowsInv' /\ Grows
        /\ bookings'[b] = r
        /\ \A d \in Bookings \ {b} : bookings'[d] = bookings[d]
    BY <1>0, <2>2, WriteFacts
  <2>4. TypeInv'
    BY <1>0, <2>2, <2>3, MovesKeepsCalls DEF TypeInv, OthersInv
  <2>5. MailInv'
    BY <1>0, <1>1, <2>1, <2>2, <2>3, IdleCall, MailSteps
  <2>6. OrderInv'
    <3> SUFFICES ASSUME ~raced, NEW q \in Occurrences
                 PROVE  /\ Claims(q)' <= occurrences[q].capacity
                        /\ Waiting(q)' # {} => Claims(q)' >= occurrences[q].capacity
                        /\ \A d \in Callers : calls'[d].pc = "promote" /\ calls'[d].booking[1] = q
                               => Waiting(q)' \subseteq calls'[d].todo
      BY <1>0 DEF OrderInv
    <3>1. /\ Claims(q) <= occurrences[q].capacity
          /\ Waiting(q) # {} => Claims(q) >= occurrences[q].capacity
          /\ \A d \in Callers :
                calls[d].pc = "promote" /\ calls[d].booking[1] = q => Waiting(q) \subseteq calls[d].todo
      BY DEF ClassInv, OrderInv
    <3>2. Waiting(q)' = Waiting(q) \ {b}
      <4>1. WithStatus(q, "waitlisted")' = WithStatus(q, "waitlisted") \ {b}
        BY <1>0, <2>1, <2>2, StatusChange
      <4> QED
        BY <4>1 DEF Waiting
    <3>3. b \notin WithStatus(q, "booked")
      BY <1>1, <1>3 DEF WithStatus
    <3>4. c \in Promoting(q) <=> q = o
      BY <1>0 DEF Promoting
    <3>5. Promoting(q)' = Promoting(q) \ {c}
      BY <1>0, <2>2, PromotingChange, IdleCall DEF Cancelling
    <3>6. Claims(q)' = Claims(q)
      <4>1. CASE q = o
        <5>1. WithStatus(q, "booked")' = WithStatus(q, "booked") \cup {b}
          BY <1>0, <2>1, <2>2, <4>1, StatusChange
        <5>2. Cardinality(WithStatus(q, "booked") \cup {b}) = Cardinality(WithStatus(q, "booked")) + 1
          BY <3>3, FiniteSets, Plus
        <5>3. Seats(q)' = Seats(q) + 1
          BY <5>1, <5>2 DEF Seats
        <5>4. Cardinality(Promoting(q))' = Cardinality(Promoting(q)) - 1
          BY <3>4, <3>5, <4>1, FiniteSets, Plus
        <5> QED
          BY <5>3, <5>4, SeatsType, FiniteSets DEF Claims
      <4>2. CASE q # o
        <5>1. WithStatus(q, "booked")' = WithStatus(q, "booked")
          <6>1. WithStatus(q, "booked")' = WithStatus(q, "booked") \ {b}
            BY <1>0, <2>2, <4>2, StatusChange
          <6> QED
            BY <3>3, <6>1
        <5>2. Promoting(q)' = Promoting(q)
          BY <3>4, <3>5, <4>2
        <5> QED
          BY <5>1, <5>2 DEF Claims, Seats
      <4> QED
        BY <4>1, <4>2
    <3>7. calls'[c].pc = "idle" /\ \A d \in Callers \ {c} : calls'[d] = calls[d]
      BY <1>0, <2>2, MovesFacts, IdleCall
    <3> QED
      BY <3>1, <3>2, <3>6, <3>7
  <2> QED
    BY <2>4, <2>5, <2>6 DEF ClassInv
<1> QED
  BY <1>2, <1>3

(***************************************************************************)
(* Reminding.                                                              *)
(***************************************************************************)
LEMMA ClaimKeeps ==
  ASSUME ClassInv, NEW c \in Callers, ClaimForReminder(c)
  PROVE  ClassInv'
<1> PICK k, b, rest : k = calls[c] /\ b = Oldest(k.todo) /\ rest = k.todo \ {b}
  OBVIOUS
<1>0. /\ TypeInv /\ CallOK(k) /\ CallSound(k) /\ k.pc = "sweep"
      /\ b \in Bookings /\ Exists(b) /\ Offered(b[1])
      /\ rest \in SUBSET Bookings /\ \A d \in rest : Exists(d)
      /\ k.classes \in SUBSET Occurrences
      /\ attendance \in [Bookings -> Nat]
      /\ UNCHANGED <<capacity, occurrences, attendance, mails, phase, raced, workload>>
  <2>1. TypeInv /\ CallOK(k) /\ CallSound(k) /\ k.pc = "sweep"
    BY DEF ClassInv, TypeInv, CallsInv, ClaimForReminder
  <2>2. k.todo \in SUBSET Bookings /\ k.todo # {} /\ k.classes \in SUBSET Occurrences
    BY <2>1 DEF CallOK, Call, ClaimForReminder
  <2>3. b \in k.todo
    BY <2>1, <2>2, OldestIsOne
  <2>4. \A d \in k.todo : Exists(d)
    BY <2>1 DEF CallSound
  <2>5. Offered(b[1]) /\ attendance \in [Bookings -> Nat]
    BY <2>1, <2>2, <2>3, <2>4 DEF TypeInv, RowsInv, OthersInv
  <2>6. UNCHANGED <<capacity, occurrences, attendance, mails, phase, raced, workload>>
    BY DEF ClaimForReminder, presence, history
  <2> QED
    BY <2>1, <2>2, <2>3, <2>4, <2>5, <2>6
<1>1. PICK p : p = bookings[b] /\ p \in Booking
  BY <1>0 DEF TypeInv, RowsInv, Exists
<1>2. CASE p.reminded
  <2>1. Sweep(c, rest, k.classes) /\ UNCHANGED bookings
    BY <1>1, <1>2 DEF ClaimForReminder, Unclaimed
  <2>2. \A d \in rest : Exists(d)'
    BY <1>0, <2>1 DEF Exists
  <2>3. Plain(c)
    BY <1>0, <2>1, <2>2, SweepPlain
  <2>4. Quiet(c)
    BY <1>0, <2>1, <2>3 DEF Quiet, rows, history
  <2> QED
    BY <2>4, QuietKeeps
<1>3. CASE ~p.reminded
  <2>1. PICK r : /\ r \in Booking /\ r.status = p.status /\ r.reminded
                 /\ bookings' = [bookings EXCEPT ![b] = r]
    <3> DEFINE r == [p EXCEPT !.reminded = TRUE]
    <3>1. r \in Booking /\ r.status = p.status /\ r.reminded
      BY <1>1 DEF Booking
    <3>2. bookings' = [bookings EXCEPT ![b] = r]
      BY <1>1, <1>3 DEF ClaimForReminder, Unclaimed
    <3> QED
      BY <3>1, <3>2
  <2>2. Writes(b, r)
    BY <1>0, <2>1 DEF Writes
  <2>3. /\ RowsInv' /\ Grows
        /\ bookings'[b] = r
        /\ \A d \in Bookings \ {b} : bookings'[d] = bookings[d]
    BY <1>0, <2>2, WriteFacts
  <2>4. PICK a : /\ Continue(c, a) /\ CallOK(a)
                 /\ a.pc = "send" /\ a.booking = b /\ a.todo = rest
    <3> DEFINE a == [k EXCEPT !.pc = "send", !.booking = b, !.todo = rest]
    <3>1. a \in Call /\ a.pc = "send" /\ a.booking = b /\ a.todo = rest
      BY <1>0 DEF CallOK, Call
    <3>2. CallOK(a)
      BY <1>0, <3>1 DEF CallOK
    <3>3. Continue(c, a)
      BY <1>1, <1>3 DEF ClaimForReminder, Unclaimed
    <3> QED
      BY <3>1, <3>2, <3>3
  <2>5. Moves(c, a)
    <3>1. CallSound(a)
      BY <1>0, <2>4 DEF CallSound
    <3> QED
      BY <2>3, <2>4, <3>1, SoundGrows DEF Moves, Continue
  <2>6. calls'[c] = a /\ \A d \in Callers \ {c} : calls'[d] = calls[d]
    BY <1>0, <2>5, MovesFacts
  <2>7. TypeInv'
    BY <1>0, <2>3, <2>5, MovesKeepsCalls DEF TypeInv, OthersInv
  <2>8. MailInv'
    <3>1. mails[b] = 0
      BY <1>0, <1>1, <1>3 DEF ClassInv, MailInv
    <3>2. \A d \in Callers : ~Sending(d, b)
      BY <1>0, <1>1, <1>3 DEF ClassInv, MailInv
    <3>3. \A d \in Callers, x \in Bookings :
             Sending(d, x)' <=> (IF d = c THEN x = b ELSE Sending(d, x))
      BY <2>4, <2>6 DEF Sending
    <3>4. \A x \in Bookings : bookings[x].reminded => bookings'[x].reminded
      BY <2>1, <2>3
    <3> QED
      BY <1>0, <2>1, <2>3, <3>1, <3>2, <3>3, <3>4 DEF ClassInv, MailInv
  <2>9. OrderInv'
    <3>1. \A q, t : WithStatus(q, t)' = WithStatus(q, t)
      BY <1>1, <2>1, <2>3 DEF WithStatus, RowsOf
    <3>2. \A q : Promoting(q)' = Promoting(q)
      BY <1>0, <2>4, <2>6 DEF Promoting
    <3>3. \A q : Claims(q)' = Claims(q) /\ Waiting(q)' = Waiting(q)
      BY <3>1, <3>2 DEF Claims, Seats, Waiting
    <3>4. \A d \in Callers : calls'[d].pc = "promote" => calls'[d] = calls[d]
      BY <2>4, <2>6
    <3> QED
      BY <1>0, <3>3, <3>4 DEF ClassInv, OrderInv
  <2> QED
    BY <2>7, <2>8, <2>9 DEF ClassInv
<1> QED
  BY <1>1, <1>2, <1>3

LEMMA SendKeeps ==
  ASSUME ClassInv, NEW c \in Callers, NEW sent \in BOOLEAN, SendReminder(c, sent)
  PROVE  ClassInv'
<1> PICK k, b : k = calls[c] /\ b = k.booking
  OBVIOUS
<1>0. /\ TypeInv /\ CallOK(k) /\ k.pc = "send" /\ b \in Bookings
      /\ mails \in [Bookings -> Nat]
      /\ UNCHANGED <<capacity, occurrences, bookings, attendance, phase, raced, workload>>
  BY DEF ClassInv, TypeInv, CallsInv, OthersInv, CallOK, AboutBooking, SendReminder, rows, history
<1>1. PICK a : Moves(c, a) /\ a.pc \notin Special
  <2>1. k.todo \in SUBSET Bookings /\ k.classes \in SUBSET Occurrences
    BY <1>0 DEF CallOK, Call
  <2>2. \A d \in k.todo : Exists(d)'
    BY <1>0 DEF TypeInv, CallsInv, CallSound, Exists
  <2>3. Sweep(c, k.todo, k.classes)
    BY DEF SendReminder
  <2> QED
    BY <2>1, <2>2, <2>3, SweepPlain DEF Plain
<1>2. calls'[c] = a /\ \A d \in Callers \ {c} : calls'[d] = calls[d]
  BY <1>0, <1>1, MovesFacts
<1>3. /\ Sending(c, b) /\ mails[b] = 0 /\ bookings[b].reminded
      /\ \A d \in Callers \ {c} : ~Sending(d, b)
  <2>1. Sending(c, b)
    BY <1>0 DEF Sending
  <2> QED
    BY <1>0, <2>1 DEF ClassInv, MailInv
<1>4. /\ mails'[b] \in {0, 1}
      /\ \A x \in Bookings \ {b} : mails'[x] = mails[x]
      /\ mails' \in [Bookings -> Nat]
  BY <1>0, <1>3 DEF SendReminder
<1>5. TypeInv'
  <2>1. RowsInv' /\ Grows
    BY <1>0, SameRows DEF TypeInv, RowsInv
  <2>2. OthersInv'
    BY <1>0, <1>4 DEF TypeInv, OthersInv
  <2> QED
    BY <1>0, <1>1, <2>1, <2>2, MovesKeepsCalls DEF TypeInv
<1>6. MailInv'
  <2>1. \A d \in Callers, x \in Bookings : Sending(d, x)' => Sending(d, x) /\ x # b
    BY <1>1, <1>2, <1>3 DEF Sending, Special
  <2> QED
    BY <1>0, <1>3, <1>4, <2>1 DEF ClassInv, MailInv
<1>7. OrderInv'
  <2>1. \A q : Promoting(q)' = Promoting(q)
    BY <1>0, <1>1, <1>2 DEF Promoting, Special
  <2>2. \A q, t : WithStatus(q, t)' = WithStatus(q, t)
    BY <1>0 DEF WithStatus, RowsOf
  <2>3. \A q : Claims(q)' = Claims(q) /\ Waiting(q)' = Waiting(q)
    BY <2>1, <2>2 DEF Claims, Seats, Waiting
  <2>4. \A d \in Callers : calls'[d].pc = "promote" => calls'[d] = calls[d]
    BY <1>1, <1>2 DEF Special
  <2> QED
    BY <1>0, <2>3, <2>4 DEF ClassInv, OrderInv
<1> QED
  BY <1>5, <1>6, <1>7 DEF ClassInv

(* A cancel that crashes between freeing its seat and handing it on.        *)
LEMMA CrashKeeps ==
  ASSUME ClassInv, NEW c \in Callers, Crash(c), raced'
  PROVE  ClassInv'
<1>1. Moves(c, Idle) /\ TypeInv
  BY EndMoves DEF Crash, ClassInv
<1>2. UNCHANGED <<capacity, occurrences, bookings, attendance, mails, phase, workload>>
  BY DEF Crash, rows, presence
<1>3. RowsInv' /\ Grows
  BY <1>1, <1>2, SameRows DEF TypeInv, RowsInv
<1>4. OthersInv'
  <2>1. raced' \in BOOLEAN
    BY DEF Crash
  <2> QED
    BY <1>1, <1>2, <2>1 DEF TypeInv, OthersInv
<1>5. TypeInv'
  BY <1>1, <1>3, <1>4, MovesKeepsCalls DEF TypeInv
<1>6. MailInv'
  BY <1>1, <1>2, IdleCall, MailSteps
<1> QED
  BY <1>5, <1>6 DEF ClassInv, OrderInv

(***************************************************************************)
(* The invariant, and the properties it gives.                             *)
(***************************************************************************)
LEMMA ClassInvStep == ClassInv /\ [SchedulingNext]_schedulingVars => ClassInv'
<1> SUFFICES ASSUME ClassInv, [SchedulingNext]_schedulingVars PROVE ClassInv'
  OBVIOUS
<1>1. ASSUME NEW c \in Callers, NewCall(c) PROVE ClassInv'
  BY <1>1, RequestsQuiet, QuietKeeps
<1>2. ASSUME NEW c \in Callers, CallStep(c) PROVE ClassInv'
  <2>1. CASE Materialize(c)
    BY <2>1, ScheduleSteps
  <2>2. CASE CheckExisting(c) \/ CountSeats(c) \/ ConfirmBooked(c) \/ FindAttendance(c)
                \/ RecordAttendance(c) \/ \E o \in Occurrences : ListBooked(c, o)
    BY <2>2, StepsQuiet, QuietKeeps
  <2>3. CASE InsertBooking(c)
    BY <2>3, InsertKeeps
  <2>4. CASE Withdraw(c)
    BY <2>4, WithdrawKeeps
  <2>5. CASE ListWaitlist(c)
    BY <2>5, ListWaitlistKeeps
  <2>6. CASE PromoteIfWaitlisted(c)
    BY <2>6, PromoteKeeps
  <2>7. CASE ClaimForReminder(c)
    BY <2>7, ClaimKeeps
  <2>8. CASE \E sent \in BOOLEAN : SendReminder(c, sent)
    BY <2>8, SendKeeps
  <2>9. CASE Crash(c)
    BY <2>9, StepsQuiet, QuietKeeps, CrashKeeps
  <2> QED
    BY <1>2, <2>1, <2>2, <2>3, <2>4, <2>5, <2>6, <2>7, <2>8, <2>9 DEF CallStep
<1>3. CASE \/ EditSchedule
           \/ \E o \in Occurrences : CancelOccurrence(o) \/ TimePasses(o)
           \/ UNCHANGED schedulingVars
  BY <1>3, ScheduleSteps
<1> QED
  BY <1>1, <1>2, <1>3 DEF SchedulingNext

LEMMA ClassInvAlways == SchedulingSpec => []ClassInv
  BY ClassInvInit, ClassInvStep, PTL DEF SchedulingSpec

\* Every row and every call has its type, and a call between two steps holds
\* what it has read (bookings.service.ts, check-in.service.ts).
THEOREM SchedulingTyped == SchedulingSpec => []SchedulingTypeOK
<1>1. ClassInv => SchedulingTypeOK
  BY DEF ClassInv, TypeInv, RowsInv, OthersInv, CallsInv, SchedulingTypeOK
<1> QED
  BY <1>1, ClassInvAlways, PTL

\* Whichever sweeps overlap, crash or are repeated, a booking is mailed at most
\* one reminder: the claim hands it to one sweep (class-reminder.service.ts).
THEOREM OneReminder == SchedulingSpec => []RemindedAtMostOnce
<1>1. ClassInv => RemindedAtMostOnce
  BY DEF ClassInv, MailInv, RemindedAtMostOnce
<1> QED
  BY <1>1, ClassInvAlways, PTL

\* Any number of cancels hand their seats on to the waitlist without
\* overbooking the class or leaving a free seat beside a waiting member, so
\* long as no write was made on a stale read (bookings.service.ts).
THEOREM ClassStaysInOrder == SchedulingSpec => []ClassInOrder
<1>1. ASSUME ClassInv, ~raced, NEW o \in Occurrences
      PROVE  /\ Seats(o) <= occurrences[o].capacity
             /\ WithStatus(o, "waitlisted") # {} =>
                    Seats(o) + Cardinality(Promoting(o)) >= occurrences[o].capacity
  <2>1. Claims(o) <= occurrences[o].capacity
    BY <1>1 DEF ClassInv, OrderInv
  <2>2. Seats(o) \in Nat /\ Cardinality(Promoting(o)) \in Nat
    BY SeatsType, FiniteSets
  <2>3. occurrences[o].capacity \in Nat
    BY <1>1, CapacityType DEF ClassInv
  <2>4. Seats(o) <= occurrences[o].capacity
    BY <2>1, <2>2, <2>3 DEF Claims
  <2> QED
    BY <1>1, <2>4 DEF ClassInv, OrderInv, Claims, Waiting
<1>2. ClassInv => ClassInOrder
  BY <1>1 DEF ClassInOrder
<1> QED
  BY <1>2, ClassInvAlways, PTL

(***************************************************************************)
(* Attendance: proof of OnlyOverlapRepeats.  A call comes to record only   *)
(* while nothing is recorded, so what is recorded of a member's class and  *)
(* what is about to be are together no more than the calls (PresenceInv).  *)
(***************************************************************************)
Recording(b) == {c \in Callers : calls[c].pc = "record" /\ calls[c].booking = b}

PresenceInv ==
    \A b \in Bookings : attendance[b] + Cardinality(Recording(b)) <= Cardinality(Callers)

\* No call comes to record, and nothing is recorded.
NoneRecorded ==
    /\ attendance' = attendance
    /\ \A c \in Callers : calls'[c].pc = "record" => calls'[c] = calls[c]

LEMMA RecordingFinite ==
  ASSUME NEW S \in SUBSET Callers
  PROVE  IsFiniteSet(S) /\ Cardinality(S) \in Nat /\ Cardinality(S) <= Cardinality(Callers)
         /\ Cardinality(Callers) \in Nat
  BY SchedulingAssumption, FS_Subset, FS_CardinalityType

LEMMA PresenceKept ==
  ASSUME TypeInv, PresenceInv, NoneRecorded
  PROVE  PresenceInv'
<1> SUFFICES ASSUME NEW b \in Bookings
             PROVE  (attendance[b] + Cardinality(Recording(b)) <= Cardinality(Callers))'
  BY DEF PresenceInv
<1>1. Recording(b)' \subseteq Recording(b) /\ Recording(b) \subseteq Callers
  BY DEF NoneRecorded, Recording
<1>2. /\ Cardinality(Recording(b)') <= Cardinality(Recording(b))
      /\ Cardinality(Recording(b)') \in Nat /\ Cardinality(Recording(b)) \in Nat
  <2>1. IsFiniteSet(Recording(b))
    BY <1>1, RecordingFinite
  <2> QED
    BY <1>1, <2>1, FS_Subset, FS_CardinalityType
<1>3. attendance[b] \in Nat /\ Cardinality(Callers) \in Nat
  BY RecordingFinite DEF TypeInv, OthersInv
<1>4. attendance[b] + Cardinality(Recording(b)) <= Cardinality(Callers)
  BY DEF PresenceInv
<1>5. attendance'[b] + Cardinality(Recording(b)') <= Cardinality(Callers)
  BY <1>2, <1>3, <1>4 DEF NoneRecorded
<1> QED
  BY <1>5

LEMMA GoesElsewhere ==
  ASSUME TypeInv, NEW c \in Callers, NEW a, Continue(c, a), a.pc # "record"
  PROVE  \A d \in Callers : calls'[d].pc = "record" => calls'[d] = calls[d]
  BY DEF TypeInv, CallsInv, Continue

LEMMA IdleElsewhere ==
  ASSUME TypeInv, NEW c \in Callers, End(c)
  PROVE  \A d \in Callers : calls'[d].pc = "record" => calls'[d] = calls[d]
  BY GoesElsewhere, IdleCall DEF End

LEMMA SweepElsewhere ==
  ASSUME TypeInv, NEW c \in Callers, NEW todo, NEW left, Sweep(c, todo, left)
  PROVE  \A d \in Callers : calls'[d].pc = "record" => calls'[d] = calls[d]
<1>1. [Idle EXCEPT !.pc = "sweep", !.todo = todo, !.classes = left].pc # "record"
  BY DEF Idle
<1> QED
  BY <1>1, GoesElsewhere, IdleElsewhere DEF Sweep

LEMMA NewCallElsewhere ==
  ASSUME TypeInv, NEW c \in Callers, NewCall(c)
  PROVE  NoneRecorded
<1>1. ASSUME NEW S, ReadSchedule(c, S) PROVE NoneRecorded
  <2>1. [Idle EXCEPT !.pc = "upsert", !.classes = S].pc # "record"
    BY DEF Idle
  <2> QED
    BY <1>1, <2>1, GoesElsewhere DEF ReadSchedule, NoneRecorded, presence
<1>2. ASSUME NEW b, RequestBooking(c, b) \/ RequestCancel(c, b) PROVE NoneRecorded
  <2>1. /\ [Idle EXCEPT !.pc = "list", !.booking = b].pc # "record"
        /\ [Idle EXCEPT !.pc = "withdraw", !.booking = b,
                        !.status = bookings[b].status].pc # "record"
    BY DEF Idle
  <2> QED
    BY <1>2, <2>1, GoesElsewhere DEF RequestBooking, RequestCancel, NoneRecorded, presence
<1>3. ASSUME NEW b, SelfCheckIn(c, b) \/ MarkPresent(c, b) PROVE NoneRecorded
  <2>1. /\ [Idle EXCEPT !.pc = "booking", !.booking = b].pc # "record"
        /\ [Idle EXCEPT !.pc = "existing", !.booking = b].pc # "record"
    BY DEF Idle
  <2> QED
    BY <1>3, <2>1, GoesElsewhere DEF SelfCheckIn, MarkPresent, NoneRecorded, presence
<1>4. SweepReminders(c) => NoneRecorded
  BY SweepElsewhere DEF SweepReminders, NoneRecorded, presence
<1> QED
  BY <1>1, <1>2, <1>3, <1>4 DEF NewCall

LEMMA CallElsewhere ==
  ASSUME TypeInv, NEW c \in Callers, CallStep(c), ~FindAttendance(c), ~RecordAttendance(c)
  PROVE  NoneRecorded
<1> USE DEF NoneRecorded, presence
<1>0. PICK a \in Call : a = calls[c]
  BY DEF TypeInv, CallsInv
<1>1. ASSUME NEW pc, pc # "record"
      PROVE  [a EXCEPT !.pc = pc].pc # "record"
  BY <1>1 DEF Call
<1>2. CASE Materialize(c) \/ InsertBooking(c) \/ Crash(c)
  BY <1>2, IdleElsewhere DEF Materialize, InsertBooking, Crash
<1>3. CASE CheckExisting(c) \/ ConfirmBooked(c)
  <2>1. [a EXCEPT !.pc = "count"].pc # "record" /\ [a EXCEPT !.pc = "existing"].pc # "record"
    BY <1>1
  <2> QED
    BY <1>0, <1>3, <2>1, GoesElsewhere, IdleElsewhere DEF CheckExisting, ConfirmBooked
<1>4. CASE CountSeats(c)
  <2>1. [a EXCEPT !.pc = "insert", !.status = Decision(a.booking[1])].pc # "record"
    BY DEF Call
  <2> QED
    BY <1>0, <1>4, <2>1, GoesElsewhere DEF CountSeats
<1>5. CASE Withdraw(c)
  <2>1. [a EXCEPT !.pc = "waitlist"].pc # "record"
    BY <1>1
  <2> QED
    BY <1>0, <1>5, <2>1, GoesElsewhere, IdleElsewhere DEF Withdraw
<1>6. CASE ListWaitlist(c) \/ PromoteIfWaitlisted(c)
  <2>1. \A S : [a EXCEPT !.pc = "promote", !.todo = S].pc # "record"
    BY DEF Call
  <2> QED
    BY <1>0, <1>6, <2>1, GoesElsewhere, IdleElsewhere
       DEF ListWaitlist, PromoteIfWaitlisted, WithCandidates
<1>7. CASE \E o \in Occurrences : ListBooked(c, o)
  BY <1>7, SweepElsewhere DEF ListBooked
<1>8. CASE ClaimForReminder(c)
  <2>1. \A b, S : [a EXCEPT !.pc = "send", !.booking = b, !.todo = S].pc # "record"
    BY DEF Call
  <2> QED
    BY <1>0, <1>8, <2>1, GoesElsewhere, SweepElsewhere DEF ClaimForReminder
<1>9. CASE \E sent \in BOOLEAN : SendReminder(c, sent)
  BY <1>9, SweepElsewhere DEF SendReminder
<1> QED
  BY <1>2, <1>3, <1>4, <1>5, <1>6, <1>7, <1>8, <1>9 DEF CallStep

(* The two steps of a tap.                                                  *)
LEMMA FindKeepsPresence ==
  ASSUME TypeInv, PresenceInv, NEW c \in Callers, FindAttendance(c)
  PROVE  PresenceInv'
<1>0. PICK a \in Call : a = calls[c] /\ a.booking \in Bookings
  BY DEF TypeInv, CallsInv, CallOK, AboutBooking, FindAttendance
<1>1. CASE Found(a.booking)
  BY <1>0, <1>1, IdleElsewhere, PresenceKept DEF FindAttendance, NoneRecorded, presence
<1>2. CASE ~Found(a.booking)
  <2>1. attendance[a.booking] = 0 /\ attendance' = attendance
    BY <1>0, <1>2 DEF Found, Recorded, TypeInv, OthersInv, FindAttendance, presence
  <2>2. \A d \in Callers \ {c} : calls'[d] = calls[d]
    BY <1>0, <1>2 DEF FindAttendance, Continue, TypeInv, CallsInv
  <2>3. calls'[c].booking = a.booking
    <3>1. [a EXCEPT !.pc = "record"].booking = a.booking
      BY DEF Call
    <3> QED
      BY <1>0, <1>2, <3>1 DEF FindAttendance, Continue, TypeInv, CallsInv
  <2> SUFFICES ASSUME NEW b \in Bookings
               PROVE  (attendance[b] + Cardinality(Recording(b)) <= Cardinality(Callers))'
    BY DEF PresenceInv
  <2>4. CASE b = a.booking
    <3>1. Recording(b)' \subseteq Callers
      BY DEF Recording
    <3>2. /\ Cardinality(Recording(b)') \in Nat
          /\ Cardinality(Recording(b)') <= Cardinality(Callers)
      BY <3>1, RecordingFinite
    <3> QED
      BY <2>1, <2>4, <3>2
  <2>5. CASE b # a.booking
    <3>1. Recording(b)' = Recording(b)
      BY <1>0, <2>2, <2>3, <2>5 DEF Recording
    <3> QED
      BY <2>1, <3>1 DEF PresenceInv
  <2> QED
    BY <2>4, <2>5
<1> QED
  BY <1>1, <1>2

LEMMA RecordKeepsPresence ==
  ASSUME TypeInv, PresenceInv, NEW c \in Callers, RecordAttendance(c)
  PROVE  PresenceInv'
<1>0. PICK t : t = calls[c].booking /\ t \in Bookings /\ c \in Recording(t)
  BY DEF TypeInv, CallsInv, CallOK, AboutBooking, RecordAttendance, Recording
<1>1. calls'[c].pc = "idle" /\ \A d \in Callers \ {c} : calls'[d] = calls[d]
  BY IdleCall DEF RecordAttendance, End, Continue, TypeInv, CallsInv
<1>2. attendance' = [attendance EXCEPT ![t] = @ + 1]
  BY <1>0 DEF RecordAttendance
<1> SUFFICES ASSUME NEW b \in Bookings
             PROVE  (attendance[b] + Cardinality(Recording(b)) <= Cardinality(Callers))'
  BY DEF PresenceInv
<1>3. /\ attendance[b] + Cardinality(Recording(b)) <= Cardinality(Callers)
      /\ attendance[b] \in Nat
  BY DEF PresenceInv, TypeInv, OthersInv
<1>4. Recording(b)' = Recording(b) \ {c}
  BY <1>1 DEF Recording
<1>5. IsFiniteSet(Recording(b)) /\ Cardinality(Recording(b)) \in Nat /\ Cardinality(Callers) \in Nat
  BY RecordingFinite DEF Recording
<1>6. CASE b = t
  <2>1. Cardinality(Recording(b) \ {c}) = Cardinality(Recording(b)) - 1
    BY <1>0, <1>5, <1>6, Plus
  <2>2. attendance'[b] = attendance[b] + 1
    BY <1>2, <1>6 DEF TypeInv, OthersInv
  <2> QED
    BY <1>3, <1>4, <1>5, <2>1, <2>2
<1>7. CASE b # t
  <2>1. Recording(b) \ {c} = Recording(b)
    BY <1>0, <1>7 DEF Recording
  <2>2. attendance'[b] = attendance[b]
    BY <1>2, <1>7 DEF TypeInv, OthersInv
  <2> QED
    BY <1>3, <1>4, <2>1, <2>2
<1> QED
  BY <1>6, <1>7

LEMMA PresenceInvStep ==
  TypeInv /\ PresenceInv /\ [SchedulingNext]_schedulingVars => PresenceInv'
<1> SUFFICES ASSUME TypeInv, PresenceInv, [SchedulingNext]_schedulingVars PROVE PresenceInv'
  OBVIOUS
<1>1. ASSUME NEW c \in Callers, NewCall(c) PROVE PresenceInv'
  BY <1>1, NewCallElsewhere, PresenceKept
<1>2. ASSUME NEW c \in Callers, CallStep(c) PROVE PresenceInv'
  BY <1>2, CallElsewhere, PresenceKept, FindKeepsPresence, RecordKeepsPresence
<1>3. CASE \/ EditSchedule
           \/ \E o \in Occurrences : CancelOccurrence(o) \/ TimePasses(o)
           \/ UNCHANGED schedulingVars
  <2>1. NoneRecorded
    BY <1>3 DEF EditSchedule, CancelOccurrence, TimePasses, schedulingVars, presence, NoneRecorded
  <2> QED
    BY <2>1, PresenceKept
<1> QED
  BY <1>1, <1>2, <1>3 DEF SchedulingNext

\* Taps on the roster and check-ins of any number of members repeat a record
\* only where they overlap: once there is one, no later tap adds to it
\* (attendance.service.ts, record).
THEOREM RepeatsOnlyByOverlap == SchedulingSpec => []OnlyOverlapRepeats
<1>1. SchedulingInit => PresenceInv
  <2> SUFFICES ASSUME SchedulingInit, NEW b \in Bookings
               PROVE  attendance[b] + Cardinality(Recording(b)) <= Cardinality(Callers)
    BY DEF PresenceInv
  <2>1. attendance[b] = 0 /\ Recording(b) = {}
    BY IdleCall DEF SchedulingInit, Recording
  <2> QED
    BY <2>1, RecordingFinite, FS_EmptySet
<1>2. ClassInv => TypeInv
  BY DEF ClassInv
<1>3. TypeInv /\ PresenceInv => OnlyOverlapRepeats
  <2> SUFFICES ASSUME TypeInv, PresenceInv, NEW b \in Bookings
               PROVE  attendance[b] <= Cardinality(Callers)
    BY DEF OnlyOverlapRepeats
  <2>1. Recording(b) \subseteq Callers /\ attendance[b] \in Nat
    BY DEF Recording, TypeInv, OthersInv
  <2>2. Cardinality(Recording(b)) \in Nat /\ Cardinality(Callers) \in Nat
    BY <2>1, RecordingFinite
  <2> QED
    BY <2>1, <2>2 DEF PresenceInv
<1> QED
  BY <1>1, <1>2, <1>3, ClassInvAlways, PresenceInvStep, PTL DEF SchedulingSpec

(* Rows that are cancelled, and classes that exist, under each step.        *)
Final ==
    /\ \A b \in Bookings :
          bookings[b].status = "cancelled" => bookings'[b].status = "cancelled"
    /\ \A o \in Occurrences :
          /\ occurrences[o].status = "cancelled" => occurrences'[o].status = "cancelled"
          /\ occurrences[o].status # None =>
                 occurrences'[o].capacity = occurrences[o].capacity

LEMMA FinalStep == TypeInv /\ [SchedulingNext]_schedulingVars => Final
<1> SUFFICES ASSUME TypeInv, [SchedulingNext]_schedulingVars PROVE Final
  OBVIOUS
<1>0. /\ occurrences \in [Occurrences -> Occurrence \cup {NoOccurrence}]
      /\ bookings \in [Bookings -> Booking \cup {NoBooking}]
  BY DEF TypeInv, RowsInv
<1>1. CASE UNCHANGED <<occurrences, bookings>>
  BY <1>1 DEF Final
<1>2. ASSUME NEW c \in Callers, Materialize(c) PROVE Final
  <2>1. \A o \in Occurrences : occurrences[o].status # None => occurrences'[o] = occurrences[o]
    BY <1>2 DEF Materialize, Upserted, NoOccurrence
  <2> QED
    BY <1>2, <2>1, SchedulingAssumption DEF Final, Materialize
<1>3. ASSUME NEW o \in Occurrences, CancelOccurrence(o) PROVE Final
  <2>1. PICK p : p = occurrences[o] /\ p \in Occurrence
    BY <1>0, <1>3 DEF CancelOccurrence, NoOccurrence
  <2>2. [p EXCEPT !.status = "cancelled"].capacity = p.capacity
        /\ [p EXCEPT !.status = "cancelled"].status = "cancelled"
    BY <2>1 DEF Occurrence
  <2> QED
    BY <1>0, <1>3, <2>1, <2>2 DEF Final, CancelOccurrence
<1>4. ASSUME NEW c \in Callers, InsertBooking(c) PROVE Final
  <2>1. \A b \in Bookings : bookings[b] # NoBooking => bookings'[b] = bookings[b]
    BY <1>0, <1>4 DEF InsertBooking
  <2>2. NoBooking.status # "cancelled"
    BY SchedulingAssumption DEF NoBooking
  <2> QED
    BY <1>4, <2>1, <2>2 DEF Final, InsertBooking
<1>5. ASSUME NEW c \in Callers, Withdraw(c) PROVE Final
  <2> PICK b : b = calls[c].booking
    OBVIOUS
  <2>1. b \in Bookings /\ Exists(b)
    BY <1>5 DEF Withdraw, TypeInv, CallsInv, CallOK, CallSound, AboutBooking
  <2>2. PICK p : p = bookings[b] /\ p \in Booking
    BY <1>0, <2>1 DEF Exists
  <2>3. [p EXCEPT !.status = "cancelled"].status = "cancelled"
    BY <2>2 DEF Booking
  <2> QED
    BY <1>0, <1>5, <2>1, <2>2, <2>3 DEF Final, Withdraw
<1>6. ASSUME NEW c \in Callers, PromoteIfWaitlisted(c) PROVE Final
  <2> PICK b : b = Oldest(calls[c].todo)
    OBVIOUS
  <2>1. \A d \in Bookings : bookings[d].status = "cancelled" => bookings'[d] = bookings[d]
    BY <1>0, <1>6 DEF PromoteIfWaitlisted, StillWaitlisted
  <2> QED
    BY <1>6, <2>1 DEF Final, PromoteIfWaitlisted
<1>7. ASSUME NEW c \in Callers, ClaimForReminder(c) PROVE Final
  <2>1. \A d \in Bookings : bookings'[d].status = bookings[d].status
    <3> PICK b : b = Oldest(calls[c].todo)
      OBVIOUS
    <3>1. CASE Unclaimed(b)
      <4> PICK p : p = bookings[b]
        OBVIOUS
      <4>1. bookings' = [bookings EXCEPT ![b] = [p EXCEPT !.reminded = TRUE]]
        BY <1>7, <3>1 DEF ClaimForReminder
      <4>2. b \in Bookings => [p EXCEPT !.reminded = TRUE].status = p.status
        BY <1>0 DEF Booking, NoBooking
      <4> QED
        BY <1>0, <4>1, <4>2
    <3>2. CASE ~Unclaimed(b)
      BY <1>7, <3>2 DEF ClaimForReminder
    <3> QED
      BY <3>1, <3>2
  <2> QED
    BY <1>7, <2>1 DEF Final, ClaimForReminder
<1>8. ASSUME NEW c \in Callers, NewCall(c) PROVE UNCHANGED <<occurrences, bookings>>
  BY <1>8 DEF NewCall, ReadSchedule, RequestBooking, RequestCancel, SelfCheckIn, MarkPresent,
              SweepReminders, rows
<1>9. ASSUME NEW c \in Callers, CallStep(c) PROVE Final
  <2>1. CASE \/ CheckExisting(c) \/ CountSeats(c) \/ ListWaitlist(c)
             \/ ConfirmBooked(c) \/ FindAttendance(c) \/ RecordAttendance(c)
             \/ \E o \in Occurrences : ListBooked(c, o)
             \/ \E sent \in BOOLEAN : SendReminder(c, sent)
             \/ Crash(c)
    BY <1>1, <2>1 DEF CheckExisting, CountSeats, ListWaitlist, ConfirmBooked, FindAttendance,
                      RecordAttendance, ListBooked, SendReminder, Crash, rows
  <2> QED
    BY <1>2, <1>4, <1>5, <1>6, <1>7, <1>9, <2>1 DEF CallStep
<1>10. EditSchedule => UNCHANGED <<occurrences, bookings>>
  BY DEF EditSchedule
<1>11. \A o \in Occurrences : TimePasses(o) => UNCHANGED <<occurrences, bookings>>
  BY DEF TimePasses, rows
<1>12. UNCHANGED schedulingVars => UNCHANGED <<occurrences, bookings>>
  BY DEF schedulingVars, rows
<1> QED
  BY <1>1, <1>3, <1>8, <1>9, <1>10, <1>11, <1>12 DEF SchedulingNext

\* No interleaving of bookings, promotions, sweeps and materializations brings
\* back what was cancelled or resizes a class (bookings.service.ts,
\* occurrences.service.ts).
THEOREM CancellingIsFinal == SchedulingSpec => CancelledIsFinal
<1>1. ClassInv /\ [SchedulingNext]_schedulingVars => Final
  BY FinalStep DEF ClassInv
<1> QED
  BY <1>1, ClassInvAlways, PTL DEF SchedulingSpec, CancelledIsFinal, Final

-----------------------------------------------------------------------------
(* The horizon.  That nothing is lost between two windows and nothing made *)
(* up rests on the starts of classes growing with their days, over a       *)
(* change of the clocks too (StartsGrow), and on a window reading the day  *)
(* it begins in no later than the day of a class still to come             *)
(* (AnchorInTime).                                                         *)
ScheduleOK == schedule \in [rule : Rules, zone : Zones, hour : Hours]

LastFound == LastEnd \in ends /\ \A o \in ends : o <= LastEnd

Weekly == schedule.rule.interval = 1 /\ schedule.rule.count = Never

OnlyDue == Weekly => \A c \in classes : \E d \in Walked : Due(d) /\ c = StartOf(d)
AllDue == Weekly => \A d \in Walked : Due(d) => StartOf(d) \in classes \/ CutOff(d)
CountKept ==
    /\ IsFiniteSet(classes) /\ IsFiniteSet(ends)
    /\ schedule.rule.count # Never =>
           Cardinality(classes) <= schedule.rule.count * (Cardinality(ends) - 1)

HorizonInv ==
    /\ ScheduleOK /\ start \in Int /\ ends \subseteq Int /\ start \in ends
    /\ LastFound
    /\ OnlyDue /\ AllDue /\ CountKept

LEMMA ScheduleFields ==
  ASSUME ScheduleOK
  PROVE  /\ schedule.hour \in Nat /\ schedule.hour < Day
         /\ schedule.rule.interval \in Nat \ {0}
         /\ schedule.rule.until \in Int \cup {Never}
         /\ schedule.rule.count \in Nat \cup {Never}
         /\ schedule.zone.before \in Int /\ schedule.zone.change \in Int
         /\ schedule.zone.after \in Int
         /\ schedule.zone.before - schedule.zone.after < Day
         /\ schedule.zone.after - schedule.zone.before < Day
         /\ ChangesWithinADay(schedule.zone)
<1>1. PICK r \in Rules, z \in Zones, h \in Hours :
          schedule.rule = r /\ schedule.zone = z /\ schedule.hour = h
  BY DEF ScheduleOK
<1>2. h \in Nat /\ h < Day
  BY RecurrenceAssumption
<1>3. /\ r.interval \in Nat \ {0} /\ r.until \in Int \cup {Never}
      /\ r.count \in Nat \cup {Never}
  BY RecurrenceAssumption
<1>4. /\ z.before \in Int /\ z.change \in Int /\ z.after \in Int
      /\ z.before - z.after < Day /\ z.after - z.before < Day /\ ChangesWithinADay(z)
  BY RecurrenceAssumption
<1> QED
  BY <1>1, <1>2, <1>3, <1>4

LEMMA DaysApart ==
  ASSUME NEW d \in Int, NEW e \in Int
  PROVE  /\ d * Day \in Int /\ Day \in Int /\ Day > 0
         /\ d < e => d * Day + Day <= e * Day
<1>1. Day \in Int /\ Day > 0
  BY RecurrenceAssumption
<1>2. ASSUME d < e PROVE d * Day + Day <= e * Day
  <2>1. PICK k \in Nat : e = d + 1 + k
    BY <1>2
  <2>2. k * Day >= 0
    BY <1>1
  <2>3. e * Day = d * Day + Day + k * Day
    BY <1>1, <2>1
  <2> QED
    BY <1>1, <2>2, <2>3
<1> QED
  BY <1>1, <1>2

LEMMA DayOf ==
  ASSUME NEW x \in Int
  PROVE  /\ x \div Day \in Int
         /\ (x \div Day) * Day <= x /\ x < (x \div Day) * Day + Day
BY RecurrenceAssumption

(* A day that has not ended by an instant is not before the instant's day.  *)
LEMMA DayBound ==
  ASSUME NEW x \in Int, NEW d \in Int, x < d * Day + Day
  PROVE  x \div Day <= d
<1>1. /\ x \div Day \in Int /\ (x \div Day) * Day <= x
  BY DayOf
<1>2. PICK q \in Int : q = x \div Day
  BY <1>1
<1>3. d < q => d * Day + Day <= q * Day
  BY DaysApart
<1>4. d * Day \in Int /\ q * Day \in Int /\ Day \in Int
  BY DaysApart
<1> QED
  BY <1>1, <1>2, <1>3, <1>4

LEMMA DayReached ==
  ASSUME NEW x \in Int, NEW d \in Int, x >= d * Day
  PROVE  d <= x \div Day
<1>1. /\ x \div Day \in Int /\ x < (x \div Day) * Day + Day
  BY DayOf
<1>2. PICK q \in Int : q = x \div Day
  BY <1>1
<1>3. q < d => q * Day + Day <= d * Day
  BY DaysApart
<1>4. d * Day \in Int /\ q * Day \in Int /\ Day \in Int
  BY DaysApart
<1> QED
  BY <1>1, <1>2, <1>3, <1>4

LEMMA DaysInOrder ==
  ASSUME NEW x \in Int, NEW y \in Int, x <= y
  PROVE  x \div Day \in Int /\ y \div Day \in Int /\ x \div Day <= y \div Day
<1>1. PICK q \in Int : q = y \div Day
  BY DayOf
<1>2. PICK D \in Int, e \in Int : D = q * Day /\ e = Day
  BY DaysApart
<1>3. y < D + e
  BY <1>1, <1>2, DayOf
<1>4. x < q * Day + Day
  BY <1>2, <1>3
<1> QED
  BY <1>1, <1>4, DayBound, DayOf

(* What a start is computed from: the local time read as UTC, the offset    *)
(* there, and the offset applied.                                           *)
Naive(d) == d * Day + schedule.hour
Measured(d) == Offset(schedule.zone, Naive(d))
Applied(d) == Offset(schedule.zone, Naive(d) - Measured(d))

LEMMA StartIs ==
  ASSUME ScheduleOK, NEW d \in Int
  PROVE  /\ Naive(d) \in Int /\ d * Day <= Naive(d) /\ Naive(d) < d * Day + Day
         /\ Measured(d) \in Int /\ Applied(d) \in Int
         /\ Applied(d) \in {schedule.zone.before, schedule.zone.after}
         /\ StartOf(d) = Naive(d) - Applied(d)
<1>1. PICK D \in Int : D = d * Day
  BY DaysApart
<1>2. PICK h \in Nat : h = schedule.hour /\ h < Day
  BY ScheduleFields
<1>3. PICK n \in Int : n = D + h
  BY <1>2
<1>4. D <= n /\ n < D + Day
  BY <1>2, <1>3, RecurrenceAssumption
<1>5. Naive(d) = n
  BY <1>1, <1>2, <1>3 DEF Naive
<1>6. \A i : Offset(schedule.zone, i) \in {schedule.zone.before, schedule.zone.after}
  BY DEF Offset
<1>7. \A i : Offset(schedule.zone, i) \in Int
  BY <1>6, ScheduleFields
<1>8. StartOf(d) = Naive(d) - Applied(d)
  BY DEF StartOf, Naive, Applied, Measured
<1> QED
  BY <1>1, <1>4, <1>5, <1>6, <1>7, <1>8 DEF Measured, Applied

LEMMA StartsGrow ==
  ASSUME ScheduleOK, NEW d \in Int, NEW e \in Int, d < e
  PROVE  StartOf(d) \in Int /\ StartOf(e) \in Int /\ StartOf(d) < StartOf(e)
<1>1. PICK D \in Int : D = d * Day
  BY DaysApart
<1>2. PICK E \in Int : E = e * Day
  BY DaysApart
<1>3. PICK w \in Int : w = Day
  BY DaysApart
<1>4. D + w <= E
  BY <1>1, <1>2, <1>3, DaysApart
<1>5. PICK b \in Int : b = schedule.zone.before
  BY ScheduleFields
<1>6. PICK a \in Int : a = schedule.zone.after
  BY ScheduleFields
<1>7. b - a < w /\ a - b < w
  BY <1>3, <1>5, <1>6, ScheduleFields
<1>8. PICK h \in Int : h = schedule.hour
  BY ScheduleFields
<1>9. PICK g \in {a, b} : g = Applied(d)
  BY <1>5, <1>6, StartIs
<1>10. PICK f \in {a, b} : f = Applied(e)
  BY <1>5, <1>6, StartIs
<1>11. StartOf(d) = D + h - g /\ StartOf(e) = E + h - f
  BY <1>1, <1>2, <1>8, <1>9, <1>10, StartIs DEF Naive
<1>12. D + h - g < E + h - f
  BY <1>4, <1>7
<1> QED
  BY <1>11, <1>12

(* What the zone has to do with it, in numbers alone: o the offset at the   *)
(* start of the window, g the one a class of local time n is given.         *)
LEMMA DayNotPassed ==
  ASSUME NEW b \in Int, NEW c \in Int, NEW a \in Int, NEW n \in Int, NEW f \in Int,
         NEW g \in Int, NEW o \in Int, NEW from \in Int,
         f = (IF n < c THEN b ELSE a), g = (IF n - f < c THEN b ELSE a),
         o = (IF from < c THEN b ELSE a), from <= n - g,
         b <= a => (2 * (c + a) - (c + b) - 1) \div Day <= (c + b) \div Day,
         b > a => (c + b - 1) \div Day <= (c + a) \div Day
  PROVE  (from + o) \div Day <= n \div Day
<1>1. CASE o <= g
  <2>1. from + o <= n
    BY <1>1
  <2> QED
    BY <2>1, DaysInOrder
<1>2. CASE o > g /\ b <= a
  <2>1. from + o <= 2 * (c + a) - (c + b) - 1 /\ c + b <= n
    BY <1>2
  <2>2. PICK x \in Int, y \in Int, z \in Int :
           x = from + o /\ y = 2 * (c + a) - (c + b) - 1 /\ z = c + b
    OBVIOUS
  <2>3. y \div Day <= z \div Day
    BY <1>2, <2>2
  <2>4. x <= y /\ z <= n
    BY <2>1, <2>2
  <2>5. /\ x \div Day \in Int /\ y \div Day \in Int /\ x \div Day <= y \div Day
        /\ z \div Day \in Int /\ n \div Day \in Int /\ z \div Day <= n \div Day
    BY <2>4, DaysInOrder
  <2>6. x \div Day <= n \div Day
    BY <2>3, <2>5
  <2> QED
    BY <2>2, <2>6
<1>3. CASE o > g /\ b > a
  <2>1. from + o <= c + b - 1 /\ c + a <= n
    BY <1>3
  <2>2. PICK x \in Int, y \in Int, z \in Int : x = from + o /\ y = c + b - 1 /\ z = c + a
    OBVIOUS
  <2>3. y \div Day <= z \div Day
    BY <1>3, <2>2
  <2>4. x <= y /\ z <= n
    BY <2>1, <2>2
  <2>5. /\ x \div Day \in Int /\ y \div Day \in Int /\ x \div Day <= y \div Day
        /\ z \div Day \in Int /\ n \div Day \in Int /\ z \div Day <= n \div Day
    BY <2>4, DaysInOrder
  <2>6. x \div Day <= n \div Day
    BY <2>3, <2>5
  <2> QED
    BY <2>2, <2>6
<1> QED
  BY <1>1, <1>2, <1>3

(* A window begins no later than on the day of a class still to come.       *)
LEMMA AnchorInTime ==
  ASSUME ScheduleOK, NEW d \in Int, NEW from \in Int, from <= StartOf(d)
  PROVE  LocalDay(from) \in Int /\ LocalDay(from) <= d
<1>1. PICK b \in Int : b = schedule.zone.before
  BY ScheduleFields
<1>2. PICK a \in Int : a = schedule.zone.after
  BY ScheduleFields
<1>3. PICK c \in Int : c = schedule.zone.change
  BY ScheduleFields
<1>4. PICK n \in Int : n = Naive(d)
  BY StartIs
<1>5. PICK f \in Int : f = Measured(d)
  BY StartIs
<1>6. PICK g \in Int : g = Applied(d)
  BY StartIs
<1>7. f = (IF n < c THEN b ELSE a) /\ g = (IF n - f < c THEN b ELSE a)
  BY <1>1, <1>2, <1>3, <1>4, <1>5, <1>6 DEF Measured, Applied, Offset
<1>8. PICK o \in Int : o = IF from < c THEN b ELSE a
  OBVIOUS
<1>9. LocalDay(from) = (from + o) \div Day
  BY <1>1, <1>2, <1>3, <1>8 DEF LocalDay, Offset
<1>10. PICK z : z = schedule.zone /\ ChangesWithinADay(z)
  BY ScheduleFields
<1>11. z.before = b /\ z.change = c /\ z.after = a
  BY <1>1, <1>2, <1>3, <1>10
<1>12. b <= a => (2 * (c + a) - (c + b) - 1) \div Day <= (c + b) \div Day
  BY <1>10, <1>11 DEF ChangesWithinADay
<1>13. b > a => (c + b - 1) \div Day <= (c + a) \div Day
  BY <1>10, <1>11 DEF ChangesWithinADay
<1>14. from <= n - g
  BY <1>4, <1>6, StartIs
<1>15. (from + o) \div Day <= n \div Day
  BY <1>7, <1>8, <1>12, <1>13, <1>14, DayNotPassed
<1>16. n \div Day \in Int /\ n \div Day <= d
  BY <1>4, StartIs, DayBound, DayOf
<1>17. (from + o) \div Day \in Int
  BY DayOf
<1> QED
  BY <1>9, <1>15, <1>16, <1>17

(* One window: COUNT counts the instances on its walk.                      *)
LEMMA WalkedFinite == IsFiniteSet(Walked)
BY RecurrenceAssumption, FS_Interval DEF Walked

LEMMA EmittedGrows ==
  ASSUME NEW anchor, NEW d \in Walked, NEW e \in Walked, d < e, OnRule(anchor, d)
  PROVE  /\ Emitted(anchor, d) \in Nat /\ Emitted(anchor, e) \in Nat
         /\ Emitted(anchor, d) < Emitted(anchor, e)
<1>1. PICK D : D = {x \in Walked : x < d /\ OnRule(anchor, x)}
  OBVIOUS
<1>2. PICK E : E = {x \in Walked : x < e /\ OnRule(anchor, x)}
  OBVIOUS
<1>4. D \subseteq Walked /\ E \subseteq Walked
  BY <1>1, <1>2
<1>5. IsFiniteSet(D) /\ IsFiniteSet(E)
  BY <1>4, WalkedFinite, FS_Subset
<1>6. D \subseteq E /\ d \in E /\ d \notin D
  BY <1>1, <1>2 DEF Walked
<1>7. Cardinality(D) <= Cardinality(E) /\ Cardinality(D) # Cardinality(E)
  BY <1>5, <1>6, FS_Subset
<1>8. Cardinality(D) \in Nat /\ Cardinality(E) \in Nat
  BY <1>5, FS_CardinalityType
<1> QED
  BY <1>1, <1>2, <1>7, <1>8 DEF Emitted

LEMMA WindowCount ==
  ASSUME ScheduleOK, NEW anchor, NEW from, NEW to
  PROVE  /\ IsFiniteSet(ExpandWeekly(anchor, from, to))
         /\ schedule.rule.count # Never =>
                Cardinality(ExpandWeekly(anchor, from, to)) <= schedule.rule.count
<1>1. PICK E : E = {e \in Walked :
                     /\ OnRule(anchor, e) /\ Visited(anchor, e, to) /\ ~Stops(anchor, e)
                     /\ InWindow(StartOf(e), from, to)}
  OBVIOUS
<1>2. PICK S : S = {StartOf(d) : d \in E}
  OBVIOUS
<1>3. ExpandWeekly(anchor, from, to) = S
  BY <1>1, <1>2 DEF ExpandWeekly
<1>4. IsFiniteSet(E)
  BY <1>1, WalkedFinite, FS_Subset
<1>5. PICK s : s = [d \in E |-> StartOf(d)]
  OBVIOUS
<1>6. s \in Surjection(E, S)
  BY <1>2, <1>5 DEF Surjection
<1>7. IsFiniteSet(S) /\ Cardinality(S) <= Cardinality(E)
  BY <1>4, <1>6, FS_Surjection
<1>8. ASSUME schedule.rule.count # Never PROVE Cardinality(S) <= schedule.rule.count
  <2>1. PICK n \in Nat : n = schedule.rule.count
    BY <1>8, ScheduleFields
  <2>2. PICK f : f = [d \in E |-> Emitted(anchor, d)]
    OBVIOUS
  <2>3. \A d \in E : Emitted(anchor, d) \in 0..(n - 1)
    <3> SUFFICES ASSUME NEW d \in E PROVE Emitted(anchor, d) \in 0..(n - 1)
      OBVIOUS
    <3>1. ~(Emitted(anchor, d) >= n)
      BY <1>1, <1>8, <2>1 DEF Stops
    <3>2. Emitted(anchor, d) \in Nat
      <4>1. PICK D : D = {x \in Walked : x < d /\ OnRule(anchor, x)}
        OBVIOUS
      <4>2. IsFiniteSet(D)
        BY <4>1, WalkedFinite, FS_Subset
      <4> QED
        BY <4>1, <4>2, FS_CardinalityType DEF Emitted
    <3> QED
      BY <2>1, <3>1, <3>2
  <2>4. \A d, e \in E : d # e => Emitted(anchor, d) # Emitted(anchor, e)
    <3> SUFFICES ASSUME NEW d \in E, NEW e \in E, d < e
                 PROVE  Emitted(anchor, d) # Emitted(anchor, e)
      BY <1>1 DEF Walked
    <3> QED
      BY <1>1, EmittedGrows
  <2>5. f \in Injection(E, 0..(n - 1))
    <3>1. f \in [E -> 0..(n - 1)]
      BY <2>2, <2>3
    <3>2. \A d, e \in E : f[d] = f[e] => d = e
      BY <2>2, <2>4
    <3> QED
      BY <3>1, <3>2 DEF Injection, IsInjective
  <2>6. IsFiniteSet(0..(n - 1)) /\ Cardinality(0..(n - 1)) <= n
    <3>1. PICK m \in Int : m = n - 1
      OBVIOUS
    <3>2. /\ IsFiniteSet(0..m)
          /\ Cardinality(0..m) = IF 0 > m THEN 0 ELSE m - 0 + 1
      BY FS_Interval
    <3>3. (IF 0 > m THEN 0 ELSE m - 0 + 1) <= n
      BY <3>1
    <3> QED
      BY <3>1, <3>2, <3>3
  <2>7. Cardinality(E) <= Cardinality(0..(n - 1))
    BY <2>5, <2>6, FS_Injection
  <2>8. Cardinality(E) \in Nat /\ Cardinality(S) \in Nat /\ Cardinality(0..(n - 1)) \in Nat
    BY <1>4, <1>7, <2>6, FS_CardinalityType
  <2> QED
    BY <1>7, <2>1, <2>6, <2>7, <2>8
<1> QED
  BY <1>3, <1>7, <1>8

-----------------------------------------------------------------------------
LEMMA HorizonInvInit == RecurrenceInit => HorizonInv
<1> SUFFICES ASSUME RecurrenceInit PROVE HorizonInv
  OBVIOUS
<1>1. ScheduleOK /\ start \in Int /\ ends = {start} /\ classes = {}
  BY RecurrenceAssumption DEF RecurrenceInit, ScheduleOK
<1>2. LastEnd = start
  BY <1>1 DEF LastEnd
<1>3. LastFound
  BY <1>1, <1>2 DEF LastFound
<1>4. OnlyDue
  BY <1>1 DEF OnlyDue
<1>5. AllDue
  <2>1. \A d \in Walked : StartOf(d) \in Int /\ ~Due(d)
    BY <1>1, <1>2, StartIs DEF Due, Walked
  <2> QED
    BY <2>1 DEF AllDue
<1>6. CountKept
  <2>1. Cardinality(classes) = 0 /\ Cardinality(ends) = 1 /\ IsFiniteSet(classes) /\ IsFiniteSet(ends)
    BY <1>1, FS_EmptySet, FS_Singleton
  <2>2. schedule.rule.count # Never => schedule.rule.count \in Nat
    BY <1>1, ScheduleFields
  <2> QED
    BY <2>1, <2>2 DEF CountKept
<1> QED
  BY <1>1, <1>3, <1>4, <1>5, <1>6 DEF HorizonInv

(* The classes of a window are due, and what falls due with it and is not   *)
(* cut off is among them.                                                   *)
LEMMA WindowDue ==
  ASSUME ScheduleOK, Weekly, NEW from \in Int, NEW to \in Int, NEW d \in Walked,
         d % Week \in schedule.rule.byDay,
         schedule.rule.until # Never => StartOf(d) <= schedule.rule.until,
         from <= StartOf(d), StartOf(d) < to
  PROVE  StartOf(d) \in ExpandWeekly(LocalDay(from), from, to) \/ d * Day > to
<1>0. d \in Int /\ Walked \subseteq Int
  BY RecurrenceAssumption DEF Walked
<1>1. PICK A \in Int : A = LocalDay(from) /\ A <= d
  BY <1>0, AnchorInTime
<1>2. OnRule(A, d)
  BY <1>0, <1>1, RecurrenceAssumption DEF OnRule, Weekly
<1>3. PICK s \in Int : s = StartOf(d)
  BY <1>0, StartIs
<1>4. ~Stops(A, d)
  <2>1. schedule.rule.until # Never => schedule.rule.until \in Int
    BY ScheduleFields
  <2> QED
    BY <1>3, <2>1 DEF Stops, Weekly
<1>5. ASSUME ~(d * Day > to), NEW e \in A..(d - 1) PROVE ~Stops(A, e) /\ ~Leaves(A, e, to)
  <2>1. e \in Int /\ e < d
    BY <1>0
  <2>2. PICK r \in Int : r = StartOf(e) /\ r < s
    BY <1>0, <1>3, <2>1, StartsGrow
  <2>3. ~Stops(A, e)
    <3>1. schedule.rule.until # Never => schedule.rule.until \in Int
      BY ScheduleFields
    <3> QED
      BY <1>3, <2>2, <3>1 DEF Stops, Weekly
  <2>4. ~(StartOf(e) >= to)
    BY <1>3, <2>2
  <2>5. ~((e + 1) * Day > to)
    <3>1. PICK x \in Int : x = (e + 1) * Day
      BY <2>1, DaysApart
    <3>2. PICK y \in Int : y = d * Day
      BY <1>0, DaysApart
    <3>3. x <= y
      <4>1. e + 1 = d \/ e + 1 < d
        BY <1>0, <2>1
      <4>2. CASE e + 1 = d
        BY <3>1, <3>2, <4>2
      <4>3. CASE e + 1 < d
        BY <1>0, <2>1, <3>1, <3>2, <4>3, DaysApart
      <4> QED
        BY <4>1, <4>2, <4>3
    <3> QED
      BY <1>5, <3>1, <3>2, <3>3
  <2> QED
    BY <2>3, <2>4, <2>5 DEF Leaves
<1>6. ASSUME ~(d * Day > to) PROVE StartOf(d) \in ExpandWeekly(A, from, to)
  <2>1. Visited(A, d, to)
    BY <1>5, <1>6 DEF Visited
  <2> QED
    BY <1>2, <1>4, <2>1 DEF ExpandWeekly, InWindow
<1> QED
  BY <1>1, <1>6

LEMMA HorizonInvStep == HorizonInv /\ [RecurrenceNext]_recurrenceVars => HorizonInv'
<1> SUFFICES ASSUME HorizonInv, [RecurrenceNext]_recurrenceVars PROVE HorizonInv'
  OBVIOUS
<1>1. CASE UNCHANGED recurrenceVars
  <2>1. schedule' = schedule /\ start' = start /\ ends' = ends /\ classes' = classes
    BY <1>1 DEF recurrenceVars
  <2>2. LastEnd' = LastEnd
    BY <2>1 DEF LastEnd
  <2>3. \A d : StartOf(d)' = StartOf(d)
    BY <2>1 DEF StartOf, Offset
  <2>4. \A d : (Due(d)' <=> Due(d)) /\ (CutOff(d)' <=> CutOff(d))
    BY <2>1, <2>2, <2>3 DEF Due, CutOff
  <2>5. ScheduleOK' /\ LastFound' /\ (Weekly' <=> Weekly) /\ CountKept'
    BY <2>1, <2>2 DEF HorizonInv, ScheduleOK, LastFound, Weekly, CountKept
  <2>6. OnlyDue' /\ AllDue'
    BY <2>1, <2>3, <2>4, <2>5 DEF HorizonInv, OnlyDue, AllDue
  <2> QED
    BY <2>1, <2>5, <2>6 DEF HorizonInv
<1>2. CASE RecurrenceNext
  <2>1. PICK from \in {LastEnd - 1, LastEnd}, to \in Instants : MaterializeUpTo(from, to)
    BY <1>2 DEF RecurrenceNext
  <2>2. PICK last \in Int : last = LastEnd /\ last \in ends /\ \A o \in ends : o <= last
    BY DEF HorizonInv, LastFound
  <2>3. /\ from \in Int /\ from <= last /\ start <= from /\ start \in Int
        /\ to > last /\ ends \subseteq Int
    BY <2>1, <2>2 DEF MaterializeUpTo, HorizonInv
  <2>4. to \in Int
    <3>1. PICK n \in Int : n = (LastDay - 1) * Day
      <4>1. LastDay - 1 \in Int
        BY RecurrenceAssumption
      <4> QED
        BY <4>1, DaysApart
    <3> QED
      BY <3>1 DEF Instants
  <2>5. PICK C : C = ExpandWeekly(LocalDay(from), from, to)
    OBVIOUS
  <2>6. /\ classes' = classes \cup C /\ ends' = ends \cup {to}
        /\ schedule' = schedule /\ start' = start
    BY <2>1, <2>5 DEF MaterializeUpTo
  <2>7. \A o \in ends' : o <= to
    BY <2>2, <2>3, <2>4, <2>6
  <2>8. LastEnd' = to /\ LastFound'
    <3>1. \A e \in ends' : (\A o \in ends' : o <= e) <=> e = to
      BY <2>3, <2>4, <2>6, <2>7
    <3>2. LastEnd' = to
      BY <2>6, <3>1 DEF LastEnd
    <3> QED
      BY <2>6, <2>7, <3>2 DEF LastFound
  <2>9. ScheduleOK /\ ScheduleOK' /\ (Weekly' <=> Weekly)
    BY <2>6 DEF HorizonInv, ScheduleOK, Weekly
  <2>10. \A d : StartOf(d)' = StartOf(d)
    BY <2>6 DEF StartOf, Offset
  <2>11. OnlyDue'
    <3> SUFFICES ASSUME Weekly, NEW c \in classes' PROVE \E d \in Walked : Due(d)' /\ c = StartOf(d)
      BY <2>9, <2>10 DEF OnlyDue
    <3>1. CASE c \in classes
      <4>1. PICK d \in Walked : Due(d) /\ c = StartOf(d)
        BY <3>1 DEF HorizonInv, OnlyDue
      <4>2. StartOf(d) \in Int
        BY <2>9, StartIs DEF Walked
      <4>3. Due(d)'
        BY <2>2, <2>3, <2>4, <2>6, <2>8, <2>10, <4>1, <4>2 DEF Due
      <4> QED
        BY <4>1, <4>3
    <3>2. CASE c \in C
      <4>1. PICK d \in Walked : /\ OnRule(LocalDay(from), d) /\ ~Stops(LocalDay(from), d)
                                /\ InWindow(StartOf(d), from, to) /\ c = StartOf(d)
        BY <2>5, <3>2 DEF ExpandWeekly
      <4>2. PICK s \in Int : s = StartOf(d)
        BY <2>9, StartIs DEF Walked
      <4>3. start <= s /\ s < to
        BY <2>3, <2>4, <4>1, <4>2 DEF InWindow
      <4>4. schedule.rule.until # Never => s <= schedule.rule.until
        <5>1. schedule.rule.until # Never => schedule.rule.until \in Int
          BY <2>9, ScheduleFields
        <5> QED
          BY <4>1, <4>2, <5>1 DEF Stops
      <4>5. Due(d)'
        BY <2>6, <2>8, <2>10, <4>1, <4>2, <4>3, <4>4 DEF Due, OnRule
      <4> QED
        BY <4>1, <4>5
    <3> QED
      BY <2>6, <3>1, <3>2
  <2>12. AllDue'
    <3> SUFFICES ASSUME Weekly, NEW d \in Walked, Due(d)'
                 PROVE  StartOf(d) \in classes' \/ CutOff(d)'
      BY <2>9, <2>10 DEF AllDue
    <3>1. PICK s \in Int : s = StartOf(d)
      BY <2>9, StartIs DEF Walked
    <3>2. /\ d % Week \in schedule.rule.byDay /\ start <= s /\ s < to
          /\ schedule.rule.until # Never => s <= schedule.rule.until
      BY <2>6, <2>8, <2>10, <3>1 DEF Due
    <3>3. CASE s < last
      <4>1. Due(d)
        BY <2>2, <3>1, <3>2, <3>3 DEF Due
      <4>2. StartOf(d) \in classes \/ CutOff(d)
        BY <4>1 DEF HorizonInv, AllDue
      <4>3. CutOff(d) => CutOff(d)'
        BY <2>6, <2>10 DEF CutOff
      <4> QED
        BY <2>6, <4>2, <4>3
    <3>4. CASE s >= last
      <4>1. StartOf(d) \in C \/ d * Day > to
        <5>1. from <= StartOf(d) /\ StartOf(d) < to
          BY <2>2, <2>3, <3>1, <3>2, <3>4
        <5> QED
          BY <2>3, <2>4, <2>5, <2>9, <3>1, <3>2, <5>1, WindowDue
      <4>2. ASSUME d * Day > to PROVE CutOff(d)'
        <5>1. start < to /\ to \in ends'
          BY <2>2, <2>3, <2>4, <2>6
        <5> QED
          BY <2>6, <2>10, <3>1, <3>2, <4>2, <5>1 DEF CutOff
      <4> QED
        BY <2>6, <4>1, <4>2
    <3> QED
      BY <2>2, <3>1, <3>3, <3>4
  <2>13. CountKept'
    <3>1. IsFiniteSet(classes) /\ IsFiniteSet(ends) /\ IsFiniteSet(C)
      BY <2>5, <2>9, WindowCount DEF HorizonInv, CountKept
    <3>2. PICK m \in Nat : m = Cardinality(classes)
      BY <3>1, FS_CardinalityType
    <3>3. PICK n \in Nat : n = Cardinality(ends)
      BY <3>1, FS_CardinalityType
    <3>4. PICK w \in Nat : w = Cardinality(C)
      BY <3>1, FS_CardinalityType
    <3>5. IsFiniteSet(ends') /\ Cardinality(ends') = n + 1
      <4>1. to \notin ends
        BY <2>2, <2>3, <2>4
      <4> QED
        BY <2>6, <3>1, <3>3, <4>1, FS_AddElement
    <3>6. /\ IsFiniteSet(classes') /\ Cardinality(classes') \in Nat
          /\ Cardinality(classes') <= m + w
      <4>1. IsFiniteSet(classes') /\ Cardinality(classes') = m + w - Cardinality(classes \cap C)
        BY <2>6, <3>1, <3>2, <3>4, FS_Union
      <4>2. Cardinality(classes \cap C) \in Nat
        BY <3>1, FS_Intersection, FS_CardinalityType
      <4> QED
        BY <4>1, <4>2, FS_CardinalityType
    <3>7. ASSUME schedule.rule.count # Never
          PROVE  Cardinality(classes') <= schedule.rule.count * (n + 1 - 1)
      <4>1. PICK k \in Nat : k = schedule.rule.count
        BY <2>9, <3>7, ScheduleFields
      <4>2. w <= k
        BY <2>5, <2>9, <3>4, <3>7, <4>1, WindowCount
      <4>3. m <= k * (n - 1)
        BY <3>2, <3>3, <3>7, <4>1 DEF HorizonInv, CountKept
      <4>4. k * (n + 1 - 1) = k * (n - 1) + k
        OBVIOUS
      <4> QED
        BY <3>6, <4>1, <4>2, <4>3, <4>4
    <3> QED
      BY <2>6, <3>5, <3>6, <3>7 DEF CountKept
  <2> QED
    BY <2>3, <2>4, <2>6, <2>8, <2>9, <2>11, <2>12, <2>13 DEF HorizonInv
<1> QED
  BY <1>1, <1>2

(* However the horizon is moved, each class a weekly rule names is made     *)
(* once, but those cut off at the end of a window, and none is made up; a   *)
(* rule with a COUNT makes no more than that in each window.                *)
THEOREM HorizonNeverSkips == RecurrenceSpec => []HorizonComplete
<1>1. HorizonInv => HorizonComplete
  <2> SUFFICES ASSUME HorizonInv PROVE HorizonComplete
    OBVIOUS
  <2>1. ASSUME Weekly PROVE classes \subseteq {StartOf(d) : d \in {e \in Walked : Due(e)}}
    BY <2>1 DEF HorizonInv, OnlyDue
  <2>2. ASSUME Weekly
        PROVE  \A d \in Walked : Due(d) => StartOf(d) \in classes \/ CutOff(d)
    BY <2>2 DEF HorizonInv, AllDue
  <2>3. schedule.rule.count # Never =>
            Cardinality(classes) <= schedule.rule.count * (Cardinality(ends) - 1)
    BY DEF HorizonInv, CountKept
  <2> QED
    BY <2>1, <2>2, <2>3 DEF HorizonComplete, Weekly
<1> QED
  BY <1>1, HorizonInvInit, HorizonInvStep, PTL DEF RecurrenceSpec
=============================================================================
