----------------------------- MODULE NightlyRun -----------------------------
(***************************************************************************)
(* The night's process: it sleeps to the next of two hours, runs that      *)
(* hour's job to completion and looks at the clock again.  The midnight    *)
(* job fills embeddings; the other asks, for every student, whether he     *)
(* studied in the day that ends, and runs the chain of those who did.      *)
(*                                                                         *)
(* Time is counted in moments: a day is Day of them, and an hour of the    *)
(* schedule is one.  What takes time takes as many as it likes.  A timer   *)
(* wakes at its moment or a little after; a moment stands for the smallest *)
(* difference that datetime.now can tell.                                  *)
(***************************************************************************)
EXTENDS Integers, FiniteSets

CONSTANTS
    Student,
    Never,            \* no answer was ever given
    Day,              \* moments in a day
    EmbeddingHour,    \* EMBEDDING_RUN_HOUR, in moments after midnight
    NightlyHour,      \* NIGHTLY_RUN_HOUR
    ResourceWeekday,  \* the day that RESOURCE_WEEKDAY is, of the seven
    MaxDays,          \* BOUND: days the model lives
    MaxLate           \* BOUND: moments by which a timer may wake late

ASSUME DayAssumption ==
    /\ Day \in Nat \ {0}
    /\ EmbeddingHour \in 0 .. Day - 1 /\ NightlyHour \in 0 .. Day - 1
    /\ EmbeddingHour # NightlyHour
ASSUME BoundAssumption == MaxDays \in Nat /\ MaxLate \in Nat /\ ResourceWeekday \in 0 .. 6
ASSUME NeverAssumption == Never \notin Int

\* Midnight's job is due first, with a clearance that a timer never sleeps
\* over: clock.py:42-48 has three hours of it.
ASSUME ClearanceAssumption == EmbeddingHour + MaxLate < NightlyHour

VARIABLES
    now,     \* the clock
    last,    \* last_answered_at of each student
    pc,      \* the loop: "planning", "asleep", "backfill", "deciding", "chain"
    job,     \* the job it sleeps for or runs
    fires,   \* the moment that job was due
    at,      \* run_nightly's `at`
    queue,   \* students still to look at
    begun,   \* the nights a nightly run began in
    excused, \* the nights another job, or a restart, ran over
    ran,     \* chains run: student, due moment, what was decided from what
    skipped  \* students skipped: the same

loop == <<pc, job, fires, at, queue>>
history == <<begun, excused, ran, skipped>>
nightlyVars == <<now, last, loop, history>>

Moment == 0 .. MaxDays * Day

-----------------------------------------------------------------------------
(* core/clock.py *)

app_date(moment) == moment \div Day
app_moment(day, hour) == day * Day + hour

\* FAULT: an hour that is now is still to come.
next_run_not_strict(hour, after) ==
    LET today == app_moment(app_date(after), hour) IN
    IF today < after THEN today + Day ELSE today

\* The next `hour`, strictly after `after`.
next_run_at(hour, after) ==
    LET today == app_moment(app_date(after), hour) IN
    IF today <= after THEN today + Day ELSE today

\* FAULT: today's run, when it is now.
previous_run_not_strict(before) ==
    LET today == app_moment(app_date(before), NightlyHour) IN
    IF today > before THEN today - Day ELSE today

\* The last NIGHTLY_RUN_HOUR, strictly before `before`.
previous_nightly_run(before) ==
    LET today == app_moment(app_date(before), NightlyHour) IN
    IF today >= before THEN today - Day ELSE today

(* services/jobs/nightly_decision.py *)
Studied(lastAnswer, moment) ==
    lastAnswer # Never /\ lastAnswer >= previous_nightly_run(moment)

decide(lastAnswer, moment) ==
    [run |-> Studied(lastAnswer, moment),
     with_resources |-> /\ Studied(lastAnswer, moment)
                        /\ app_date(moment) % 7 = ResourceWeekday]

-----------------------------------------------------------------------------
NightlyInit ==
    /\ now = 0
    /\ last = [s \in Student |-> Never]
    /\ pc = "planning" /\ job = "none" /\ fires = 0 /\ at = 0 /\ queue = {}
    /\ begun = {} /\ excused = {} /\ ran = {} /\ skipped = {}

\* A timer that is due goes off within MaxLate.
Overdue == pc = "asleep" /\ now >= fires + MaxLate
Busy == pc \in {"backfill", "deciding", "chain"}

\* Time passes.  A night's hour reached while a job runs is not slept for.
Tick ==
    /\ now + 1 \in Moment /\ ~Overdue /\ pc # "planning"
    /\ now' = now + 1
    /\ excused' = IF Busy /\ now' = app_moment(app_date(now'), NightlyHour)
                  THEN excused \cup {now'} ELSE excused
    /\ UNCHANGED <<last, loop, begun, ran, skipped>>

\* A student submits a lesson.
Answer(s) ==
    /\ last' = [last EXCEPT ![s] = now]
    /\ UNCHANGED <<now, loop, history>>

\* FAULT: the later of the two hours is slept for.
PlanLater ==
    LET embeddings == next_run_at(EmbeddingHour, now)
        chain == next_run_at(NightlyHour, now) IN
    /\ pc = "planning"
    /\ pc' = "asleep"
    /\ IF embeddings >= chain
       THEN job' = "backfill" /\ fires' = embeddings
       ELSE job' = "nightly" /\ fires' = chain
    /\ UNCHANGED <<now, last, at, queue, history>>

\* wait_for_the_next_job: whichever hour comes first, the backfill on a tie.
Plan ==
    LET embeddings == next_run_at(EmbeddingHour, now)
        chain == next_run_at(NightlyHour, now) IN
    /\ pc = "planning"
    /\ pc' = "asleep"
    /\ IF embeddings <= chain
       THEN job' = "backfill" /\ fires' = embeddings
       ELSE job' = "nightly" /\ fires' = chain
    /\ UNCHANGED <<now, last, at, queue, history>>

WakeForBackfill ==
    /\ pc = "asleep" /\ job = "backfill" /\ now >= fires
    /\ pc' = "backfill"
    /\ UNCHANGED <<now, last, job, fires, at, queue, history>>

\* run_nightly: `at` is read once, then the list of students.
WakeForNight ==
    /\ pc = "asleep" /\ job = "nightly" /\ now >= fires
    /\ pc' = "deciding"
    /\ at' = now
    /\ queue' = Student
    /\ begun' = begun \cup {fires}
    /\ UNCHANGED <<now, last, job, fires, excused, ran, skipped>>

Seen(s) ==
    [student |-> s, due |-> fires, at |-> at, last |-> last[s],
     with_resources |-> decide(last[s], at).with_resources]

\* run_for_student decides from the answers as they are now and from the `at`
\* of the whole night: a chain, or the next student.
RunForStudent(s) ==
    /\ pc = "deciding" /\ s \in queue
    /\ queue' = queue \ {s}
    /\ IF decide(last[s], at).run
       THEN pc' = "chain" /\ ran' = ran \cup {Seen(s)} /\ UNCHANGED skipped
       ELSE skipped' = skipped \cup {Seen(s)} /\ UNCHANGED <<pc, ran>>
    /\ UNCHANGED <<now, last, job, fires, at, begun, excused>>

\* The chain returned or raised; either way the next student's turn comes.
ChainEnds ==
    /\ pc = "chain"
    /\ pc' = "deciding"
    /\ UNCHANGED <<now, last, job, fires, at, queue, history>>

Back ==
    /\ pc' = "planning" /\ job' = "none" /\ fires' = 0 /\ at' = 0 /\ queue' = {}
    /\ UNCHANGED <<now, last, begun, ran, skipped>>

\* Every student was looked at, or the backfill is through.
JobEnds ==
    /\ pc = "backfill" \/ (pc = "deciding" /\ queue = {})
    /\ Back /\ UNCHANGED excused

\* A read that run_for_student or run_nightly does not guard raises: forever
\* logs it and the rest of the night's students wait for tomorrow.
JobFails ==
    /\ pc \in {"backfill", "deciding"}
    /\ Back /\ UNCHANGED excused

\* The container is restarted: the process plans anew, without catching up.
Restart ==
    /\ pc # "planning"
    /\ Back
    /\ excused' = IF pc = "asleep" /\ job = "nightly" /\ now >= fires
                  THEN excused \cup {fires} ELSE excused

NightlyNext ==
    \/ Tick
    \/ \E s \in Student : Answer(s) \/ RunForStudent(s)
    \/ Plan \/ WakeForBackfill \/ WakeForNight \/ ChainEnds
    \/ JobEnds \/ JobFails \/ Restart

NightlySpec == NightlyInit /\ [][NightlyNext]_nightlyVars

-----------------------------------------------------------------------------
(* Properties *)

NightlyTypeOK ==
    /\ now \in Moment
    /\ last \in [Student -> Moment \cup {Never}]
    /\ pc \in {"planning", "asleep", "backfill", "deciding", "chain"}
    /\ job \in {"none", "backfill", "nightly"}
    /\ fires \in 0 .. (MaxDays + 1) * Day
    /\ at \in Moment
    /\ queue \subseteq Student
    /\ pc = "asleep" => fires > 0 /\ fires - now <= Day

\* A student is served at most once for one night, whatever restarts.
OncePerNight ==
    \A r, q \in ran : r.student = q.student /\ r.due = q.due => r = q

\* A night whose hour passed was run, unless a job was still running at that
\* hour or the process restarted on it: the two schedules never hide one.
NightsAreRun ==
    \A d \in 0 .. MaxDays :
        now > app_moment(d, NightlyHour) + MaxLate
            => app_moment(d, NightlyHour) \in begun \cup excused

\* A student who answered in the day the run closes out is skipped only by a
\* run whose timer woke after its moment.
StudiedIn(k) == k.last # Never /\ k.due - Day <= k.last /\ k.last <= k.due
SkippedOnlyWhenLate == \A k \in skipped : StudiedIn(k) => k.at > k.due
=============================================================================
