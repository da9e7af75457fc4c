------------------------------ MODULE JobsProofs ------------------------------
(***************************************************************************)
(* The background jobs of the server (services/jobs): the nightly process  *)
(* and its two hours, the chain of a student, the embedding backfill.      *)
(*                                                                         *)
(* Nightly: a night is a moment whose place in its day is the chain's      *)
(* hour. While the process does anything but sleep, every night so far was *)
(* run or is excused; while it sleeps, every night before the moment it    *)
(* sleeps for is, and between that moment and the latest the timer may     *)
(* wake there is no other. What is recorded is of a moment no later than   *)
(* the one slept for, so a student still to look at has no record of it.   *)
(*                                                                         *)
(* Chain: a chain is alone while no other runs, so what it read of its     *)
(* goal's bank and pages is still so when it writes, unless the goal went  *)
(* - and then there is none. What a fold keeps of a search or of an        *)
(* onboarding is found along the values it runs through (FoldLemmas).      *)
(*                                                                         *)
(* Backfill: the chunks of a run are cut from texts that can be sent, none *)
(* twice; and while it meets no other run, nobody else fills what they ask *)
(* for.                                                                    *)
(***************************************************************************)
EXTENDS NightlyRun, StudentChain, Backfill, FoldLemmas

-----------------------------------------------------------------------------
(* The nights: the invariant, in named parts.                              *)

\* A moment at which run_nightly is due.
IsNight(n) == n % Day = NightlyHour

\* Every night up to moment m was begun, or is excused.
Past(m) == \A n \in 0 .. m : IsNight(n) => n \in begun \cup excused

\* What is slept for, and what was run before it.
Clockwork ==
    /\ pc # "asleep" => Past(now)
    /\ pc = "asleep" =>
          /\ Past(fires - 1) /\ now <= fires + MaxLate
          /\ \/ job = "nightly" /\ IsNight(fires)
             \/ job = "backfill" /\ fires % Day = EmbeddingHour

\* The night under way, and who of it has no record yet.
UnderWay ==
    pc \in {"deciding", "chain"} =>
        /\ fires <= at /\ at <= now /\ IsNight(fires)
        /\ \A r \in ran : r.due = fires => r.student \notin queue

Record == [student : Student, due : Nat, at : Moment, last : Moment \cup {Never}, with_resources : BOOLEAN]

\* What is recorded is of the past, and of no night that is slept for.
Recorded ==
    /\ ran \subseteq Record /\ skipped \subseteq Record
    /\ \A r \in ran : r.due <= now /\ (pc = "asleep" => r.due < fires)

NightlyInv ==
    /\ NightlyTypeOK /\ Clockwork /\ UnderWay /\ Recorded
    /\ OncePerNight /\ SkippedOnlyWhenLate

-----------------------------------------------------------------------------
(* core/clock.py: days, hours and nights.                                  *)

LEMMA Days ==
    ASSUME NEW m \in Nat
    PROVE  /\ app_date(m) \in Nat /\ app_date(m) * Day \in Nat
           /\ app_date(m) * Day <= m /\ m < app_date(m) * Day + Day
BY DayAssumption, SMT DEF app_date

\* A day's hour is a moment of that hour.
LEMMA Hours ==
    ASSUME NEW d \in Nat, NEW hour \in 0 .. Day - 1
    PROVE  app_moment(d, hour) \in Nat /\ app_moment(d, hour) % Day = hour
BY DayAssumption, SMT DEF app_moment

\* Two moments of one hour are a day apart, at least.
LEMMA Apart ==
    ASSUME NEW m \in Nat, NEW n \in Nat, m % Day = n % Day, m < n
    PROVE  m + Day <= n
<1> DEFINE c == m \div Day
           d == n \div Day
           hour == m % Day
<1>1. c \in Int /\ d \in Int /\ hour \in Int /\ m = c * Day + hour /\ n = d * Day + hour
  BY DayAssumption, SMT
<1> HIDE DEF c, d, hour
<1>2. \A a, b \in Int : a < b => a * Day + Day <= b * Day
  BY DayAssumption, SMT
<1>3. c * Day \in Int /\ d * Day \in Int
  BY <1>1, DayAssumption
<1>4. CASE c < d
  BY <1>1, <1>2, <1>3, <1>4, DayAssumption
<1>5. CASE d < c
  BY <1>1, <1>2, <1>3, <1>5, DayAssumption
<1>6. CASE c = d
  BY <1>1, <1>6
<1>7. QED
  BY <1>1, <1>4, <1>5, <1>6

\* The next moment of an hour: after now, within a day, and none is between.
LEMMA NextRun ==
    ASSUME NEW hour \in 0 .. Day - 1, NEW after \in Nat
    PROVE  LET n == next_run_at(hour, after) IN
           /\ n \in Nat /\ after < n /\ n <= after + Day /\ n % Day = hour
           /\ \A m \in Nat : after < m /\ m < n => m % Day # hour
<1> DEFINE d == app_date(after)
           today == app_moment(d, hour)
           n == next_run_at(hour, after)
<1>1. /\ d \in Nat /\ d * Day \in Nat /\ d * Day <= after /\ after < d * Day + Day
  BY Days
<1>2. today = d * Day + hour /\ today \in Nat /\ today % Day = hour
  BY <1>1, Hours, DayAssumption DEF app_moment
<1>3. n = IF today <= after THEN today + Day ELSE today
  BY DEF next_run_at
<1> HIDE DEF d, today, n
<1>4. n \in Nat /\ after < n /\ n <= after + Day
  BY <1>1, <1>2, <1>3, DayAssumption
<1>5. n % Day = hour
  BY <1>2, <1>3, DayAssumption, SMT
<1>6. ASSUME NEW m \in Nat, after < m, m < n, m % Day = hour PROVE FALSE
  <2>1. m + Day <= n
    BY <1>4, <1>5, <1>6, Apart
  <2>2. QED
    BY <1>4, <1>6, <2>1, DayAssumption
<1>7. QED
  BY <1>4, <1>5, <1>6 DEF n

\* A night is its day's moment of the chain's hour; at that moment it closes
\* out the day since the night before.
LEMMA Nights ==
    ASSUME NEW m \in Nat, IsNight(m)
    PROVE  /\ app_moment(app_date(m), NightlyHour) = m
           /\ previous_nightly_run(m) = m - Day
<1>1. app_moment(app_date(m), NightlyHour) = m
  BY DayAssumption, SMT DEF app_moment, app_date, IsNight
<1>2. QED
  BY <1>1, DayAssumption DEF previous_nightly_run

\* A timer that sleeps for midnight is awake before the night's hour.
LEMMA Clearance ==
    ASSUME NEW f \in Nat, f % Day = EmbeddingHour, NEW n \in f .. f + MaxLate
    PROVE  ~IsNight(n)
<1>c. /\ Day \in Nat /\ MaxLate \in Nat /\ EmbeddingHour \in 0 .. Day - 1 /\ NightlyHour \in 0 .. Day - 1
      /\ EmbeddingHour + MaxLate < NightlyHour
  BY DayAssumption, BoundAssumption, ClearanceAssumption
<1> DEFINE d == f \div Day
           m == app_moment(d, NightlyHour)
<1>1. d \in Nat /\ f = d * Day + EmbeddingHour /\ d * Day \in Nat
  BY DayAssumption, SMT
<1>2. m \in Nat /\ m % Day = NightlyHour
  BY <1>1, <1>c, Hours
<1>3. m = f + (NightlyHour - EmbeddingHour)
  BY <1>1, <1>c DEF app_moment
<1> HIDE DEF d, m
<1>4. ASSUME IsNight(n) PROVE FALSE
  <2>1. n < m /\ n \in Nat
    BY <1>3, <1>c
  <2>2. n + Day <= m
    BY <1>2, <1>4, <2>1, Apart DEF IsNight
  <2>3. QED
    BY <1>3, <1>c, <2>2
<1>5. QED
  BY <1>4

\* A timer that sleeps for a night wakes long before the next.
LEMMA OneNight ==
    ASSUME NEW f \in Nat, IsNight(f), NEW n \in f + 1 .. f + MaxLate
    PROVE  ~IsNight(n)
<1>1. MaxLate < Day /\ MaxLate \in Nat /\ Day \in Nat
  BY DayAssumption, BoundAssumption, ClearanceAssumption
<1>2. n \in Nat /\ f < n /\ n <= f + MaxLate
  BY <1>1
<1>3. IsNight(n) => f + Day <= n
  BY <1>2, Apart DEF IsNight
<1>4. QED
  BY <1>1, <1>2, <1>3

-----------------------------------------------------------------------------
(* Types.                                                                  *)

\* The last moment the model lives, and the constants it is counted with.
LEMMA Bounds ==
    /\ Day \in Nat /\ Day > 0 /\ MaxLate \in Nat /\ MaxDays \in Nat
    /\ MaxDays * Day \in Nat /\ (MaxDays + 1) * Day = MaxDays * Day + Day
    /\ Moment \subseteq Nat /\ 0 \in Moment /\ Never \notin Nat
    /\ EmbeddingHour \in 0 .. Day - 1 /\ NightlyHour \in 0 .. Day - 1
    /\ EmbeddingHour + MaxLate < NightlyHour
<1>1. MaxDays * Day \in Nat /\ (MaxDays + 1) * Day = MaxDays * Day + Day
  BY DayAssumption, BoundAssumption, SMT
<1>2. QED
  BY <1>1, DayAssumption, BoundAssumption, NeverAssumption, ClearanceAssumption DEF Moment

\* A later moment is within reach when it is no further than that.
LEMMA Later ==
    \A m, n, reach \in Nat : m < n =>
        /\ n > 0 /\ m <= n + reach /\ (n <= m + reach => n - m <= reach)
        /\ \A k \in 0 .. n - 1 : k \in 0 .. m \/ (k \in Nat /\ m < k /\ k < n)
OBVIOUS

\* What the loop sleeps for next.
LEMMA PlanTo ==
    ASSUME NightlyTypeOK, Plan
    PROVE  /\ fires' \in Nat /\ now < fires' /\ fires' <= now + Day
           /\ \/ job' = "nightly" /\ IsNight(fires')
              \/ job' = "backfill" /\ fires' % Day = EmbeddingHour
           /\ \A m \in Nat : now < m /\ m < fires' => ~IsNight(m)
<1>1. PICK e \in Int : e = next_run_at(EmbeddingHour, now)
  BY NextRun, Bounds DEF NightlyTypeOK
<1>2. PICK n \in Int : n = next_run_at(NightlyHour, now)
  BY NextRun, Bounds DEF NightlyTypeOK
<1>3. /\ e \in Nat /\ now < e /\ e <= now + Day /\ e % Day = EmbeddingHour
      /\ n \in Nat /\ now < n /\ n <= now + Day /\ n % Day = NightlyHour
      /\ \A m \in Nat : now < m /\ m < n => m % Day # NightlyHour
  BY <1>1, <1>2, NextRun, Bounds DEF NightlyTypeOK
<1>4. IF e <= n THEN job' = "backfill" /\ fires' = e ELSE job' = "nightly" /\ fires' = n
  BY <1>1, <1>2 DEF Plan
<1>5. QED
  BY <1>3, <1>4, Bounds DEF IsNight, NightlyTypeOK

LEMMA TypeInit == NightlyInit => NightlyTypeOK
BY Bounds DEF NightlyInit, NightlyTypeOK

LEMMA TypeStep == NightlyTypeOK /\ [NightlyNext]_nightlyVars => NightlyTypeOK'
<1> SUFFICES ASSUME NightlyTypeOK, [NightlyNext]_nightlyVars PROVE NightlyTypeOK'
  OBVIOUS
<1>b. 0 \in 0 .. (MaxDays + 1) * Day /\ now \in Nat
  BY Bounds DEF NightlyTypeOK
<1>1. CASE Tick
  BY <1>1, <1>b, Bounds DEF Tick, NightlyTypeOK, loop
<1>2. ASSUME NEW s \in Student, Answer(s) PROVE NightlyTypeOK'
  BY <1>2 DEF Answer, NightlyTypeOK, loop
<1>3. ASSUME NEW s \in Student, RunForStudent(s) PROVE NightlyTypeOK'
  BY <1>3 DEF RunForStudent, NightlyTypeOK
<1>4. CASE Plan
  <2>1. /\ fires' \in Nat /\ now < fires' /\ fires' <= now + Day /\ job' \in {"nightly", "backfill"}
    BY <1>4, PlanTo
  <2>2. fires' \in 0 .. (MaxDays + 1) * Day
    BY <2>1, Bounds DEF NightlyTypeOK, Moment
  <2>3. fires' > 0 /\ fires' - now <= Day
    <3>1. now \in Nat /\ Day \in Nat /\ fires' \in Nat /\ now < fires' /\ fires' <= now + Day
      BY <1>b, <2>1, DayAssumption
    <3>2. QED
      BY <3>1, Later
  <2>4. QED
    BY <1>4, <2>1, <2>2, <2>3 DEF Plan, NightlyTypeOK
<1>5. CASE WakeForBackfill \/ WakeForNight \/ ChainEnds
  BY <1>5 DEF WakeForBackfill, WakeForNight, ChainEnds, NightlyTypeOK
<1>6. CASE Back
  BY <1>6, <1>b, Bounds DEF Back, NightlyTypeOK
<1>7. CASE UNCHANGED nightlyVars
  BY <1>7 DEF nightlyVars, loop, NightlyTypeOK
<1>8. QED
  BY <1>1, <1>2, <1>3, <1>4, <1>5, <1>6, <1>7 DEF NightlyNext, JobEnds, JobFails, Restart

-----------------------------------------------------------------------------
(* Every night so far.                                                     *)

\* Whichever job the process slept for, when it stops sleeping the nights up
\* to now are accounted for, if the one it slept for is.
LEMMA Awake ==
    ASSUME NightlyTypeOK, Clockwork, pc = "asleep", NEW H, begun \cup excused \subseteq H,
           job = "nightly" /\ now >= fires => fires \in H
    PROVE  \A n \in 0 .. now : IsNight(n) => n \in H
<1> SUFFICES ASSUME NEW n \in 0 .. now, IsNight(n) PROVE n \in H
  OBVIOUS
<1>1. /\ fires \in Nat /\ now \in Nat /\ n \in Nat /\ MaxLate \in Nat /\ now <= fires + MaxLate
      /\ \A m \in 0 .. fires - 1 : IsNight(m) => m \in H
  BY Bounds DEF NightlyTypeOK, Clockwork, Past
<1>2. CASE n < fires
  BY <1>1, <1>2
<1>3. CASE fires <= n /\ job = "backfill"
  <2>1. fires % Day = EmbeddingHour /\ n \in fires .. fires + MaxLate
    BY <1>1, <1>3 DEF Clockwork
  <2>2. QED
    BY <1>1, <2>1, Clearance
<1>4. CASE fires <= n /\ job = "nightly"
  <2>1. IsNight(fires) /\ fires \in H
    BY <1>1, <1>4 DEF Clockwork
  <2>2. n \notin fires + 1 .. fires + MaxLate
    BY <1>1, <2>1, OneNight
  <2>3. n = fires
    BY <1>1, <1>4, <2>2
  <2>4. QED
    BY <2>1, <2>3
<1>5. QED
  BY <1>1, <1>2, <1>3, <1>4 DEF Clockwork

LEMMA ClockStep == NightlyTypeOK /\ Clockwork /\ [NightlyNext]_nightlyVars => Clockwork'
<1> SUFFICES ASSUME NightlyTypeOK, Clockwork, [NightlyNext]_nightlyVars PROVE Clockwork'
  OBVIOUS
<1>b. now \in Nat /\ fires \in Nat /\ MaxLate \in Nat
  BY Bounds DEF NightlyTypeOK
<1>1. CASE Tick
  <2>1. now' = now + 1 /\ UNCHANGED << pc, job, fires, begun >> /\ excused \subseteq excused'
    BY <1>1 DEF Tick, loop
  <2>2. CASE pc = "asleep"
    <3>1. now' <= fires + MaxLate
      BY <1>1, <1>b, <2>1, <2>2 DEF Tick, Overdue
    <3>2. QED
      BY <2>1, <2>2, <3>1 DEF Clockwork, Past
  <2>3. CASE pc # "asleep"
    <3>1. Busy
      BY <1>1, <2>3 DEF Tick, Busy, NightlyTypeOK
    <3>2. IsNight(now') => now' \in excused'
      BY <1>1, <1>b, <2>1, <3>1, Nights DEF Tick
    <3>3. \A n \in 0 .. now : IsNight(n) => n \in begun \cup excused
      BY <2>3 DEF Clockwork, Past
    <3>4. \A n \in 0 .. now' : n = now' \/ n \in 0 .. now
      BY <1>b, <2>1
    <3>5. \A n \in 0 .. now' : IsNight(n) => n \in begun' \cup excused'
      BY <2>1, <3>2, <3>3, <3>4
    <3>6. QED
      BY <2>1, <2>3, <3>5 DEF Clockwork, Past
  <2>4. QED
    BY <2>2, <2>3
<1>2. ASSUME NEW s \in Student, Answer(s) PROVE Clockwork'
  BY <1>2 DEF Answer, Clockwork, Past, loop, history
<1>3. ASSUME NEW s \in Student, RunForStudent(s) PROVE Clockwork'
  BY <1>3 DEF RunForStudent, Clockwork, Past
<1>4. CASE Plan
  <2>1. /\ fires' \in Nat /\ now < fires' /\ pc' = "asleep" /\ UNCHANGED << now, begun, excused >>
        /\ \/ job' = "nightly" /\ IsNight(fires')
           \/ job' = "backfill" /\ fires' % Day = EmbeddingHour
        /\ \A m \in Nat : now < m /\ m < fires' => ~IsNight(m)
    BY <1>4, PlanTo DEF Plan, history
  <2>2. \A n \in 0 .. now : IsNight(n) => n \in begun \cup excused
    BY <1>4 DEF Plan, Clockwork, Past
  <2>f. now \in Nat /\ MaxLate \in Nat /\ fires' \in Nat /\ now < fires' /\ now' = now
    BY <1>b, <2>1
  <2>3. \A n \in 0 .. fires' - 1 : n \in 0 .. now \/ (n \in Nat /\ now < n /\ n < fires')
    BY <2>f, Later
  <2>4. \A n \in 0 .. fires' - 1 : IsNight(n) => n \in begun' \cup excused'
    BY <2>1, <2>2, <2>3
  <2>5. now' <= fires' + MaxLate
    BY <2>f, Later
  <2>6. QED
    BY <2>1, <2>4, <2>5 DEF Clockwork, Past
<1>5. CASE WakeForBackfill \/ WakeForNight
  <2>1. /\ pc = "asleep" /\ pc' # "asleep" /\ now' = now
        /\ begun \cup excused \subseteq begun' \cup excused'
        /\ job = "nightly" => fires \in begun' \cup excused'
    BY <1>5 DEF WakeForBackfill, WakeForNight, history
  <2>2. QED
    BY <2>1, Awake DEF Clockwork, Past
<1>6. CASE ChainEnds \/ JobEnds \/ JobFails
  BY <1>6 DEF ChainEnds, JobEnds, JobFails, Back, Clockwork, Past, history
<1>7. CASE Restart
  <2>1. /\ pc' # "asleep" /\ now' = now
        /\ begun \cup excused \subseteq begun' \cup excused'
        /\ pc = "asleep" /\ job = "nightly" /\ now >= fires => fires \in begun' \cup excused'
    BY <1>7 DEF Restart, Back
  <2>2. CASE pc = "asleep"
    BY <2>1, <2>2, Awake DEF Clockwork, Past
  <2>3. CASE pc # "asleep"
    BY <2>1, <2>3 DEF Clockwork, Past
  <2>4. QED
    BY <2>2, <2>3
<1>8. CASE UNCHANGED nightlyVars
  BY <1>8 DEF nightlyVars, loop, history, Clockwork, Past
<1>9. QED
  BY <1>1, <1>2, <1>3, <1>4, <1>5, <1>6, <1>7, <1>8 DEF NightlyNext

-----------------------------------------------------------------------------
(* Every student of a night.                                               *)

\* A record says what was decided, and nothing else of that night does.
LEMMA SeenIs ==
    ASSUME NightlyTypeOK, NEW s \in Student, fires <= at
    PROVE  /\ Seen(s) \in Record
           /\ Seen(s).student = s /\ Seen(s).due = fires /\ Seen(s).at = at /\ Seen(s).last = last[s]
BY Bounds DEF NightlyTypeOK, Seen, Record, decide, Studied

LEMMA RecordStep ==
    ASSUME NightlyTypeOK, Clockwork, UnderWay, Recorded, OncePerNight, SkippedOnlyWhenLate, [NightlyNext]_nightlyVars
    PROVE  UnderWay' /\ Recorded' /\ OncePerNight' /\ SkippedOnlyWhenLate'
<1>b. now \in Nat /\ fires \in Nat /\ at \in Nat /\ Day \in Nat /\ ran \subseteq Record /\ \A r \in Record : r.due \in Nat
  BY Bounds DEF NightlyTypeOK, Recorded, Record
<1>1. CASE Tick
  <2>1. now' = now + 1 /\ UNCHANGED << pc, fires, at, queue, ran, skipped >>
    BY <1>1 DEF Tick, loop
  <2>2. \A r \in ran : r.due <= now'
    BY <1>b, <2>1 DEF Recorded
  <2>3. pc \in {"deciding", "chain"} => at <= now'
    BY <1>b, <2>1 DEF UnderWay
  <2>4. QED
    BY <2>1, <2>2, <2>3 DEF UnderWay, Recorded, OncePerNight, SkippedOnlyWhenLate
<1>2. ASSUME NEW s \in Student, Answer(s) PROVE UNCHANGED << now, pc, fires, at, queue, ran, skipped >>
  BY <1>2 DEF Answer, loop, history
<1>3. ASSUME NEW s \in Student, RunForStudent(s)
      PROVE  UnderWay' /\ Recorded' /\ OncePerNight' /\ SkippedOnlyWhenLate'
  <2>1. /\ pc = "deciding" /\ s \in queue /\ queue' = queue \ {s} /\ UNCHANGED << now, last, fires, at >>
        /\ fires <= at /\ at <= now /\ IsNight(fires)
        /\ \A r \in ran : r.due = fires => r.student \notin queue
    BY <1>3 DEF RunForStudent, UnderWay
  <2>2. /\ Seen(s) \in Record /\ Seen(s).student = s
        /\ Seen(s).due = fires /\ Seen(s).at = at /\ Seen(s).last = last[s]
    BY <2>1, SeenIs
  <2>3. CASE decide(last[s], at).run
    <3>1. pc' = "chain" /\ ran' = ran \cup {Seen(s)} /\ UNCHANGED skipped
      BY <1>3, <2>3 DEF RunForStudent
    <3>2. \A r \in ran' : r \in ran \/ r = Seen(s)
      BY <3>1
    <3>3. UnderWay'
      BY <2>1, <2>2, <3>1, <3>2 DEF UnderWay
    <3>4. Recorded'
      BY <1>b, <2>1, <2>2, <3>1, <3>2 DEF Recorded
    <3>5. OncePerNight'
      BY <2>1, <2>2, <3>2 DEF OncePerNight
    <3>6. QED
      BY <3>1, <3>3, <3>4, <3>5 DEF SkippedOnlyWhenLate
  <2>4. CASE ~decide(last[s], at).run
    <3>1. UNCHANGED << pc, ran >> /\ skipped' = skipped \cup {Seen(s)}
      BY <1>3, <2>4 DEF RunForStudent
    <3>2. ~Studied(last[s], at)
      BY <2>4 DEF decide
    <3>3. StudiedIn(Seen(s)) => Seen(s).at > Seen(s).due
      <4>1. CASE at = fires
        <5>1. previous_nightly_run(at) = fires - Day
          BY <1>b, <2>1, <4>1, Nights
        <5>2. QED
          BY <1>b, <2>2, <3>2, <5>1 DEF Studied, StudiedIn
      <4>2. CASE at # fires
        BY <1>b, <2>1, <2>2, <4>2
      <4>3. QED
        BY <4>1, <4>2
    <3>4. SkippedOnlyWhenLate'
      BY <3>1, <3>3 DEF SkippedOnlyWhenLate
    <3>5. UnderWay' /\ Recorded' /\ OncePerNight'
      BY <2>1, <2>2, <3>1 DEF UnderWay, Recorded, OncePerNight
    <3>6. QED
      BY <3>4, <3>5
  <2>5. QED
    BY <2>3, <2>4
<1>4. CASE Plan
  <2>1. /\ fires' \in Nat /\ now < fires' /\ pc' = "asleep" /\ UNCHANGED << now, ran, skipped >>
    BY <1>4, PlanTo DEF Plan, history
  <2>2. \A r \in ran : r.due < fires'
    BY <1>b, <2>1 DEF Recorded
  <2>3. QED
    BY <2>1, <2>2 DEF UnderWay, Recorded, OncePerNight, SkippedOnlyWhenLate
<1>5. CASE WakeForBackfill
  BY <1>5 DEF WakeForBackfill, history, UnderWay, Recorded, OncePerNight, SkippedOnlyWhenLate
<1>6. CASE WakeForNight
  <2>1. /\ pc = "asleep" /\ job = "nightly" /\ now >= fires /\ pc' = "deciding" /\ at' = now
        /\ UNCHANGED << now, fires, ran, skipped >>
    BY <1>6 DEF WakeForNight
  <2>2. IsNight(fires) /\ \A r \in ran : r.due < fires
    BY <2>1 DEF Clockwork, Recorded
  <2>3. \A r \in ran : r.due # fires
    BY <1>b, <2>2
  <2>4. fires' <= at' /\ at' <= now'
    BY <1>b, <2>1
  <2>5. QED
    BY <2>1, <2>2, <2>3, <2>4 DEF UnderWay, Recorded, OncePerNight, SkippedOnlyWhenLate
<1>7. CASE ChainEnds
  BY <1>7 DEF ChainEnds, history, UnderWay, Recorded, OncePerNight, SkippedOnlyWhenLate
<1>8. CASE Back
  BY <1>8 DEF Back, UnderWay, Recorded, OncePerNight, SkippedOnlyWhenLate
<1>9. CASE UNCHANGED << now, pc, fires, at, queue, ran, skipped >>
  BY <1>9 DEF UnderWay, Recorded, OncePerNight, SkippedOnlyWhenLate
<1>10. QED
  BY <1>1, <1>2, <1>3, <1>4, <1>5, <1>6, <1>7, <1>8, <1>9 DEF NightlyNext, JobEnds, JobFails, Restart, nightlyVars, loop, history

-----------------------------------------------------------------------------
(* The invariant.                                                          *)

LEMMA InvInit == NightlyInit => NightlyInv
<1> SUFFICES ASSUME NightlyInit PROVE NightlyInv
  OBVIOUS
<1>1. NightlyTypeOK
  BY TypeInit
<1>2. Clockwork
  <2>1. ~IsNight(0)
    BY Bounds, SMT DEF IsNight
  <2>2. QED
    BY <2>1 DEF NightlyInit, Clockwork, Past
<1>3. UnderWay /\ Recorded /\ OncePerNight /\ SkippedOnlyWhenLate
  BY DEF NightlyInit, UnderWay, Recorded, OncePerNight, SkippedOnlyWhenLate
<1>4. QED
  BY <1>1, <1>2, <1>3 DEF NightlyInv

LEMMA InvStep == NightlyInv /\ [NightlyNext]_nightlyVars => NightlyInv'
BY TypeStep, ClockStep, RecordStep DEF NightlyInv

\* The nights' invariant holds, from the first step on.
THEOREM NightlyInductive == NightlySpec => []NightlyInv
BY InvInit, InvStep, PTL DEF NightlySpec

\* The clock, the loop and the answers stay of their types; what is slept for
\* is within a day.
THEOREM NightlyTypeCorrect == NightlySpec => []NightlyTypeOK
<1>1. NightlyInv => NightlyTypeOK
  BY DEF NightlyInv
<1>2. QED
  BY <1>1, NightlyInductive, PTL

\* run_nightly: however often the process restarts, a student has one chain a
\* night.
THEOREM ServedOnce == NightlySpec => []OncePerNight
<1>1. NightlyInv => OncePerNight
  BY DEF NightlyInv
<1>2. QED
  BY <1>1, NightlyInductive, PTL

\* forever, wait_for_the_next_job: two schedules in one loop hide no night
\* but one that a running job, or a restart, ran over.
THEOREM NoNightHidden == NightlySpec => []NightsAreRun
<1>1. NightlyInv => NightsAreRun
  <2> SUFFICES ASSUME NightlyInv, NEW d \in 0 .. MaxDays, now > app_moment(d, NightlyHour) + MaxLate
               PROVE  app_moment(d, NightlyHour) \in begun \cup excused
    BY DEF NightsAreRun
  <2>1. PICK n \in Nat : n = app_moment(d, NightlyHour) /\ IsNight(n)
    BY Hours, Bounds DEF IsNight
  <2>2. now \in Nat /\ fires \in Nat /\ MaxLate \in Nat
    BY Bounds DEF NightlyInv, NightlyTypeOK
  <2>3. CASE pc # "asleep"
    BY <2>1, <2>2, <2>3 DEF NightlyInv, Clockwork, Past
  <2>4. CASE pc = "asleep"
    BY <2>1, <2>2, <2>4 DEF NightlyInv, Clockwork, Past
  <2>5. QED
    BY <2>3, <2>4
<1>2. QED
  BY <1>1, NightlyInductive, PTL

\* previous_nightly_run: who answered in the day a run closes out is passed
\* over only when the timer woke after its moment.
THEOREM OnlyLateSkips == NightlySpec => []SkippedOnlyWhenLate
<1>1. NightlyInv => SkippedOnlyWhenLate
  BY DEF NightlyInv
<1>2. QED
  BY <1>1, NightlyInductive, PTL

-----------------------------------------------------------------------------
(* The chains: what the folds of a search run through.                     *)

\* The values Fresh runs through.
LEMMA FreshRuns ==
    ASSUME NEW X, NEW links \in Seq(X), NEW held
    PROVE  \E pass \in [0 .. Len(links) -> Seq(X)] :
              /\ pass[0] = << >> /\ pass[Len(links)] = Fresh(links, held)
              /\ \A i \in 1 .. Len(links) :
                    pass[i] = IF links[i] \in held \cup ToSet(pass[i - 1]) THEN pass[i - 1] ELSE Append(pass[i - 1], links[i])
<1> DEFINE n == Len(links)
           Op == [p \in (Seq(X)) \X (X) |-> IF p[2] \in held \cup ToSet(p[1]) THEN p[1] ELSE Append(p[1], p[2])]
           Solves(f) == f = [T \in SUBSET DOMAIN links |->
                               IF T = {} THEN << >>
                               ELSE IF links[Max(T)] \in held \cup ToSet(f[T \ {Max(T)}]) THEN f[T \ {Max(T)}] ELSE Append(f[T \ {Max(T)}], links[Max(T)])]
           iter == CHOOSE f : Solves(f)
<1>1. Op \in [(Seq(X)) \X (X) -> Seq(X)] /\ << >> \in Seq(X)
  OBVIOUS
<1>2. ASSUME NEW f, NEW T \in SUBSET DOMAIN links, T # {}, f[T \ {Max(T)}] \in Seq(X)
      PROVE  Op[<<f[T \ {Max(T)}], links[Max(T)]>>] = IF links[Max(T)] \in held \cup ToSet(f[T \ {Max(T)}]) THEN f[T \ {Max(T)}] ELSE Append(f[T \ {Max(T)}], links[Max(T)])
  <2>1. Len(links) \in Nat /\ DOMAIN links = 1 .. Len(links)
    OBVIOUS
  <2>2. Max(T) \in DOMAIN links
    BY <1>2, <2>1, Greatest
  <2>3. links[Max(T)] \in X
    BY <2>2
  <2>4. QED
    BY <1>2, <2>3
<1>3. \E f : Solves(f)
  <2> HIDE DEF Op
  <2>1. PICK f : Folds(f, Seq(X), Op, << >>, links)
    BY <1>1, FoldExists
  <2>2. \A T \in SUBSET DOMAIN links : T # {} => f[T \ {Max(T)}] \in Seq(X)
    BY <2>1 DEF Folds
  <2>3. Solves(f)
    BY <1>2, <2>1, <2>2 DEF Folds
  <2> HIDE DEF Solves
  <2>4. QED
    BY <2>3
<1>4. Solves(iter)
  <2> HIDE DEF Solves
  <2>1. QED
    BY <1>3
<1>5. Fresh(links, held) = iter[DOMAIN links]
  BY DEF Fresh, FoldLeft, MapThenFoldSet
<1> HIDE DEF iter, Op
<1>6. Unfolds(iter, Seq(X), Op, << >>, links)
  BY <1>2, <1>4 DEF Unfolds
<1> HIDE DEF Solves
<1>7. PICK pass : RunsTo(pass, Seq(X), Op, << >>, links, Fresh(links, held))
  <2>1. \E pass : RunsTo(pass, Seq(X), Op, << >>, links, iter[DOMAIN links])
    BY <1>1, <1>6, FoldRuns
  <2>2. QED
    BY <1>5, <2>1
<1>8. ASSUME NEW i \in 1 .. n PROVE pass[i] = IF links[i] \in held \cup ToSet(pass[i - 1]) THEN pass[i - 1] ELSE Append(pass[i - 1], links[i])
  <2>1. pass[i - 1] \in Seq(X) /\ links[i] \in X /\ pass[i] = Op[<<pass[i - 1], links[i]>>]
    <3>1. i \in 1 .. Len(links) /\ i - 1 \in 0 .. Len(links)
      OBVIOUS
    <3>2. pass \in [0 .. Len(links) -> Seq(X)] /\ pass[i] = Op[<<pass[i - 1], links[i]>>]
      BY <1>7, <3>1 DEF RunsTo
    <3>3. QED
      BY <3>1, <3>2
  <2>2. QED
    BY <2>1 DEF Op
<1>9. QED
  BY <1>7, <1>8 DEF RunsTo

\* The values Taken runs through.
LEMMA TakenRuns ==
    ASSUME NEW D, NEW described \in Seq(D), NEW sources
    PROVE  \E pass \in [0 .. Len(described) -> Seq(D)] :
              /\ pass[0] = << >> /\ pass[Len(described)] = Taken(sources, described)
              /\ \A i \in 1 .. Len(described) :
                    pass[i] = IF Takes(sources, pass[i - 1], described[i]) THEN Append(pass[i - 1], described[i]) ELSE pass[i - 1]
<1> DEFINE n == Len(described)
           Op == [p \in (Seq(D)) \X (D) |-> IF Takes(sources, p[1], p[2]) THEN Append(p[1], p[2]) ELSE p[1]]
           Solves(f) == f = [T \in SUBSET DOMAIN described |->
                               IF T = {} THEN << >>
                               ELSE IF Takes(sources, f[T \ {Max(T)}], described[Max(T)]) THEN Append(f[T \ {Max(T)}], described[Max(T)]) ELSE f[T \ {Max(T)}]]
           iter == CHOOSE f : Solves(f)
<1>1. Op \in [(Seq(D)) \X (D) -> Seq(D)] /\ << >> \in Seq(D)
  OBVIOUS
<1>2. ASSUME NEW f, NEW T \in SUBSET DOMAIN described, T # {}, f[T \ {Max(T)}] \in Seq(D)
      PROVE  Op[<<f[T \ {Max(T)}], described[Max(T)]>>] = IF Takes(sources, f[T \ {Max(T)}], described[Max(T)]) THEN Append(f[T \ {Max(T)}], described[Max(T)]) ELSE f[T \ {Max(T)}]
  <2>1. Len(described) \in Nat /\ DOMAIN described = 1 .. Len(described)
    OBVIOUS
  <2>2. Max(T) \in DOMAIN described
    BY <1>2, <2>1, Greatest
  <2>3. described[Max(T)] \in D
    BY <2>2
  <2>4. QED
    BY <1>2, <2>3
<1>3. \E f : Solves(f)
  <2> HIDE DEF Op
  <2>1. PICK f : Folds(f, Seq(D), Op, << >>, described)
    BY <1>1, FoldExists
  <2>2. \A T \in SUBSET DOMAIN described : T # {} => f[T \ {Max(T)}] \in Seq(D)
    BY <2>1 DEF Folds
  <2>3. Solves(f)
    BY <1>2, <2>1, <2>2 DEF Folds
  <2> HIDE DEF Solves
  <2>4. QED
    BY <2>3
<1>4. Solves(iter)
  <2> HIDE DEF Solves
  <2>1. QED
    BY <1>3
<1>5. Taken(sources, described) = iter[DOMAIN described]
  BY DEF Taken, FoldLeft, MapThenFoldSet
<1> HIDE DEF iter, Op
<1>6. Unfolds(iter, Seq(D), Op, << >>, described)
  BY <1>2, <1>4 DEF Unfolds
<1> HIDE DEF Solves
<1>7. PICK pass : RunsTo(pass, Seq(D), Op, << >>, described, Taken(sources, described))
  <2>1. \E pass : RunsTo(pass, Seq(D), Op, << >>, described, iter[DOMAIN described])
    BY <1>1, <1>6, FoldRuns
  <2>2. QED
    BY <1>5, <2>1
<1>8. ASSUME NEW i \in 1 .. n PROVE pass[i] = IF Takes(sources, pass[i - 1], described[i]) THEN Append(pass[i - 1], described[i]) ELSE pass[i - 1]
  <2>1. pass[i - 1] \in Seq(D) /\ described[i] \in D /\ pass[i] = Op[<<pass[i - 1], described[i]>>]
    <3>1. i \in 1 .. Len(described) /\ i - 1 \in 0 .. Len(described)
      OBVIOUS
    <3>2. pass \in [0 .. Len(described) -> Seq(D)] /\ pass[i] = Op[<<pass[i - 1], described[i]>>]
      BY <1>7, <3>1 DEF RunsTo
    <3>3. QED
      BY <3>1, <3>2
  <2>2. QED
    BY <2>1 DEF Op
<1>9. QED
  BY <1>7, <1>8 DEF RunsTo

\* What Fresh keeps is not held, and is kept once.
LEMMA FreshOnce ==
    ASSUME NEW X, NEW links \in Seq(X), NEW held
    PROVE  /\ Fresh(links, held) \in Seq(X)
           /\ \A k \in DOMAIN Fresh(links, held) : Fresh(links, held)[k] \notin held
           /\ \A j, k \in DOMAIN Fresh(links, held) :
                 Fresh(links, held)[j] = Fresh(links, held)[k] => j = k
<1> DEFINE n == Len(links)
           Once(s) == /\ \A k \in DOMAIN s : s[k] \notin held
                      /\ \A j, k \in DOMAIN s : s[j] = s[k] => j = k
<1>1. n \in Nat /\ \A i \in 1 .. n : links[i] \in X
  OBVIOUS
<1>2. PICK pass \in [0 .. n -> Seq(X)] :
        /\ pass[0] = << >> /\ pass[n] = Fresh(links, held)
        /\ \A i \in 1 .. n :
              pass[i] = IF links[i] \in held \cup ToSet(pass[i - 1]) THEN pass[i - 1]
                       ELSE Append(pass[i - 1], links[i])
  BY FreshRuns
<1> DEFINE Held == {i \in 0 .. n : Once(pass[i])}
<1>3. 0 \in Held
  BY <1>1, <1>2
<1>4. ASSUME NEW i \in 1 .. n, i - 1 \in Held PROVE i \in Held
  <2>1. pass[i - 1] \in Seq(X) /\ Once(pass[i - 1]) /\ links[i] \in X
    BY <1>1, <1>2, <1>4
  <2>2. CASE links[i] \in held \cup ToSet(pass[i - 1])
    BY <1>1, <1>2, <2>1, <2>2
  <2>3. CASE links[i] \notin held \cup ToSet(pass[i - 1])
    <3> DEFINE w == pass[i - 1]
               x == links[i]
               s == Append(w, x)
    <3>1. w \in Seq(X) /\ x \in X /\ Once(w) /\ x \notin held /\ \A k \in DOMAIN w : w[k] # x
      BY <2>1, <2>3 DEF ToSet
    <3>2. pass[i] = s
      BY <1>1, <1>2, <2>3
    <3> HIDE DEF w, x
    <3>3. /\ DOMAIN s = 1 .. Len(w) + 1 /\ DOMAIN w = 1 .. Len(w) /\ Len(w) \in Nat
          /\ s[Len(w) + 1] = x /\ \A k \in 1 .. Len(w) : s[k] = w[k]
      BY <3>1
    <3>4. Once(s)
      BY <3>1, <3>3
    <3> HIDE DEF s, Once
    <3>5. QED
      BY <1>1, <3>2, <3>4
  <2>4. QED
    BY <2>2, <2>3
<1>5. n \in Held
  <2> HIDE DEF Held
  <2>1. 0 .. n \subseteq Held
    BY <1>1, <1>3, <1>4, Upwards
  <2>2. QED
    BY <1>1, <2>1
<1>6. QED
  BY <1>1, <1>2, <1>5

\* What a search brings is a sequence of links.
LEMMA FoundLinks ==
    ASSUME NEW links \in Finds
    PROVE  \E X : links \in Seq(X)
<1>1. \A s \in UpTo(2, Chunk) : s \in Seq(Chunk)
  BY UpToSeq
<1>2. \A s \in UpTo(2, Description) : s \in Seq(Description)
  BY UpToSeq
<1>3. ASSUME NEW chunks \in UpTo(2, Chunk), NEW described \in UpTo(2, Description)
      PROVE  \E X : PagesFrom(WebSources(chunks), described) \in Seq(X)
  <2> DEFINE sources == WebSources(chunks)
             taken == Taken(sources, described)
             pages_ == PagesFrom(sources, described)
  <2>1. taken \in Seq(Description)
    <3> HIDE DEF sources
    <3>1. described \in Seq(Description)
      BY <1>2
    <3>2. PICK pass \in [0 .. Len(described) -> Seq(Description)] : pass[Len(described)] = taken
      BY <3>1, TakenRuns
    <3>3. Len(described) \in 0 .. Len(described)
      BY <3>1
    <3>4. QED
      BY <3>2, <3>3
  <2>2. pages_ = [n \in DOMAIN taken |-> pages_[n]]
    BY DEF PagesFrom
  <2> HIDE DEF pages_, taken
  <2>3. QED
    BY <2>1, <2>2, AlongASeq DEF pages_
<1>4. ASSUME NEW answered \in BOOLEAN, NEW video
      PROVE  \E X : SearchVideos(answered, << video >>) \in Seq(X)
  <2>1. CASE ~answered
    BY <2>1 DEF SearchVideos
  <2>2. CASE answered
    <3> DEFINE found == SearchVideos(answered, << video >>)
    <3>1. << video >> \in Seq({video}) /\ DOMAIN << video >> = 1 .. Len(<< video >>)
      OBVIOUS
    <3>2. found = [n \in DOMAIN << video >> |-> found[n]]
      BY <2>2, <3>1 DEF SearchVideos
    <3> HIDE DEF found
    <3>3. QED
      BY <3>1, <3>2, AlongASeq DEF found
  <2>3. QED
    BY <2>1, <2>2
<1>5. ASSUME NEW X, NEW found \in Seq(X), NEW landing, NEW lands
      PROVE  \E Y : Verified(found, landing, lands) \in Seq(Y)
  <2> DEFINE kept == Kept(found, {r \in ToSet(found) : Keeps(r, landing[r.link])})
             verified == Verified(found, landing, lands)
  <2>1. kept \in Seq(X)
    BY KeptSeq
  <2>2. verified = [n \in DOMAIN kept |-> verified[n]]
    BY DEF Verified
  <2> HIDE DEF verified, kept
  <2>3. QED
    BY <2>1, <2>2, AlongASeq DEF verified
<1>6. \A found \in Found : \E X : found \in Seq(X)
  <2>1. \A found \in Found : \E chunks \in UpTo(2, Chunk), described \in UpTo(2, Description) :
           found = PagesFrom(WebSources(chunks), described)
    BY DEF Found
  <2>2. QED
    BY <1>3, <2>1
<1> DEFINE Where == {"failed", "gone", "redirect", "webpage", "pdf"}
<1>12. PICK found \in Found, answered \in BOOLEAN, landing \in [Uri -> Where], video \in {"public", "gone"} :
         links = Verified(found \o SearchVideos(answered, << "video" >>), landing @@ ("video" :> video),
                          [u \in Uri |-> "page"])
  BY DEF Finds
<1>7. PICK X : found \in Seq(X)
  BY <1>6
<1>8. PICK Y : SearchVideos(answered, << "video" >>) \in Seq(Y)
  BY <1>4
<1>9. found \o SearchVideos(answered, << "video" >>) \in Seq(X \cup Y)
  <2>1. found \in Seq(X \cup Y) /\ SearchVideos(answered, << "video" >>) \in Seq(X \cup Y)
    BY <1>7, <1>8, SeqMonotonic
  <2>2. QED
    BY <2>1, ConcatProperties
<1>10. QED
  BY <1>5, <1>9, <1>12

\* What is new of what a search brings holds the page once, and never a page
\* that the goal has.
LEMMA NewOnce ==
    ASSUME NEW links \in Finds, NEW has \in BOOLEAN
    PROVE  LET held  == IF has THEN {"page"} ELSE {}
               fresh == Tally(Fresh(links, held), LAMBDA link : link = "page")
           IN  fresh # 0 => fresh = 1 /\ ~has
<1> DEFINE held == IF has THEN {"page"} ELSE {}
           s == Fresh(links, held)
           places == {n \in DOMAIN s : s[n] = "page"}
<1>1. PICK X : links \in Seq(X)
  BY FoundLinks
<1>2. /\ \A k \in DOMAIN s : s[k] \notin held
      /\ \A j, k \in DOMAIN s : s[j] = s[k] => j = k
  <2> HIDE DEF held
  <2>1. QED
    BY <1>1, FreshOnce
<1>3. Tally(s, LAMBDA link : link = "page") = Cardinality(places)
  BY DEF Tally
<1> HIDE DEF s
<1>4. has => places = {}
  BY <1>2
<1>5. places = {} \/ \E k \in places : places = {k}
  BY <1>2
<1>6. Cardinality({}) = 0 /\ \A k : Cardinality({k}) = 1
  BY FS_EmptySet, FS_Singleton
<1>7. Cardinality(places) # 0 => Cardinality(places) = 1 /\ ~has
  BY <1>4, <1>5, <1>6
<1>8. QED
  BY <1>3, <1>7 DEF s

-----------------------------------------------------------------------------
(* The chains: the invariant, in named parts.                              *)

Where == {"idle", "context", "reading", "questions", "generating", "resources", "searching", "storing"}

\* The fields of a chain's record.
Fields == {"pc", "resources", "goal", "review", "placement", "fresh"}

Shaped ==
    /\ DOMAIN chain = Chain
    /\ \A c \in Chain : DOMAIN chain[c] = Fields /\ chain[c].pc \in Where

\* Whoever is alone runs, and nobody else does.
Lone == \A c \in alone : c \in Running /\ \A d \in Running : d = c

\* A lone chain that places a goal found its bank empty, and so it is.
Places ==
    \A c \in alone : At(c, "generating") /\ chain[c].placement => ~bank[chain[c].goal]

IInv == TypeOK /\ Shaped /\ Lone /\ Places /\ GoneStaysEmpty

-----------------------------------------------------------------------------
(* What the steps do to the chains.                                        *)

\* A chain takes a record: the others are as they were.
LEMMA BecomesTo ==
    ASSUME Shaped, NEW c \in Chain, NEW what, Becomes(c, what), DOMAIN what = Fields, what.pc \in Where
    PROVE  Shaped' /\ chain'[c] = what /\ \A d \in Chain : d # c => chain'[d] = chain[d]
<1>1. DOMAIN chain' = Chain /\ chain'[c] = what /\ \A d \in Chain : d # c => chain'[d] = chain[d]
  BY DEF Becomes, Shaped
<1>2. ASSUME NEW d \in Chain PROVE DOMAIN chain'[d] = Fields /\ chain'[d].pc \in Where
  <2>1. CASE d = c
    BY <1>1, <2>1
  <2>2. CASE d # c
    BY <1>1, <2>2 DEF Shaped
  <2>3. QED
    BY <2>1, <2>2
<1>3. QED
  BY <1>1, <1>2 DEF Shaped

LEMMA EndsTo ==
    ASSUME Shaped, NEW c \in Chain, Ends(c)
    PROVE  /\ Shaped' /\ chain'[c] = Idle /\ (\A d \in Chain : d # c => chain'[d] = chain[d])
           /\ alone' = alone \ {c}
<1>1. Idle.pc \in Where /\ DOMAIN Idle = Fields
  BY DEF Idle, Where, Fields
<1>2. QED
  BY <1>1, BecomesTo DEF Ends

LEMMA OnToTo ==
    ASSUME Shaped, NEW c \in Chain, NEW where \in Where, OnTo(c, where)
    PROVE  /\ Shaped' /\ chain'[c].pc = where
           /\ (\A d \in Chain : d # c => chain'[d] = chain[d])
<1> DEFINE what == [Idle EXCEPT !.pc = where, !.resources = chain[c].resources]
<1>1. what.pc = where /\ DOMAIN what = Fields
  BY DEF Idle, Fields
<1>2. Becomes(c, what)
  BY DEF OnTo
<1> HIDE DEF what
<1>3. QED
  BY <1>1, <1>2, BecomesTo

\* A chain starts: an idle one takes its place, alone if none runs.
LEMMA StartsTo ==
    ASSUME Shaped, NEW resources, Starts(resources)
    PROVE  \E c \in Chain :
              /\ Shaped' /\ chain[c].pc = "idle" /\ chain'[c].pc = "context"
              /\ \A d \in Chain : d # c => chain'[d] = chain[d]
              /\ alone' = IF Running = {} THEN {c} ELSE {}
              /\ faults' = faults \/ (faults < MaxFaults /\ faults' = faults + 1)
<1> DEFINE c == CHOOSE some \in Chain : chain[some].pc = "idle"
<1>1. c \in Chain /\ chain[c].pc = "idle"
  <2>1. \E some \in Chain : chain[some].pc = "idle"
    BY DEF Starts, Running
  <2>2. QED
    BY <2>1
<1> DEFINE what == [Idle EXCEPT !.pc = "context", !.resources = resources]
<1>2. what.pc = "context" /\ DOMAIN what = Fields
  BY DEF Idle, Fields
<1>3. Becomes(c, what)
  BY DEF Starts, Becomes
<1>6. /\ alone' = IF Running = {} THEN {c} ELSE {}
      /\ faults' = faults \/ (faults < MaxFaults /\ faults' = faults + 1)
  BY DEF Starts
<1>4. "context" \in Where
  BY DEF Where
<1> HIDE DEF c, what
<1>5. Shaped' /\ chain'[c] = what /\ \A d \in Chain : d # c => chain'[d] = chain[d]
  BY <1>1, <1>2, <1>3, <1>4, BecomesTo
<1>7. QED
  BY <1>1, <1>2, <1>5, <1>6

\* A chain's own step: it runs, goes on or ends, and generates for the goal
\* that is active, whose bank is empty when the goal is to be placed.
LEMMA ChainStep ==
    ASSUME TypeOK, Shaped, NEW c \in Chain, Step(c) \/ NoUsableQuestion(c) \/ Fails(c)
    PROVE  /\ Shaped' /\ c \in Running /\ (\A d \in Chain : d # c => chain'[d] = chain[d])
           /\ UNCHANGED << goal, active, answers, recent, night >>
           /\ \/ alone' = alone /\ chain'[c].pc # "idle"
              \/ alone' = alone \ {c} /\ chain'[c].pc = "idle"
           /\ chain'[c].pc = "generating" =>
                 /\ bank' = bank /\ chain'[c].goal \in Goal
                 /\ chain'[c].placement => ~bank[chain'[c].goal]
<1>i. Idle.pc = "idle"
  BY DEF Idle
<1>s. DOMAIN chain[c] = Fields
  BY DEF Shaped
<1>w. "context" \in Where /\ "questions" \in Where /\ "resources" \in Where
  BY DEF Where
<1>e. Ends(c) => /\ Shaped' /\ (\A d \in Chain : d # c => chain'[d] = chain[d])
                 /\ alone' = alone \ {c} /\ chain'[c].pc = "idle"
  BY <1>i, EndsTo
<1>o. \A where \in Where : OnTo(c, where) =>
         Shaped' /\ chain'[c].pc = where /\ \A d \in Chain : d # c => chain'[d] = chain[d]
  BY OnToTo
<1>1. CASE ReadContext(c)
  <2>1. UNCHANGED << student, written, days, alone >> /\ At(c, "context")
    BY <1>1 DEF ReadContext, Unread
  <2>2. CASE OnTo(c, "questions")
    BY <1>o, <1>w, <2>1, <2>2 DEF student, days, Running, At
  <2>3. CASE ~OnTo(c, "questions")
    <3>1. \/ Becomes(c, [chain[c] EXCEPT !.pc = "reading", !.review = TRUE, !.goal = active])
          \/ Becomes(c, [chain[c] EXCEPT !.pc = "reading"])
      BY <1>1, <2>3 DEF ReadContext
    <3>2. /\ [chain[c] EXCEPT !.pc = "reading", !.review = TRUE, !.goal = active].pc = "reading"
          /\ DOMAIN [chain[c] EXCEPT !.pc = "reading", !.review = TRUE, !.goal = active] = Fields
          /\ [chain[c] EXCEPT !.pc = "reading"].pc = "reading"
          /\ DOMAIN [chain[c] EXCEPT !.pc = "reading"] = Fields
          /\ "reading" \in Where
      BY <1>s DEF Fields, Where
    <3>3. Shaped' /\ chain'[c].pc = "reading" /\ \A d \in Chain : d # c => chain'[d] = chain[d]
      BY <3>1, <3>2, BecomesTo
    <3>4. QED
      BY <2>1, <3>3 DEF student, days, Running, At
  <2>4. QED
    BY <2>2, <2>3
<1>2. CASE WriteContext(c)
  <2>1. /\ UNCHANGED << student, bank, days >> /\ At(c, "reading")
        /\ Ends(c) \/ (OnTo(c, "questions") /\ alone' = alone)
    BY <1>2 DEF WriteContext
  <2>2. QED
    BY <1>e, <1>o, <1>w, <2>1 DEF student, days, Running, At
<1>3. CASE ReadQuestions(c)
  <2>1. UNCHANGED << student, written, days, alone >> /\ At(c, "questions")
    BY <1>3 DEF ReadQuestions, Unread
  <2>2. CASE OnTo(c, "resources")
    BY <1>o, <1>w, <2>1, <2>2 DEF student, days, Running, At
  <2>3. CASE ~OnTo(c, "resources")
    <3>1. PICK verdict \in Decides(active) :
            /\ ListActive # {}
            /\ Becomes(c, [chain[c] EXCEPT !.pc = "generating", !.goal = active, !.placement = (verdict = "placement")])
      BY <1>3, <2>3 DEF ReadQuestions
    <3>2. active \in Goal
      BY <3>1 DEF ListActive
    <3>3. bank[active] => verdict # "placement"
      BY <3>1, <3>2 DEF Decides
    <3> DEFINE what == [chain[c] EXCEPT !.pc = "generating", !.goal = active, !.placement = (verdict = "placement")]
    <3>4. /\ what.pc = "generating" /\ what.goal = active /\ DOMAIN what = Fields /\ "generating" \in Where
          /\ what.placement = (verdict = "placement")
      BY <1>s DEF Fields, Where
    <3>5. Becomes(c, what)
      BY <3>1
    <3> HIDE DEF what
    <3>6. Shaped' /\ chain'[c] = what /\ \A d \in Chain : d # c => chain'[d] = chain[d]
      BY <3>4, <3>5, BecomesTo
    <3>7. chain'[c].placement => ~bank[chain'[c].goal]
      BY <3>3, <3>4, <3>6
    <3>8. QED
      BY <2>1, <3>2, <3>4, <3>6, <3>7 DEF student, written, days, Running, At
  <2>4. QED
    BY <2>2, <2>3
<1>4. CASE WriteQuestions(c) \/ NoUsableQuestion(c)
  <2>1. /\ UNCHANGED << student, days >> /\ At(c, "generating")
        /\ Ends(c) \/ (OnTo(c, "resources") /\ alone' = alone)
    BY <1>4 DEF WriteQuestions, NoUsableQuestion
  <2>2. QED
    BY <1>e, <1>o, <1>w, <2>1 DEF student, days, Running, At
<1>5. CASE ReadResources(c)
  <2>1. UNCHANGED << student, days >> /\ At(c, "resources")
    BY <1>5 DEF ReadResources
  <2>2. CASE Ends(c)
    BY <1>e, <2>1, <2>2 DEF student, days, Running, At
  <2>3. CASE ~Ends(c)
    <3>1. Becomes(c, [chain[c] EXCEPT !.pc = "searching", !.goal = active]) /\ alone' = alone
      BY <1>5, <2>3 DEF ReadResources
    <3>2. /\ [chain[c] EXCEPT !.pc = "searching", !.goal = active].pc = "searching"
          /\ DOMAIN [chain[c] EXCEPT !.pc = "searching", !.goal = active] = Fields
          /\ "searching" \in Where
      BY <1>s DEF Fields, Where
    <3>3. Shaped' /\ chain'[c].pc = "searching" /\ \A d \in Chain : d # c => chain'[d] = chain[d]
      BY <3>1, <3>2, BecomesTo
    <3>4. QED
      BY <2>1, <3>1, <3>3 DEF student, days, Running, At
  <2>4. QED
    BY <2>2, <2>3
<1>6. CASE ExistingLinks(c)
  <2>1. UNCHANGED << student, days >> /\ At(c, "searching")
    BY <1>6 DEF ExistingLinks
  <2>2. CASE Ends(c)
    BY <1>e, <2>1, <2>2 DEF student, days, Running, At
  <2>3. CASE ~Ends(c)
    <3>1. PICK fresh : Becomes(c, [chain[c] EXCEPT !.pc = "storing", !.fresh = fresh]) /\ alone' = alone
      BY <1>6, <2>3 DEF ExistingLinks
    <3>2. /\ [chain[c] EXCEPT !.pc = "storing", !.fresh = fresh].pc = "storing"
          /\ DOMAIN [chain[c] EXCEPT !.pc = "storing", !.fresh = fresh] = Fields
          /\ "storing" \in Where
      BY <1>s DEF Fields, Where
    <3>3. Shaped' /\ chain'[c].pc = "storing" /\ \A d \in Chain : d # c => chain'[d] = chain[d]
      BY <3>1, <3>2, BecomesTo
    <3>4. QED
      BY <2>1, <3>1, <3>3 DEF student, days, Running, At
  <2>4. QED
    BY <2>2, <2>3
<1>7. CASE WriteResources(c) \/ Fails(c)
  <2>1. UNCHANGED << student, days >> /\ c \in Running /\ Ends(c)
    BY <1>7 DEF WriteResources, Fails, Running, At
  <2>2. QED
    BY <1>e, <2>1 DEF student, days
<1>8. QED
  BY <1>1, <1>2, <1>3, <1>4, <1>5, <1>6, <1>7 DEF Step

-----------------------------------------------------------------------------
(* The chains: the invariant is inductive.                                 *)

\* What a chain's step writes has its type, and nothing is written under a
\* goal that is gone.
LEMMA WrittenStep ==
    ASSUME TypeOK, GoneStaysEmpty, NEW c \in Chain, Step(c) \/ NoUsableQuestion(c) \/ Fails(c)
    PROVE  /\ bank' \in [Goal -> BOOLEAN] /\ pages' \in [Goal -> BOOLEAN] /\ readings' \in BOOLEAN
           /\ \A g \in Goal : goal[g] = "gone" => ~bank'[g] /\ ~pages'[g]
           /\ (\A g \in Goal : bank'[g] => bank[g]) \/ WriteQuestions(c)
           /\ faults' \in 0 .. MaxFaults
<1>t. /\ bank \in [Goal -> BOOLEAN] /\ pages \in [Goal -> BOOLEAN] /\ readings \in BOOLEAN
      /\ \A g \in Goal : goal[g] = "gone" => ~bank[g] /\ ~pages[g]
      /\ faults \in 0 .. MaxFaults
  BY DEF TypeOK, GoneStaysEmpty
<1>1. CASE ReadContext(c) \/ ReadQuestions(c) \/ ReadResources(c) \/ ExistingLinks(c)
  <2>1. UNCHANGED << bank, pages, readings, faults >>
    BY <1>1 DEF ReadContext, ReadQuestions, ReadResources, ExistingLinks, Unread, written
  <2>2. QED
    BY <1>t, <2>1
<1>2. CASE WriteContext(c)
  <2>1. UNCHANGED << bank, pages, faults >>
    BY <1>2 DEF WriteContext
  <2>2. ASSUME NEW review \in Reviews PROVE review.left \in BOOLEAN
    BY <2>2 DEF Reviews
  <2>3. readings' \in BOOLEAN
    BY <1>t, <1>2, <2>2 DEF WriteContext
  <2>4. QED
    BY <1>t, <2>1, <2>3
<1>3. CASE WriteQuestions(c)
  <2>1. UNCHANGED << pages, readings, faults >>
    BY <1>3 DEF WriteQuestions
  <2>2. bank' = bank \/ (goal[chain[c].goal] # "gone" /\ bank' = [bank EXCEPT ![chain[c].goal] = TRUE])
    BY <1>3 DEF WriteQuestions
  <2>3. QED
    BY <1>t, <1>3, <2>1, <2>2
<1>4. CASE NoUsableQuestion(c) \/ Fails(c)
  <2>1. UNCHANGED << bank, pages, readings >> /\ faults < MaxFaults /\ faults' = faults + 1
    BY <1>4 DEF NoUsableQuestion, Fails, written
  <2>2. faults' \in 0 .. MaxFaults
    BY <1>t, <2>1, FaultsAssumption
  <2>3. QED
    BY <1>t, <2>1, <2>2
<1>5. CASE WriteResources(c)
  <2>1. /\ UNCHANGED << bank, readings, faults >>
        /\ pages' = [pages EXCEPT ![chain[c].goal] = (goal[chain[c].goal] # "gone")]
    BY <1>5 DEF WriteResources
  <2>2. pages' \in [Goal -> BOOLEAN]
    BY <1>t, <2>1
  <2>3. ASSUME NEW g \in Goal, goal[g] = "gone" PROVE ~pages'[g]
    BY <1>t, <2>1, <2>3
  <2>4. QED
    BY <1>t, <2>1, <2>2, <2>3
<1>6. QED
  BY <1>1, <1>2, <1>3, <1>4, <1>5 DEF Step

\* A chain that starts keeps everybody's place.
LEMMA StartStep ==
    ASSUME IInv, NEW resources, Starts(resources), \A g \in Goal : bank'[g] => bank[g]
    PROVE  /\ Shaped' /\ Lone' /\ Places' /\ alone' \subseteq Running'
           /\ \A c \in Chain : At(c, "generating")' => chain'[c].goal \in Goal
           /\ faults' \in 0 .. MaxFaults
<1>1. PICK c \in Chain :
         /\ Shaped' /\ chain[c].pc = "idle" /\ chain'[c].pc = "context"
         /\ \A d \in Chain : d # c => chain'[d] = chain[d]
         /\ alone' = IF Running = {} THEN {c} ELSE {}
         /\ faults' = faults \/ (faults < MaxFaults /\ faults' = faults + 1)
  BY StartsTo DEF IInv
<1>2. Running = {} => Running' = {c}
  BY <1>1 DEF Running
<1>3. Lone' /\ alone' \subseteq Running'
  <2>1. CASE Running = {}
    BY <1>1, <1>2, <2>1 DEF Lone
  <2>2. CASE Running # {}
    BY <1>1, <2>2 DEF Lone
  <2>3. QED
    BY <2>1, <2>2
<1>4. Places'
  <2>1. \A d \in alone' : chain'[d].pc = "context"
    BY <1>1
  <2>2. QED
    BY <2>1 DEF Places, At
<1>5. ASSUME NEW d \in Chain, At(d, "generating")' PROVE chain'[d].goal \in Goal
  BY <1>1, <1>5 DEF IInv, TypeOK, At
<1>6. faults' \in 0 .. MaxFaults
  <2>1. faults \in 0 .. MaxFaults
    BY DEF IInv, TypeOK
  <2>2. QED
    BY <1>1, <2>1, FaultsAssumption
<1>7. QED
  BY <1>1, <1>3, <1>4, <1>5, <1>6

\* While no chain moves, everybody keeps his place.
LEMMA StillStep ==
    ASSUME IInv, UNCHANGED << chain, alone >>, \A g \in Goal : bank'[g] => bank[g]
    PROVE  /\ Shaped' /\ Lone' /\ Places' /\ alone' \subseteq Running'
           /\ \A c \in Chain : At(c, "generating")' => chain'[c].goal \in Goal
<1>1. Running' = Running
  BY DEF Running
<1>2. Shaped' /\ Lone' /\ alone' \subseteq Running'
  BY <1>1 DEF IInv, TypeOK, Shaped, Lone
<1>3. \A c \in Chain : At(c, "generating") => chain[c].goal \in Goal
  BY DEF IInv, TypeOK
<1>4. Places'
  BY <1>3 DEF IInv, TypeOK, Places, At, Running
<1>5. QED
  BY <1>2, <1>3, <1>4 DEF At

LEMMA MoveStep ==
    ASSUME IInv, NEW c \in Chain, Step(c) \/ NoUsableQuestion(c) \/ Fails(c)
    PROVE  /\ Shaped' /\ Lone' /\ Places' /\ alone' \subseteq Running'
           /\ \A d \in Chain : At(d, "generating")' => chain'[d].goal \in Goal
<1>1. /\ Shaped' /\ c \in Running /\ (\A d \in Chain : d # c => chain'[d] = chain[d])
      /\ \/ alone' = alone /\ chain'[c].pc # "idle"
         \/ alone' = alone \ {c} /\ chain'[c].pc = "idle"
      /\ chain'[c].pc = "generating" =>
            /\ bank' = bank /\ chain'[c].goal \in Goal
            /\ chain'[c].placement => ~bank[chain'[c].goal]
  BY ChainStep DEF IInv
<1>2. \A d \in Chain : d # c => (d \in Running' <=> d \in Running)
  BY <1>1 DEF Running
<1>3. alone' \subseteq alone /\ alone \subseteq Running /\ alone' \subseteq Running'
  BY <1>1, <1>2 DEF IInv, TypeOK, Running
<1>4. Lone'
  <2> SUFFICES ASSUME NEW a \in alone', NEW d \in Running' PROVE a \in Running' /\ d = a
    BY <1>3 DEF Lone
  <2>1. d \in Running
    BY <1>1, <1>2 DEF Running
  <2>2. QED
    BY <1>3, <2>1 DEF IInv, Lone
<1>5. Places'
  <2> SUFFICES ASSUME NEW a \in alone', chain'[a].pc = "generating", chain'[a].placement PROVE ~bank'[chain'[a].goal]
    BY DEF Places, At
  <2>1. a = c
    BY <1>1, <1>3 DEF IInv, Lone
  <2>2. QED
    BY <1>1, <2>1
<1>6. ASSUME NEW d \in Chain, At(d, "generating")' PROVE chain'[d].goal \in Goal
  BY <1>1, <1>6 DEF IInv, TypeOK, At
<1>7. QED
  BY <1>1, <1>3, <1>4, <1>5, <1>6

LEMMA IInvStep == IInv /\ [Next]_vars => IInv'
<1> SUFFICES ASSUME IInv, [Next]_vars PROVE IInv'
  OBVIOUS
<1>t. /\ goal \in [Goal -> {"none", "live", "gone"}] /\ active \in Goal \cup {None}
      /\ (active # None => goal[active] = "live")
      /\ bank \in [Goal -> BOOLEAN] /\ pages \in [Goal -> BOOLEAN] /\ readings \in BOOLEAN
      /\ answers \in [Goal -> {"none", "few", "enough"}]
      /\ recent \subseteq Goal /\ night \in BOOLEAN
      /\ \A g \in recent : goal[g] = "live" /\ answers[g] # "none"
      /\ faults \in 0 .. MaxFaults
      /\ \A g \in Goal : goal[g] = "gone" => ~bank[g] /\ ~pages[g] /\ active # g
  BY DEF IInv, TypeOK, GoneStaysEmpty
<1>1. ASSUME NEW g \in Goal, CreateGoal(g) PROVE IInv'
  <2>1. /\ goal[g] = "none" /\ goal' = [goal EXCEPT ![g] = "live"] /\ active' = g /\ Starts(TRUE)
        /\ UNCHANGED << answers, bank, pages, readings, recent, night >>
    BY <1>1 DEF CreateGoal, written, days
  <2>2. /\ Shaped' /\ Lone' /\ Places' /\ alone' \subseteq Running'
        /\ \A c \in Chain : At(c, "generating")' => chain'[c].goal \in Goal
        /\ faults' \in 0 .. MaxFaults
    BY <2>1, StartStep
  <2>3. TypeOK'
    BY <1>t, <2>1, <2>2 DEF TypeOK
  <2>4. GoneStaysEmpty'
    BY <1>t, <2>1 DEF GoneStaysEmpty
  <2>5. QED
    BY <2>2, <2>3, <2>4 DEF IInv
<1>2. ASSUME NEW g \in Goal, SetActive(g) PROVE IInv'
  <2>1. /\ goal[g] = "live" /\ active' = g
        /\ UNCHANGED << goal, answers, bank, pages, readings, recent, night, chain, alone, faults >>
    BY <1>2 DEF SetActive, written, days
  <2>2. /\ Shaped' /\ Lone' /\ Places' /\ alone' \subseteq Running'
        /\ \A c \in Chain : At(c, "generating")' => chain'[c].goal \in Goal
    BY <2>1, StillStep
  <2>3. TypeOK'
    BY <1>t, <2>1, <2>2 DEF TypeOK
  <2>4. GoneStaysEmpty'
    BY <1>t, <2>1 DEF GoneStaysEmpty
  <2>5. QED
    BY <2>2, <2>3, <2>4 DEF IInv
<1>3. ASSUME NEW g \in Goal, DeleteGoal(g) PROVE IInv'
  <2>1. /\ goal' = [goal EXCEPT ![g] = "gone"] /\ active' = (IF active = g THEN None ELSE active)
        /\ bank' = [bank EXCEPT ![g] = FALSE] /\ pages' = [pages EXCEPT ![g] = FALSE]
        /\ answers' = [answers EXCEPT ![g] = "none"]
        /\ recent' = recent \ {g}
        /\ UNCHANGED << readings, night, chain, alone, faults >>
    BY <1>3 DEF DeleteGoal
  <2>2. \A h \in Goal : bank'[h] => bank[h]
    BY <1>t, <2>1
  <2>3. /\ Shaped' /\ Lone' /\ Places' /\ alone' \subseteq Running'
        /\ \A c \in Chain : At(c, "generating")' => chain'[c].goal \in Goal
    BY <2>1, <2>2, StillStep
  <2>4. \A h \in recent' : goal'[h] = "live" /\ answers'[h] # "none"
    BY <1>t, <2>1
  <2>5. /\ goal' \in [Goal -> {"none", "live", "gone"}] /\ active' \in Goal \cup {None}
        /\ (active' # None => goal'[active'] = "live")
        /\ bank' \in [Goal -> BOOLEAN] /\ pages' \in [Goal -> BOOLEAN]
        /\ answers' \in [Goal -> {"none", "few", "enough"}]
    BY <1>t, <2>1
  <2>6. TypeOK'
    BY <1>t, <2>1, <2>3, <2>4, <2>5 DEF TypeOK
  <2>7. GoneStaysEmpty'
    BY <1>t, <2>1, NoneAssumption DEF GoneStaysEmpty
  <2>8. QED
    BY <2>3, <2>6, <2>7 DEF IInv
<1>4. CASE Study
  <2>1. PICK much \in {"few", "enough"} : answers' = [answers EXCEPT ![active] = much]
    BY <1>4 DEF Study
  <2>2. /\ active \in Goal /\ recent' = recent \cup {active} /\ goal[active] = "live"
        /\ UNCHANGED << goal, active, bank, pages, readings, night, chain, alone, faults >>
    BY <1>t, <1>4 DEF Study, written
  <2>3. /\ answers' \in [Goal -> {"none", "few", "enough"}]
        /\ \A h \in recent' : goal'[h] = "live" /\ answers'[h] # "none"
    BY <1>t, <2>1, <2>2
  <2>4. /\ Shaped' /\ Lone' /\ Places' /\ alone' \subseteq Running'
        /\ \A c \in Chain : At(c, "generating")' => chain'[c].goal \in Goal
    BY <2>2, StillStep
  <2>5. TypeOK'
    BY <1>t, <2>2, <2>3, <2>4 DEF TypeOK
  <2>6. GoneStaysEmpty'
    BY <1>t, <2>2 DEF GoneStaysEmpty
  <2>7. QED
    BY <2>4, <2>5, <2>6 DEF IInv
<1>5. CASE NightFalls \/ Night
  <2>1. (\E monday \in BOOLEAN : Starts(monday)) \/ UNCHANGED << chain, alone, faults >>
    BY <1>5 DEF NightFalls, Night
  <2>2. /\ recent' \subseteq recent /\ night' \in BOOLEAN
        /\ UNCHANGED << goal, active, answers, bank, pages, readings >>
    BY <1>5 DEF NightFalls, Night, student, written
  <2>3. /\ Shaped' /\ Lone' /\ Places' /\ alone' \subseteq Running'
        /\ \A c \in Chain : At(c, "generating")' => chain'[c].goal \in Goal
        /\ faults' \in 0 .. MaxFaults
    BY <1>t, <2>1, <2>2, StartStep, StillStep
  <2>4. TypeOK'
    BY <1>t, <2>2, <2>3 DEF TypeOK
  <2>5. GoneStaysEmpty'
    BY <1>t, <2>2 DEF GoneStaysEmpty
  <2>6. QED
    BY <2>3, <2>4, <2>5 DEF IInv
<1>6. ASSUME NEW c \in Chain, Step(c) \/ NoUsableQuestion(c) \/ Fails(c) PROVE IInv'
  <2>1. UNCHANGED << goal, active, answers, recent, night >>
    BY <1>6, ChainStep DEF IInv
  <2>2. /\ bank' \in [Goal -> BOOLEAN] /\ pages' \in [Goal -> BOOLEAN] /\ readings' \in BOOLEAN
        /\ \A g \in Goal : goal[g] = "gone" => ~bank'[g] /\ ~pages'[g]
        /\ faults' \in 0 .. MaxFaults
    BY <1>6, WrittenStep DEF IInv
  <2>3. /\ Shaped' /\ Lone' /\ Places' /\ alone' \subseteq Running'
        /\ \A d \in Chain : At(d, "generating")' => chain'[d].goal \in Goal
    BY <1>6, MoveStep
  <2>4. TypeOK'
    BY <1>t, <2>1, <2>2, <2>3 DEF TypeOK
  <2>5. GoneStaysEmpty'
    BY <1>t, <2>1, <2>2 DEF GoneStaysEmpty
  <2>6. QED
    BY <2>3, <2>4, <2>5 DEF IInv
<1>7. CASE UNCHANGED vars
  BY <1>7 DEF vars, student, written, days, IInv, TypeOK, Answered, Shaped, Lone, Places, GoneStaysEmpty, At, Running
<1>8. QED
  BY <1>1, <1>2, <1>3, <1>4, <1>5, <1>6, <1>7 DEF Next

LEMMA IInvInit == Init => IInv
<1> SUFFICES ASSUME Init PROVE IInv
  OBVIOUS
<1>1. \A c \in Chain : chain[c].pc = "idle" /\ DOMAIN chain[c] = Fields
  BY DEF Init, Idle, Fields
<1>2. TypeOK
  <2>1. /\ goal \in [Goal -> {"none", "live", "gone"}] /\ active = None
        /\ bank \in [Goal -> BOOLEAN] /\ pages \in [Goal -> BOOLEAN] /\ readings \in BOOLEAN
        /\ answers \in [Goal -> {"none", "few", "enough"}]
        /\ recent = {} /\ night = FALSE /\ alone = {} /\ faults = 0
    BY DEF Init
  <2>2. faults \in 0 .. MaxFaults
    BY <2>1, FaultsAssumption
  <2>3. QED
    BY <1>1, <2>1, <2>2 DEF TypeOK, At
<1>3. Shaped /\ Lone /\ Places /\ GoneStaysEmpty
  BY <1>1 DEF Init, Shaped, Lone, Places, GoneStaysEmpty, Where
<1>4. QED
  BY <1>2, <1>3 DEF IInv

\* IInv holds in every state of every behaviour: it is true at first and no
\* step breaks it.
THEOREM Inductive == Spec => []IInv
BY IInvInit, IInvStep, PTL DEF Spec

\* Every variable keeps its type; the active goal is a live one, the goals he
\* answered on of late are live and have answers, and only running chains are alone.
THEOREM TypeCorrect == Spec => []TypeOK
<1>1. IInv => TypeOK
  BY DEF IInv
<1>2. QED
  BY Inductive, <1>1, PTL

\* A chain that waited minutes for its questions or pages stores nothing under
\* a goal that was deleted meanwhile.
THEOREM NothingUnderTheGone == Spec => []GoneStaysEmpty
<1>1. IInv => GoneStaysEmpty
  BY DEF IInv
<1>2. QED
  BY Inductive, <1>1, PTL

\* A goal gets its placement batch once, unless two of the student's chains
\* ran beside each other.
THEOREM PlacementOnce == Spec => PlacedOnce
<1>1. IInv /\ [Next]_vars =>
        [\A c \in Chain : WriteQuestions(c) /\ chain[c].placement /\ c \in alone => ~bank[chain[c].goal]]_vars
  BY DEF IInv, Places, WriteQuestions
<1>2. QED
  BY Inductive, <1>1, PTL DEF Spec, PlacedOnce

-----------------------------------------------------------------------------
(* A page is stored once.                                                  *)

\* A chain that searches or stores does so for a goal; one that is to store
\* something found once, and that the goal has not, if no other ran beside it.
Stores ==
    \A c \in Chain :
       /\ At(c, "searching") \/ At(c, "storing") => chain[c].goal \in Goal
       /\ c \in alone /\ At(c, "storing") => ~pages[chain[c].goal] /\ chain[c].fresh = 1

\* A chain comes to store what is new to the goal at that moment.
LEMMA SearchStep ==
    ASSUME IInv, Stores, NEW c \in Chain, Step(c) \/ NoUsableQuestion(c) \/ Fails(c),
           chain'[c].pc \in {"searching", "storing"}
    PROVE  /\ chain'[c].goal \in Goal /\ pages' = pages
           /\ chain'[c].pc = "storing" => ~pages[chain'[c].goal] /\ chain'[c].fresh = 1
<1>1. TypeOK /\ Shaped /\ DOMAIN chain[c] = Fields /\ DOMAIN chain = Chain
  BY DEF IInv, Shaped
<1>2. ~Ends(c)
  BY <1>1, EndsTo DEF Idle
<1>3. \A where \in {"questions", "resources"} : ~OnTo(c, where)
  BY <1>1, OnToTo DEF Where
<1>4. CASE ReadContext(c)
  <2>1. \/ Becomes(c, [chain[c] EXCEPT !.pc = "reading", !.review = TRUE, !.goal = active])
        \/ Becomes(c, [chain[c] EXCEPT !.pc = "reading"])
    BY <1>3, <1>4 DEF ReadContext
  <2>2. chain'[c].pc = "reading"
    BY <1>1, <2>1 DEF Becomes, Fields
  <2>3. QED
    BY <2>2
<1>5. CASE ReadQuestions(c)
  <2>1. PICK verdict \in Decides(active) :
          Becomes(c, [chain[c] EXCEPT !.pc = "generating", !.goal = active, !.placement = (verdict = "placement")])
    BY <1>3, <1>5 DEF ReadQuestions
  <2>2. chain'[c].pc = "generating"
    BY <1>1, <2>1 DEF Becomes, Fields
  <2>3. QED
    BY <2>2
<1>6. CASE ReadResources(c)
  <2>1. /\ Becomes(c, [chain[c] EXCEPT !.pc = "searching", !.goal = active]) /\ ListActive # {}
        /\ pages' = pages
    BY <1>2, <1>6 DEF ReadResources, written
  <2>2. active \in Goal
    BY <2>1 DEF ListActive
  <2>3. chain'[c].pc = "searching" /\ chain'[c].goal = active
    BY <1>1, <2>1 DEF Becomes, Fields
  <2>4. QED
    BY <2>1, <2>2, <2>3
<1>7. CASE ExistingLinks(c)
  <2>1. At(c, "searching") /\ pages' = pages
    BY <1>7 DEF ExistingLinks, written
  <2>2. chain[c].goal \in Goal /\ pages[chain[c].goal] \in BOOLEAN
    BY <1>1, <2>1 DEF Stores, TypeOK
  <2>3. PICK links \in Finds :
          LET held  == IF pages[chain[c].goal] THEN {"page"} ELSE {}
              fresh == Tally(Fresh(links, held), LAMBDA link : link = "page")
          IN  /\ fresh # 0
              /\ Becomes(c, [chain[c] EXCEPT !.pc = "storing", !.fresh = fresh])
    BY <1>2, <1>7 DEF ExistingLinks
  <2>4. Becomes(c, [chain[c] EXCEPT !.pc = "storing", !.fresh = 1]) /\ ~pages[chain[c].goal]
    BY <2>2, <2>3, NewOnce
  <2>5. chain'[c].pc = "storing" /\ chain'[c].goal = chain[c].goal /\ chain'[c].fresh = 1
    BY <1>1, <2>4 DEF Becomes, Fields
  <2>6. QED
    BY <2>1, <2>2, <2>4, <2>5
<1>8. CASE WriteContext(c) \/ WriteQuestions(c) \/ NoUsableQuestion(c) \/ WriteResources(c) \/ Fails(c)
  BY <1>2, <1>3, <1>8 DEF WriteContext, WriteQuestions, NoUsableQuestion, WriteResources, Fails
<1>9. QED
  BY <1>4, <1>5, <1>6, <1>7, <1>8 DEF Step

LEMMA StoresStep == IInv /\ Stores /\ [Next]_vars => Stores'
<1> SUFFICES ASSUME IInv, Stores, [Next]_vars PROVE Stores'
  OBVIOUS
<1>1. ASSUME UNCHANGED << chain, alone >>, \A g \in Goal : pages'[g] => pages[g] PROVE Stores'
  BY <1>1 DEF Stores, At
<1>2. ASSUME NEW resources, Starts(resources) PROVE Stores'
  <2>1. PICK c \in Chain :
           /\ chain'[c].pc = "context" /\ \A d \in Chain : d # c => chain'[d] = chain[d]
           /\ alone' = IF Running = {} THEN {c} ELSE {}
    BY <1>2, StartsTo DEF IInv
  <2>2. QED
    BY <2>1 DEF Stores, At
<1>3. ASSUME NEW g \in Goal, CreateGoal(g) PROVE Stores'
  BY <1>2, <1>3 DEF CreateGoal
<1>4. ASSUME NEW g \in Goal, SetActive(g) PROVE Stores'
  BY <1>1, <1>4 DEF SetActive, written
<1>5. ASSUME NEW g \in Goal, DeleteGoal(g) PROVE Stores'
  <2>1. UNCHANGED << chain, alone >> /\ pages' = [pages EXCEPT ![g] = FALSE]
    BY <1>5 DEF DeleteGoal
  <2>2. \A h \in Goal : pages'[h] => pages[h]
    BY <2>1 DEF IInv, TypeOK
  <2>3. QED
    BY <1>1, <2>1, <2>2
<1>6. CASE Study
  BY <1>1, <1>6 DEF Study, written
<1>7. CASE NightFalls \/ Night
  <2>1. (\E monday \in BOOLEAN : Starts(monday)) \/ (UNCHANGED << chain, alone >> /\ pages' = pages)
    BY <1>7 DEF NightFalls, Night, written
  <2>2. QED
    BY <1>1, <1>2, <2>1
<1>8. ASSUME NEW c \in Chain, Step(c) \/ NoUsableQuestion(c) \/ Fails(c) PROVE Stores'
  <2>1. /\ c \in Running /\ (\A d \in Chain : d # c => chain'[d] = chain[d])
        /\ alone' \subseteq alone
    BY <1>8, ChainStep DEF IInv
  <2>2. \A d \in alone : d = c
    BY <2>1 DEF IInv, Lone
  <2>3. ASSUME NEW d \in Chain, At(d, "searching")' \/ At(d, "storing")' PROVE chain'[d].goal \in Goal
    <3>1. CASE d = c
      BY <1>8, <2>3, <3>1, SearchStep DEF At
    <3>2. CASE d # c
      BY <2>1, <2>3, <3>2 DEF Stores, At
    <3>3. QED
      BY <3>1, <3>2
  <2>4. ASSUME NEW d \in Chain, d \in alone', At(d, "storing")'
        PROVE  ~pages'[chain'[d].goal] /\ chain'[d].fresh = 1
    BY <1>8, <2>1, <2>2, <2>4, SearchStep DEF At
  <2>5. QED
    BY <2>3, <2>4 DEF Stores
<1>9. CASE UNCHANGED vars
  BY <1>1, <1>9 DEF vars, written
<1>10. QED
  BY <1>3, <1>4, <1>5, <1>6, <1>7, <1>8, <1>9 DEF Next

\* A goal holds a page once, unless two of the student's chains ran beside
\* each other: what a search finds again, by another link or in another pass,
\* is not stored again (steps/resources.py:76-91).
THEOREM PagesOnce == Spec => PageOnce
<1>1. Init => Stores
  BY DEF Init, Stores, At, Idle
<1>2. IInv /\ Stores /\ [Next]_vars =>
        [\A c \in Chain :
           WriteResources(c) /\ c \in alone => ~pages[chain[c].goal] /\ chain[c].fresh = 1]_vars
  BY DEF Stores, WriteResources
<1>3. QED
  BY <1>1, <1>2, StoresStep, Inductive, PTL DEF Spec, PageOnce

-----------------------------------------------------------------------------
(* The onboarding is read back as it was told.                             *)

\* What he wrote and replied, and what he picked, as pairs.
Given(replies) ==
    << << "prompt", "words" >> >> \o [n \in DOMAIN replies |-> << replies[n].question, replies[n].answer >>]

Picked(known) == [n \in DOMAIN known |-> << known[n].question, known[n].option >>]

\* A prompt reads two batches of rows one after the other.
LEMMA ToldUsJoins ==
    ASSUME NEW X, NEW a \in Seq(X), NEW b \in Seq(X)
    PROVE  ToldUs(a \o b) = ToldUs(a) \o ToldUs(b)
<1> DEFINE W == {<< x.question, AnswerOf(x) >> : x \in X}
           c == a \o b
<1>1. ASSUME NEW s \in Seq(X)
      PROVE  /\ ToldUs(s) \in Seq(W) /\ Len(ToldUs(s)) = Len(s)
             /\ \A i \in 1 .. Len(s) : ToldUs(s)[i] = << s[i].question, AnswerOf(s[i]) >>
  <2>1. DOMAIN s = 1 .. Len(s) /\ \A i \in DOMAIN s : s[i] \in X
    OBVIOUS
  <2>2. \A i \in DOMAIN s : << s[i].question, AnswerOf(s[i]) >> \in W
    BY <2>1
  <2>3. ToldUs(s) = [i \in DOMAIN s |-> << s[i].question, AnswerOf(s[i]) >>]
    BY DEF ToldUs
  <2> HIDE DEF W
  <2>4. QED
    BY <2>1, <2>2, <2>3, MappedSeq
<1>2. /\ c \in Seq(X) /\ Len(c) = Len(a) + Len(b) /\ Len(a) \in Nat /\ Len(b) \in Nat
      /\ \A i \in 1 .. Len(a) : c[i] = a[i]
      /\ \A i \in Len(a) + 1 .. Len(a) + Len(b) : c[i] = b[i - Len(a)]
  BY ConcatProperties
<1> HIDE DEF W, c
<1>3. ASSUME NEW i \in 1 .. Len(a) PROVE ToldUs(c)[i] = ToldUs(a)[i]
  <2>1. i \in 1 .. Len(c) /\ c[i] = a[i]
    BY <1>2
  <2>2. QED
    BY <1>1, <1>2, <2>1
<1>4. ASSUME NEW i \in Len(a) + 1 .. Len(a) + Len(b) PROVE ToldUs(c)[i] = ToldUs(b)[i - Len(a)]
  <2>1. i - Len(a) \in 1 .. Len(b) /\ i \in 1 .. Len(c)
    BY <1>2
  <2>2. QED
    BY <1>1, <1>2, <2>1
<1>5. ToldUs(c) \in Seq(W) /\ ToldUs(a) \in Seq(W) /\ ToldUs(b) \in Seq(W)
  BY <1>1, <1>2
<1>6. /\ Len(ToldUs(c)) = Len(a) + Len(b)
      /\ Len(ToldUs(a)) = Len(a) /\ Len(ToldUs(b)) = Len(b)
  BY <1>1, <1>2
<1> DEFINE u == ToldUs(c)
           v == ToldUs(a)
           w == ToldUs(b)
<1>9. /\ Len(u) = Len(v) + Len(w) /\ \A i \in 1 .. Len(v) : u[i] = v[i]
      /\ \A i \in Len(v) + 1 .. Len(v) + Len(w) : u[i] = w[i - Len(v)]
  BY <1>3, <1>4, <1>6
<1>7. ToldUs(c) = ToldUs(a) \o ToldUs(b)
  <2> HIDE DEF u, v, w
  <2>1. u = v \o w
    BY <1>5, <1>9, JoinedIs DEF u, v, w
  <2>2. QED
    BY <2>1 DEF u, v, w
<1>8. QED
  BY <1>7 DEF c

\* A row that keeps one answer is read as that answer.
LEMMA OneAnswer ==
    ASSUME NEW question, NEW answer, NEW index \in {None, 0}, NEW author, NEW moment
    PROVE  /\ Row(question, answer, index, author, moment).at = moment
           /\ Row(question, answer, index, author, moment).question = question
           /\ AnswerOf(Row(question, answer, index, author, moment)) = answer
<1> DEFINE row == Row(question, answer, index, author, moment)
           options == << answer, "", "", "" >>
<1>1. row = [question |-> question, options |-> options, index |-> index, author |-> author, at |-> moment]
  BY DEF Row
<1>2. options[1] = answer
  OBVIOUS
<1> HIDE DEF row, options
<1>3. row.at = moment /\ row.question = question /\ row.index = index /\ row.options = options
  BY <1>1
<1>4. AnswerOf(row) = answer
  <2>1. CASE index = None
    BY <1>2, <1>3, <2>1 DEF AnswerOf
  <2>2. CASE index # None
    <3>1. index + 1 = 1
      BY <2>2
    <3>2. QED
      BY <1>2, <1>3, <2>2, <3>1 DEF AnswerOf
  <2>3. QED
    BY <2>1, <2>2
<1>5. QED
  BY <1>3, <1>4 DEF row

\* The rows of what he wrote, as a prompt reads them.
LEMMA FirstTold ==
    ASSUME NEW P, NEW replies \in Seq(P), NEW moment
    PROVE  /\ \E X : SaveOnboarding("words", replies, moment) \in Seq(X)
           /\ \A i \in 1 .. Len(SaveOnboarding("words", replies, moment)) :
                 SaveOnboarding("words", replies, moment)[i].at = moment
           /\ ToldUs(SaveOnboarding("words", replies, moment)) = Given(replies)
<1> DEFINE own == Row("prompt", "words", None, "system", moment)
           author(i) == IF replies[i].model = None THEN "unknown" ELSE replies[i].model
           their == [i \in DOMAIN replies |->
                       Row(replies[i].question, replies[i].answer, 0, author(i), moment)]
           heard == [i \in DOMAIN replies |-> << replies[i].question, replies[i].answer >>]
           start == << own >>
           first == start \o their
           n == Len(replies)
           Y == {their[i] : i \in 1 .. n} \cup {own}
<1>1. n \in Nat /\ DOMAIN replies = 1 .. n
  OBVIOUS
<1>2. own.at = moment /\ own.question = "prompt" /\ AnswerOf(own) = "words"
  BY OneAnswer
<1>3. ASSUME NEW i \in 1 .. n
      PROVE  /\ their[i].at = moment /\ their[i].question = replies[i].question
             /\ AnswerOf(their[i]) = replies[i].answer
  <2> HIDE DEF author
  <2>1. their[i] = Row(replies[i].question, replies[i].answer, 0, author(i), moment)
    BY <1>1
  <2> HIDE DEF their
  <2>2. QED
    BY <2>1, OneAnswer
<1>4. their = [i \in DOMAIN replies |-> their[i]] /\ \A i \in DOMAIN replies : their[i] \in Y
  <2> HIDE DEF author, own
  <2>1. QED
    BY <1>1
<1>5. own \in Y
  OBVIOUS
<1> HIDE DEF own, their, Y, author
<1>6. their \in Seq(Y) /\ Len(their) = n
  BY <1>4, MappedSeq
<1>7. start \in Seq(Y) /\ Len(start) = 1 /\ start[1] = own
  BY <1>5
<1>8. ToldUs(their) = heard
  BY <1>1, <1>3, <1>4 DEF ToldUs
<1>9. ToldUs(start) = << << "prompt", "words" >> >>
  <2>1. DOMAIN start = 1 .. 1 /\ \A i \in 1 .. 1 : i = 1
    OBVIOUS
  <2>2. ToldUs(start) = [i \in 1 .. 1 |-> << own.question, AnswerOf(own) >>]
    BY <2>1 DEF ToldUs
  <2>3. QED
    BY <1>2, <2>2
<1> HIDE DEF start
<1>10. ToldUs(first) = Given(replies)
  <2>1. ToldUs(first) = ToldUs(start) \o ToldUs(their)
    BY <1>6, <1>7, ToldUsJoins
  <2>2. QED
    BY <1>8, <1>9, <2>1, Zenon DEF Given
<1>11. first \in Seq(Y) /\ \A i \in 1 .. Len(first) : first[i].at = moment
  <2>1. /\ first \in Seq(Y) /\ Len(first) = 1 + n
        /\ \A i \in 1 .. 1 + n : first[i] = IF i <= 1 THEN start[i] ELSE their[i - 1]
    <3>0. start \in Seq(Y) /\ their \in Seq(Y)
      BY <1>6, <1>7
    <3>1. /\ first \in Seq(Y) /\ Len(first) = Len(start) + Len(their)
          /\ \A i \in 1 .. Len(start) + Len(their) :
                first[i] = IF i <= Len(start) THEN start[i] ELSE their[i - Len(start)]
      BY <3>0, ConcatProperties
    <3>2. QED
      BY <1>6, <1>7, <3>1
  <2>2. ASSUME NEW i \in 1 .. 1 + n PROVE first[i].at = moment
    <3>1. CASE i = 1
      BY <1>2, <1>7, <2>1, <3>1
    <3>2. CASE i # 1
      <4>1. i - 1 \in 1 .. n /\ ~(i <= 1)
        BY <1>1, <3>2
      <4>2. first[i] = their[i - 1]
        BY <2>1, <4>1
      <4>3. QED
        BY <1>3, <4>1, <4>2
    <3>3. QED
      BY <3>1, <3>2
  <2>3. QED
    BY <2>1, <2>2
<1>12. SaveOnboarding("words", replies, moment) = first
  BY DEF start, own, their, author, SaveOnboarding
<1> HIDE DEF first
<1>13. QED
  BY <1>10, <1>11, <1>12

\* Each standard question has four options.
LEMMA FourOptions == \A q \in DOMAIN StandardQuestions : DOMAIN StandardQuestions[q] = 1 .. 4
<1>1. DOMAIN StandardQuestions = {"age", "time"}
  BY DEF StandardQuestions
<1>2. DOMAIN StandardQuestions["age"] = 1 .. 4
  BY DEF StandardQuestions
<1>3. DOMAIN StandardQuestions["time"] = 1 .. 4
  BY DEF StandardQuestions
<1>4. QED
  BY <1>1, <1>2, <1>3

\* The rows of the standard answers, as a prompt reads them.
LEMMA StandardTold ==
    ASSUME NEW Q, NEW picks \in Seq(Q), NEW moment
    PROVE  /\ \E X : SaveStandardAnswers(picks, moment) \in Seq(X)
           /\ \A i \in 1 .. Len(SaveStandardAnswers(picks, moment)) : SaveStandardAnswers(picks, moment)[i].at = moment
           /\ ToldUs(SaveStandardAnswers(picks, moment)) =
                 Picked(Kept(picks, {pick \in ToSet(picks) : Known(pick)}))
<1> DEFINE rows  == SaveStandardAnswers(picks, moment)
           S == {pick \in ToSet(picks) : Known(pick)}
           known == Kept(picks, S)
<1>1. known \in Seq(Q) /\ \A i \in DOMAIN known : Known(known[i])
  <2>1. known \in Seq(Q) /\ \A i \in DOMAIN known : known[i] \in S
    <3> HIDE DEF S
    <3>1. QED
      BY KeptSeq, KeptIn
  <2>2. \A x \in S : Known(x)
    OBVIOUS
  <2> HIDE DEF known, S
  <2>3. QED
    BY <2>1, <2>2
<1>2. ASSUME NEW i \in DOMAIN known
      PROVE  /\ rows[i].at = moment /\ rows[i].question = known[i].question
             /\ AnswerOf(rows[i]) = known[i].option
  <2> DEFINE options == StandardQuestions[known[i].question]
             place == CHOOSE k \in 1 .. 4 : options[k] = known[i].option
  <2>1. rows[i] = [question |-> known[i].question, options |-> options, author |-> "system", at |-> moment,
                   index |-> place - 1]
    BY DEF SaveStandardAnswers
  <2>2. known[i].question \in DOMAIN StandardQuestions /\ known[i].option \in ToSet(options)
    <3> HIDE DEF known
    <3>1. QED
      BY <1>1 DEF Known
  <2>3. DOMAIN options = 1 .. 4
    <3> HIDE DEF known
    <3>1. QED
      BY <2>2, FourOptions
  <2> HIDE DEF options, known, rows
  <2>4. \E k \in 1 .. 4 : options[k] = known[i].option
    BY <2>2, <2>3 DEF ToSet
  <2>5. place \in 1 .. 4 /\ options[place] = known[i].option
    BY <2>4
  <2> HIDE DEF place
  <2>6. place - 1 # None /\ (place - 1) + 1 = place
    BY <2>5, NothingAssumption
  <2>7. /\ rows[i].at = moment /\ rows[i].question = known[i].question
        /\ rows[i].index = place - 1 /\ rows[i].options = options
    BY <2>1
  <2>8. QED
    BY <2>5, <2>6, <2>7 DEF AnswerOf
<1>3. rows = [i \in DOMAIN known |-> rows[i]]
  BY DEF SaveStandardAnswers
<1> HIDE DEF rows, known
<1> DEFINE Y == {rows[i] : i \in DOMAIN known}
<1>4. rows \in Seq(Y) /\ Len(rows) = Len(known)
  <2>1. \A i \in DOMAIN known : rows[i] \in Y
    OBVIOUS
  <2> HIDE DEF Y
  <2>2. QED
    BY <1>1, <1>3, <2>1, MappedSeq
<1>5. DOMAIN rows = DOMAIN known
  BY <1>3
<1>6. \A i \in 1 .. Len(rows) : rows[i].at = moment
  <2> HIDE DEF Y
  <2>1. QED
    BY <1>2, <1>4, <1>5
<1>7. ToldUs(rows) = Picked(known)
  BY <1>2, <1>5 DEF ToldUs, Picked
<1>8. QED
  <2> HIDE DEF Y
  <2>1. QED
    BY <1>4, <1>6, <1>7 DEF rows, known

\* A prompt reads the replies as they were given, and the standard answers only
\* when it asks for what came later: whatever he replied and however much.
THEOREM ToldBack ==
    ASSUME NEW P, NEW replies \in Seq(P), NEW Q, NEW picks \in Seq(Q)
    PROVE  LET rows == SaveOnboarding("words", replies, 1) \o SaveStandardAnswers(picks, 2)
           IN  /\ ToldUs(ListOnboarding(rows, 1)) = Given(replies)
               /\ ToldUs(ListOnboarding(rows, None)) =
                     Given(replies) \o Picked(Kept(picks, {pick \in ToSet(picks) : Known(pick)}))
<1> DEFINE first == SaveOnboarding("words", replies, 1)
           second == SaveStandardAnswers(picks, 2)
           rows == first \o second
           known == Kept(picks, {pick \in ToSet(picks) : Known(pick)})
           m == Len(first)
           n == Len(second)
<1>1. /\ \E X : first \in Seq(X)
      /\ \A i \in 1 .. Len(first) : first[i].at = 1
      /\ ToldUs(first) = Given(replies)
  BY FirstTold
<1>2. /\ \E X : second \in Seq(X)
      /\ \A i \in 1 .. Len(second) : second[i].at = 2
      /\ ToldUs(second) = Picked(known)
  BY StandardTold
<1> HIDE DEF first, second, known
<1>3. PICK X : first \in Seq(X) /\ second \in Seq(X)
  <2>1. PICK Y : first \in Seq(Y)
    BY <1>1
  <2>2. PICK Z : second \in Seq(Z)
    BY <1>2
  <2>3. first \in Seq(Y \cup Z) /\ second \in Seq(Y \cup Z)
    BY <2>1, <2>2, SeqMonotonic
  <2>4. QED
    BY <2>3
<1>4. /\ m \in Nat /\ n \in Nat /\ rows \in Seq(X) /\ Len(rows) = m + n
      /\ \A i \in 1 .. m : rows[i] = first[i]
      /\ \A i \in m + 1 .. m + n : rows[i] = second[i - m] /\ i - m \in 1 .. n
  BY <1>3, ConcatProperties
<1>5. /\ \A i \in 1 .. m : rows[i].at = 1
      /\ \A i \in m + 1 .. m + n : rows[i].at = 2
  BY <1>1, <1>2, <1>4
<1>6. None # 1
  BY NothingAssumption
<1>7. ToldUs(rows) = ToldUs(first) \o ToldUs(second)
  BY <1>3, ToldUsJoins
<1> HIDE DEF rows
<1>8. \A i \in 1 .. m + n : rows[i] \in ToSet(rows)
  BY <1>4 DEF ToSet
<1>9. ListOnboarding(rows, 1) = first
  <2> DEFINE S == {row \in ToSet(rows) : 1 = None \/ row.at <= 1}
  <2>1. SplitAt(rows, S, m)
    BY <1>4, <1>5, <1>6, <1>8 DEF SplitAt
  <2>2. ListOnboarding(rows, 1) = Kept(rows, S)
    BY DEF ListOnboarding
  <2> HIDE DEF S
  <2>3. /\ Kept(rows, S) \in Seq(X) /\ Len(Kept(rows, S)) = m
        /\ \A k \in 1 .. m : Kept(rows, S)[k] = rows[k]
    BY <1>4, <2>1, KeptSplit
  <2>4. QED
    BY <1>3, <1>4, <2>2, <2>3, SeqEqual
<1>10. ListOnboarding(rows, None) = rows
  <2> DEFINE S == {row \in ToSet(rows) : None = None \/ row.at <= None}
             q == Len(rows)
  <2>1. SplitAt(rows, S, q)
    <3>1. \A i \in 1 .. m + n : rows[i] \in S
      BY <1>8
    <3>2. q = m + n /\ q \in 0 .. q /\ q + 1 .. q = {}
      BY <1>4
    <3> HIDE DEF S, q
    <3>3. QED
      BY <3>1, <3>2 DEF SplitAt, q
  <2>2. ListOnboarding(rows, None) = Kept(rows, S)
    BY DEF ListOnboarding
  <2> HIDE DEF S, q
  <2>3. /\ Kept(rows, S) \in Seq(X) /\ Len(Kept(rows, S)) = q
        /\ \A k \in 1 .. q : Kept(rows, S)[k] = rows[k]
    BY <1>4, <2>1, KeptSplit
  <2>4. QED
    BY <1>4, <2>2, <2>3, SeqEqual DEF q
<1>11. QED
  BY <1>1, <1>2, <1>7, <1>9, <1>10 DEF rows, first, second, known

\* What he told while creating the goal reaches the first batch word for word,
\* and nothing he was asked afterwards does; a later pass reads both
\* (goals.py:119-124, onboarding_repository.py:124-133).
THEOREM OnboardingAsGiven == Spec => []ToldAsGiven
<1> DEFINE Reply == [question : {"q1", "q2"}, answer : {"a", "b"}, model : {None, "gemini"}]
           Pick == [question : {"age", "time", "older"}, option : {"under18", "half", "hour"}]
           Asked == {<< "age", "under18" >>, << "time", "half" >>, << "time", "hour" >>}
<1>1. \A pick \in Pick : Known(pick) <=> << pick.question, pick.option >> \in Asked
  <2>1. ASSUME NEW pick \in Pick, pick.question = "age"
        PROVE  Known(pick) <=> pick.option = "under18"
    BY <2>1 DEF Known, StandardQuestions, ToSet
  <2>2. ASSUME NEW pick \in Pick, pick.question = "time"
        PROVE  Known(pick) <=> pick.option \in {"half", "hour"}
    BY <2>2 DEF Known, StandardQuestions, ToSet
  <2>3. ASSUME NEW pick \in Pick, pick.question = "older" PROVE ~Known(pick)
    BY <2>3 DEF Known, StandardQuestions
  <2>4. QED
    BY <2>1, <2>2, <2>3
<1>2. ASSUME NEW replies \in UpTo(2, Reply), NEW picks \in UpTo(2, Pick)
      PROVE  LET rows  == SaveOnboarding("words", replies, 1) \o SaveStandardAnswers(picks, 2)
                 asked == Kept(picks, {p \in ToSet(picks) : << p.question, p.option >> \in Asked})
             IN  /\ ToldUs(ListOnboarding(rows, 1)) = Given(replies)
                 /\ ToldUs(ListOnboarding(rows, None)) = Given(replies) \o Picked(asked)
  <2>1. replies \in Seq(Reply) /\ picks \in Seq(Pick)
    <3> HIDE DEF Reply, Pick
    <3>1. QED
      BY UpToSeq
  <2>2. ToSet(picks) \subseteq Pick
    <3> HIDE DEF Pick
    <3>1. QED
      BY <2>1 DEF ToSet
  <2>3. {pick \in ToSet(picks) : Known(pick)} = {p \in ToSet(picks) : << p.question, p.option >> \in Asked}
    <3> HIDE DEF Pick, Asked
    <3>1. QED
      BY <1>1, <2>2
  <2> HIDE DEF Pick, Asked, Reply
  <2>4. QED
    BY <2>1, <2>3, ToldBack
<1>3. ToldAsGiven
  BY <1>2 DEF ToldAsGiven, Given, Picked
<1>4. QED
  BY <1>3, PTL

-----------------------------------------------------------------------------
(* The backfill: what a run cuts out of a table.                           *)

\* The lists of cells a pass is to do: of what is in W, and no cell twice.
Parted(chunks, W) ==
    /\ chunks \in Seq(Seq(Cells))
    /\ \A i \in DOMAIN chunks : ToSet(chunks[i]) \subseteq W
    /\ \A i, k \in DOMAIN chunks : i # k => ToSet(chunks[i]) \cap ToSet(chunks[k]) = {}

LEMMA ChunksPart ==
    ASSUME NEW work \in Seq(Cells), Distinct(work)
    PROVE  Parted(Chunks(work), ToSet(work))
<1> DEFINE n == (Len(work) + BatchSize - 1) \div BatchSize
           from(k) == (k - 1) * BatchSize + 1
           upto(k) == IF k * BatchSize < Len(work) THEN k * BatchSize ELSE Len(work)
           chunk(k) == SubSeq(work, from(k), upto(k))
<1>1. BatchSize \in Nat \ {0} /\ Len(work) \in Nat
  BY BackfillAssumption
<1>2. n \in Nat
  BY <1>1
<1>3. ASSUME NEW k \in 1 .. n PROVE from(k) \in Nat \ {0} /\ upto(k) \in 0 .. Len(work)
  BY <1>1, <1>2
<1>4. ASSUME NEW i \in 1 .. n, NEW k \in 1 .. n, i < k PROVE upto(i) < from(k)
  <2>1. i <= k - 1 /\ i \in Nat /\ k - 1 \in Nat
    BY <1>2, <1>4
  <2>2. i * BatchSize <= (k - 1) * BatchSize
    BY <1>1, <2>1
  <2>3. QED
    BY <1>1, <2>1, <2>2
<1>5. Chunks(work) = [k \in 1 .. n |-> chunk(k)]
  BY DEF Chunks
<1> HIDE DEF n, from, upto
<1>6. ASSUME NEW k \in 1 .. n
      PROVE  /\ chunk(k) \in Seq(Cells)
             /\ \A x \in ToSet(chunk(k)) : \E i \in from(k) .. upto(k) : i \in DOMAIN work /\ work[i] = x
  BY <1>3, Parts
<1> HIDE DEF chunk
<1>7. Chunks(work) \in Seq(Seq(Cells)) /\ DOMAIN Chunks(work) = 1 .. n
  <2>1. Chunks(work) \in [1 .. n -> Seq(Cells)]
    BY <1>5, <1>6
  <2>2. QED
    BY <1>2, <2>1, SeqDef
<1>8. ASSUME NEW i \in 1 .. n, NEW k \in 1 .. n, i < k
      PROVE  ToSet(chunk(i)) \cap ToSet(chunk(k)) = {}
  <2>1. SUFFICES ASSUME NEW x \in ToSet(chunk(i)), x \in ToSet(chunk(k)) PROVE FALSE
    OBVIOUS
  <2>2. PICK a \in from(i) .. upto(i) : a \in DOMAIN work /\ work[a] = x
    BY <1>6
  <2>3. PICK b \in from(k) .. upto(k) : b \in DOMAIN work /\ work[b] = x
    BY <1>6, <2>1
  <2>4. a < b
    BY <1>3, <1>4, <1>8
  <2>5. a = b
    BY <2>2, <2>3 DEF Distinct
  <2>6. QED
    BY <2>4, <2>5
<1>9. ASSUME NEW i \in 1 .. n, NEW k \in 1 .. n, i # k
      PROVE  ToSet(chunk(i)) \cap ToSet(chunk(k)) = {}
  <2>1. i < k \/ k < i
    BY <1>2, <1>9
  <2>2. QED
    BY <1>8, <2>1
<1>10. ASSUME NEW k \in 1 .. n PROVE ToSet(chunk(k)) \subseteq ToSet(work)
  <2>1. \A i \in DOMAIN work : work[i] \in ToSet(work)
    BY DEF ToSet
  <2>2. QED
    BY <1>6, <2>1
<1>11. QED
  BY <1>5, <1>7, <1>9, <1>10 DEF Parted

\* The lists of chunks Passes runs through.
LEMMA PassesRuns ==
    ASSUME NEW rows, NEW X, NEW columns \in Seq(X),
           \A c \in X : Chunks(Pending(rows, c)) \in Seq(Seq(Cells))
    PROVE  \E pass \in [0 .. Len(columns) -> Seq(Seq(Cells))] :
              /\ pass[0] = << >> /\ pass[Len(columns)] = Passes(rows, columns)
              /\ \A i \in 1 .. Len(columns) :
                    pass[i] = pass[i - 1] \o Chunks(Pending(rows, columns[i]))
<1> DEFINE n == Len(columns)
           Op == [p \in (Seq(Seq(Cells))) \X (X) |-> p[1] \o Chunks(Pending(rows, p[2]))]
           Solves(f) == f = [T \in SUBSET DOMAIN columns |->
                               IF T = {} THEN << >>
                               ELSE f[T \ {Max(T)}] \o Chunks(Pending(rows, columns[Max(T)]))]
           iter == CHOOSE f : Solves(f)
<1>1. Op \in [(Seq(Seq(Cells))) \X (X) -> Seq(Seq(Cells))] /\ << >> \in Seq(Seq(Cells))
  <2>1. ASSUME NEW p \in Seq(Seq(Cells)) \X X PROVE Op[p] \in Seq(Seq(Cells))
    <3>1. p[1] \in Seq(Seq(Cells)) /\ Chunks(Pending(rows, p[2])) \in Seq(Seq(Cells))
      OBVIOUS
    <3>2. p[1] \o Chunks(Pending(rows, p[2])) \in Seq(Seq(Cells))
      BY <3>1, ConcatProperties
    <3>3. QED
      BY <3>2
  <2>2. << >> \in Seq(Seq(Cells))
    BY EmptySeq
  <2>3. QED
    BY <2>1, <2>2
<1>2. ASSUME NEW f, NEW T \in SUBSET DOMAIN columns, T # {}, f[T \ {Max(T)}] \in Seq(Seq(Cells))
      PROVE  Op[<<f[T \ {Max(T)}], columns[Max(T)]>>] = f[T \ {Max(T)}] \o Chunks(Pending(rows, columns[Max(T)]))
  <2>1. Len(columns) \in Nat /\ DOMAIN columns = 1 .. Len(columns)
    OBVIOUS
  <2>2. Max(T) \in DOMAIN columns
    BY <1>2, <2>1, Greatest
  <2>3. columns[Max(T)] \in X
    BY <2>2
  <2>4. QED
    BY <1>2, <2>3
<1>3. \E f : Solves(f)
  <2> HIDE DEF Op
  <2>1. PICK f : Folds(f, Seq(Seq(Cells)), Op, << >>, columns)
    BY <1>1, FoldExists
  <2>2. \A T \in SUBSET DOMAIN columns : T # {} => f[T \ {Max(T)}] \in Seq(Seq(Cells))
    BY <2>1 DEF Folds
  <2>3. Solves(f)
    BY <1>2, <2>1, <2>2 DEF Folds
  <2> HIDE DEF Solves
  <2>4. QED
    BY <2>3
<1>4. Solves(iter)
  <2> HIDE DEF Solves
  <2>1. QED
    BY <1>3
<1>5. Passes(rows, columns) = iter[DOMAIN columns]
  BY DEF Passes, FoldLeft, MapThenFoldSet
<1> HIDE DEF iter, Op
<1>6. Unfolds(iter, Seq(Seq(Cells)), Op, << >>, columns)
  BY <1>2, <1>4 DEF Unfolds
<1> HIDE DEF Solves
<1>7. PICK pass : RunsTo(pass, Seq(Seq(Cells)), Op, << >>, columns, Passes(rows, columns))
  <2>1. \E pass : RunsTo(pass, Seq(Seq(Cells)), Op, << >>, columns, iter[DOMAIN columns])
    BY <1>1, <1>6, FoldRuns
  <2>2. QED
    BY <1>5, <2>1
<1>8. ASSUME NEW i \in 1 .. n PROVE pass[i] = pass[i - 1] \o Chunks(Pending(rows, columns[i]))
  <2>1. pass[i - 1] \in Seq(Seq(Cells)) /\ columns[i] \in X /\ pass[i] = Op[<<pass[i - 1], columns[i]>>]
    <3>1. i \in 1 .. Len(columns) /\ i - 1 \in 0 .. Len(columns)
      OBVIOUS
    <3>2. pass \in [0 .. Len(columns) -> Seq(Seq(Cells))] /\ pass[i] = Op[<<pass[i - 1], columns[i]>>]
      BY <1>7, <3>1, Zenon DEF RunsTo
    <3>3. pass[i - 1] \in Seq(Seq(Cells))
      BY <3>1, <3>2
    <3>4. columns[i] \in X
      BY <3>1
    <3>5. QED
      BY <3>2, <3>3, <3>4
  <2>2. QED
    BY <2>1 DEF Op
<1>9. QED
  BY <1>7, <1>8 DEF RunsTo

\* Lists of what is in W, and then lists of what is in U and not in W.
LEMMA PartedJoin ==
    ASSUME NEW a, NEW b, NEW W, NEW U
    PROVE  Parted(a, W) /\ Parted(b, U) /\ W \cap U = {} => Parted(a \o b, W \cup U)
<1>1. SUFFICES ASSUME Parted(a, W), Parted(b, U), W \cap U = {} PROVE Parted(a \o b, W \cup U)
  OBVIOUS
<1> DEFINE S == Seq(Cells)
           m == Len(a)
           n == Len(b)
           w == a \o b
<1>2. a \in Seq(S) /\ b \in Seq(S)
  BY <1>1 DEF Parted
<1> HIDE DEF S
<1>3. /\ m \in Nat /\ n \in Nat /\ w \in Seq(S) /\ DOMAIN w = 1 .. m + n
      /\ DOMAIN a = 1 .. m /\ DOMAIN b = 1 .. n
      /\ \A i \in 1 .. m : w[i] = a[i]
      /\ \A i \in m + 1 .. m + n : w[i] = b[i - m] /\ i - m \in 1 .. n
  BY <1>2, ConcatProperties
<1>4. /\ \A i \in 1 .. m : ToSet(a[i]) \subseteq W
      /\ \A i \in 1 .. n : ToSet(b[i]) \subseteq U
      /\ \A i, k \in 1 .. m : i # k => ToSet(a[i]) \cap ToSet(a[k]) = {}
      /\ \A i, k \in 1 .. n : i # k => ToSet(b[i]) \cap ToSet(b[k]) = {}
  BY <1>1, <1>3 DEF Parted
<1> HIDE DEF w, m, n
<1>5. ASSUME NEW i \in 1 .. m + n
      PROVE  \/ i \in 1 .. m /\ w[i] = a[i] /\ ToSet(w[i]) \subseteq W
             \/ i \in m + 1 .. m + n /\ w[i] = b[i - m] /\ i - m \in 1 .. n /\ ToSet(w[i]) \subseteq U
  <2>1. i \in 1 .. m \/ i \in m + 1 .. m + n
    BY <1>3
  <2>2. QED
    BY <1>3, <1>4, <2>1
<1>6. ASSUME NEW i \in 1 .. m + n, NEW k \in 1 .. m + n, i # k
      PROVE  ToSet(w[i]) \cap ToSet(w[k]) = {}
  <2>1. CASE i \in 1 .. m /\ k \in 1 .. m
    BY <1>3, <1>4, <1>6, <2>1
  <2>2. CASE i \in m + 1 .. m + n /\ k \in m + 1 .. m + n
    <3>1. i - m # k - m
      BY <1>3, <1>6
    <3>2. QED
      BY <1>3, <1>4, <2>2, <3>1
  <2>3. CASE ~(i \in 1 .. m /\ k \in 1 .. m) /\ ~(i \in m + 1 .. m + n /\ k \in m + 1 .. m + n)
    <3>1. \/ ToSet(w[i]) \subseteq W /\ ToSet(w[k]) \subseteq U
          \/ ToSet(w[i]) \subseteq U /\ ToSet(w[k]) \subseteq W
      BY <1>5, <2>3
    <3>2. QED
      BY <1>1, <3>1
  <2>4. QED
    BY <2>1, <2>2, <2>3
<1>7. \A i \in DOMAIN w : ToSet(w[i]) \subseteq W \cup U
  BY <1>3, <1>5
<1>8. \A i, k \in DOMAIN w : i # k => ToSet(w[i]) \cap ToSet(w[k]) = {}
  BY <1>3, <1>6
<1>9. QED
  BY <1>3, <1>7, <1>8 DEF Parted, w, S

\* What a run may be told to do now.
Wanted == {cell \in Cells : vec[cell] = Null /\ text[cell] # "blank"}

LEMMA PendingPart ==
    ASSUME NEW R, NEW rows \in Seq(R), NEW c, R \X {c} \subseteq Cells
    PROVE  Distinct(rows) => /\ Pending(rows, c) \in Seq(Cells) /\ Distinct(Pending(rows, c))
                         /\ ToSet(Pending(rows, c)) \subseteq {cell \in Wanted : cell[2] = c}
<1>1. SUFFICES ASSUME Distinct(rows)
               PROVE  /\ Pending(rows, c) \in Seq(Cells) /\ Distinct(Pending(rows, c))
                      /\ ToSet(Pending(rows, c)) \subseteq {cell \in Wanted : cell[2] = c}
  OBVIOUS
<1> DEFINE cells == [i \in DOMAIN rows |-> << rows[i], c >>]
           S == {cell \in ToSet(cells) : vec[cell] = Null /\ text[cell] # "blank"}
<1>2. \A i \in DOMAIN rows : rows[i] \in R
  OBVIOUS
<1>3. \A i \in DOMAIN rows : cells[i] \in Cells /\ cells[i][2] = c
  BY <1>2
<1>4. Distinct(cells)
  BY <1>1 DEF Distinct
<1>5. cells = [i \in DOMAIN rows |-> cells[i]] /\ DOMAIN cells = DOMAIN rows
  OBVIOUS
<1>6. Pending(rows, c) = Kept(cells, S)
  BY DEF Pending
<1> HIDE DEF cells
<1>7. cells \in Seq(Cells)
  BY <1>3, <1>5, MappedSeq
<1>8. ToSet(cells) \subseteq {cell \in Cells : cell[2] = c}
  BY <1>3, <1>5 DEF ToSet
<1>9. S \subseteq {cell \in Wanted : cell[2] = c}
  BY <1>8 DEF Wanted
<1> HIDE DEF S
<1>10. QED
  BY <1>4, <1>6, <1>7, <1>9, KeptDistinct

LEMMA PassesPart ==
    ASSUME NEW R, NEW rows \in Seq(R), NEW X, NEW columns \in Seq(X), R \X X \subseteq Cells
    PROVE  Distinct(rows) /\ Distinct(columns) => Parted(Passes(rows, columns), Wanted)
<1>1. SUFFICES ASSUME Distinct(rows), Distinct(columns) PROVE Parted(Passes(rows, columns), Wanted)
  OBVIOUS
<1> DEFINE n == Len(columns)
           Of(c) == {cell \in Wanted : cell[2] = c}
           Until(i) == {cell \in Wanted : \E k \in 1 .. i : columns[k] = cell[2]}
<1>2. n \in Nat /\ DOMAIN columns = 1 .. n /\ \A i \in 1 .. n : columns[i] \in X
  OBVIOUS
<1>3. ASSUME NEW c \in X PROVE Parted(Chunks(Pending(rows, c)), Of(c))
  <2>1. R \X {c} \subseteq Cells
    OBVIOUS
  <2>2. /\ Pending(rows, c) \in Seq(Cells) /\ Distinct(Pending(rows, c))
        /\ ToSet(Pending(rows, c)) \subseteq Of(c)
    BY <1>1, <2>1, PendingPart
  <2>3. Parted(Chunks(Pending(rows, c)), ToSet(Pending(rows, c)))
    BY <2>2, ChunksPart
  <2> HIDE DEF Of
  <2>4. QED
    BY <2>2, <2>3 DEF Parted
<1>4. \A c \in X : Chunks(Pending(rows, c)) \in Seq(Seq(Cells))
  BY <1>3 DEF Parted
<1>5. PICK pass \in [0 .. n -> Seq(Seq(Cells))] :
        /\ pass[0] = << >> /\ pass[n] = Passes(rows, columns)
        /\ \A i \in 1 .. n : pass[i] = pass[i - 1] \o Chunks(Pending(rows, columns[i]))
  BY <1>4, PassesRuns
<1> DEFINE Held == {i \in 0 .. n : Parted(pass[i], Until(i))}
<1>6. 0 \in Held
  <2>1. << >> \in Seq(Seq(Cells)) /\ DOMAIN << >> = {}
    BY EmptySeq
  <2>2. Parted(<< >>, Until(0))
    BY <2>1 DEF Parted
  <2> HIDE DEF Until
  <2>3. Parted(pass[0], Until(0))
    BY <1>5, <2>2, Zenon
  <2>4. 0 \in 0 .. n
    BY <1>2
  <2>5. QED
    BY <2>3, <2>4
<1>7. ASSUME NEW i \in 1 .. n, i - 1 \in Held PROVE i \in Held
  <2>1. Parted(pass[i - 1], Until(i - 1))
    BY <1>7
  <2>2. columns[i] \in X
    BY <1>2
  <2>3. Parted(Chunks(Pending(rows, columns[i])), Of(columns[i]))
    BY <1>3, <2>2
  <2>4. Until(i - 1) \cap Of(columns[i]) = {}
    <3>1. SUFFICES ASSUME NEW k \in 1 .. i - 1, columns[k] = columns[i] PROVE FALSE
      OBVIOUS
    <3>2. k \in DOMAIN columns /\ i \in DOMAIN columns /\ k # i
      BY <1>2
    <3>3. QED
      BY <1>1, <3>1, <3>2 DEF Distinct
  <2>5. Until(i - 1) \cup Of(columns[i]) \subseteq Until(i)
    <3>1. 1 .. i - 1 \subseteq 1 .. i /\ i \in 1 .. i
      BY <1>2
    <3>2. QED
      BY <3>1
  <2>6. pass[i] = pass[i - 1] \o Chunks(Pending(rows, columns[i]))
    BY <1>5
  <2> HIDE DEF Until, Of
  <2>7. Parted(pass[i], Until(i - 1) \cup Of(columns[i]))
    BY <2>1, <2>3, <2>4, <2>6, PartedJoin
  <2>8. Parted(pass[i], Until(i))
    BY <2>5, <2>7 DEF Parted
  <2>9. i \in 0 .. n
    BY <1>2
  <2>10. QED
    BY <2>8, <2>9
<1>8. n \in Held
  <2> HIDE DEF Held
  <2>1. 0 .. n \subseteq Held
    BY <1>2, <1>6, <1>7, Upwards
  <2>2. QED
    BY <1>2, <2>1
<1>9. Parted(Passes(rows, columns), Until(n))
  BY <1>5, <1>8
<1>10. Until(n) \subseteq Wanted
  OBVIOUS
<1> HIDE DEF Until
<1>11. QED
  BY <1>9, <1>10 DEF Parted

-----------------------------------------------------------------------------
(* The backfill: the invariant, in named parts.                            *)

\* The texts Gemini is sent, and the cells that have no vector.
Sendable == {cell \in Cells : text[cell] # "blank"}
Nulls == {cell \in Cells : vec[cell] = Null}

Runs == [pc : {"idle", "read", "call", "write"}, table : 0 .. Len(SOURCES),
         chunks : Seq(Seq(Cells)), met : BOOLEAN]

\* A run at a table, its chunks cut from texts that can be sent, and the one
\* that was answered not refused.
Sound(r) ==
    /\ r \in Runs
    /\ r.pc # "idle" => r.table \in DOMAIN SOURCES
    /\ r.pc \in {"call", "write"} => r.chunks # << >>
    /\ r.pc = "write" => ~ Refused(Head(r.chunks))
    /\ Parted(r.chunks, Sendable)

BackfillTyped ==
    /\ text \in Texts /\ stored \subseteq AllRows /\ gone \subseteq AllRows
    /\ vec \in [Cells -> {Null} \cup Cells]
    /\ run \in [Jobs -> Runs]
    /\ failures \in 0 .. MaxFailures

SoundRuns == \A j \in Jobs : Sound(run[j])

\* What a run that met no other has to do is still missing.
AloneRuns == \A j \in Jobs : Active(j) /\ ~ run[j].met => Parted(run[j].chunks, Nulls)

\* Of two runs going, each has met the other.
MetRuns == \A i, k \in Jobs : i # k /\ Active(i) /\ Active(k) => run[i].met

BackfillInv == BackfillTyped /\ SoundRuns /\ AloneRuns /\ MetRuns /\ OwnVector

\* What is read of a table, and cut.
LEMMA TablePart ==
    ASSUME NEW t \in DOMAIN SOURCES
    PROVE  Parted(Passes(Missing(t), SOURCES[t].columns), Wanted)
<1> DEFINE rows == SOURCES[t].rows
           columns == SOURCES[t].columns
           S == {r \in stored \cap ToSet(rows) : \E c \in ToSet(columns) : vec[<< r, c >>] = Null}
           null == Kept(rows, S)
           m == IF Len(null) < Cap THEN Len(null) ELSE Cap
<1>1. /\ rows \in Seq(AllRows) /\ columns \in Seq(AllColumns)
      /\ Distinct(rows) /\ Distinct(columns)
  <2> DEFINE T == [rows : Seq(AllRows), columns : Seq(AllColumns)]
  <2>1. SOURCES \in Seq(T) /\ Distinct(SOURCES[t].rows) /\ Distinct(SOURCES[t].columns)
    BY TablesAssumption
  <2>2. SOURCES[t] \in T
    <3> HIDE DEF T
    <3>1. QED
      BY <2>1
  <2>3. QED
    BY <2>1, <2>2
<1>2. Missing(t) = SubSeq(null, 1, m)
  BY DEF Missing
<1>3. ToSet(rows) \X ToSet(columns) \subseteq Cells
  BY DEF Cells
<1> HIDE DEF S
<1>4. rows \in Seq(ToSet(rows)) /\ columns \in Seq(ToSet(columns))
  <2> HIDE DEF rows, columns
  <2>1. QED
    BY <1>1, OwnSeq
<1>5. null \in Seq(ToSet(rows)) /\ Distinct(null)
  <2> HIDE DEF rows
  <2>1. QED
    BY <1>1, <1>4, KeptDistinct
<1> HIDE DEF null, rows, columns
<1>6. m \in 0 .. Len(null)
  <2>1. Len(null) \in Nat /\ Cap \in Nat
    BY <1>5, BackfillAssumption
  <2>2. QED
    BY <2>1
<1> HIDE DEF m
<1>7. Missing(t) \in Seq(ToSet(rows)) /\ Distinct(Missing(t))
  BY <1>2, <1>5, <1>6, SubDistinct
<1>8. Parted(Passes(Missing(t), columns), Wanted)
  BY <1>1, <1>3, <1>4, <1>7, PassesPart
<1>9. QED
  BY <1>8 DEF columns

LEMMA PartedRest ==
    ASSUME NEW s, NEW W
    PROVE  Parted(s, W) /\ s # << >> =>
              /\ Head(s) \in Seq(Cells) /\ ToSet(Head(s)) \subseteq W
              /\ Parted(Tail(s), W \ ToSet(Head(s)))
<1>1. SUFFICES ASSUME Parted(s, W), s # << >>
               PROVE  /\ Head(s) \in Seq(Cells) /\ ToSet(Head(s)) \subseteq W
                      /\ Parted(Tail(s), W \ ToSet(Head(s)))
  OBVIOUS
<1> DEFINE S == Seq(Cells)
           n == Len(s)
           rest == Tail(s)
<1>2. s \in Seq(S)
  BY <1>1 DEF Parted
<1> HIDE DEF S
<1>3. /\ n \in Nat \ {0} /\ DOMAIN s = 1 .. n /\ Head(s) = s[1] /\ s[1] \in S
      /\ rest \in Seq(S) /\ DOMAIN rest = 1 .. n - 1
      /\ \A i \in 1 .. n - 1 : rest[i] = s[i + 1] /\ i + 1 \in 1 .. n
  BY <1>1, <1>2
<1>4. /\ \A i \in 1 .. n : ToSet(s[i]) \subseteq W
      /\ \A i, k \in 1 .. n : i # k => ToSet(s[i]) \cap ToSet(s[k]) = {}
  BY <1>1, <1>3 DEF Parted
<1> HIDE DEF rest, n
<1>5. 1 \in 1 .. n
  BY <1>3
<1>6. ASSUME NEW i \in 1 .. n - 1 PROVE ToSet(rest[i]) \subseteq W \ ToSet(s[1])
  <2>1. i + 1 \in 1 .. n /\ i + 1 # 1 /\ rest[i] = s[i + 1]
    BY <1>3
  <2>2. ToSet(s[i + 1]) \subseteq W /\ ToSet(s[i + 1]) \cap ToSet(s[1]) = {}
    BY <1>4, <1>5, <2>1
  <2>3. QED
    BY <2>1, <2>2
<1>7. ASSUME NEW i \in 1 .. n - 1, NEW k \in 1 .. n - 1, i # k
      PROVE  ToSet(rest[i]) \cap ToSet(rest[k]) = {}
  BY <1>3, <1>4, <1>7
<1>8. rest \in Seq(Seq(Cells)) /\ s[1] \in Seq(Cells)
  BY <1>3 DEF S
<1>9. Parted(rest, W \ ToSet(s[1]))
  BY <1>3, <1>6, <1>7, <1>8 DEF Parted
<1>10. QED
  BY <1>3, <1>4, <1>5, <1>8, <1>9 DEF rest

\* Where a run goes on to from its table t is sound, and it has met who it had.
LEMMA OnwardsSound ==
    ASSUME NEW j \in Jobs, run[j] \in Runs, NEW t \in DOMAIN SOURCES, NEW chunks,
           run[j].table = t, Parted(chunks, Sendable)
    PROVE  /\ Sound(Onwards(j, t, chunks))
           /\ Onwards(j, t, chunks).met = run[j].met
           /\ Onwards(j, t, chunks).chunks = chunks
<1> DEFINE to == Onwards(j, t, chunks)
           n == Len(SOURCES)
<1>1. n \in Nat \ {0} /\ DOMAIN SOURCES = 1 .. n
  <2> DEFINE T == [rows : Seq(AllRows), columns : Seq(AllColumns)]
  <2>1. SOURCES \in Seq(T) /\ SOURCES # << >>
    BY TablesAssumption
  <2> HIDE DEF T
  <2>2. QED
    BY <2>1
<1>2. chunks \in Seq(Seq(Cells))
  BY DEF Parted
<1> DEFINE C == Seq(Seq(Cells))
<1>3. run[j] \in [pc : {"idle", "read", "call", "write"}, table : 0 .. n, chunks : C, met : BOOLEAN]
  BY DEF Runs
<1>4. << >> \in C /\ chunks \in C
  BY <1>2, EmptySeq
<1> HIDE DEF C, n
<1>5. CASE chunks # << >>
  <2>1. to = [run[j] EXCEPT !.pc = "call", !.chunks = chunks]
    BY <1>5 DEF Onwards
  <2>2. /\ to \in [pc : {"idle", "read", "call", "write"}, table : 0 .. n, chunks : C, met : BOOLEAN]
        /\ to.pc = "call" /\ to.table = t /\ to.chunks = chunks /\ to.met = run[j].met
    BY <1>3, <1>4, <2>1
  <2> HIDE DEF to
  <2>3. to \in Runs
    BY <2>2 DEF Runs, C, n
  <2>4. Sound(to)
    BY <1>5, <2>2, <2>3 DEF Sound
  <2>5. QED
    BY <2>2, <2>4 DEF to
<1>6. CASE chunks = << >> /\ t < n
  <2>1. to = [run[j] EXCEPT !.pc = "read", !.table = t + 1, !.chunks = << >>]
    BY <1>6 DEF Onwards, n
  <2>2. t + 1 \in 1 .. n /\ t + 1 \in 0 .. n
    BY <1>1, <1>6
  <2>3. /\ to \in [pc : {"idle", "read", "call", "write"}, table : 0 .. n, chunks : C, met : BOOLEAN]
        /\ to.pc = "read" /\ to.table = t + 1 /\ to.chunks = << >> /\ to.met = run[j].met
    BY <1>3, <1>4, <2>1, <2>2
  <2> HIDE DEF to
  <2>4. to \in Runs
    BY <2>3 DEF Runs, C, n
  <2>5. to.chunks = chunks
    BY <1>6, <2>3
  <2>6. Sound(to)
    BY <1>1, <2>2, <2>3, <2>4, <2>5 DEF Sound
  <2>7. QED
    BY <2>3, <2>5, <2>6 DEF to
<1>7. CASE chunks = << >> /\ ~(t < n)
  <2>1. to = [run[j] EXCEPT !.pc = "idle", !.table = 1, !.chunks = << >>]
    BY <1>7 DEF Onwards, n
  <2>2. 1 \in 0 .. n
    BY <1>1
  <2>3. /\ to \in [pc : {"idle", "read", "call", "write"}, table : 0 .. n, chunks : C, met : BOOLEAN]
        /\ to.pc = "idle" /\ to.chunks = << >> /\ to.met = run[j].met
    BY <1>3, <1>4, <2>1, <2>2
  <2> HIDE DEF to
  <2>4. to \in Runs
    BY <2>3 DEF Runs, C, n
  <2>5. to.chunks = chunks
    BY <1>7, <2>3
  <2>6. Sound(to)
    BY <2>3, <2>4, <2>5 DEF Sound
  <2>7. QED
    BY <2>3, <2>5, <2>6 DEF to
<1>8. QED
  BY <1>5, <1>6, <1>7

\* A run that has ended, or has not begun, is sound, and so is one that begins.
LEMMA EndsSound ==
    /\ Sound(NotRunning) /\ Sound([NotRunning EXCEPT !.table = 1])
    /\ \A b \in BOOLEAN : Sound([NotRunning EXCEPT !.pc = "read", !.table = 1, !.met = b])
<1> DEFINE n == Len(SOURCES)
           C == Seq(Seq(Cells))
<1>1. n \in Nat \ {0} /\ DOMAIN SOURCES = 1 .. n
  <2> DEFINE T == [rows : Seq(AllRows), columns : Seq(AllColumns)]
  <2>1. SOURCES \in Seq(T) /\ SOURCES # << >>
    BY TablesAssumption
  <2> HIDE DEF T
  <2>2. QED
    BY <2>1
<1>2. << >> \in C /\ DOMAIN << >> = {}
  BY EmptySeq
<1>3. Parted(<< >>, Sendable)
  BY <1>2 DEF Parted
<1> HIDE DEF C, n
<1> DEFINE R == [pc : {"idle", "read", "call", "write"}, table : 0 .. n, chunks : C, met : BOOLEAN]
<1>4. ASSUME NEW r \in R, r.pc \in {"idle", "read"}, r.table \in {0, 1}, r.chunks = << >>,
             r.pc = "read" => r.table = 1
      PROVE  Sound(r)
  <2>1. r \in Runs
    BY DEF Runs, C, n
  <2>2. Parted(r.chunks, Sendable)
    BY <1>3, <1>4, Zenon
  <2>3. QED
    BY <1>1, <1>4, <2>1, <2>2 DEF Sound
<1>5. Sound(NotRunning) /\ Sound([NotRunning EXCEPT !.table = 1])
  <2> DEFINE r == [NotRunning EXCEPT !.table = 1]
  <2>1. 0 \in 0 .. n /\ 1 \in 0 .. n
    BY <1>1
  <2>2. /\ NotRunning \in R /\ NotRunning.pc = "idle"
        /\ NotRunning.table = 0 /\ NotRunning.chunks = << >>
    BY <1>2, <2>1 DEF NotRunning
  <2>3. r \in R /\ r.pc = "idle" /\ r.table = 1 /\ r.chunks = << >>
    BY <2>1, <2>2
  <2> HIDE DEF R, r
  <2>4. Sound(r) /\ Sound(NotRunning)
    BY <1>4, <2>2, <2>3
  <2>5. QED
    BY <2>4 DEF r
<1>6. ASSUME NEW b \in BOOLEAN
      PROVE  Sound([NotRunning EXCEPT !.pc = "read", !.table = 1, !.met = b])
  <2> DEFINE r == [NotRunning EXCEPT !.pc = "read", !.table = 1, !.met = b]
  <2>1. 1 \in 0 .. n
    BY <1>1
  <2>2. r \in R /\ r.pc = "read" /\ r.table = 1 /\ r.chunks = << >>
    BY <1>2, <2>1 DEF NotRunning
  <2> HIDE DEF R, r
  <2>3. Sound(r)
    BY <1>4, <2>2
  <2>4. QED
    BY <2>3 DEF r
<1>7. QED
  BY <1>5, <1>6

LEMMA TextStays ==
    ASSUME text' = text
    PROVE  /\ Sendable' = Sendable
           /\ (\A j \in Jobs : Sound(run'[j])) => SoundRuns'
<1>1. Sendable' = Sendable
  BY DEF Sendable
<1>2. ASSUME \A j \in Jobs : Sound(run'[j]) PROVE SoundRuns'
  BY <1>1, <1>2 DEF SoundRuns, Sound, Refused
<1>3. QED
  BY <1>1, <1>2

\* A step of one run that writes nothing.
LEMMA OneRunMoves ==
    ASSUME BackfillInv, NEW j \in Jobs, NEW r, Sound(r),
           run' = [run EXCEPT ![j] = r],
           r.pc # "idle" => Active(j) /\ r.met = run[j].met,
           r.pc # "idle" /\ ~ r.met => Parted(r.chunks, Nulls),
           text' = text, vec' = vec, stored' = stored, gone' = gone, failures' \in 0 .. MaxFailures
    PROVE  BackfillInv'
<1>1. BackfillTyped /\ SoundRuns /\ AloneRuns /\ MetRuns /\ OwnVector
  BY DEF BackfillInv
<1>2. run \in [Jobs -> Runs] /\ r \in Runs
  BY <1>1 DEF BackfillTyped, Sound
<1>3. run'[j] = r /\ \A k \in Jobs : k # j => run'[k] = run[k]
  BY <1>2
<1>4. BackfillTyped'
  <2>1. run' \in [Jobs -> Runs]
    BY <1>2
  <2>2. QED
    BY <1>1, <2>1 DEF BackfillTyped
<1>5. SoundRuns'
  <2>1. \A k \in Jobs : Sound(run'[k])
    BY <1>1, <1>3 DEF SoundRuns
  <2>2. QED
    BY <2>1, TextStays
<1>6. Nulls' = Nulls
  BY DEF Nulls
<1>7. AloneRuns'
  <2>1. ASSUME NEW k \in Jobs, run'[k].pc # "idle", ~ run'[k].met
        PROVE  Parted(run'[k].chunks, Nulls)
    <3>1. CASE k = j
      BY <1>3, <2>1, <3>1
    <3>2. CASE k # j
      BY <1>1, <1>3, <2>1, <3>2 DEF AloneRuns, Active
    <3>3. QED
      BY <3>1, <3>2
  <2>2. QED
    BY <1>6, <2>1 DEF AloneRuns, Active
<1>8. MetRuns'
  <2>1. ASSUME NEW i \in Jobs, NEW k \in Jobs, i # k, run'[i].pc # "idle", run'[k].pc # "idle"
        PROVE  run'[i].met
    <3>1. Active(i) /\ Active(k) /\ run'[i].met = run[i].met
      BY <1>3, <2>1 DEF Active
    <3>2. QED
      BY <1>1, <2>1, <3>1 DEF MetRuns
  <2>2. QED
    BY <2>1 DEF MetRuns, Active
<1>9. OwnVector'
  BY <1>1 DEF OwnVector
<1>10. QED
  BY <1>4, <1>5, <1>7, <1>8, <1>9 DEF BackfillInv

LEMMA StepBegin ==
    ASSUME BackfillInv, NEW j \in Jobs, Begin(j)
    PROVE  BackfillInv'
<1> DEFINE b == \E o \in Jobs \ {j} : Active(o)
           r == [NotRunning EXCEPT !.pc = "read", !.table = 1, !.met = b]
<1>1. BackfillTyped /\ SoundRuns /\ AloneRuns /\ MetRuns /\ OwnVector
  BY DEF BackfillInv
<1>2. /\ ~ Active(j)
      /\ run' = [i \in Jobs |-> IF i = j THEN r ELSE [run[i] EXCEPT !.met = @ \/ Active(i)]]
      /\ text' = text /\ stored' = stored /\ gone' = gone /\ vec' = vec /\ failures' = failures
  BY DEF Begin
<1>3. Sound(r) /\ r.pc = "read" /\ r.met = b /\ r.chunks = << >>
  <2>1. Sound(r)
    BY EndsSound
  <2>2. QED
    BY <2>1 DEF NotRunning
<1> HIDE DEF r
<1>4. run'[j] = r
  BY <1>2
<1>5. ASSUME NEW k \in Jobs, k # j
      PROVE  /\ Sound(run'[k]) /\ run'[k].chunks = run[k].chunks /\ run'[k].pc = run[k].pc
             /\ run'[k].met <=> run[k].met \/ Active(k)
  <2>1. run'[k] = [run[k] EXCEPT !.met = @ \/ Active(k)] /\ Sound(run[k])
    BY <1>1, <1>2, <1>5 DEF SoundRuns
  <2>2. run[k] \in Runs /\ Active(k) \in BOOLEAN
    BY <2>1 DEF Sound, Active
  <2>3. /\ run'[k] \in Runs /\ run'[k].pc = run[k].pc /\ run'[k].table = run[k].table
        /\ run'[k].chunks = run[k].chunks /\ run'[k].met = (run[k].met \/ Active(k))
    BY <2>1, <2>2 DEF Runs
  <2>4. QED
    BY <2>1, <2>3 DEF Sound
<1>6. BackfillTyped'
  <2>1. \A k \in Jobs : run'[k] \in Runs
    BY <1>3, <1>4, <1>5 DEF Sound
  <2>2. run' \in [Jobs -> Runs]
    BY <1>2, <2>1
  <2>3. QED
    BY <1>1, <1>2, <2>2 DEF BackfillTyped
<1>7. SoundRuns'
  <2>1. \A k \in Jobs : Sound(run'[k])
    BY <1>3, <1>4, <1>5
  <2>2. QED
    BY <1>2, <2>1, TextStays
<1>8. AloneRuns'
  <2>1. Nulls' = Nulls
    BY <1>2 DEF Nulls
  <2>2. DOMAIN << >> = {} /\ << >> \in Seq(Seq(Cells))
    BY EmptySeq
  <2>3. Parted(<< >>, Nulls)
    BY <2>2 DEF Parted
  <2>4. ASSUME NEW k \in Jobs, run'[k].pc # "idle", ~ run'[k].met
        PROVE  Parted(run'[k].chunks, Nulls)
    <3>1. CASE k = j
      BY <1>3, <1>4, <2>3, <3>1, Zenon
    <3>2. CASE k # j
      BY <1>5, <2>4, <3>2 DEF Active
    <3>3. QED
      BY <3>1, <3>2
  <2>5. QED
    BY <2>1, <2>4 DEF AloneRuns, Active
<1>9. MetRuns'
  <2>1. ASSUME NEW i \in Jobs, NEW k \in Jobs, i # k, run'[i].pc # "idle", run'[k].pc # "idle"
        PROVE  run'[i].met
    <3>1. CASE i = j
      <4>1. Active(k) /\ k \in Jobs \ {j}
        BY <1>5, <2>1, <3>1 DEF Active
      <4>2. QED
        BY <1>3, <1>4, <3>1, <4>1
    <3>2. CASE i # j
      BY <1>5, <2>1, <3>2 DEF Active
    <3>3. QED
      BY <3>1, <3>2
  <2>2. QED
    BY <2>1 DEF MetRuns, Active
<1>10. OwnVector'
  BY <1>1, <1>2 DEF OwnVector
<1>11. QED
  BY <1>6, <1>7, <1>8, <1>9, <1>10 DEF BackfillInv

LEMMA StepReadTable ==
    ASSUME BackfillInv, NEW j \in Jobs, ReadTable(j)
    PROVE  BackfillInv'
<1> DEFINE t == run[j].table
           all == Passes(Missing(t), SOURCES[t].columns)
           r == Onwards(j, t, all)
<1>1. BackfillTyped /\ Sound(run[j])
  BY DEF BackfillInv, SoundRuns
<1>2. /\ run[j].pc = "read"
      /\ run' = [run EXCEPT ![j] = r]
      /\ text' = text /\ stored' = stored /\ gone' = gone /\ vec' = vec /\ failures' = failures
  BY DEF ReadTable
<1>3. t \in DOMAIN SOURCES /\ run[j] \in Runs
  BY <1>1, <1>2 DEF Sound
<1>4. Parted(all, Wanted)
  BY <1>3, TablePart
<1> HIDE DEF all, t
<1>5. Parted(all, Sendable) /\ Parted(all, Nulls)
  <2>1. Wanted \subseteq Sendable /\ Wanted \subseteq Nulls
    BY DEF Wanted, Sendable, Nulls
  <2>2. QED
    BY <1>4, <2>1 DEF Parted
<1>6. Sound(r) /\ r.met = run[j].met /\ r.chunks = all
  BY <1>3, <1>5, OnwardsSound DEF t
<1> HIDE DEF r
<1>7. failures' \in 0 .. MaxFailures
  BY <1>1, <1>2 DEF BackfillTyped
<1>8. Active(j)
  BY <1>2 DEF Active
<1>9. Parted(r.chunks, Nulls)
  BY <1>5, <1>6
<1>10. QED
  BY <1>2, <1>6, <1>7, <1>8, <1>9, OneRunMoves

\* What a run is left with after the chunk it is at.
LEMMA TheRest ==
    ASSUME BackfillInv, NEW j \in Jobs, run[j].pc \in {"call", "write"}
    PROVE  LET chunks == run[j].chunks
               r == Onwards(j, run[j].table, Tail(chunks))
           IN  /\ Sound(r) /\ r.met = run[j].met /\ r.chunks = Tail(chunks)
               /\ Head(chunks) \in Seq(Cells) /\ ToSet(Head(chunks)) \subseteq Sendable
               /\ ~ run[j].met => /\ ToSet(Head(chunks)) \subseteq Nulls
                                  /\ Parted(Tail(chunks), Nulls \ ToSet(Head(chunks)))
<1> DEFINE chunks == run[j].chunks
           t == run[j].table
<1>1. Sound(run[j]) /\ AloneRuns
  BY DEF BackfillInv, SoundRuns
<1>2. /\ run[j] \in Runs /\ t \in DOMAIN SOURCES
      /\ chunks # << >> /\ Parted(chunks, Sendable)
  BY <1>1 DEF Sound
<1>3. ~ run[j].met => Parted(chunks, Nulls)
  BY <1>1 DEF AloneRuns, Active
<1> HIDE DEF chunks
<1>4. /\ Head(chunks) \in Seq(Cells) /\ ToSet(Head(chunks)) \subseteq Sendable
      /\ Parted(Tail(chunks), Sendable \ ToSet(Head(chunks)))
  BY <1>2, PartedRest
<1>5. ~ run[j].met => /\ ToSet(Head(chunks)) \subseteq Nulls
                      /\ Parted(Tail(chunks), Nulls \ ToSet(Head(chunks)))
  BY <1>2, <1>3, PartedRest
<1>6. Parted(Tail(chunks), Sendable)
  BY <1>4 DEF Parted
<1> HIDE DEF t
<1>7. /\ Sound(Onwards(j, t, Tail(chunks)))
      /\ Onwards(j, t, Tail(chunks)).met = run[j].met
      /\ Onwards(j, t, Tail(chunks)).chunks = Tail(chunks)
  BY <1>2, <1>6, OnwardsSound DEF t
<1>8. QED
  BY <1>4, <1>5, <1>7 DEF chunks, t

LEMMA StepCallFails ==
    ASSUME BackfillInv, NEW j \in Jobs, CallFails(j)
    PROVE  BackfillInv'
<1> DEFINE r == Onwards(j, run[j].table, Tail(run[j].chunks))
<1>1. BackfillTyped
  BY DEF BackfillInv
<1>2. /\ run[j].pc = "call"
      /\ run' = [run EXCEPT ![j] = r]
      /\ text' = text /\ stored' = stored /\ gone' = gone /\ vec' = vec
  BY DEF CallFails, NextChunk
<1>3. failures' \in 0 .. MaxFailures
  <2>1. failures' = failures \/ (failures < MaxFailures /\ failures' = failures + 1)
    BY DEF CallFails, Fault
  <2>2. failures \in 0 .. MaxFailures /\ MaxFailures \in Nat
    BY <1>1, BackfillAssumption DEF BackfillTyped
  <2>3. QED
    BY <2>1, <2>2
<1>4. /\ Sound(r) /\ r.met = run[j].met /\ r.chunks = Tail(run[j].chunks)
      /\ ~ run[j].met => Parted(Tail(run[j].chunks), Nulls \ ToSet(Head(run[j].chunks)))
  BY <1>2, TheRest
<1> HIDE DEF r
<1>5. r.pc # "idle" /\ ~ r.met => Parted(r.chunks, Nulls)
  BY <1>4 DEF Parted
<1>6. Active(j)
  BY <1>2 DEF Active
<1>7. QED
  BY <1>2, <1>3, <1>4, <1>5, <1>6, OneRunMoves

LEMMA StepCallAnswers ==
    ASSUME BackfillInv, NEW j \in Jobs, CallAnswers(j)
    PROVE  BackfillInv'
<1> DEFINE r == [run[j] EXCEPT !.pc = "write"]
<1>1. BackfillTyped /\ Sound(run[j]) /\ AloneRuns
  BY DEF BackfillInv, SoundRuns
<1>2. /\ run[j].pc = "call" /\ ~ Refused(Head(run[j].chunks))
      /\ run' = [run EXCEPT ![j] = r]
      /\ text' = text /\ stored' = stored /\ gone' = gone /\ vec' = vec /\ failures' = failures
  BY DEF CallAnswers
<1>3. failures' \in 0 .. MaxFailures
  BY <1>1, <1>2 DEF BackfillTyped
<1>4. /\ r \in Runs /\ r.pc = "write" /\ r.table = run[j].table
      /\ r.chunks = run[j].chunks /\ r.met = run[j].met
  <2>1. run[j] \in Runs
    BY <1>1 DEF Sound
  <2>2. QED
    BY <2>1 DEF Runs
<1> HIDE DEF r
<1>5. Sound(r)
  BY <1>1, <1>2, <1>4 DEF Sound
<1>6. Active(j)
  BY <1>2 DEF Active
<1>7. r.pc # "idle" /\ ~ r.met => Parted(r.chunks, Nulls)
  BY <1>1, <1>4, <1>6 DEF AloneRuns
<1>8. QED
  BY <1>2, <1>3, <1>4, <1>5, <1>6, <1>7, OneRunMoves

\* A run that ends early.
LEMMA StepEnds ==
    ASSUME BackfillInv, NEW j \in Jobs, WriteRaises(j) \/ Dies(j)
    PROVE  BackfillInv'
<1> DEFINE r == [NotRunning EXCEPT !.table = 1]
<1>1. BackfillTyped
  BY DEF BackfillInv
<1>2. /\ run' = [run EXCEPT ![j] = r]
      /\ text' = text /\ stored' = stored /\ gone' = gone /\ vec' = vec
      /\ failures' = failures \/ (failures < MaxFailures /\ failures' = failures + 1)
  BY DEF WriteRaises, Dies, Fault
<1>3. failures' \in 0 .. MaxFailures
  <2>1. failures \in 0 .. MaxFailures /\ MaxFailures \in Nat
    BY <1>1, BackfillAssumption DEF BackfillTyped
  <2>2. QED
    BY <1>2, <2>1
<1>4. Sound(r) /\ r.pc = "idle"
  <2>1. r.pc = "idle"
    BY DEF NotRunning
  <2>2. QED
    BY <2>1, EndsSound
<1> HIDE DEF r
<1>5. QED
  BY <1>2, <1>3, <1>4, OneRunMoves

LEMMA StepRow ==
    ASSUME BackfillInv, NEW r \in AllRows, CreateRow(r) \/ DeleteRow(r)
    PROVE  BackfillInv'
<1>1. BackfillTyped /\ SoundRuns /\ AloneRuns /\ MetRuns /\ OwnVector
  BY DEF BackfillInv
<1>2. /\ text' = text /\ vec' = vec /\ run' = run
      /\ stored' \subseteq stored \cup {r} /\ gone' \subseteq gone \cup {r}
      /\ failures' = failures \/ (failures < MaxFailures /\ failures' = failures + 1)
  BY DEF CreateRow, DeleteRow, Fault
<1>3. failures' \in 0 .. MaxFailures
  <2>1. failures \in 0 .. MaxFailures /\ MaxFailures \in Nat
    BY <1>1, BackfillAssumption DEF BackfillTyped
  <2>2. QED
    BY <1>2, <2>1
<1>4. BackfillTyped'
  BY <1>1, <1>2, <1>3 DEF BackfillTyped
<1>5. SoundRuns'
  <2>1. \A k \in Jobs : Sound(run'[k])
    BY <1>1, <1>2 DEF SoundRuns
  <2>2. QED
    BY <1>2, <2>1, TextStays
<1>6. AloneRuns' /\ MetRuns' /\ OwnVector'
  <2>1. Nulls' = Nulls
    BY <1>2 DEF Nulls
  <2>2. QED
    BY <1>1, <1>2, <2>1 DEF AloneRuns, MetRuns, OwnVector, Active
<1>7. QED
  BY <1>4, <1>5, <1>6 DEF BackfillInv

LEMMA StepWriteChunk ==
    ASSUME BackfillInv, NEW j \in Jobs, WriteChunk(j)
    PROVE  BackfillInv'
<1> DEFINE chunk == Head(run[j].chunks)
           r == Onwards(j, run[j].table, Tail(run[j].chunks))
<1>1. BackfillTyped /\ SoundRuns /\ AloneRuns /\ MetRuns /\ OwnVector /\ Sound(run[j])
  BY DEF BackfillInv, SoundRuns
<1>2. /\ run[j].pc = "write"
      /\ vec' = Written(chunk)
      /\ run' = [run EXCEPT ![j] = r]
      /\ text' = text /\ stored' = stored /\ gone' = gone /\ failures' = failures
  BY DEF WriteChunk
<1>3. /\ Sound(r) /\ r.met = run[j].met /\ r.chunks = Tail(run[j].chunks)
      /\ ToSet(chunk) \subseteq Sendable
      /\ ~ run[j].met => Parted(r.chunks, Nulls \ ToSet(chunk))
  BY <1>2, TheRest
<1>4. ~ Refused(chunk)
  BY <1>1, <1>2 DEF Sound
<1> HIDE DEF chunk, r
<1>5. /\ run \in [Jobs -> Runs] /\ r \in Runs /\ vec \in [Cells -> {Null} \cup Cells]
      /\ text \in [Cells -> {"good", "blank", "refused"}]
  BY <1>1, <1>3, BackfillAssumption DEF BackfillTyped, Sound
<1>6. run'[j] = r /\ \A k \in Jobs : k # j => run'[k] = run[k]
  BY <1>2, <1>5
<1>7. vec' = [c \in Cells |-> IF c \in ToSet(chunk) THEN c ELSE vec[c]]
  BY <1>2 DEF Written
<1>8. BackfillTyped'
  <2>1. run' \in [Jobs -> Runs]
    BY <1>2, <1>5
  <2>2. vec' \in [Cells -> {Null} \cup Cells]
    BY <1>5, <1>7
  <2>3. QED
    BY <1>1, <1>2, <2>1, <2>2 DEF BackfillTyped
<1>9. SoundRuns'
  <2>1. \A k \in Jobs : Sound(run'[k])
    BY <1>1, <1>3, <1>6 DEF SoundRuns
  <2>2. QED
    BY <1>2, <2>1, TextStays
<1>10. AloneRuns'
  <2>1. Nulls \ ToSet(chunk) \subseteq Nulls'
    BY <1>7 DEF Nulls
  <2>2. ASSUME NEW k \in Jobs, run'[k].pc # "idle", ~ run'[k].met
        PROVE  Parted(run'[k].chunks, Nulls')
    <3>1. CASE k = j
      <4>1. Parted(run'[k].chunks, Nulls \ ToSet(chunk))
        BY <1>3, <1>6, <2>2, <3>1
      <4>2. QED
        BY <2>1, <4>1 DEF Parted
    <3>2. CASE k # j
      <4>1. Active(k) /\ Active(j) /\ ~ run[k].met
        BY <1>2, <1>6, <2>2, <3>2 DEF Active
      <4>2. QED
        BY <1>1, <3>2, <4>1 DEF MetRuns
    <3>3. QED
      BY <3>1, <3>2
  <2>3. QED
    BY <2>2 DEF AloneRuns, Active
<1>11. MetRuns'
  <2>1. ASSUME NEW i \in Jobs, NEW k \in Jobs, i # k, run'[i].pc # "idle", run'[k].pc # "idle"
        PROVE  run'[i].met
    <3>1. Active(i) /\ Active(k) /\ run'[i].met = run[i].met
      BY <1>2, <1>3, <1>6, <2>1 DEF Active
    <3>2. QED
      BY <1>1, <2>1, <3>1 DEF MetRuns
  <2>2. QED
    BY <2>1 DEF MetRuns, Active
<1>12. OwnVector'
  <2>1. ASSUME NEW c \in Cells, vec'[c] # Null PROVE vec'[c] = c /\ text'[c] = "good"
    <3>1. CASE c \in ToSet(chunk)
      <4>1. text[c] # "blank"
        BY <1>3, <3>1 DEF Sendable
      <4>2. text[c] # "refused"
        BY <1>4, <3>1 DEF Refused
      <4>3. QED
        BY <1>2, <1>5, <1>7, <3>1, <4>1, <4>2
    <3>2. CASE c \notin ToSet(chunk)
      <4>1. vec'[c] = vec[c]
        BY <1>7, <3>2
      <4>2. QED
        BY <1>1, <1>2, <2>1, <4>1 DEF OwnVector
    <3>3. QED
      BY <3>1, <3>2
  <2>2. QED
    BY <2>1 DEF OwnVector
<1>13. QED
  BY <1>8, <1>9, <1>10, <1>11, <1>12 DEF BackfillInv

THEOREM BackfillInductive == BackfillSpec => []BackfillInv
<1>1. BackfillInit => BackfillInv
  <2>1. SUFFICES ASSUME BackfillInit PROVE BackfillInv
    OBVIOUS
  <2>2. /\ text \in Texts /\ stored = AllRows \ Late /\ gone = {} /\ failures = 0
        /\ vec = [c \in Cells |-> Null] /\ run = [j \in Jobs |-> NotRunning]
    BY <2>1 DEF BackfillInit
  <2>3. Sound(NotRunning) /\ NotRunning.pc = "idle"
    BY EndsSound DEF NotRunning
  <2>4. BackfillTyped
    <3>1. NotRunning \in Runs
      BY <2>3 DEF Sound
    <3>2. run \in [Jobs -> Runs] /\ vec \in [Cells -> {Null} \cup Cells]
      BY <2>2, <3>1
    <3>3. failures \in 0 .. MaxFailures
      BY <2>2, BackfillAssumption
    <3>4. QED
      BY <2>2, <3>2, <3>3 DEF BackfillTyped
  <2>5. \A j \in Jobs : run[j] = NotRunning /\ ~ Active(j)
    BY <2>2, <2>3 DEF Active
  <2>6. SoundRuns /\ AloneRuns /\ MetRuns
    BY <2>3, <2>5 DEF SoundRuns, AloneRuns, MetRuns
  <2>7. OwnVector
    BY <2>2 DEF OwnVector
  <2>8. QED
    BY <2>4, <2>6, <2>7 DEF BackfillInv
<1>2. BackfillInv /\ [BackfillNext]_backfill => BackfillInv'
  <2>1. SUFFICES ASSUME BackfillInv, [BackfillNext]_backfill PROVE BackfillInv'
    OBVIOUS
  <2>2. CASE UNCHANGED backfill
    <3>1. /\ text' = text /\ stored' = stored /\ gone' = gone /\ vec' = vec
          /\ run' = run /\ failures' = failures
      BY <2>2 DEF backfill
    <3>2. Sendable' = Sendable /\ Nulls' = Nulls
      BY <3>1 DEF Sendable, Nulls
    <3>3. BackfillTyped' /\ SoundRuns'
      <4>1. \A k \in Jobs : Sound(run'[k])
        BY <2>1, <3>1 DEF BackfillInv, SoundRuns
      <4>2. QED
        BY <2>1, <3>1, <4>1, TextStays DEF BackfillInv, BackfillTyped
    <3>4. AloneRuns' /\ MetRuns' /\ OwnVector'
      BY <2>1, <3>1, <3>2 DEF BackfillInv, AloneRuns, MetRuns, OwnVector, Active
    <3>5. QED
      BY <3>3, <3>4 DEF BackfillInv
  <2>3. ASSUME NEW j \in Jobs, Begin(j) \/ RunStep(j) \/ Dies(j) PROVE BackfillInv'
    BY <2>1, <2>3, StepBegin, StepReadTable, StepCallFails, StepCallAnswers, StepWriteChunk,
       StepEnds DEF RunStep
  <2>4. ASSUME NEW r \in AllRows, CreateRow(r) \/ DeleteRow(r) PROVE BackfillInv'
    BY <2>1, <2>4, StepRow
  <2>5. QED
    BY <2>1, <2>2, <2>3, <2>4 DEF BackfillNext
<1>3. QED
  BY <1>1, <1>2, PTL DEF BackfillSpec

\* Every variable of the backfill keeps its type.
THEOREM BackfillTypeCorrect == BackfillSpec => []BackfillTypeOK
<1>1. BackfillInv => BackfillTypeOK
  <2>1. SUFFICES ASSUME BackfillInv PROVE BackfillTypeOK
    OBVIOUS
  <2>2. BackfillTyped /\ SoundRuns
    BY <2>1 DEF BackfillInv
  <2>3. ASSUME NEW j \in Jobs
        PROVE  /\ run[j].pc \in {"idle", "read", "call", "write"}
               /\ run[j].table \in 0 .. Len(SOURCES) /\ run[j].met \in BOOLEAN
               /\ \A i \in DOMAIN run[j].chunks : ToSet(run[j].chunks[i]) \subseteq Cells
    <3>1. run[j] \in Runs /\ Parted(run[j].chunks, Sendable)
      BY <2>2 DEF SoundRuns, Sound
    <3>2. Sendable \subseteq Cells
      BY DEF Sendable
    <3>3. \A i \in DOMAIN run[j].chunks : ToSet(run[j].chunks[i]) \subseteq Cells
      BY <3>1, <3>2 DEF Parted
    <3>4. QED
      BY <3>1, <3>3 DEF Runs
  <2>4. QED
    BY <2>2, <2>3 DEF BackfillTyped, BackfillTypeOK
<1>2. QED
  BY <1>1, BackfillInductive, PTL

\* A vector is its own row's and its own column's, and of a text that has one,
\* for any tables, runs by hand, sizes of a chunk and failures (embeddings.py:160-172).
THEOREM VectorsAreTheirOwn == BackfillSpec => []OwnVector
<1>1. BackfillInv => OwnVector
  BY DEF BackfillInv
<1>2. QED
  BY <1>1, BackfillInductive, PTL

\* A run that met no other pays for what is still missing and for nothing else
\* (embeddings.py:6-7).
THEOREM PaidOnce == BackfillSpec => PaidTwiceOnlyByOverlap
<1>1. ASSUME BackfillInv, [BackfillNext]_backfill, NEW j \in Jobs,
             run[j].pc = "call", run'[j].pc = "write"
      PROVE  run[j].met \/ \A c \in ToSet(Head(run[j].chunks)) : vec[c] = Null
  <2>1. ~ run[j].met => ToSet(Head(run[j].chunks)) \subseteq Nulls
    BY <1>1, TheRest
  <2>2. QED
    BY <2>1 DEF Nulls
<1>2. BackfillInv /\ [BackfillNext]_backfill =>
         [\A j \in Jobs :
             run[j].pc = "call" /\ run'[j].pc = "write" =>
                run[j].met \/ \A c \in ToSet(Head(run[j].chunks)) : vec[c] = Null]_backfill
  BY <1>1
<1>3. QED
  BY <1>2, BackfillInductive, PTL DEF BackfillSpec, PaidTwiceOnlyByOverlap

=============================================================================
