------------------------------- MODULE Study -------------------------------
(***************************************************************************)
(* One goal of one student, day after day: lessons served by the ranking   *)
(* (lessons.py), answered right or wrong at some pace, and nights on which *)
(* the backfill embeds the bank and the questions step decides whether to  *)
(* buy more (steps/questions.py).  The rules are LessonRules'; this module *)
(* is where the bank, the answers and the rules meet over time.            *)
(*                                                                         *)
(* The submission, its retries and the rating column are LessonSubmit's;   *)
(* failures of the night are StudentChain's and NightlyRun's.  A question  *)
(* here has a topic, the direction its embedding will point in.            *)
(***************************************************************************)
EXTENDS LessonRules

CONSTANTS Topics,      \* the directions a batch may cover
          Frontier,    \* the direction of the goal's current frontier, or None
          Paces,       \* seconds an answer of a lesson may take
          MaxDays      \* bound: days lived

ASSUME StudyAssumption ==
    /\ Topics \subseteq 0..7 /\ Frontier \in 0..7 \cup {None}
    /\ Paces \subseteq Nat \cup {None} /\ MaxDays \in Nat

VARIABLES day,        \* the app's calendar day
          questions,  \* the bank, in the order its questions were stored
          history,    \* the answers, oldest first
          served      \* the last lesson served, best question first

study == << day, questions, history, served >>

\* BOUND: he takes his lesson at noon, in the middle of the app's day.
LessonHour == 12

Noon == 24 * day + LessonHour

NightRun == 24 * (day + 1) + 3

StudyTypeOK ==
    /\ day \in 0..MaxDays
    /\ \A q \in DOMAIN questions :
          /\ questions[q].born \in Nat /\ questions[q].topic \in Topics
          /\ questions[q].vec \in {None, questions[q].topic}
    /\ \A n \in DOMAIN history : history[n].q \in DOMAIN questions /\ history[n].right \in BOOLEAN
    /\ ToSet(served) \subseteq DOMAIN questions

\* The stored questions of one answer of Gemini's: eight one-step-ahead
\* questions on one topic, or a placement that may wander.
Batch(n, at, topics) ==
    [i \in 1..n |-> [born |-> at, topic |-> topics[i], vec |-> None]]

\* The goal was created this morning and its first chain has run.
StudyInit ==
    /\ day = 0
    /\ history = << >>
    /\ served = << >>
    /\ \E topics \in [1..PlacementSize -> Topics] :
          questions = Batch(PlacementSize, 10, topics)

\* list_recent_seconds: his last answers that timed themselves, newest first.
RecentSeconds ==
    LET timed == SelectSeq(history, LAMBDA a : a.seconds # None)
    IN  SubSeq(Reverse([n \in DOMAIN timed |-> timed[n].seconds]),
               1, Min({PaceWindow, Len(timed)}))

Size == LessonSize(RecentSeconds, MinQuestions, MaxQuestions)

StudiedOn(d) == \E n \in DOMAIN history : history[n].at \in (24 * d)..(24 * d + 23)

\* POST /goals/{id}/lessons and the answers that come back, as one batch.
TakeLesson ==
    /\ ~ StudiedOn(day)
    /\ questions # << >>
    /\ served' = SelectLesson(questions, history, Size, Frontier, Noon)
    /\ \E right \in [DOMAIN served' -> BOOLEAN], pace \in Paces :
          history' = history \o
              [n \in DOMAIN served' |->
                  [q |-> served'[n], at |-> Noon, right |-> right[n], seconds |-> pace]]
    /\ UNCHANGED << day, questions >>

\* Midnight's backfill.
Embedded == [q \in DOMAIN questions |-> [questions[q] EXCEPT !.vec = questions[q].topic]]

\* 03:00: tomorrow's lesson is built, and the batch bought if it is too easy.
\* A student who did not study is not served (nightly_decision.py).
Night ==
    /\ day < MaxDays
    /\ day' = day + 1
    /\ LET ranked == RankBank(Embedded, history, Frontier, NightRun)
           asked  == IF StudiedOn(day) THEN Decide(ranked, Fill(ranked, Size), Len(history)) ELSE 0
       IN  \E topic \in Topics :
              questions' = Embedded \o Batch(asked, NightRun, [i \in 1..asked |-> topic])
    /\ UNCHANGED << history, served >>

Done == day = MaxDays /\ UNCHANGED study

StudyNext == TakeLesson \/ Night \/ Done

StudySpec == StudyInit /\ [][StudyNext]_study

-----------------------------------------------------------------------------
(* What the rules promise over time.                                       *)

AnswersBefore(moment) == Kept(history, {a \in ToSet(history) : a.at < moment})

\* A question keeps the rating the student had when it was written for him
\* (rasch.py:113-116): whatever is answered or bought later, its anchor is
\* the replay of the answers given before it was born.
AnchoredAtBirth ==
    LET ratings == Replay(questions, history)
    IN  \A q \in DOMAIN questions :
           ratings.difficulty[q].anchor =
               Replay(questions, AnswersBefore(questions[q].born)).rating

\* The bank follows the student (generation.py:1-30): a night never buys past
\* the placement before he is measured, nor for one who got every answer
\* wrong; and always does for one who was measured and got them all right.
BankFollowsHim ==
    [][ LET bought   == Len(questions') > Len(questions)
            measured == Len(history) >= PlacementSize
        IN  /\ bought => measured /\ \E n \in DOMAIN history : history[n].right
            /\ (Night /\ StudiedOn(day) /\ measured
                  /\ \A n \in DOMAIN history : history[n].right) => bought ]_study

\* No lesson holds two wordings of one question while it leaves out an equal
\* question about something else (selection.py:138-144): equal is never
\* answered, written in the same batch, and as close to the frontier.
NoRewordingFirst ==
    [][ TakeLesson =>
          LET in == ToSet(served')
              Fresh(q) == (\A n \in DOMAIN history : history[n].q # q) /\ questions[q].vec # None
          IN  \A i, j \in in, k \in DOMAIN questions \ in :
                 /\ i # j /\ questions[i].vec = questions[j].vec
                 /\ Fresh(i) /\ Fresh(j) /\ Fresh(k)
                 /\ questions[i].born = questions[k].born /\ questions[j].born = questions[k].born
                 /\ Affinity(questions[k].vec, Frontier) >= Affinity(questions[j].vec, Frontier)
                 => \E c \in in : Cosine(questions[k].vec, questions[c].vec) > 0 ]_study

\* The rule as it is written (streak.py:10-32): the days studied since the
\* last one that was the third or later missed day of its week, when no day
\* before his first answer is missed and neither is today.
StreakRule(studied, today) ==
    LET Past   == (Min(studied)..(today - 1)) \ studied
        resets == {d \in Past : Cardinality({m \in Past : Monday(m) = Monday(d) /\ m < d})
                                    >= DaysOffPerWeek}
    IN  Cardinality({d \in studied : \A reset \in resets : d >= reset})

\* The rule says nothing of a state: TLC looks at it in the first.
First == day = 0 /\ history = << >>

\* The streak counted forward is the rule, for every set of days 3 to 15 he
\* may have studied.
StreakIsTheRule ==
    First => \A studied \in (SUBSET (3..15)) \ {{}} :
                CurrentStreak(studied, 15) = StreakRule(studied, 15)
=============================================================================
