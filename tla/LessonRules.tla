---------------------------- MODULE LessonRules ----------------------------
(***************************************************************************)
(* The arithmetic that decides what a student sees: the rating replayed    *)
(* from his answers (rasch.py), the size of a lesson (pacing.py), the      *)
(* questions it serves (selection.py), whether a night buys more of them   *)
(* (generation.py) and the streak (streak.py).  Everything here is a       *)
(* function of the bank and of the answers; Study.tla runs it.             *)
(*                                                                         *)
(* Numbers are fixed-point: a chance, a term of the ranking and a cosine   *)
(* are thousandths, a rating is thousandths of a point, a moment is an     *)
(* hour counted from the midnight of day 0 (a Monday).  10^x and exp(-x)   *)
(* are read off tables, so two scores closer than about a thousandth tie.  *)
(* The context term has weight zero in the code and is left out.           *)
(*                                                                         *)
(* A question is [born, vec]: when it was stored, and the direction its    *)
(* embedding points in, one of eight on a circle, or None before the       *)
(* backfill.  An answer is [q, at, right].                                 *)
(***************************************************************************)
EXTENDS SeqTools, FiniteSetsExt, TLC

CONSTANTS None,             \* no embedding, no duration, no rank
          MinQuestions,     \* a lesson's floor and ceiling
          MaxQuestions,
          PlacementSize,    \* a goal's first batch, and the answers that measure him
          PerGeneration     \* every later batch

ASSUME NoneAssumption == None \notin Int

ASSUME SizesAssumption ==
    /\ MinQuestions \in Nat \ {0} /\ MaxQuestions \in Nat /\ MinQuestions <= MaxQuestions
    /\ PlacementSize \in Nat \ {0} /\ PerGeneration \in Nat \ {0}

Clamp(x, low, high) == IF x < low THEN low ELSE IF x > high THEN high ELSE x

\* The same sequence, as a tuple: TLC computes each of its elements once.
Tuple(seq) == SubSeq(seq, 1, Len(seq))

-----------------------------------------------------------------------------
(* rasch.py *)

StartRating == 1200 * 1000

Guess == 250

\* 10 ^ (k / 16): a step of 25 rating points, in thousandths.
Powers == << 1000, 1155, 1334, 1540, 1778, 2054, 2371, 2738, 3162,
             3652, 4217, 4870, 5623, 6494, 7499, 8660, 10000 >>

Tens == << 1, 10, 100, 1000 >>

\* 10 ^ (points / 400), in thousandths.
Odds(points) ==
    LET x     == Clamp(points, -1200, 1199)
        step  == (x % 400) \div 25
        curve == Powers[step + 1] + ((Powers[step + 2] - Powers[step + 1]) * (x % 25)) \div 25
    IN  IF x >= 0 THEN curve * Tens[x \div 400 + 1] ELSE curve \div Tens[-(x \div 400) + 1]

\* A difficulty is its anchor and the skill its answers show: b = anchor +
\* 400 log10((1 - skill) / skill), kept as the pair so that no logarithm is taken.
Difficulty(anchor, tally) ==
    LET observed == (1000 * tally.right + 1250) \div (tally.answered + 2)
    IN  [anchor |-> anchor, skill |-> Clamp(((observed - Guess) * 1000) \div 750, 10, 990)]

ExpectedScore(rating, b) ==
    LET against == (Odds((b.anchor - rating) \div 1000) * (1000 - b.skill)) \div b.skill
    IN  Guess + 750000 \div (1000 + against)

KFactor(seen) == 10000 + 1200000 \div (40 + seen)

Untold == [answered |-> 0, right |-> 0]

\* dict.setdefault, for all of S: what has an anchor keeps it.  rasch.py:130
\* assigns it to the questions born by now, which have none: a question is
\* answered only after it was born.
Anchored(anchors, S, rating) ==
    [q \in DOMAIN anchors \cup S |-> IF q \in DOMAIN anchors THEN anchors[q] ELSE rating]

\* What an answer makes of the rating and of its question's tally.
Rated(walk, answer, anchor) ==
    LET expected == ExpectedScore(walk.rating, Difficulty(anchor, walk.tally[answer.q]))
        score    == IF answer.right THEN 1000 ELSE 0
    IN  walk.rating + (KFactor(walk.seen) * (score - expected)) \div 1000

Told(tally, answer) ==
    [answered |-> tally.answered + 1, right |-> tally.right + (IF answer.right THEN 1 ELSE 0)]

BornBy(bank, moment) == {q \in DOMAIN bank : bank[q].born <= moment}

\* FAULT: a question is anchored after the first answer given since it was born.
WalkAnswerFirst(bank, walk, answer) ==
    LET first  == Anchored(walk.anchors, {answer.q}, walk.rating)
        rating == Rated(walk, answer, first[answer.q])
    IN  [rating  |-> rating,
         anchors |-> Anchored(walk.anchors, BornBy(bank, answer.at), rating),
         tally   |-> [walk.tally EXCEPT ![answer.q] = Told(@, answer)],
         seen    |-> walk.seen + 1]

\* One answer: the questions born by then are anchored at the rating so far,
\* and the answer is scored against what the earlier ones said of its question.
WalkAnswer(bank, walk, answer) ==
    LET anchors == Anchored(walk.anchors, BornBy(bank, answer.at) \cup {answer.q}, walk.rating)
    IN  [rating  |-> Rated(walk, answer, anchors[answer.q]),
         anchors |-> anchors,
         tally   |-> [walk.tally EXCEPT ![answer.q] = Told(@, answer)],
         seen    |-> walk.seen + 1]

Unwalked(bank) == [rating |-> StartRating, seen |-> 0, anchors |-> << >>,
                   tally |-> [q \in DOMAIN bank |-> Untold]]

Walk(bank, history) ==
    FoldLeft(LAMBDA w, a : WalkAnswer(bank, w, a), Unwalked(bank), history)

\* The walk's end: what no answer came after is anchored there.  The rating
\* stays in thousandths, where rasch.py:140 rounds what it returns to a point;
\* the anchors are not rounded there either.
Replay(bank, history) ==
    LET walk    == Walk(bank, history)
        anchors == Anchored(walk.anchors, DOMAIN bank, walk.rating)
    IN  [rating     |-> walk.rating,
         difficulty |-> [q \in DOMAIN bank |-> Difficulty(anchors[q], walk.tally[q])]]

-----------------------------------------------------------------------------
(* pacing.py *)

LessonSeconds == 120

PaceWindow == 24

\* a / b rounded, a half to the even neighbour, as Python's round does.
RoundHalfEven(a, b) ==
    LET q == a \div b
        r == a % b
    IN  IF 2 * r > b \/ (2 * r = b /\ q % 2 = 1) THEN q + 1 ELSE q

\* Twice the median of a non-empty sequence.
TwiceMedian(seq) ==
    LET sorted == SortSeq(seq, <)
        n      == Len(seq)
    IN  sorted[(n + 1) \div 2] + sorted[n \div 2 + 1]

LessonSize(seconds, least, most) ==
    LET timed == SelectSeq(SubSeq(seconds, 1, Min({PaceWindow, Len(seconds)})),
                           LAMBDA s : s # None /\ s > 0)
    IN  IF timed = << >> THEN least
        ELSE Clamp(RoundHalfEven(2 * LessonSeconds, TwiceMedian(timed)), least, most)

-----------------------------------------------------------------------------
(* selection.py *)

TargetScore == 750

\* One standard deviation below and above the target: the same share of the
\* room there is on each side.
Tolerance(expected) == IF expected <= TargetScore THEN 150
                       ELSE (150 * (1000 - TargetScore)) \div (TargetScore - Guess)

\* exp(-n / 20) in units of 10^-5, from n = 0: the powers of exp(-1/20) = 0.951229.
Unfaded == 100000

NextFade(fades) == Append(fades, (Last(fades) * 9512) \div 10000)

Fades(steps) == FoldLeft(LAMBDA fades, step : NextFade(fades), << Unfaded >>, steps)

Fade == Fades([n \in 1..200 |-> n])

\* exp(-x / 1000), in thousandths.
Decay(x) == IF x >= 10000 THEN 0
            ELSE LET n == x \div 50 + 1
                 IN  (Fade[n] - ((Fade[n] - Fade[n + 1]) * (x % 50)) \div 50) \div 100

ThresholdScore(expected) ==
    LET z == ((expected - TargetScore) * 100) \div Tolerance(expected)
    IN  Decay((z * z) \div 20)

WindowHours == 30 * 24

\* 2.5 ^ n, as fractions.
Growth == << <<1, 1>>, <<5, 2>>, <<25, 4>>, <<125, 8>>, <<625, 16>>, <<3125, 32>>, <<15625, 64>> >>

\* Hours in thousandths of the horizon of his memory: one day, grown 2.5 times
\* by every right answer in a row.
Horizons(hours, streak) ==
    LET grown == Growth[(IF streak < 6 THEN streak ELSE 6) + 1]
    IN  (1000 * hours * grown[2]) \div (24 * grown[1])

ForgettingScore(recall, now) ==
    IF recall.at = None THEN 0
    ELSE 1000 - Decay(Horizons(Clamp(now - recall.at, 0, WindowHours), recall.streak))

Cosines == << 1000, 707, 0, -707, -1000, -707, 0, 707 >>

Cosine(left, right) ==
    IF None \in {left, right} THEN None ELSE Cosines[((left - right) % 8) + 1]

Neutral == 500

Affinity(left, right) ==
    IF Cosine(left, right) = None THEN Neutral ELSE Max({0, Cosine(left, right)})

\* The last answer to q in the whole history, and the right answers in a row
\* that end its record inside the window.
NoRecall == [at |-> None, streak |-> 0]

Recalled(recall, answer, inside) ==
    [at     |-> answer.at,
     streak |-> IF answer.at < inside THEN recall.streak
                ELSE IF answer.right THEN recall.streak + 1 ELSE 0]

Recall(history, q, now) ==
    FoldLeft(LAMBDA r, a : IF a.q = q THEN Recalled(r, a, now - WindowHours) ELSE r,
             NoRecall, history)

\* What every question of the bank is worth, before the lesson is built.
RankBank(bank, history, frontier, now) ==
    LET ratings == Replay(bank, history)
    IN  Tuple([q \in DOMAIN bank |->
            LET expected == ExpectedScore(ratings.rating, ratings.difficulty[q])
                recall   == Recall(history, q, now)
            IN  [vec        |-> bank[q].vec,
                 expected   |-> expected,
                 threshold  |-> ThresholdScore(expected),
                 forgetting |-> ForgettingScore(recall, now),
                 frontier   |-> Affinity(bank[q].vec, frontier),
                 novelty    |-> IF recall.at = None THEN 1000 ELSE 0]])

\* FAULT: coverage forgets what the lesson already holds.
DiversityNeutral(ranked, taken, q) == Neutral

\* How unlike the questions taken q is.
Diversity(ranked, taken, q) ==
    LET compared == {Cosine(ranked[q].vec, ranked[c].vec) : c \in taken} \ {None}
    IN  IF compared = {} THEN Neutral ELSE 1000 - Clamp(Max(compared), 0, 1000)

\* In tenths.
Weight == [threshold |-> 10, forgetting |-> 8, coverage |-> 4, novelty |-> 5]

Score(entry, diversity) ==
    Weight.threshold * entry.threshold + Weight.forgetting * entry.forgetting
        + Weight.coverage * ((entry.frontier + diversity) \div 2) + Weight.novelty * entry.novelty

Worth(ranked, taken, q) == Score(ranked[q], Diversity(ranked, taken, q))

\* The best of the questions left, given those taken; a tie goes to the older
\* question, and the bank is in the order its questions were stored.
Best(ranked, taken) ==
    LET left == DOMAIN ranked \ taken
        top  == Max({Worth(ranked, taken, q) : q \in left})
    IN  Min({q \in left : Worth(ranked, taken, q) = top})

AddBest(ranked, size, chosen) ==
    LET taken == ToSet(chosen)
    IN  IF Len(chosen) < size /\ taken # DOMAIN ranked
        THEN Append(chosen, Best(ranked, taken)) ELSE chosen

\* Greedy: the best question, then the best given that one, as long as one is
\* left and the lesson is short.
Fill(ranked, size) ==
    FoldLeft(LAMBDA chosen, entry : AddBest(ranked, size, chosen), << >>, ranked)

SelectLesson(bank, history, size, frontier, now) ==
    Fill(RankBank(bank, history, frontier, now), size)

-----------------------------------------------------------------------------
(* generation.py *)

GenerateAbove == TargetScore - 150

\* FAULT: a student nobody has measured is bought for.
DecideUnmeasured(ranked, lesson, answers) ==
    IF lesson = << >> THEN PlacementSize
    ELSE IF FoldLeft(LAMBDA n, q : n + ranked[q].expected, 0, lesson)
              < GenerateAbove * Len(lesson) THEN 0
    ELSE PerGeneration

\* How many questions tonight's call is asked for.
Decide(ranked, lesson, answers) ==
    IF lesson = << >> THEN PlacementSize
    ELSE IF answers < PlacementSize THEN 0
    ELSE IF FoldLeft(LAMBDA n, q : n + ranked[q].expected, 0, lesson)
              < GenerateAbove * Len(lesson) THEN 0
    ELSE PerGeneration

-----------------------------------------------------------------------------
(* streak.py *)

DaysOffPerWeek == 2

Monday(day) == day - (day % 7)

\* The days he missed of a day's week.
MissedInWeek(misses, day) == {d \in misses : Monday(d) = Monday(day)}

Missed(walk, day) ==
    [streak |-> IF Cardinality(MissedInWeek(walk.misses, day)) >= DaysOffPerWeek THEN 0
                ELSE walk.streak,
     misses |-> walk.misses \cup {day}]

\* FAULT: a day he studies gives the week its days off back.
DayLivedRefilled(walk, day, studied) ==
    IF day \in studied THEN [streak |-> walk.streak + 1, misses |-> {}] ELSE Missed(walk, day)

\* One day that is over: it adds when studied; the third missed day of its
\* week starts the count again.
DayLived(walk, day, studied) ==
    IF day \in studied THEN [walk EXCEPT !.streak = @ + 1] ELSE Missed(walk, day)

\* Day by day from the first he studied to yesterday.
DaysLived(studied, today) ==
    FoldLeft(LAMBDA w, d : DayLived(w, d, studied), [streak |-> 0, misses |-> {}],
             [i \in 1..(today - Min(studied)) |-> Min(studied) + i - 1])

CurrentStreak(studied, today) ==
    IF studied = {} THEN 0
    ELSE DaysLived(studied, today).streak + (IF today \in studied THEN 1 ELSE 0)
=============================================================================
