---------------------------- MODULE LessonSubmit ----------------------------
(***************************************************************************)
(* Submitting lessons on one goal: the LessonController of each opened     *)
(* lesson, the transaction submit_lesson_answers runs for each request,    *)
(* and what runs beside it on the same rows: the generation of questions   *)
(* and the deletion of the goal.                                           *)
(*                                                                         *)
(* The database is at READ COMMITTED: a statement reads what is committed  *)
(* when it starts and what its own transaction wrote.  An inserted answer  *)
(* holds its question's row (the foreign key), a written rating holds the  *)
(* goal's row, and whoever needs a held row waits.                         *)
(*                                                                         *)
(* A rating is a number computed from an ordered history.  Here it is that *)
(* computation's input, a walk: which batches of answers were walked, each *)
(* one's place, and where the walk stood when each question was anchored.  *)
(* Two equal walks are the same rating.                                    *)
(***************************************************************************)
EXTENDS Integers, FiniteSets

CONSTANTS
    Lesson,     \* lessons opened, on any device
    Request,    \* BOUND: submissions that reach the network, over all lessons
    Question,   \* questions the goal's bank may come to hold
    FirstBank,  \* the questions it holds at first
    Served,     \* BOUND: the sets of questions the selection serves
    Null        \* nobody, no request

ASSUME NullAssumption == Null \notin Request \cup Lesson
ASSUME BankAssumption == FirstBank \subseteq Question /\ FirstBank # {}
ASSUME ServedAssumption == Served \subseteq (SUBSET Question) \ {{}}
ASSUME DisjointAssumption == Request \cap Question = {}
ASSUME DeletionAssumption == "deletion" \notin Request \cup {Null}

VARIABLES
    phase,   \* LessonController.state of each lesson
    asked,   \* the questions start_lesson served
    attempt, \* the request each lesson waits for
    gaveUp,  \* requests whose client stopped waiting
    pc, from, \* each request: how far it is, and the lesson it carries
    loaded,  \* the rating its goal object carries
    known,   \* the bank it read
    before,  \* the submissions stored when it read the bank
    new,     \* the rating it replayed
    elo,     \* the delta it answers with: a pair of ratings
    older,   \* by created_at: the batches of answers older than each row
    bank,    \* committed questions
    stored,  \* committed batches of answers
    rating,  \* the goal's committed rating
    holder,  \* who holds the goal's row
    last,    \* the submission that committed last, if any, and its `before`
    gen,     \* the job that generates questions
    del      \* the deletion of the goal

client == <<phase, asked, attempt, gaveUp>>
request == <<pc, from, loaded, known, before, new, elo>>
tables == <<older, bank, stored, rating, holder, last>>
vars == <<client, request, tables, gen, del>>

Phase == {"closed", "answering", "submitting", "failed", "done", "left"}
Under == {"sent", "loaded", "graded", "inserted", "replayed", "written"}
Ended == {"ok", "error"}     \* an evaluation, or any ApiException
Deletion == "deletion"

Asked(r) == asked[from[r]]
Row == Question \cup Request    \* a question, or a request's answers
Earlier(batch, row) == batch \in older[row]
Holding == {r \in Request : pc[r] \in {"inserted", "replayed", "written"}}
NoLast == [by |-> Null, saw |-> {}]
Alive == del # "deleted"

-----------------------------------------------------------------------------
(* rasch.replay: the batches in order.  A question of the bank is anchored *)
(* where the walk passes its created_at, any other at its first answer.    *)
Anchor(q, known_, batches) ==
    Cardinality({b \in batches :
        IF q \in known_ THEN Earlier(b, q)
        ELSE \A c \in batches : q \in Asked(c) => Earlier(b, c)})

replay(known_, batches) ==
    [b \in batches |->
        [place   |-> Cardinality({c \in batches : Earlier(c, b)}),
         anchors |-> [q \in Asked(b) |-> Anchor(q, known_, batches)]]]

Start == replay({}, {})     \* START_RATING: nothing walked yet

Init ==
    /\ phase = [l \in Lesson |-> "closed"]
    /\ asked = [l \in Lesson |-> {}]
    /\ attempt = [l \in Lesson |-> Null]
    /\ gaveUp = {}
    /\ pc = [r \in Request |-> "free"]
    /\ from = [r \in Request |-> Null]
    /\ loaded = [r \in Request |-> <<>>]
    /\ known = [r \in Request |-> {}]
    /\ before = [r \in Request |-> {}]
    /\ new = [r \in Request |-> <<>>]
    /\ elo = [r \in Request |-> <<>>]
    /\ older = [row \in Row |-> {}]
    /\ bank = FirstBank
    /\ stored = {}
    /\ rating = Start
    /\ holder = Null
    /\ last = NoLast
    /\ gen = "idle"
    /\ del = "idle"

-----------------------------------------------------------------------------
(* The app *)

\* build: start_lesson serves some of the committed bank; an empty one is a
\* 409 and opens nothing.  Which questions is selection.py's business.
Open(l) ==
    /\ phase[l] = "closed" /\ Alive
    /\ \E some \in Served \cap SUBSET bank : asked' = [asked EXCEPT ![l] = some]
    /\ phase' = [phase EXCEPT ![l] = "answering"]
    /\ UNCHANGED <<attempt, gaveUp, request, tables, gen, del>>

\* _submit of a first round with no gap: the state becomes LessonSubmitting,
\* in which neither nextQuestion nor retrySubmit finds anything to send.
Sends(l, phases) ==
    /\ phase[l] \in phases
    /\ \E r \in Request :
        /\ pc[r] = "free"
        /\ pc' = [pc EXCEPT ![r] = "sent"]
        /\ from' = [from EXCEPT ![r] = l]
        /\ attempt' = [attempt EXCEPT ![l] = r]
    /\ phase' = [phase EXCEPT ![l] = "submitting"]
    /\ UNCHANGED <<asked, gaveUp, loaded, known, before, new, elo, tables, gen, del>>

\* nextQuestion past the last question of the first round.
Submit(l) == Sends(l, {"answering"})

\* FAULT: the button is not gone while the answers are on their way.
RetrySubmitTwice(l) == Sends(l, {"failed", "submitting"})

\* retrySubmit: the same answers again, after a failure.
RetrySubmit(l) == Sends(l, {"failed"})

\* The answer arrives: an evaluation goes on to the review or the result, an
\* ApiException goes back to the first round with submitFailure.
Receive(l) ==
    /\ phase[l] = "submitting" /\ pc[attempt[l]] \in Ended
    /\ phase' = [phase EXCEPT ![l] = IF pc[attempt[l]] = "ok" THEN "done" ELSE "failed"]
    /\ attempt' = [attempt EXCEPT ![l] = Null]
    /\ UNCHANGED <<asked, gaveUp, request, tables, gen, del>>

\* TimedOut or ServerUnreachable: no answer is waited for any more, whatever
\* the server has done or is about to do with the request.
GiveUp(l) ==
    /\ phase[l] = "submitting"
    /\ phase' = [phase EXCEPT ![l] = "failed"]
    /\ gaveUp' = gaveUp \cup {attempt[l]}
    /\ attempt' = [attempt EXCEPT ![l] = Null]
    /\ UNCHANGED <<asked, request, tables, gen, del>>

\* The screen is left: the provider is disposed, a late answer is dropped.
\* Left at any other time it sends nothing more: the lesson just stays put.
Leave(l) ==
    /\ phase[l] = "submitting"
    /\ phase' = [phase EXCEPT ![l] = "left"]
    /\ attempt' = [attempt EXCEPT ![l] = Null]
    /\ UNCHANGED <<asked, gaveUp, request, tables, gen, del>>

-----------------------------------------------------------------------------
(* submit_lesson_answers, one statement at a time *)

Goes(r, where) == pc' = [pc EXCEPT ![r] = where]

\* A request's objects go with its session.
Forgets(r) ==
    /\ loaded' = [loaded EXCEPT ![r] = <<>>]
    /\ known' = [known EXCEPT ![r] = {}]
    /\ before' = [before EXCEPT ![r] = {}]
    /\ new' = [new EXCEPT ![r] = <<>>]
    /\ elo' = [elo EXCEPT ![r] = <<>>]

\* The request ends with nothing stored.
EndsUnstored(r) ==
    /\ Goes(r, "error")
    /\ from' = [from EXCEPT ![r] = Null]
    /\ Forgets(r)

\* get_owned_goal: the goal object keeps the rating it read here.  A goal
\* that is gone is a 404.
LoadGoal(r) ==
    /\ pc[r] = "sent"
    /\ \/ /\ Alive
          /\ Goes(r, "loaded")
          /\ loaded' = [loaded EXCEPT ![r] = rating]
          /\ UNCHANGED <<from, known, before, new, elo>>
       \/ ~Alive /\ EndsUnstored(r)
    /\ UNCHANGED <<client, tables, gen, del>>

\* list_by_goal and grade_lesson: an answer that names a question outside
\* the bank is a 422.
Grade(r) ==
    /\ pc[r] = "loaded"
    /\ \/ /\ Asked(r) \subseteq bank
          /\ Goes(r, "graded")
          /\ known' = [known EXCEPT ![r] = bank]
          /\ before' = [before EXCEPT ![r] = stored]
          /\ UNCHANGED <<from, loaded, new, elo>>
       \/ ~(Asked(r) \subseteq bank) /\ EndsUnstored(r)
    /\ UNCHANGED <<client, tables, gen, del>>

\* create_many: every answer is inserted, stamped as it is flushed.  It waits
\* for a deletion that holds the questions; without them the foreign key
\* fails, and the whole transaction with it.
CreateMany(r) ==
    /\ pc[r] = "graded" /\ del # "cascaded"
    /\ \/ /\ Alive
          /\ Goes(r, "inserted") /\ older' = [older EXCEPT ![r] = stored \cup Holding]
          /\ UNCHANGED <<from, loaded, known, before, new, elo>>
       \/ ~Alive /\ EndsUnstored(r) /\ UNCHANGED older
    /\ UNCHANGED <<client, bank, stored, rating, holder, last, gen, del>>

\* FAULT: the rating is nudged by this lesson, from the one the goal carries.
ReplayHistoryNudged(r) ==
    /\ pc[r] = "inserted"
    /\ Goes(r, "replayed")
    /\ new' = [new EXCEPT ![r] =
          [b \in DOMAIN loaded[r] \cup {r} |->
              IF b = r THEN replay(known[r], {r})[r] ELSE loaded[r][b]]]
    /\ elo' = [elo EXCEPT ![r] = <<new'[r], loaded[r]>>]
    /\ UNCHANGED <<client, from, loaded, known, before, tables, gen, del>>

\* FAULT: the history is what was read before the answers were written.
ReplayHistoryRead(r) ==
    /\ pc[r] = "inserted"
    /\ Goes(r, "replayed")
    /\ new' = [new EXCEPT ![r] = replay(known[r], before[r])]
    /\ elo' = [elo EXCEPT ![r] = <<new'[r], loaded[r]>>]
    /\ UNCHANGED <<client, from, loaded, known, before, tables, gen, del>>

\* FAULT: the delta is taken after set_rating brought the goal object up to
\* date (synchronize_session="fetch").
ReplayHistoryLateDelta(r) ==
    /\ pc[r] = "inserted"
    /\ Goes(r, "replayed")
    /\ new' = [new EXCEPT ![r] = replay(known[r], stored \cup {r})]
    /\ elo' = [elo EXCEPT ![r] = <<new'[r], new'[r]>>]
    /\ UNCHANGED <<client, from, loaded, known, before, tables, gen, del>>

\* list_history_by_goal sees what is committed and this request's own batch;
\* the walk goes over the bank read earlier, and the delta is against the
\* rating read earlier still.
ReplayHistory(r) ==
    /\ pc[r] = "inserted"
    /\ Goes(r, "replayed")
    /\ new' = [new EXCEPT ![r] = replay(known[r], stored \cup {r})]
    /\ elo' = [elo EXCEPT ![r] = <<new'[r], loaded[r]>>]
    /\ UNCHANGED <<client, from, loaded, known, before, tables, gen, del>>

\* set_rating: the UPDATE waits for whoever holds the goal's row.
SetRating(r) ==
    /\ pc[r] = "replayed" /\ holder = Null
    /\ Goes(r, "written")
    /\ holder' = r
    /\ UNCHANGED <<client, from, loaded, known, before, new, elo>>
    /\ UNCHANGED <<older, bank, stored, rating, last, gen, del>>

Commit(r) ==
    /\ pc[r] = "written"
    /\ Goes(r, "ok")
    /\ stored' = stored \cup {r}
    /\ rating' = new[r]
    /\ last' = [by |-> r, saw |-> before[r]]
    /\ holder' = Null
    /\ Forgets(r)
    /\ UNCHANGED <<client, from, older, bank, gen, del>>

\* FAULT: get_db does not close the session of a request that raised.
RollsBackNever(r) == EndsUnstored(r) /\ UNCHANGED <<older, holder>>

\* The session is closed: what the transaction wrote and held is let go.
RollsBack(r) ==
    /\ EndsUnstored(r)
    /\ older' = [row \in Row |-> IF row = r THEN {} ELSE older[row] \ {r}]
    /\ holder' = IF holder = r THEN Null ELSE holder

\* The database or the worker fails under the request, or it never arrives.
Fails(r) ==
    /\ pc[r] \in Under
    /\ RollsBack(r)
    /\ UNCHANGED <<client, bank, stored, rating, last, gen, del>>

-----------------------------------------------------------------------------
(* The questions step of a chain: a batch is inserted, then committed.  The *)
(* insert holds the goal's row against its deletion only.                  *)

CreateQuestions ==
    /\ gen = "idle" /\ del = "idle" /\ Question # FirstBank
    /\ gen' = "inserted"
    /\ older' = [row \in Row |-> IF row \in Question \ FirstBank THEN stored \cup Holding ELSE older[row]]
    /\ UNCHANGED <<client, request, bank, stored, rating, holder, last, del>>

CommitQuestions ==
    /\ gen = "inserted"
    /\ gen' = "committed"
    /\ bank' = Question
    /\ UNCHANGED <<client, request, older, stored, rating, holder, last, del>>

-----------------------------------------------------------------------------
(* delete_goal: one DELETE, whose cascade reaches the questions after the  *)
(* goal's row is held, and a commit.  One that fails may be tried again.    *)

DeleteGoal ==
    /\ del = "idle" /\ holder = Null /\ gen # "inserted"
    /\ del' = "row" /\ holder' = Deletion
    /\ UNCHANGED <<client, request, older, bank, stored, rating, last, gen>>

Cascade ==
    /\ del = "row" /\ Holding = {}
    /\ del' = "cascaded"
    /\ UNCHANGED <<client, request, tables, gen>>

CommitDelete ==
    /\ del = "cascaded"
    /\ del' = "deleted"
    /\ older' = [row \in Row |-> {}] /\ bank' = {} /\ stored' = {} /\ rating' = Start
    /\ holder' = Null /\ last' = NoLast
    /\ UNCHANGED <<client, request, gen>>

DeleteFails ==
    /\ del \in {"row", "cascaded"}
    /\ del' = "idle"
    /\ holder' = Null
    /\ UNCHANGED <<client, request, older, bank, stored, rating, last, gen>>

\* The deletion holds the goal and waits for the questions of a submission
\* that waits for the goal: Postgres fails one of the two.
BreakDeadlock ==
    /\ del = "row"
    /\ \E r \in Request : pc[r] = "replayed" /\ (Fails(r) \/ DeleteFails)

-----------------------------------------------------------------------------
App(l) == Open(l) \/ Submit(l) \/ RetrySubmit(l) \/ Receive(l) \/ GiveUp(l) \/ Leave(l)
Serve(r) ==
    \/ LoadGoal(r) \/ Grade(r) \/ CreateMany(r) \/ ReplayHistory(r)
    \/ SetRating(r) \/ Commit(r)
Generate == CreateQuestions \/ CommitQuestions
Delete == DeleteGoal \/ Cascade \/ CommitDelete

Next ==
    \/ \E l \in Lesson : App(l)
    \/ \E r \in Request : Serve(r) \/ Fails(r)
    \/ Generate
    \/ Delete \/ DeleteFails
    \/ BreakDeadlock

Spec == Init /\ [][Next]_vars

\* A statement that can run does; a row is handed to its waiters in turn,
\* however often a deletion is tried; a deadlock is broken; and the app hears
\* of an answer or stops waiting.
Fairness ==
    /\ \A r \in Request : SF_vars(Serve(r))
    /\ WF_vars(Cascade) /\ WF_vars(CommitDelete) /\ WF_vars(BreakDeadlock)
    /\ \A l \in Lesson : WF_vars(Receive(l) \/ GiveUp(l))

FairSpec == Spec /\ Fairness

-----------------------------------------------------------------------------
(* Properties *)

\* Types; a lesson waits for a request exactly while it submits, and whoever
\* wrote the goal's row holds it.
TypeOK ==
    /\ phase \in [Lesson -> Phase]
    /\ asked \in [Lesson -> SUBSET Question]
    /\ attempt \in [Lesson -> Request \cup {Null}]
    /\ gaveUp \subseteq Request
    /\ pc \in [Request -> {"free"} \cup Under \cup Ended]
    /\ from \in [Request -> Lesson \cup {Null}]
    /\ known \in [Request -> SUBSET Question]
    /\ before \in [Request -> SUBSET Request]
    /\ DOMAIN loaded = Request /\ DOMAIN new = Request /\ DOMAIN elo = Request
    /\ bank \subseteq Question /\ stored \subseteq Request
    /\ holder \in Request \cup {Null, Deletion}
    /\ last \in [by : Request \cup {Null}, saw : SUBSET Request]
    /\ older \in [Row -> SUBSET Request]
    /\ \A l \in Lesson : attempt[l] # Null <=> phase[l] = "submitting"
    /\ \A r \in Request : pc[r] = "written" <=> holder = r
    /\ gen \in {"idle", "inserted", "committed"}
    /\ del \in {"idle", "row", "cascaded", "deleted"}

\* A rating that drifted is repaired by the next submission: after one that
\* nothing else was committed beside, the goal's rating is the replay of
\* everything stored, whatever the rating was before it (set_rating's doc).
RatingRepaired ==
    last.by # Null /\ last.saw = stored \ {last.by} => rating = replay(bank, stored)

\* No submission drops from the rating a lesson that was stored before it
\* began, or its own, even when others commit in the middle of it.
KeepsWhatItSaw ==
    last.by # Null => last.saw \cup {last.by} \subseteq DOMAIN rating

\* The elo the student is shown is the move his rating made, when nothing
\* else was committed between the rating's read and this commit.
EloIsTheMove ==
    [][\A r \in Request :
          Commit(r) /\ (last.by = Null \/ last.by \in before[r]) /\ loaded[r] = rating
              => elo[r] = <<rating', rating>> /\ rating' = replay(bank, stored')]_vars

\* A lesson is stored twice only when its app stopped waiting for one of the
\* two requests: a failure the server answered stored nothing.
SecondCopyNeedsLoss ==
    \A r, s \in stored : r # s /\ from[r] = from[s] => {r, s} \cap gaveUp # {}

\* Every submission ends, stored or failed: no lock is waited for for ever,
\* a deletion's included.
SubmissionsEnd == \A r \in Request : pc[r] = "sent" ~> pc[r] \in Ended
=============================================================================
