# GoalGetter in TLA+

GoalGetter is a study app. A student writes down a goal, a language model
writes the questions of that goal's bank, the student answers a lesson a day,
and a process that runs at night prepares the next day for everyone who
studied. This directory holds TLA+ models of the parts of it where several
actors touch the same rows or the same device, of the rules that decide what a
student is served, the TLC configurations that check them on small instances,
and TLAPS proofs of the safety of all ten state machines for every value of
their constants.

Contents:

1. The system and its components
2. What is hard in it
3. The modules, and how they correspond to the code
4. The runs
5. Fairness
6. What is proved
7. Where code and documentation disagree
8. What is not modelled
9. Plan


## 1. The system and its components

What runs, and what it shares:

* **API**: four uvicorn workers (`docker-compose.yml`), each an asyncio loop.
  A request is one SQLAlchemy session and one transaction unless its handler
  commits in the middle. The workers share nothing but the database.
* **Nightly process**: one container that sleeps to the next of two hours and
  runs that hour's job in its own event loop (`backend/tools/nightly_run.py`).
* **PostgreSQL** at its default isolation, READ COMMITTED: row locks, foreign
  keys with `ON DELETE CASCADE` or `SET NULL`, the deadlock detector.
* **The app** (Flutter): one Dart event loop, Riverpod controllers, and
  SharedPreferences for what survives it.
* **Gemini**, link checks, YouTube: calls that take seconds to minutes and
  answer or fail.

| Component | State | Operations | What makes it correct |
|---|---|---|---|
| Refresh-token rotation (`services/auth/token_rotation.py`, `endpoints/auth.py`) | `refresh_tokens`, `students` | signup, login, refresh, logout, delete account | one usable token per sign-in; a spent token that comes back ends the session; no token without its account |
| App session (`api_client.dart`, `auth_service.dart`, `settings_storage.dart`) | two stored tokens, the refresh under way | send, refresh once and replay, sign in, sign out | one shared refresh; a failed one is not the end of a session; signed out means signed out |
| Lesson submission (`endpoints/lessons.py`, `grading.py`, `rasch.py`) | `student_answers`, `goals.rating` | start lesson, submit answers | the rating is the replay of all that is stored; a lesson is stored once |
| Lesson controller (`lesson_controller.dart`) | the screen's state | open, submit, retry, leave | what it shows as finished is stored |
| Nightly schedule (`nightly_run.py`, `nightly.py`, `nightly_decision.py`, `clock.py`) | the hour slept for; nothing is persisted | wait, run, decide, go on after a failure | who studied is served, once; nobody else; no night is missed |
| Student chain (`student_chain.py`, `jobs/steps/`) | contexts, questions, resources | context step, questions step, resources step | idempotent steps; nothing under a deleted goal; the next run picks up |
| Goals (`endpoints/goals.py`) | `goals`, `students.current_goal_id` | create, activate, delete | one active goal, deleted with all that hangs on it |
| Rasch rating, selection, pacing, bank growth, streak (`services/lessons/`) | none: functions of a history | replay, rank, fill, decide, count | a question keeps the rating it was written at; lessons do not repeat themselves; the bank follows the student |
| Embedding backfill (`jobs/embeddings.py`) | embedding columns: a null is the queue | read a table, embed a chunk, write it | a vector is its own text's; each row is embedded in the end; nothing is paid for twice |
| Request path (`rate_limiter.py`, `database.py`, `gemini/client/`, `errors/`) | a worker's counters and connections; a budget per call | limit, connect, check the session, call, retry, answer | one's limit is one's own; Gemini's failures are not the student's; answers in time |
| Google sign-in (`security.py`, `google_certs.py`, `student_dependencies.py`) | the certificates kept, the student's row | verify, find or create, mirror the language | a token Google signed is accepted; one row per person; the language he sent last |
| Active goal, goals list, tutor (app; `endpoints/goals.py`, `tutor.py`) | the device's copy of the active goal, the chat on screen | launch, list, activate, delete, load, send, like | the copy is the server's; answers land where they were asked for |
| Onboarding (`onboarding_repository.py`, app screens) | onboarding rows; a draft on the device | save, list as of a moment | the first batch reads what he told, and no more |

How they meet: the app's controllers go through `ApiClient`, whose refresh is
the client of token rotation. A lesson submission, the questions step of a
chain and the deletion of a goal write the same goal, its questions and their
answers. Goal creation starts a chain in the worker that served it
(`kickoff_student_chain`), the nightly run starts one in its own process, and
nothing keeps two chains of one student apart. Chains and requests of one
worker share its pool of ten connections. The night's lesson, the bank it
grows and the streak shown are all computed from the same stored answers, and
the vectors the backfill leaves are what tells reworded questions apart.


## 2. What is hard in it

`PROJECT.json` lists every hazard at its line, with the properties that would
catch it going wrong. In short:

* **Statements of several transactions interleave at READ COMMITTED.** Two
  refreshes of one token; a replay's walk against a rotation; sign-in, login
  or lesson submission against a deletion; two submissions of one goal.
* **Locks are taken in different orders**: the cascade of a deletion against
  a walk (tokens) and against a submission (goal, then its questions, against
  questions, then their goal).
* **Answers are lost or late.** The app keeps a token the server has spent;
  a submission is sent again although it was stored.
* **What was read before an await is used after it**: the goal object of a
  submission; the goal of a chain that waits minutes for Gemini; a sign-out
  with a refresh under way.
* **Time.** A window whose edge is the hour the timer wakes at; two schedules
  in one loop; restarts on the hour; no memory of what was run.
* **Partial failure** of a chain of three steps that commit one by one, and of
  a backfill that commits chunk by chunk.
* **Limits**: ten connections and up to thirty seconds' wait for each, a request
  budget longer than the proxy's timeout, a cap of rows per table, a rate limit
  counted behind two proxies.
* **Copies that go stale**: Google's certificates in a process, the active goal
  and a message's heart on the device.


## 3. The modules

Each module models handlers statement by statement or callback by callback.
Definitions keep the names the source gives them where they can; every one of
them has its lines in the `map` of `PROJECT.json`. An operator marked FAULT is
a plausible bug in the definition that follows it. No specification uses one:
each shows that some property would fail if the code had that bug.

`SeqTools` has what the modules say of sequences and the community modules do
not. The code's loops over lists are folds (`FoldLeft`), so that what they
return can be proved.

### TokenRotation, SessionFamily (rotation)

State: `row[f][d]` is the committed `refresh_tokens` row of the d-th token of
sign-in f. The id of a successor is `uuid5` of its predecessor's, so the
tokens of a sign-in are a chain by construction of the ids, and (f, d) names a
token. `account[s]` is the student's row. `req[r]` is a transaction: the
statement it runs next, and the token rows it holds locked.

| Action | Code |
|---|---|
| `Refresh`, `RevokeIfLive`, `IssueSuccessor`, `CommitRefresh` | `POST /auth/refresh`, `rotate`: the conditional UPDATE, the insert of the successor, the commit |
| `LookupReplayed`, `RevokeSuccessor`, `CommitWalk` | `_revoke_successors`: one UPDATE per successor until no row has the next id |
| `Logout`, `RevokeById`, `CommitLogout` | `POST /auth/logout` |
| `SignIn`, `CreateAccount`, `UpdateAccount`, `CommitSignIn` | signup and login |
| `DeleteAccount`, `LockAccount`, `Cascade`, `CommitDelete` | `DELETE /auth/account` and its cascade, token by token in any order |
| `Expire`, `Crash`, `AbortDeadlocked` | a token's lifetime, a worker that dies, Postgres's detector |

A statement that would wait for a row lock is not enabled (`WaitsFor`), and
when it runs it sees the committed version: what READ COMMITTED's re-check
does. The key-share lock that the insert's foreign key takes on the student,
and the locks of `last_login` and the DELETE, are in `Holding`. A walk takes
one row at a time. Which of a deletion's tokens comes next is not fixed.

`SessionFamily` is the abstract specification: a sign-in has at most one
current token; using it replaces it; a spent token never comes back; an ended
session stays ended. `ImplementsSessions` is the refinement.

### SessionClient (the app's session)

The server is `SessionFamily`, by INSTANCE: what was shown of TokenRotation is
what the app is checked against. `store` is SettingsStorage's two tokens,
`call[c]` a call of `ApiClient.send`, `run[c]` the refresh it started,
`refreshing` the shared future, `late` the requests that may still reach the
server after the app stopped waiting, `user` the sign-in or sign-out under way.

An action is what Dart runs between two awaits. The two tokens are two writes,
and so two actions (`WriteAccess`, `WriteRefresh`; `ClearAccess` and
`ClearRefresh`; `SignIn` and `StoreRefresh`); `Killed` may fall between them.
`Completes` is `whenComplete` and the continuations of all who wait, which run
in one turn of the loop.

Left out: the lifetime of a refresh token (the app can only learn of it as a
refusal), the Google sheet, the profile fields. `Logout` reaches the server
while the app waits or not at all; one that arrives later still would only end
a session that is no longer on the device.

### LessonSubmit (submission, its rating, the controller)

`phase[l]` is the LessonController of one opened lesson; `pc[r]` a transaction
of `submit_lesson_answers`, one action per statement: `LoadGoal`, `Grade`,
`CreateMany`, `ReplayHistory`, `SetRating`, `Commit`. Beside them
`CreateQuestions` and `CommitQuestions` (the bank grows while a lesson is
graded), `DeleteGoal`, `Cascade` and `CommitDelete`, and failures.

The rating is symbolic. `rasch.replay` folds an ordered history, in which the
place of an answer and the point where a question is anchored decide the
number. The model keeps exactly that input: which batches were walked, each
one's place, where each question was anchored. Two equal walks are the same
rating, and two different ones count as different. `older` is the order of
`created_at`, as the batches older than each row: a batch has one place in it,
because its answers are inserted by one flush, and their place is fixed by the
insert and not by the commit, which is why a batch that commits later can come
earlier in the history.

Left out: gaps and review rounds of the controller, and the arithmetic. A
lesson left before it was submitted just stays where it is.

### NightlyRun (the schedule)

`now` counts moments; a day has `Day` of them, and each of the two hours is
one. `_next_run_at` and `previous_nightly_run` are operators over them, with
their strict comparisons. `forever` is `Plan`, `WakeForBackfill` or
`WakeForNight`, the job, and back. `run_nightly` reads `at` once and then takes
each student in some order (`RunForStudent`, `ChainEnds`). A timer goes off at
its moment or up to `MaxLate` later. Jobs take as long as they like, a read
that is not guarded ends the night (`JobFails`), and the container may be
restarted at any point (`Restart`). `with_resources` is part of what is
recorded, and no property is about it.

Left out: runs started by hand (`--once`, `--student`), a clock that is set
back, and a timer that wakes early by the resolution of the clock.

### StudentChain, ChainRules (the chain)

One student with several goals, and several chains at once. Each step is split
where the code awaits Gemini: `ReadContext` / `WriteContext`, `ReadQuestions` /
`WriteQuestions`, `ReadResources` / `ExistingLinks` / `WriteResources`. A chain
keeps what its step read (`goal`, `review`, `placement`, `fresh`) and the world
may change before it writes. Whether `generation.decide` finds tomorrow's
lesson too easy is a choice here; Study computes it. Of each thing a step asks
the database for, the model keeps whether there is any.

`ChainRules` is what the steps make of their inputs, as functions: the rows an
onboarding is saved as and read back from, in both their shapes and up to the
moment a goal was created (`SaveOnboarding`, `SaveStandardAnswers`,
`ListOnboarding`); the readings a review retires; the frontier it moves; and
the pages a search keeps, from cited numbers to links that open and were not
stored yet. What Gemini may answer is any short sequence, numbers nobody showed
and repetitions included.

The night is two actions. `NightFalls` is 03:00: the process wakes on the
moment (`night`), or it wakes past it, or is down or busy, and then this student's
day is lost: a late wake's window begins at today's 03:00, and nobody catches a
missed one up (`nightly_run.py:29-32`). `Night` is the run that woke on time
reaching him, who may have deleted goals and chosen others since. It decides as
`last_answered_at` and `decide` do: `recent` holds the goals he answered on in the
day that no 03:00 has closed, a deleted goal takes its answers with it, and he is
served if one is left (`AnsweredIn`). Older answers are in no set, so falling back
to them is being skipped. That he does not study between 03:00 and the run's
coming to him is a bound, and so is the budget that failures and chains started
beside another share (`MaxFaults`).

Left out: prompts and wording. How late a timer may be and what a restart costs
are NightlyRun's.

### LessonRules, Study (what a student is served)

`LessonRules` is `rasch.py`, `pacing.py`, `selection.py`, `generation.py` and
`streak.py` as functions, in integers: thousandths for chances, terms and
cosines, thousandths of a point for ratings. `10^x` and `exp(-x)` are read off
tables (`Odds`, `Decay`), so two scores closer than about a thousandth tie;
the order of `created_at` then decides, as it does in the code. A question's
embedding is one of eight directions on a circle, so cosines take the values
1, 0.7, 0 and below. The context term has weight zero in the code and is left
out. `Walk` is replay's loop over the answers (`WalkAnswer` its body), with the
anchors as a function whose domain is what is anchored so far; `Recall` what he
recalls of a question; `Fill` the greedy choice with its diversity term
(`AddBest` one turn of its loop); `DaysLived` the walk of the streak.

`Study` runs them: days on which the student takes the lesson `SelectLesson`
serves, right or wrong, and nights on which the backfill embeds the bank and
`Decide` buys a batch or not. It is where the anchor of a question, the growth
of the bank and the lessons meet over time.

### Backfill (the embeddings)

`vec` is the database: what each cell (a row and one of its columns) holds.
`run[j]` is a run: the night's, which starts again every night, or one by
hand. `ReadTable` reads at most `Cap` rows with a null, oldest first, and cuts
every column's texts into chunks; `CallAnswers` / `WriteChunk` are the await
and the flush and commit after it; `CallFails`, `WriteRaises` (a row of the
chunk was deleted meanwhile: the flush raises outside the `try` and ends the
run) and `Dies` are what goes wrong. A text is good, blank (never sent) or
refused for good.

### RequestPath (limit, pool, Gemini, status)

A request goes `Arrive` (rate limit), `Connect` (a connection at its first
statement), the session check, `Reads`, which gives the connection back before
Gemini, `Attempt` under its budget, `Connect` again, for a message, and `Insert`.
A request that finds every connection held for longer than milliseconds
(`PoolHeld`) waits (`Queue`): the connection it gets then adds up to thirty
seconds to its clock, and one that gets none is answered 500 (`PoolTimeout`). A
language the app switched to is committed by the session check, which gives the
connection back and takes another (`Remembers`). Three kinds stand for the
routes: `POST /tutor/messages`, `POST /goals` and the public
`POST /goals/objective-questions`. `Admitted` and `ClientAddress` are the
limiter's; slowapi's default limit is a counter per path, so the three kinds do
not share one. A chain holds its connection across the calls of its step, and
ends when it gets none in time (`ChainTimesOut`). Each request has a clock of its
own in half seconds, which counts Gemini's attempts and the waits.

### GoalScreens (active goal, list, chat)

`current` is the server's `current_goal_id`; `active` the device's one copy;
`listed` what the list marks; `chat` the tutor's controller, which Riverpod
builds again on the frame after `active` changes (`stale`, `Build`). The buttons
of a goal's screen wait for the action before (`Busy`); going back to the list
(`LeavesGoal`) is the one way to begin another, and it ends the provider whose ref
would have loaded the list again: that error is swallowed (`Then`). A call is
sent, carried out by the server, and heard - three steps, in any order with
those of other calls - or given up. `OtherDevice` makes another goal active;
`Launch` starts the app anew. `behind`, `torn` and `astray` remember whether
something happened that the code does not promise to survive: a change the
device was not told of, or an action whose screen he left before its answer and
went on to another or to a new list; likes of one message that overlapped or
whose answer its chat did not take; a chat served by another goal than its own.
They are history, and no action reads them.

Left out: sign-outs (SessionClient's), older pages of the chat, leaving the list
while it loads, and a goal created from the app, whose answer, when it comes after a later change of
active goal, is set over it.

### SignIn (Google's token, the student's row, the language)

`kept` is the worker's cached answer of Google's certificate URL: until when it
is good, and whether it has the next key. Worker threads verify tokens, so two
may miss the cache at once and store in either order (`Recall`, `Ask`,
`Fetched`). A sign-in then finds the row by `google_id` or creates it, and
writes its language; a request with a session finds it the same way, mirrors
its language (`CheckToken`, `Lookup`, `Write`) and runs its body. `beside` and
`said` of a request are history, what overlapped it, and so is `settled`, the
language he is known to have sent last.


## 4. The runs

Deadlock is checked in `study`, `backfill`, `goal_screens` and `request_path`:
in the first and the last a step of its own (`Done`, `AllDone`) stands for the end
of what is bounded, the other two never stop. The other runs allow stopping
(`CHECK_DEADLOCK FALSE`), because their requests, days, sign-ins and goals are
used up; that nothing waits for ever there is what their liveness properties
say.

| Run | Bounds | Question |
|---|---|---|
| `token_rotation` | 3 requests, 1 account, 1 sign-in, 3 rotations | Can interleaved requests leave two usable tokens, or a session that survives its replay? Do they implement SessionFamily? Can refreshes deadlock by themselves? |
| `token_rotation_live` | 2 requests, 2 sign-ins, 1 rotation | Is every request answered; does a token outlive its account? |
| `session_client` | 2 calls, 2 sign-ins, 1 rotation each | Can the app replay a token without having missed an answer; can a failed refresh end the session; does every call end? |
| `lesson_submit` | 2 lessons, 3 submissions, a bank of 1 that becomes 2 | Is a drifted rating repaired; is any lesson dropped that was there to be seen; is the elo shown the move made; when is a lesson stored twice? |
| `lesson_submit_live` | 2 lessons, 2 submissions | Does every submission end, deletion and deadlock included? |
| `nightly_run` | 2 students, 2 days of 5 moments, timers late by at most 1 | Is anyone served twice for a night; is a night hidden by the other schedule; who is skipped? |
| `student_chain` | 2 goals, 2 chains, 1 failure or overlap | Is a goal placed twice, a page stored twice, anything written under a deleted goal; is what he told what is read; does a night on time pick up what a failed chain left, whichever goal he answered on and whatever he deletes meanwhile? |
| `study` | 3 nights, lessons of 2 or 3, a placement of 3, batches of 2, 2 topics | Is a question anchored where it was written; does the bank follow the student; does a lesson repeat itself; is the streak the rule? |
| `backfill` | 2 tables of 3 and 4 rows, a cap of 3, chunks of 2, 2 runs, 1 fault | Is a vector ever another text's; what is paid for twice; is everything embedded in the end, and what does a refused text cost? |
| `request_path` | 3 of 7 requests, the chains they start, a limit of 1, 2 connections | Is Gemini's failure ever the student's; who starves the pool; whose limit is spent; what is a late answer late for? |
| `goal_screens` | 2 goals, 1 message, 2 calls and the chat's load at once, 1 fault or screen left early | Does the device agree with the server once all is answered; is the chat the active goal's; is a heart what is stored? |
| `sign_in` | 2 sign-ins and a call with a session, 2 languages, 4 moments, a new key at 1 | Is a token Google signed rejected; what fails with a server error; which language is stored? |

All of them hold.

Why the bounds are enough for what is asked:

* A hazard of rotation has two requests on one token, a third that overtakes
  them (a rotation of the newest token during a walk, a deletion), and a chain
  long enough that a walk has a middle: three rotations. Two sign-ins of one
  account matter for a deletion, whose cascade takes both: the second run. For
  the safety properties the proofs remove the bounds altogether.
* The session client shares one refresh: two calls are one that starts it and
  one that joins it, or that comes a moment too late. Two sign-ins let a
  refresh of the old one end after the new one.
* A submission is disturbed by one that commits in the middle of it, and a
  third is needed to see what the next one repairs; the bank must grow once
  during a submission for a question to be anchored elsewhere than the bank
  read says.
* Day = 5 has midnight, a moment between it and the hour of the chain, that
  hour, the moment after it, where a late timer wakes, and the rest of the day;
  two days have a night whose window reaches into the day before.
* Two goals and two chains are the least for a chain to write for another
  goal than the one it was fired for, and for two to write the same thing. One
  failure or one overlap: after it the next run must do all the work, and two
  chains beside each other are all the interleavings of two. ChainRules is
  evaluated on every sequence of at most two answers.
* Three nights have one before the student is measured, one that may buy, and
  one whose lesson chooses between what was bought and what was placed; two
  topics are what a lesson can repeat or leave out. Every answer of a lesson is
  right or wrong. `StreakIsTheRule` is evaluated on every set of the thirteen
  days 3 to 15, which has two whole weeks' edges.
* A cap of 3 over 4 rows leaves one for the next night; chunks of 2 split a
  column in two; a refused text and a blank one stand before others in their
  table; one fault, anywhere, with no end of nights after it.
* Any three of seven requests arrive: a message, public calls and goal commits
  of two students, one of them on two machines of a network, and one who comes
  straight to uvicorn and names an address of that network in a header. Two chains
  are enough to hold both connections and the third request meets them; two of
  one network and route are enough to pass the limit. An attempt takes 42.5 s or is cut off
  at 45, a wait 29.5 s of its thirty: the longest there are, so that a message
  past 60 and past 100 s is reached in each way it can be.
* Two goals are one to leave and one to go to. Two calls beside the chat's load
  let an answer be overtaken by another's; a goal is deleted once, since a
  second deletion leaves nothing to be wrong about. One fault is a call given up, a
  restart, another device's choice or a screen left before its answer: each is
  enough to part the device from the server. The proofs have any number of each.
* Two sign-ins race for one row or for one fetch; a session's call changes the
  language or deletes the account beside them. Four moments hold the old key's
  last answer, the new key's publication and the end of the kept answer.

Symmetry is used where a run has no liveness property: requests and sign-ins of
rotation, requests and lessons of a submission, calls under
way of the goal screens, sign-ins and languages.

What each property says is in the comment above it. A property that needs a
condition states it, and the condition is what there is to know: `PlacedOnce` and
`PageOnce` hold of a chain that runs alone, and of no other, because nothing in
the code keeps two chains of one student apart; `SkippedOnlyWhenLate` holds
because a late wake is left out of it; `ReplayNeedsLoss` because a missed
answer is; `PaidTwiceOnlyByOverlap`, `StarvedOnlyByChains`, `LateForACause`,
`FailsOnlyByOverlap` and `GenuineIsNotRejected` name the one way in which what
they rule out does come about.

`StreakIsTheRule` and `ToldAsGiven` are statements about functions: TLC
evaluates them in the initial states, over all the inputs their quantifiers
name. Every module also states its `TypeOK`, which no run lists: the proofs have
it for the ten modules of section 6 (NightlyTypeOK, BackfillTypeOK and
StudyTypeOK in those that share a module of proofs with another), and it was
an invariant of a run before each was proved.


## 5. Fairness

* **TokenRotation**: strong fairness of each request's `Step`, weak fairness
  of `AbortDeadlocked`. Postgres runs a statement that is not blocked, serves
  the waiters of a row in turn, so that one cannot be overtaken for ever, and
  aborts a member of every cycle. Nothing is assumed of requests arriving, of
  clients or of crashes.
* **SessionClient**: weak fairness of what the app does by itself
  (`Continue`). Dart runs every callback that is ready, and `_transport` ends
  each attempt after 65 s, so a call never waits for the server to answer.
  The server may be silent for ever.
* **LessonSubmit**: strong fairness of each submission's statements, because
  deletions that fail may be tried again and again and each takes the goal's
  row, which Postgres hands to its waiters in turn; weak fairness of a
  deletion's steps once it has begun, of the deadlock's end, and of the app
  hearing an answer or giving up. A submission is never assumed to be made.
* **StudentChain**: weak fairness of each chain's steps, since every Gemini
  call ends within its budget with an answer or an error that `_run_safely`
  catches; and of a run that was begun reaching the student. That a night is run
  on time, or at all, is not assumed: `NightPicksUp` begins with one that was, and
  section 7, point 5, says how seldom that may be.
* **Backfill**: weak fairness of the night's run beginning, since its process
  asks for the next hour after every job and is restarted by the container; of
  each step of a run, since a call ends within its budget; and of a row that is
  being written getting written. Faults are bounded, so in the end a run ends
  by itself. A run by hand is never assumed.
* **NightlyRun**, **RequestPath**, **GoalScreens**, **SignIn** and **Study**
  have safety properties only. That a timer goes off is in NightlyRun's `Tick`,
  which does not let time pass one that is overdue; that all is answered is a
  premise of `DeviceAgrees` (`Quiet`), not a promise.


## 6. What is proved

Ten modules have their safety proved for every value of their constants: any
number of requests, goals, sign-ins, students or calls under way, and any value
of the bounds that TLC needs. The proofs of a module are in the one named after
it, except for the three background jobs, NightlyRun, StudentChain and Backfill,
in JobsProofs, and LessonSubmit and Study, in LessonProofs. FoldLemmas has what
both say of folds. Each states an inductive invariant, `IInv` or, where two
specifications share a module, one with the component's name (`StudyInv`),
proved as `Inductive` (`StudyInductive`); from it come the type invariant
(`TypeCorrect`) and the theorems below. Where the property is an action property
or a refinement, the theorem is `Spec =>` that property.

| Module | Theorem | Property of a run |
|---|---|---|
| TokenRotationProofs | `AtMostOneLive` | `OneLiveToken` |
| | `NoTokenOutlivesAccount` | `NoOrphanToken` |
| | `ReplayRevokesTheSession` | `ReplayEndsSession` |
| | `DeletionsAloneDeadlock` | `DeadlockNeedsDeletion` |
| | `Refinement` | `ImplementsSessions` |
| | `OneWinner`, `ChainsKeepTheirShape` | - |
| SessionClientProofs | `OneRefreshNoReplay` | `ReplayNeedsLoss` |
| | `OnlyEndedSessionsDropped` | `DropsOnlyEndedSession` |
| LessonProofs | `NothingSeenIsDropped` | `KeepsWhatItSaw` |
| | `SubmissionRepairs` | `RatingRepaired` |
| | `CopiesNeedLoss` | `SecondCopyNeedsLoss` |
| | `ShownEloIsTheMove` | `EloIsTheMove` |
| | `AnchorsStand` | `AnchoredAtBirth` |
| | `StreakHolds` | `StreakIsTheRule` |
| | `StreakCounts` (any days studied, any today) | - |
| | `NothingReworded` | `NoRewordingFirst` |
| JobsProofs | `ServedOnce` | `OncePerNight` |
| | `NoNightHidden` | `NightsAreRun` |
| | `OnlyLateSkips` | `SkippedOnlyWhenLate` |
| | `NothingUnderTheGone` | `GoneStaysEmpty` |
| | `PlacementOnce` | `PlacedOnce` |
| | `PagesOnce` | `PageOnce` |
| | `OnboardingAsGiven` | `ToldAsGiven` |
| | `ToldBack` | - |
| | `VectorsAreTheirOwn` | `OwnVector` |
| | `PaidOnce` | `PaidTwiceOnlyByOverlap` |
| RequestPathProofs | `StatusesMeanWhatTheySay` | `NeverReadAsSignedOut` |
| | `LimitsAreOnesOwn` | `NoOneSpendsAnothersLimit` |
| | `OnlyChainsStarve` | `StarvedOnlyByChains` |
| | `MessagesLateForACause` | `LateForACause` |
| SignInProofs | `NoGenuineRejection` | `GenuineIsNotRejected` |
| | `OnlyOverlapFails` | `FailsOnlyByOverlap` |
| | `LastLanguageStays` | `LanguageIsTheLast` |
| GoalScreensProofs | `QuietAgrees` | `DeviceAgrees` |
| | `ChatOfTheActive` | `RepliesOnTheirGoal` |
| | `HeartsSettle` | `LikeSettles` |

### The arguments

**TokenRotation.** `OneLiveToken` is not inductive: nothing in it says why a
commit that issues a token cannot add a second one. `ChainShape` (tokens are
issued without a gap, and all but the last are revoked) says it for committed
rows, and then the transactions must be tied to it. `IInv` adds, for each
request, `Local`: what its locks and what it read make true *now*, at each
statement - a request about to issue a successor holds the presented token's
row, which is still unrevoked, and the successor's row does not exist; a walk
holds every successor it has passed, and at its end all there are; a deletion
about to commit holds every token of the account. And for each two requests,
`Pair`: nobody holds another's row, a sign-in's family is its own, and a
deletion that has the student's row excludes every commit that would add a
token under it. Actions that only move a request on share the lemma
`QuietStep`; those that end it without a commit `Rollback`; the commits
`CommitStep`, and a walk and a logout, which both write "revoked" into all they
hold, `Retire`. In the refinement the commits of a refresh, of a walk or a
logout, of a sign-in and of a deletion map to `Rotate`, `Close`, `Open` and
`Forget`, and every other action to a stutter. A deadlock without a deletion
would have each member waiting for a walk, and each walk for one of the same
sign-in further along the chain: the one that is furthest waits for nobody.

**SessionClient.** Every token anywhere in the app was issued, so a sign-in that
is opened is one nobody holds a token of (`HeldIssued`). There is one refresh at
a time, and the call that started it waits (`OneRun`). A refresh is of the stored
session, or of one that was left for a sign-in nothing has used yet (`Storing`,
`Beside`). While no answer was missed, the stored refresh token is the server's
current one, but between a rotation and the writing of its answer
(`NothingMissed`); so a spent token is presented only after a loss (`Replays`).

**LessonSubmit.** A request that carries a lesson is waited for, was given up, or
is of a lesson that sends nothing more, so of two that carry one lesson the app
gave up one (`Carries`, `Copies`). A submission has walked, in the rows' order,
everything stored before it read the bank and its own answers, and at most what
is stored now (`Reads`, `Walks`). A step keeps the order of the rows that stay,
so the walk, done again now, would be the same; and a walk over the bank a
submission read is the walk over the bank there is, because the questions asked
are in both. The goal's row lock keeps the last commit what `Lasts` says it is.

**NightlyRun.** A night is a moment `n` with `n % Day = NightlyHour`. While the
process does anything but sleep, every night so far was begun or is excused;
while it sleeps, every night before the moment slept for is, and between that
moment and the latest the timer may wake there is no other - which is where the
three hours between the two jobs are needed (`Clockwork`). What is recorded is of
a moment no later than the one slept for, so a student still in the queue has no
record of it (`UnderWay`, `Recorded`).

**Folds.** `FoldLeft` of the community modules is a function on the sets of
places of a sequence, defined by taking the greatest place away. `FoldExists`
shows there is such a function and `FoldRuns` that it passes through one value
after another, from the first place to the last, each made from the one before
by the body of the loop. The induction behind both is over the places of one
sequence and first-order (`Upwards`: a set that holds 0 and with each number the
next holds all up to the last, for else there is a least one it does not hold).
What a loop keeps is then shown turn by turn. `KeptRuns` and its corollaries say
so once for a filter: what is kept is in the set, in the order it stood in, and
distinct if it was.

**StudentChain.** A chain is alone while no other runs (`Lone`), so the empty bank
it read is still empty when it writes, unless the goal went (`Places`); and what
is gone stays empty because each write asks for the goal. `Taken` takes a cited
page that is not taken yet and `Found` keeps the pages nothing holds, so what a
search adds is not held and differs among itself; alone, what it read as held is
still all that is, and no page stands twice. Of an onboarding the rows up to the
goal's moment are the first so many, which a filter by the moment gives back
(`KeptSplit`): what is read is what was told, row for row.

**Backfill.** A table's chunks are cut from the texts that can be sent and hold
no cell twice, column by column, so a chunk's answer has a vector for each of
its own cells (`OwnVector`). A run that met no other is the only one that writes
while it lasts: what it still has to do is null, and a chunk that was answered
holds no refused text; so it pays for nothing twice.

**Study.** The answers stand in the order of their moments and none is to a
question not yet born (`Lawful`). So the answers before a question's birth are
the first so many (`Splits`), over which the replay of all of them goes through
the same walks as the replay of these alone (`SameWalk`); the answer after them
anchors the question at the rating so far, and no later one moves an anchor
(`AnchorIs`). For the streak, the walk holds, after each day, the days missed so
far and as many days as the rule counts up to it (`LivedTo`): a third miss of a
week empties the count, and it is a reset that comes after all of them. A lesson
is filled greedily (`Greedy`): every question in it is worth at least as much as
any left out, given those before it. Of two wordings the later one was compared
with the earlier, so its diversity is 0, and that of a question unlike all the
lesson holds is 1000; never answered and of one batch, they have the same anchor
and no recall, so every other term is equal or in favour of the one left out.
That needs each term to be an integer, hence the lemmas on the tables.

**RequestPath.** A counter of the limiter counts requests, each once, so who is
refused at a limit is refused for that many others under his own key
(`Counters`). The pool is a set of requests that are at the database and of
chains (`Holders`); who waits found none of the first kind. A request's clock is
at most what the attempts it has made and the waits it has had can add up to
(`Clock`): each wait at most 59 half seconds, each attempt at most 90, so what is
beyond a bound needs one more of either.

**SignIn.** Certificates without the next key are stale before that key signs,
unless an answer was kept late (`Certs`). Of two requests under way each knows
the other's kind and language (`Company`). So what a request saw of the row is
still so, or it has met whoever changed it (`Row`), and the language it says is
the row's once it will write it no more, or it has met who said another (`Word`).

**GoalScreens.** While the device is not behind there is at most one action under
way, and once its screen was left no list is waited for. So it agrees with the
server, as does every answer on its way, or the action went through and hearing
of it leads to the server's goal, or the goals are being asked for (`Agree`); an
answer that says otherwise than the server was overtaken by that action, whose
hearing drops it (`Say`, `Alone`). What a chat shows was served as
its own goal's (`Chats`) and is stored (`Once`). A page on its way waits for no
likes but torn ones, and a message is neither shown nor liked before its reply
(`Paged`); so of each exchange on screen there is at most one like under way, and
what is stored follows from what it asked and how it was answered (`Hearts`).

### What is assumed

The assumptions are named in the modules, and TLC evaluates them in the runs.
Most say what kind of thing a constant is, or that a marker such as `None` is
not one of the values it stands beside. Those that carry an argument:

* `OwnerAssumption`: a sign-in is to one account.
* `ClearanceAssumption` (NightlyRun): the backfill's hour, and as late as a timer
  may wake after it, is before the chain's. `clock.py:42-48` puts the two at
  midnight and 03:00.
* `EdgeAssumption` (RequestPath): who arrives through a proxy has the address it
  forwards for him. `rate_limiter.py:8-10` has nginx and Cloudflare write it.
* `TablesAssumption` (Backfill): there is a table, and each has its rows and its
  columns once.
* `NoneAssumption` (LessonRules), `NothingAssumption` (ChainRules): the marker
  for "no embedding" or "no number" is no integer.
* `SizesAssumption`, `StudyAssumption`: a lesson, a placement and a batch hold at
  least one question; a topic is one of the eight directions.
* `AgeAssumption` (SignIn): what Google serves is fresher than its max-age.
* The finiteness of `Requests` (RequestPath) and of the sign-ins (SignIn), whose
  properties count.

Requests and sign-ins of TokenRotation, calls of SessionClient, goals, chains,
lessons, students and exchanges may be infinitely many.

### What the proofs changed in the models

A step that could not be proved was a model that said something else than it
meant, or a property that was false on an instance no run has:

* `LikeSettles` was false of three calls and two goals: a like answered while
  another goal is active is dropped (`_stillCurrent`), the goal may come back
  before the frame, and the write of another answer then cancels the rebuild, so
  the dropped like stays on screen (`tutor_controller.dart:124-144`). `torn` now
  has such a like, and the property is no longer weakened by `stale`.
* NightlyRun had no clearance between its two hours; with one shorter than the
  lateness of a timer a backfill does hide a night.
* GoalScreens had the list loaded after every action. It is loaded through a
  provider that goes with the goal's screen, and the invariant now says what an
  action without it leaves behind.
* SignIn allowed an answer of Google's as old as its max-age, which is stale when
  it is served, and took the word of a request whose row had been deleted and
  made anew since it looked for it as the account's last.
* LessonSubmit kept the order of rows as a sequence, about which every step
  needs an induction; `older` holds the same order as sets.
* What the code does in a loop was written with `SelectSeq` and recursive
  functions, of which nothing can be said for every input. `Kept`, `Taken`,
  `Found` and `Passes` are folds, and so are `Walk`, `Recall`, `Fill`, `Fades`
  and `DaysLived` of LessonRules; `Fill` is over the ranking itself, a turn for
  each question it could take.
* `StreakIsTheRule` and the sets a lesson may serve (LessonSubmit) were written
  `SUBSET S \ {{}}`, which two parsers read in two ways; they are bracketed.

### What is only model-checked

* Liveness, which is out of the prover's reach: `Answered`, `CallsEnd`,
  `SubmissionsEnd`, `NightPicksUp`, `EmbeddedInTheEnd`.
* `LosesOneChunk` of Backfill, which is about what holds from some moment on.
* `BankFollowsHim` of Study. Whether a night buys for a student depends on where
  the numbers of his answers fall against `GenerateAbove`, which is a fact about
  these tables and these sizes and not of every placement and every batch.

To check: `tlapm <module>` for each of the eight modules with theorems, and
`tlc -config <cfg> <module>` for the runs of `PROJECT.json`.


## 7. Where code and documentation disagree

Each of these is a behaviour of the module named. The property that does hold
is stated with the condition that lets the behaviour out; drop the condition
and TLC shows it.

1. **The app does replay tokens** (SessionClient, `ReplayNeedsLoss`).
   `token_rotation.py:23-24` says the app shares one refresh "so it never
   replays a token itself". It does not replay by concurrency, but when the
   answer to a rotation is lost or times out `_runRefresh` keeps the old token
   (`api_client.dart:218`), and the next 401 presents it. The server takes that
   for theft and ends the session.
2. **A refresh undoes a sign-out** (SessionClient). `auth_service.dart:129-133`
   says sign-out will "delete every stored key". It does not wait for
   `ApiClient._refreshing`: a refresh under way when `clearAll` runs writes both
   tokens afterwards (`api_client.dart:231-232`), and logout revoked only the
   token that was replaced. The device is signed in again at its next launch.
3. **A delta can be lost** (LessonSubmit, `RatingRepaired`).
   `goal_repository.py:73-74` says two lessons finishing at once "cannot lose a
   delta between them". The history is read before the UPDATE that makes the
   two wait for each other; the later commit leaves the other lesson out until
   the next submission, which repairs it.
4. **A lesson can be stored twice** (LessonSubmit, `SecondCopyNeedsLoss`).
   `lesson_controller.dart:20-21` says the batch is sent "whole and in order,
   once"; a retry after a timeout sends it again, and each request gets a
   `lesson_id` of its own (`grading.py:43`). A goal's creation, retried after a
   lost answer, makes a second goal in the same way.
5. **A nightly run that wakes a moment late skips everyone who studied**
   (NightlyRun, `SkippedOnlyWhenLate`). `nightly_decision.py:12-15` says the day
   the run closes out is "the 24 hours behind it". `previous_nightly_run` is
   strict so that a run at exactly 03:00 closes out the day before; `at` is
   read from the clock after the sleep (`nightly.py:58`), a little past 03:00,
   and its last 03:00 is then today's.
6. **A missed question can wait behind one that is not due** (LessonRules).
   `selection.py:126` says "a question he got wrong yesterday is worth more
   than one he has settled", and 94-96 gives the schedule. A miss lowers the
   expected score of a question at par from 0.625 to 0.417 and its threshold
   term from 0.71 to 0.09; one right answer raises it to 0.75 and the term to
   1.0. With the weight 0.8 a missed question is worth at most 0.89 however
   overdue, and one answered right once at least 1.0.
7. **A text can be paid for twice** (Backfill, `PaidTwiceOnlyByOverlap`).
   `embeddings.py:6-7` says a run "can only ever do work nobody has done". A
   run by hand beside the night's reads the same nulls.
8. **An answer can be later than its listeners** (RequestPath,
   `LateForACause`). `gemini_retry.py:27-31` sizes a request's budget for
   Cloudflare's 100 s. Two attempts of 45 s and the wait between them are also
   longer than `nginx.conf:48`'s 60 s and the app's 65 s
   (`api_client.dart:73-77`), and `POST /goals/objective-questions` makes two
   such calls, up to 181 s. A message waits for a connection up to 30 s before
   Gemini and again after it when chains hold the pool: with both, a first
   attempt of 45 s is past nginx and the app, and with one and a failed attempt a
   message is past Cloudflare. Its exchange is then stored, and nobody hears.
9. **A sign-in is rejected when Google is down** (SignIn). `security.py:85-86`
   says only a token that was refused is a 401; any status but 200 of the
   userinfo endpoint, a 5xx too, is answered 401. `GenuineIsNotRejected` is
   about ID tokens. For those, the time an answer took to arrive is not
   subtracted from how long it is kept, and a slower thread may store an older
   answer over a newer one (`google_certs.py:69-75`).
10. **A first sign-in can fail** (SignIn, `FailsOnlyByOverlap`). Two first
    sign-ins of one person that overlap both find no row; the second INSERT
    meets the unique `google_id` and is answered 500 (`auth.py:62-75`).
11. **The device can stay on a goal that is gone** (GoalScreens,
    `DeviceAgrees`). `AppStartController._decide` returns on an empty list of
    goals without clearing `ActiveGoal`. A like or a message tapped in the gap
    before the chat's frame writes onto the chat of the goal that was left. And
    nothing lost is needed for the device to stay on the wrong goal: he makes one
    goal active, leaves its screen, makes another active; the answers arrive in
    reverse, each sets `ActiveGoal`, and the reload of the first died with its
    screen (`goal_detail_view.dart:93-96`, `goal_actions.dart:54-69`).
12. **A first chain that fails is not certain to be made good** (StudentChain,
    `NightPicksUp`). `student_chain.py:19-20` says "The
    next run picks up where this one stopped, and the nightly run is what makes
    "the next run" a certainty rather than a hope." The night serves who answered
    in the day it closes, and a new student without questions cannot: his next
    chain is the next goal's. `NightPicksUp` is about a student whose answers of
    that day are still there when a night on time reaches him. Deleting the goal
    he studied on takes them, and an older answer elsewhere does not serve him.
13. **Gemini's status does not reach the client** (RequestPath,
    `NeverReadAsSignedOut`).
    `gemini_retry.py:30-31` says that once a request's budget is spent "Gemini's
    own status code then reaches the client, so the app can say what happened".
    `gemini_guard.py:49-62` gives each failure a code and a 5xx of the app's own,
    "always a 5xx", and the code does that: `NeverReadAsSignedOut` holds because
    the first docstring is out of date.
14. **A refused refresh, answered late, clears a new sign-in** (SessionClient).
    A call whose refresh was refused clears whatever is stored by then
    (`api_client.dart:132`). `DropsOnlyEndedSession` is about a call of the
    session that is stored, and the torn pair of a killed app
    (`settings_storage.dart:112`) counts as a loss in `ReplayNeedsLoss`.
15. **Refused texts can starve a table** (Backfill). A run reads the oldest `Cap`
    rows with a null: as many rows that can never be embedded use it up every
    night. `EmbeddedInTheEnd` is about tables with fewer.


## 8. What is not modelled, and why

* **Gemini's prompts and answers, what the web returns**: outside services;
  their results are choices. Of a search, ChainRules has what is kept of them.
* **Onboarding screens of the app**: a draft on one device and one commit.
* **The lesson's own screen**: gaps, hints and review rounds change nothing
  but the screen until the submission.
* **Home, profile, resources list and the other reads**: no rule that spans
  steps; the streak they show is LessonRules'.
* **Language detection**: a word count over one text.
* **Development sign-in, the seeder of fictitious students, command-line
  tools, migrations**: run by hand. Keys, cascades and unique columns the
  migrations create are in the modules that meet them.
* **Older pages of the chat**, and queries no screen of the app asks for.
* **Rounding of the rating**: `rasch.py:140` returns a whole point, LessonRules
  thousandths. The anchors are not rounded in either.
* **Unique e-mail addresses**: an account whose address changed at Google and
  collides with another's is left out of SignIn, which has one person.


## 9. Plan

| | Module | State |
|---|---|---|
| a | TokenRotation, SessionFamily, TokenRotationProofs | done |
| b | SessionClient over SessionFamily | done |
| c | LessonSubmit | done |
| d | NightlyRun, StudentChain, ChainRules | done |
| e | LessonRules, Study | done |
| f | Backfill, RequestPath | done |
| g | GoalScreens, SignIn | done |
| h | Proofs of the ten modules of section 6, FoldLemmas | done |
| | NightlyRun composed with StudentChain: the timer's decision firing the chain; onboarding's screens | next |

Of LessonRules what is left to prove is numeric: bounds on the rating of a
student who misses everything, with which `BankFollowsHim` could be stated for
the sizes it holds of.
