---------------------------- MODULE StudentChain ----------------------------
(***************************************************************************)
(* The chain of one student - context, questions, resources - as goal      *)
(* creation and the nightly run start it, beside the student creating,     *)
(* choosing, deleting and studying his goals.                              *)
(*                                                                         *)
(* A step reads the database, calls Gemini, and writes and commits what it *)
(* got: minutes may lie between the read and the write.  Nothing keeps two *)
(* chains of a student apart: each goal he creates fires one at once, in   *)
(* whichever API worker served him, and the night's is in another process. *)
(*                                                                         *)
(* Of what a step looks for, the model keeps whether there is any; of what *)
(* a call answers, what ChainRules makes of every short answer.            *)
(***************************************************************************)
EXTENDS ChainRules

CONSTANTS
    Goal,
    Chain,      \* BOUND: chains of the student that run at once
    MaxFaults   \* BOUND: failures of a step, restarts under a chain, and chains started
                \* beside another

ASSUME NoneAssumption == None \notin Goal
ASSUME FaultsAssumption == MaxFaults \in Nat

VARIABLES
    goal,      \* each goal: "none", "live", "gone"
    active,    \* students.current_goal_id
    bank,      \* has the goal any question?
    answers,   \* its answers: "none", "few", "enough" (PLACEMENT_SIZE)
    pages,     \* has it the page that a search finds?
    readings,  \* has the student any context that is still valid?
    recent,    \* of the goals he has, those he answered on in the day no run has closed
    night,     \* is a run that woke at 03:00 on its way to him?
    chain,     \* each chain: where it is and what it read
    alone,     \* chains no other chain ran beside
    faults

student == <<goal, active, answers>>
written == <<bank, pages, readings>>
days == <<recent, night>>
vars == <<student, written, days, chain, alone, faults>>

Idle == [pc |-> "idle", resources |-> FALSE, goal |-> None,
         review |-> FALSE, placement |-> FALSE, fresh |-> 0]
Running == {c \in Chain : chain[c].pc # "idle"}

\* list_recent_by_student: has he answered on any of his goals?
Answered == \E g \in Goal : answers[g] # "none"

\* list_active: the goal he is working on, or none.
ListActive == {g \in Goal : g = active}

\* list_valid: is there a reading of him to review?
ListValid == readings

Init ==
    /\ goal = [g \in Goal |-> "none"] /\ active = None
    /\ bank = [g \in Goal |-> FALSE] /\ pages = [g \in Goal |-> FALSE]
    /\ answers = [g \in Goal |-> "none"]
    /\ readings = FALSE
    /\ recent = {} /\ night = FALSE
    /\ chain = [c \in Chain |-> Idle]
    /\ alone = {} /\ faults = 0

-----------------------------------------------------------------------------
(* run_student_chain starts *)

Starts(resources) ==
    LET c == CHOOSE some \in Chain : chain[some].pc = "idle" IN
    /\ Running # Chain
    /\ chain' = [chain EXCEPT ![c] = [Idle EXCEPT !.pc = "context", !.resources = resources]]
    /\ IF Running = {} THEN alone' = {c} /\ UNCHANGED faults
       ELSE alone' = {} /\ faults < MaxFaults /\ faults' = faults + 1

\* create_goal: the goal is stored and made active, then the chain is fired.
CreateGoal(g) ==
    /\ goal[g] = "none"
    /\ goal' = [goal EXCEPT ![g] = "live"]
    /\ active' = g
    /\ Starts(TRUE)
    /\ UNCHANGED <<answers, written, days>>

\* 03:00.  The loop wakes on the moment, and the day behind is its window.  Or it
\* wakes past it, and previous_nightly_run gives it a window that begins there;
\* or it is down, or at a job, and nobody catches up (nightly_run.py:29-32).
NightFalls ==
    /\ ~night
    /\ \/ night' = TRUE /\ UNCHANGED recent
       \/ night' = FALSE /\ recent' = {}
    /\ UNCHANGED <<student, written, chain, alone, faults>>

\* FAULT: the last answer is looked for in the active goal only.
AnsweredInActive(goals) == active \in goals

\* last_answered_at, on any goal there is, against the window.
AnsweredIn(goals) == goals # {}

\* The nightly run reaches the student: it serves him if he has an answer of the
\* day it closes, with resources on a Monday.
Night ==
    /\ night
    /\ IF AnsweredIn(recent) THEN \E monday \in BOOLEAN : Starts(monday)
       ELSE UNCHANGED <<chain, alone, faults>>
    /\ night' = FALSE /\ recent' = {}
    /\ UNCHANGED <<student, written>>

-----------------------------------------------------------------------------
(* What the student does meanwhile *)

SetActive(g) ==
    /\ goal[g] = "live"
    /\ active' = g
    /\ UNCHANGED <<goal, answers, written, days, chain, alone, faults>>

\* delete_goal, with everything under it: his answers of the day too.
DeleteGoal(g) ==
    /\ goal[g] = "live"
    /\ goal' = [goal EXCEPT ![g] = "gone"]
    /\ active' = IF active = g THEN None ELSE active
    /\ bank' = [bank EXCEPT ![g] = FALSE]
    /\ pages' = [pages EXCEPT ![g] = FALSE]
    /\ answers' = [answers EXCEPT ![g] = "none"]
    /\ recent' = recent \ {g}
    /\ UNCHANGED <<readings, night, chain, alone, faults>>

\* A lesson of the active goal is answered; an empty bank has none to offer.
\* BOUND: not between 03:00 and the run's coming to him.
Study ==
    /\ active # None /\ bank[active] /\ ~night
    /\ \E much \in {"few", "enough"} :
        /\ answers[active] = "enough" => much = "enough"
        /\ answers' = [answers EXCEPT ![active] = much]
    /\ recent' = recent \cup {active}
    /\ UNCHANGED <<goal, active, written, night, chain, alone, faults>>

-----------------------------------------------------------------------------
(* The chain's steps *)

Becomes(c, what) == chain' = [chain EXCEPT ![c] = what]
Ends(c) == Becomes(c, Idle) /\ alone' = alone \ {c}
\* The next step of the chain, which reads everything anew.
OnTo(c, where) == Becomes(c, [Idle EXCEPT !.pc = where, !.resources = chain[c].resources])
At(c, where) == chain[c].pc = where
Unread == UNCHANGED <<student, written, days, alone, faults>>

\* run_context_step: no active goal, nothing to write; otherwise a review of
\* what stands, or the first impression when there is nothing to review.
ReadContext(c) ==
    /\ At(c, "context")
    /\ IF ListActive = {} THEN OnTo(c, "questions")
       ELSE Becomes(c, IF Answered /\ ListValid
                       THEN [chain[c] EXCEPT !.pc = "reading", !.review = TRUE, !.goal = active]
                       ELSE [chain[c] EXCEPT !.pc = "reading"])
    /\ Unread

\* BOUND: what a review may answer about two standing readings and one goal -
\* verdicts on numbers it was shown or not, new readings, and moves of the
\* frontier "f" to itself, to nothing, to a near subject or to a far one.
AllRetired ==
    \E verdicts \in UpTo(3, [index : 0..2, outdated : BOOLEAN]) : Retired(2, verdicts) = 2
FrontierMoved ==
    LET Moves == [index : 0..1, definition : {"f", "", "next"}, vector : {"near", "far", None}]
    IN  {FrontierMoves("f", goalVector, moves) # << >> :
            goalVector \in {"near", None}, moves \in UpTo(2, Moves)}
Reviews == [left : {left \in BOOLEAN : left \/ AllRetired}, moved : FrontierMoved]

\* The impression is added; a review retires some of what it was shown, adds
\* some, and may move a frontier, which a goal deleted meanwhile refuses.
WriteContext(c) ==
    /\ At(c, "reading")
    /\ \/ ~chain[c].review /\ readings' = TRUE /\ OnTo(c, "questions") /\ UNCHANGED alone
       \/ \E review \in Reviews :
             /\ chain[c].review
             /\ IF review.moved /\ goal[chain[c].goal] = "gone"
                THEN Ends(c) /\ UNCHANGED readings
                ELSE readings' = review.left /\ OnTo(c, "questions") /\ UNCHANGED alone
    /\ UNCHANGED <<student, bank, pages, days, faults>>

\* FAULT: a goal is placed until it has answers.
DecidesUnanswered(g) == IF answers[g] = "none" THEN {"placement"} ELSE {"lesson", "nothing"}

\* generation.decide: an empty bank is placed, one not yet measured is left,
\* a measured one grows when tomorrow's lesson looks too easy.
Decides(g) ==
    IF ~bank[g] THEN {"placement"}
    ELSE IF answers[g] # "enough" THEN {"nothing"} ELSE {"lesson", "nothing"}

\* run_questions_step, for the goal that is active now.
ReadQuestions(c) ==
    /\ At(c, "questions")
    /\ IF ListActive = {} THEN OnTo(c, "resources")
       ELSE \E verdict \in Decides(active) :
            IF verdict = "nothing" THEN OnTo(c, "resources")
            ELSE Becomes(c, [chain[c] EXCEPT !.pc = "generating", !.goal = active,
                             !.placement = (verdict = "placement")])
    /\ Unread

\* FAULT: questions.goal_id without its foreign key.
WriteQuestionsUnchecked(c) ==
    /\ At(c, "generating")
    /\ bank' = [bank EXCEPT ![chain[c].goal] = TRUE]
    /\ OnTo(c, "resources")
    /\ UNCHANGED <<student, pages, readings, days, alone, faults>>

\* create_many and the commit: a goal deleted during the call refuses the
\* questions, and the chain ends there.
WriteQuestions(c) ==
    /\ At(c, "generating")
    /\ IF goal[chain[c].goal] = "gone" THEN Ends(c) /\ UNCHANGED bank
       ELSE /\ bank' = [bank EXCEPT ![chain[c].goal] = TRUE]
            /\ OnTo(c, "resources")
            /\ UNCHANGED alone
    /\ UNCHANGED <<student, pages, readings, days, faults>>

\* Every generated question was out of shape: nothing is stored, and the chain
\* goes on.
NoUsableQuestion(c) ==
    /\ At(c, "generating") /\ faults < MaxFaults
    /\ faults' = faults + 1
    /\ OnTo(c, "resources")
    /\ UNCHANGED <<student, written, days, alone>>

\* run_resources_step: not asked for, no reading or no goal, no search.
ReadResources(c) ==
    /\ At(c, "resources")
    /\ IF ~chain[c].resources \/ ~ListValid \/ ListActive = {}
       THEN Ends(c)
       ELSE Becomes(c, [chain[c] EXCEPT !.pc = "searching", !.goal = active]) /\ UNCHANGED alone
    /\ UNCHANGED <<student, written, days, faults>>

\* BOUND: what a search may bring - up to two web sources, two descriptions
\* and one video, each landing anywhere or nowhere - as the links verified.
\* Whatever source lands, lands on the one page that is followed.
Uri == {"redirect1", "redirect2"}

Chunk == [uri : Uri \cup {None}, site : {"web", "video"}]

Description == [index : 0..2, type : {"webpage", "pdf"}]

Found == {PagesFrom(WebSources(chunks), described) :
            chunks \in UpTo(2, Chunk), described \in UpTo(2, Description)}

Finds ==
    {Verified(found \o SearchVideos(answered, << "video" >>), landing @@ ("video" :> video),
              [u \in Uri |-> "page"]) :
        found \in Found, answered \in BOOLEAN,
        landing \in [Uri -> {"failed", "gone", "redirect", "webpage", "pdf"}],
        video \in {"public", "gone"}}

\* existing_links, after the search: how many of the rows it found are not there
\* yet.  Where none is, nothing is stored and the chain is over.
ExistingLinks(c) ==
    /\ At(c, "searching")
    /\ \E links \in Finds :
          LET held == IF pages[chain[c].goal] THEN {"page"} ELSE {}
              fresh == Tally(Fresh(links, held), LAMBDA link : link = "page")
          IN  IF fresh = 0 THEN Ends(c)
              ELSE Becomes(c, [chain[c] EXCEPT !.pc = "storing", !.fresh = fresh]) /\ UNCHANGED alone
    /\ UNCHANGED <<student, written, days, faults>>

\* What is fresh is stored and committed, if the goal is still there.
WriteResources(c) ==
    /\ At(c, "storing")
    /\ pages' = [pages EXCEPT ![chain[c].goal] = (goal[chain[c].goal] # "gone")]
    /\ Ends(c)
    /\ UNCHANGED <<student, bank, readings, days, faults>>

\* A step raises, or the worker that carries the chain is restarted: the chain
\* stops there, and what was committed stays.
Fails(c) ==
    /\ c \in Running /\ faults < MaxFaults
    /\ faults' = faults + 1
    /\ Ends(c)
    /\ UNCHANGED <<student, written, days>>

-----------------------------------------------------------------------------
Step(c) ==
    \/ ReadContext(c) \/ WriteContext(c)
    \/ ReadQuestions(c) \/ WriteQuestions(c)
    \/ ReadResources(c) \/ ExistingLinks(c) \/ WriteResources(c)

Next ==
    \/ \E g \in Goal : CreateGoal(g) \/ SetActive(g) \/ DeleteGoal(g)
    \/ Study \/ NightFalls \/ Night
    \/ \E c \in Chain : Step(c) \/ NoUsableQuestion(c) \/ Fails(c)

Spec == Init /\ [][Next]_vars

\* A step's call answers or fails within its budget, and a run that was begun
\* reaches him.  That a night is begun on time, or at all, is not assumed.
FairSpec == Spec /\ WF_vars(Night) /\ \A c \in Chain : WF_vars(Step(c))

-----------------------------------------------------------------------------
(* Properties *)

\* Types, and that only running chains are alone.
TypeOK ==
    /\ goal \in [Goal -> {"none", "live", "gone"}]
    /\ active \in Goal \cup {None} /\ (active # None => goal[active] = "live")
    /\ bank \in [Goal -> BOOLEAN] /\ pages \in [Goal -> BOOLEAN] /\ readings \in BOOLEAN
    /\ answers \in [Goal -> {"none", "few", "enough"}]
    /\ recent \subseteq Goal /\ night \in BOOLEAN
    /\ \A g \in recent : goal[g] = "live" /\ answers[g] # "none"
    /\ \A c \in Chain : At(c, "generating") => chain[c].goal \in Goal
    /\ alone \subseteq Running
    /\ faults \in 0 .. MaxFaults

\* A chain that waited minutes for its questions or pages stores nothing under
\* a goal that was deleted meanwhile.
GoneStaysEmpty ==
    \A g \in Goal : goal[g] = "gone" => ~bank[g] /\ ~pages[g] /\ active # g

\* A goal gets its placement batch once, unless two of the student's chains
\* ran beside each other.
PlacedOnce ==
    [][\A c \in Chain :
          WriteQuestions(c) /\ chain[c].placement /\ c \in alone => ~bank[chain[c].goal]]_vars

\* A goal holds a page once, unless two of the student's chains ran beside
\* each other: what a search finds again, by another link or in another run,
\* is not stored again.
PageOnce ==
    [][\A c \in Chain :
          WriteResources(c) /\ c \in alone =>
             ~pages[chain[c].goal] /\ chain[c].fresh = 1]_vars

\* What he told while creating the goal reaches the first batch word for word,
\* whatever shape its rows have, and nothing he was asked afterwards does; a
\* later run reads that too, each standard answer he gave to a question the
\* backend knows (goals.py:119-124, onboarding_repository.py:124-133).
ToldAsGiven ==
    (\A g \in Goal : goal[g] = "none") =>
       \A replies \in UpTo(2, [question : {"q1", "q2"}, answer : {"a", "b"}, model : {None, "gemini"}]),
          picks \in UpTo(2, [question : {"age", "time", "older"}, option : {"under18", "half", "hour"}]) :
          LET rows  == SaveOnboarding("words", replies, 1) \o SaveStandardAnswers(picks, 2)
              given == << << "prompt", "words" >> >>
                       \o [n \in DOMAIN replies |-> << replies[n].question, replies[n].answer >>]
              asked == Kept(picks, {p \in ToSet(picks) :
                          << p.question, p.option >> \in {<< "age", "under18" >>, << "time", "half" >>, << "time", "hour" >>}})
          IN  /\ ToldUs(ListOnboarding(rows, 1)) = given
              /\ ToldUs(ListOnboarding(rows, None)) =
                    given \o [n \in DOMAIN asked |-> << asked[n].question, asked[n].option >>]

\* A night woken on time finishes what a failed chain left: once nothing fails
\* any more, the active goal of a student who answered in the day behind gets
\* its first questions, whichever goal he answered on - unless he leaves it, or
\* deletes that one (nightly_decision.py:3-10).  With nothing of that day left he
\* is skipped, whatever older answers he has.
NightPicksUp ==
    \A g \in Goal : \A h \in Goal \ {g} :
        (faults = MaxFaults /\ night /\ h \in recent /\ active = g /\ ~bank[g])
            ~> (bank[g] \/ active # g \/ goal[h] = "gone")
=============================================================================
