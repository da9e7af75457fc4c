----------------------------- MODULE ChainRules -----------------------------
(***************************************************************************)
(* What the chain makes of what it is told and of what it is answered: the *)
(* onboarding as its rows keep it (onboarding_repository.py) and a prompt  *)
(* reads it back, the readings a review retires and the frontier it moves  *)
(* (steps/context.py, steps/frontier.py), and the pages and videos of a    *)
(* search, from what Google and YouTube found to the rows that are stored  *)
(* (grounding.py, search_resources.py, link_validation.py,                 *)
(* youtube_search.py, steps/resources.py).  Everything here is a function; *)
(* StudentChain.tla runs it.                                               *)
(*                                                                         *)
(* What Gemini, Google and the web may answer is any short sequence, the   *)
(* numbers nobody showed and the repeated ones included.                   *)
(***************************************************************************)
EXTENDS Integers, Sequences, FiniteSets, SequencesExt, SeqTools, TLC

CONSTANT None       \* no goal, no index, no author, no vector, no link

ASSUME NothingAssumption == None \notin Int

-----------------------------------------------------------------------------
(* onboarding_repository.py, standard_answers.py, standard_questions.py *)

\* BOUND: two of the four standard questions, with their four options, by key.
StandardQuestions ==
    [age  |-> << "under18", "18to24", "25to39", "40plus" >>,
     time |-> << "minutes", "quarter", "half", "hour" >>]

Row(question, answer, index, author, at) ==
    [question |-> question, options |-> << answer, "", "", "" >>,
     index |-> index, author |-> author, at |-> at]

\* save_onboarding: his own words first, then a row per question he answered,
\* which keeps the option he picked and none of the others.
SaveOnboarding(words, replies, at) ==
    << Row("prompt", words, None, "system", at) >>
    \o [n \in DOMAIN replies |->
          Row(replies[n].question, replies[n].answer, 0,
              IF replies[n].model = None THEN "unknown" ELSE replies[n].model, at)]

Known(pick) ==
    /\ pick.question \in DOMAIN StandardQuestions
    /\ pick.option \in ToSet(StandardQuestions[pick.question])

\* resolve_standard_answers, save_standard_answers: a key nobody knows is
\* dropped; the others keep all four options and the place of the one picked.
SaveStandardAnswers(picks, at) ==
    LET known == Kept(picks, {pick \in ToSet(picks) : Known(pick)})
    IN  [n \in DOMAIN known |->
           LET options == StandardQuestions[known[n].question]
           IN  [question |-> known[n].question, options |-> options, author |-> "system", at |-> at,
                index |-> (CHOOSE i \in 1..4 : options[i] = known[n].option) - 1]]

\* FAULT: the first batch reads the onboarding as it stands when it gets there.
ListOnboardingWhole(rows, asOf) == rows

\* list_by_student, oldest first.
ListOnboarding(rows, asOf) ==
    Kept(rows, {row \in ToSet(rows) : asOf = None \/ row.at <= asOf})

AnswerOf(row) == IF row.index = None THEN row.options[1] ELSE row.options[row.index + 1]

\* _told_us: the onboarding as a prompt reads it.
ToldUs(rows) == [n \in DOMAIN rows |-> << rows[n].question, AnswerOf(rows[n]) >>]

-----------------------------------------------------------------------------
(* steps/context.py, steps/frontier.py *)

\* The first answer about each of the n things shown; a number that was never
\* shown, or was answered about before, is left out.
FirstAbout(n, replies) ==
    FoldLeft(LAMBDA kept, a : IF a.index \in 0..(n - 1) /\ \A k \in DOMAIN kept : kept[k].index # a.index
                              THEN Append(kept, a) ELSE kept,
             << >>, replies)

\* _retire: how many of the standing readings the review calls outdated.
Retired(standing, verdicts) ==
    Tally(FirstAbout(standing, verdicts), LAMBDA v : v.outdated)

\* _append: a definition far from what the goal asked for is refused, unless
\* there is no vector to compare - the goal's is not there yet, or Gemini
\* would not embed the proposal.
Accepted(move, goalVector) ==
    ~ (goalVector # None /\ move.vector # None /\ move.vector # goalVector)

\* apply_frontier_moves: the frontiers the review appends, for the one goal that
\* is active and the definition it is on.
FrontierMoves(definition, goalVector, moves) ==
    SelectSeq(FirstAbout(1, moves),
              LAMBDA m : m.definition \notin {"", definition} /\ Accepted(m, goalVector))

-----------------------------------------------------------------------------
(* grounding.py, search_resources.py *)

PerType == 3

\* web_sources: each page Google returned, once, but none of a video site.
WebSources(chunks) ==
    FoldLeft(LAMBDA sources, chunk :
                IF chunk.uri = None \/ chunk.site = "video" \/ chunk.uri \in ToSet(sources)
                THEN sources ELSE Append(sources, chunk.uri),
             << >>, chunks)

\* pages_from: the first description of each of the sources shown, PerType of
\* a type at most.
Takes(sources, kept, d) ==
    /\ d.index \in 0..(Len(sources) - 1)
    /\ \A k \in DOMAIN kept : kept[k].index # d.index
    /\ Tally(kept, LAMBDA other : other.type = d.type) < PerType

Taken(sources, described) ==
    FoldLeft(LAMBDA kept, d : IF Takes(sources, kept, d) THEN Append(kept, d) ELSE kept,
             << >>, described)

\* A page for each, the link the source's own.
PagesFrom(sources, described) ==
    LET taken == Taken(sources, described)
    IN  [n \in DOMAIN taken |-> [type |-> taken[n].type, link |-> sources[taken[n].index + 1]]]

-----------------------------------------------------------------------------
(* youtube_search.py, link_validation.py, steps/resources.py *)

Videos == 3

\* search_videos: no key, no query or no answer is no videos tonight.
SearchVideos(answered, items) ==
    IF ~ answered THEN << >>
    ELSE [n \in 1..Len(items) |-> [type |-> "youtube", link |-> items[n]]]

\* resolve_page, is_pdf and youtube_picture, as _keep puts them together: what
\* the web says of a link is where it lands and as what, or that it does not.
Keeps(resource, landing) ==
    /\ landing \notin {"failed", "gone", "redirect"}
    /\ resource.type = "pdf" => landing = "pdf"
    /\ resource.type = "youtube" => landing = "public"

\* The page a link lands on is the one that is stored, a video's link is its own.
LandsOn(resource, lands) == IF resource.type = "youtube" THEN resource.link ELSE lands

\* validate_resources: what could be confirmed, by where it landed.
Verified(resources, landing, lands) ==
    LET kept == Kept(resources, {r \in ToSet(resources) : Keeps(r, landing[r.link])})
    IN  [n \in DOMAIN kept |-> LandsOn(kept[n], lands[kept[n].link])]

\* FAULT: what was found is compared with the goal's links, not with itself.
FreshAlone(links, held) == SelectSeq(links, LAMBDA link : link \notin held)

\* _resources_for_goal: one row per page, against the goal and within the batch.
Fresh(links, held) ==
    FoldLeft(LAMBDA fresh, link : IF link \in held \cup ToSet(fresh) THEN fresh ELSE Append(fresh, link),
             << >>, links)
=============================================================================
