----------------------------- MODULE LessonProofs -----------------------------
(***************************************************************************)
(* The safety of the lessons: of their submission, for any lessons,        *)
(* requests, questions and sets served, and of the rules that choose them, *)
(* for any directions, paces and number of days.                           *)
(*                                                                         *)
(* The submission.  A request that carries a lesson is waited for, was     *)
(* given up on, or is of a lesson that sends nothing more; so of two that  *)
(* carry one lesson the app gave up on one.  A submission has walked, in   *)
(* the order of the rows, everything stored before it read the bank and    *)
(* its own answers, and at most what is stored now; a step keeps the order *)
(* of the rows that stay and what they asked, so that the walk, done again *)
(* now, would be the same.  A walk over the bank a submission read is the  *)
(* walk over the bank there is, for the questions asked are in both.       *)
(*                                                                         *)
(* The rules are folds, and every fold runs from its first element to its  *)
(* last (FoldLemmas).  The streak: after each day the walk holds the days  *)
(* missed so far and counts what the rule counts up to that day.  The      *)
(* anchors: the answers are in the order of their moments and none is to a *)
(* question not born, so those before a question's birth are the first so  *)
(* many; over them the replay of all the answers and of these alone go     *)
(* through the same walks, and the answer after them anchors the question. *)
(* The lesson: each place is filled with the best that is left, so of two  *)
(* wordings the later one beat the question left out, which only the       *)
(* diversity term tells apart from it: zero against a thousand.            *)
(***************************************************************************)
EXTENDS LessonSubmit, Study, FoldLemmas


-----------------------------------------------------------------------------
(* The inductive invariant, in named parts.                                *)

Graded == {"graded", "inserted", "replayed", "written"}

\* Who holds the goal's row; nothing is deleted under a submission's answers,
\* nor under questions on their way in.
Locks ==
    /\ del \in {"row", "cascaded"} <=> holder = Deletion
    /\ del \in {"cascaded", "deleted"} => Holding = {}
    /\ gen = "inserted" => del = "idle"

\* A request carries its lesson, an open one, as long as it is not in vain.
Carries ==
    /\ \A r \in Request : pc[r] \in Under \cup {"ok"} <=> from[r] # Null
    /\ \A r \in Request : from[r] # Null => phase[from[r]] # "closed"
    /\ stored \subseteq {r \in Request : pc[r] = "ok"}

\* A second request for a lesson is sent after the first was given up.
Copies ==
    /\ \A r \in Request : from[r] # Null =>
          r \in gaveUp \/ attempt[from[r]] = r \/ phase[from[r]] \in {"done", "left"}
    /\ \A r, s \in Request : r # s /\ from[r] = from[s] /\ from[r] # Null => {r, s} \cap gaveUp # {}

\* What a submission read is still there, and what it asked is in the bank.
Reads ==
    /\ gen # "committed" => bank \subseteq FirstBank
    /\ \A b \in stored : Asked(b) \subseteq bank
    /\ del # "deleted" =>
          \A r \in Request : pc[r] \in Graded =>
              /\ Asked(r) \subseteq known[r] /\ known[r] \subseteq bank
              /\ before[r] \subseteq stored
              /\ \A b \in before[r] : Asked(b) \subseteq known[r]
              /\ last.by \in before[r] => before[r] = stored

\* A rating that was replayed is what would be replayed again.
Walked(r) ==
    /\ new[r] = replay(known[r], DOMAIN new[r])
    /\ before[r] \cup {r} \subseteq DOMAIN new[r]
    /\ DOMAIN new[r] \subseteq stored \cup {r}
    /\ elo[r] = << new[r], loaded[r] >>

Walks == \A r \in Request : pc[r] \in {"replayed", "written"} => Walked(r)

\* The submission that committed last is stored, and there is one.
Lasts ==
    /\ last.by = Null => stored = {}
    /\ last.by # Null => last.by \in stored /\ last.saw \subseteq stored

IInv ==
    /\ TypeOK /\ Locks /\ Carries /\ Copies /\ Reads /\ Walks /\ Lasts
    /\ KeepsWhatItSaw /\ RatingRepaired

-----------------------------------------------------------------------------
(* What the steps do.                                                      *)

PC == {"free"} \cup Under \cup Ended

RequestTyped ==
    /\ pc \in [Request -> PC]
    /\ from \in [Request -> Lesson \cup {Null}]
    /\ known \in [Request -> SUBSET Question]
    /\ before \in [Request -> SUBSET Request]
    /\ DOMAIN loaded = Request /\ DOMAIN new = Request /\ DOMAIN elo = Request

\* Nothing happens to request s.
Same(s) ==
    /\ pc'[s] = pc[s] /\ from'[s] = from[s] /\ loaded'[s] = loaded[s] /\ known'[s] = known[s]
    /\ before'[s] = before[s] /\ new'[s] = new[s] /\ elo'[s] = elo[s]

LEMMA GoesTo ==
    ASSUME TypeOK, NEW r \in Request, NEW where \in PC, Goes(r, where)
    PROVE  pc' \in [Request -> PC] /\ pc'[r] = where /\ \A s \in Request : s # r => pc'[s] = pc[s]
BY DEF TypeOK, PC, Goes

LEMMA ForgetsTo ==
    ASSUME TypeOK, NEW r \in Request, Forgets(r)
    PROVE  /\ known' \in [Request -> SUBSET Question] /\ before' \in [Request -> SUBSET Request]
           /\ DOMAIN loaded' = Request /\ DOMAIN new' = Request /\ DOMAIN elo' = Request
           /\ \A s \in Request : s # r => /\ loaded'[s] = loaded[s] /\ known'[s] = known[s]
                                          /\ before'[s] = before[s] /\ new'[s] = new[s] /\ elo'[s] = elo[s]
BY DEF TypeOK, Forgets

LEMMA EndsTo ==
    ASSUME TypeOK, NEW r \in Request, EndsUnstored(r)
    PROVE  /\ RequestTyped' /\ (\A s \in Request : s # r => Same(s))
           /\ pc'[r] = "error" /\ from'[r] = Null
<1>1. pc' \in [Request -> PC] /\ pc'[r] = "error" /\ \A s \in Request : s # r => pc'[s] = pc[s]
  BY GoesTo DEF EndsUnstored, PC, Ended
<1>2. from' \in [Request -> Lesson \cup {Null}] /\ from'[r] = Null /\ \A s \in Request : s # r => from'[s] = from[s]
  BY DEF EndsUnstored, TypeOK
<1>3. QED
  BY <1>1, <1>2, ForgetsTo DEF EndsUnstored, RequestTyped, Same

\* One statement of a request: it goes on with its lesson, or ends without.
LEMMA OneRequest ==
    ASSUME TypeOK, NEW r \in Request, Serve(r) \/ Fails(r)
    PROVE  /\ RequestTyped' /\ (\A s \in Request : s # r => Same(s))
           /\ pc[r] \in Under
           /\ \/ pc'[r] = "error" /\ from'[r] = Null
              \/ pc'[r] \in Under /\ from'[r] = from[r]
              \/ Commit(r) /\ pc'[r] = "ok" /\ from'[r] = from[r]
           /\ UNCHANGED << phase, asked, attempt, gaveUp, gen, del >>
<1>t. RequestTyped /\ \A where \in PC : Goes(r, where) =>
         pc' \in [Request -> PC] /\ pc'[r] = where /\ \A s \in Request : s # r => pc'[s] = pc[s]
  BY GoesTo DEF TypeOK, RequestTyped, PC
<1>c. \A where \in Under \cup {"ok"} : where \in PC
  BY DEF PC, Under, Ended
<1>1. CASE EndsUnstored(r)
  <2>1. pc[r] \in Under /\ UNCHANGED << phase, asked, attempt, gaveUp, gen, del >>
    BY <1>1 DEF Serve, LoadGoal, Grade, CreateMany, ReplayHistory, SetRating, Commit, Fails, Under, client
  <2>2. QED
    BY <1>1, <2>1, EndsTo
<1>2. CASE LoadGoal(r) /\ ~EndsUnstored(r)
  <2>1. /\ pc[r] = "sent" /\ Goes(r, "loaded") /\ loaded' = [loaded EXCEPT ![r] = rating]
        /\ UNCHANGED << from, known, before, new, elo, phase, asked, attempt, gaveUp, gen, del >>
    BY <1>2 DEF LoadGoal, client
  <2>2. QED
    BY <1>t, <2>1 DEF RequestTyped, Same, Under, PC
<1>3. CASE Grade(r) /\ ~EndsUnstored(r)
  <2>1. /\ pc[r] = "loaded" /\ Goes(r, "graded")
        /\ known' = [known EXCEPT ![r] = bank] /\ before' = [before EXCEPT ![r] = stored]
        /\ UNCHANGED << from, loaded, new, elo, phase, asked, attempt, gaveUp, gen, del >>
        /\ bank \subseteq Question /\ stored \subseteq Request
    BY <1>3 DEF Grade, client, TypeOK
  <2>2. QED
    BY <1>t, <2>1 DEF RequestTyped, Same, Under, PC
<1>4. CASE CreateMany(r) /\ ~EndsUnstored(r)
  <2>1. /\ pc[r] = "graded" /\ Goes(r, "inserted")
        /\ UNCHANGED << from, loaded, known, before, new, elo, phase, asked, attempt, gaveUp, gen, del >>
    BY <1>4 DEF CreateMany, client
  <2>2. QED
    BY <1>t, <2>1 DEF RequestTyped, Same, Under, PC
<1>5. CASE ReplayHistory(r)
  <2>1. /\ pc[r] = "inserted" /\ Goes(r, "replayed")
        /\ new' = [new EXCEPT ![r] = replay(known[r], stored \cup {r})]
        /\ elo' = [elo EXCEPT ![r] = <<new'[r], loaded[r]>>]
        /\ UNCHANGED << from, loaded, known, before, phase, asked, attempt, gaveUp, gen, del >>
    BY <1>5 DEF ReplayHistory, client
  <2>2. QED
    BY <1>t, <2>1 DEF RequestTyped, Same, Under, PC
<1>6. CASE SetRating(r)
  <2>1. /\ pc[r] = "replayed" /\ Goes(r, "written")
        /\ UNCHANGED << from, loaded, known, before, new, elo, phase, asked, attempt, gaveUp, gen, del >>
    BY <1>6 DEF SetRating, client
  <2>2. QED
    BY <1>t, <2>1 DEF RequestTyped, Same, Under, PC
<1>7. CASE Commit(r)
  <2>1. /\ pc[r] = "written" /\ Goes(r, "ok") /\ Forgets(r)
        /\ UNCHANGED << from, phase, asked, attempt, gaveUp, gen, del >>
    BY <1>7 DEF Commit, client
  <2>2. QED
    BY <1>t, <1>c, <1>7, <2>1, ForgetsTo DEF RequestTyped, Same, Under
<1>8. QED
  BY <1>1, <1>2, <1>3, <1>4, <1>5, <1>6, <1>7 DEF Serve, Fails, RollsBack

\* A lesson is sent for the first time, or again.
LEMMA SendsTo ==
    ASSUME TypeOK, NEW l \in Lesson, Submit(l) \/ RetrySubmit(l), Carries
    PROVE  /\ phase[l] \in {"answering", "failed"} /\ attempt[l] = Null
           /\ RequestTyped'
           /\ phase' \in [Lesson -> Phase] /\ attempt' \in [Lesson -> Request \cup {Null}]
           /\ phase'[l] = "submitting" /\ \A m \in Lesson : m # l => phase'[m] = phase[m] /\ attempt'[m] = attempt[m]
           /\ \E r \in Request : /\ pc[r] = "free" /\ pc'[r] = "sent" /\ from[r] = Null /\ from'[r] = l
                                /\ attempt'[l] = r
                                /\ \A s \in Request : s # r => Same(s)
           /\ UNCHANGED << asked, gaveUp, tables, gen, del >>
<1>1. Sends(l, {"answering"}) \/ Sends(l, {"failed"})
  BY DEF Submit, RetrySubmit
<1>2. PICK r \in Request :
         /\ pc[r] = "free" /\ pc' = [pc EXCEPT ![r] = "sent"] /\ from' = [from EXCEPT ![r] = l]
         /\ attempt' = [attempt EXCEPT ![l] = r]
  BY <1>1 DEF Sends
<1>3. /\ phase[l] \in {"answering", "failed"} /\ phase' = [phase EXCEPT ![l] = "submitting"]
      /\ UNCHANGED << asked, gaveUp, loaded, known, before, new, elo, tables, gen, del >>
  BY <1>1 DEF Sends
<1>4. attempt[l] = Null
  BY <1>3 DEF TypeOK
<1>5. from[r] = Null
  BY <1>2 DEF Carries, Under
<1>6. /\ RequestTyped' /\ pc'[r] = "sent" /\ from'[r] = l
      /\ \A s \in Request : s # r => Same(s)
  BY <1>2, <1>3 DEF TypeOK, RequestTyped, Same, PC, Under
<1>7. /\ phase' \in [Lesson -> Phase] /\ attempt' \in [Lesson -> Request \cup {Null}]
      /\ phase'[l] = "submitting" /\ \A m \in Lesson : m # l => phase'[m] = phase[m] /\ attempt'[m] = attempt[m]
      /\ attempt'[l] = r
  BY <1>2, <1>3 DEF TypeOK, Phase
<1>8. QED
  BY <1>2, <1>3, <1>4, <1>5, <1>6, <1>7

\* The app hears, gives up, leaves or opens a lesson: no request moves.
LEMMA AppTo ==
    ASSUME TypeOK, NEW l \in Lesson, Open(l) \/ Receive(l) \/ GiveUp(l) \/ Leave(l)
    PROVE  /\ phase' \in [Lesson -> Phase] /\ attempt' \in [Lesson -> Request \cup {Null}]
           /\ asked' \in [Lesson -> SUBSET Question] /\ gaveUp' \subseteq Request /\ gaveUp \subseteq gaveUp'
           /\ \A m \in Lesson : m # l => phase'[m] = phase[m] /\ attempt'[m] = attempt[m] /\ asked'[m] = asked[m]
           /\ \/ Open(l) /\ phase[l] = "closed" /\ phase'[l] = "answering" /\ attempt' = attempt /\ gaveUp' = gaveUp
              \/ /\ phase[l] = "submitting" /\ attempt'[l] = Null /\ attempt[l] \in Request /\ asked' = asked
                 /\ \/ phase'[l] \in {"done", "left"}
                    \/ phase'[l] = "failed" /\ attempt[l] \in gaveUp'
                    \/ phase'[l] = "failed" /\ pc[attempt[l]] = "error"
           /\ UNCHANGED << request, tables, gen, del >>
<1>1. CASE Open(l)
  <2>1. PICK some \in Served : asked' = [asked EXCEPT ![l] = some]
    BY <1>1 DEF Open
  <2>2. asked' \in [Lesson -> SUBSET Question] /\ \A m \in Lesson : m # l => asked'[m] = asked[m]
    BY <2>1, ServedAssumption DEF TypeOK
  <2>3. QED
    BY <1>1, <2>2 DEF Open, TypeOK, Phase
<1>2. CASE Receive(l) \/ GiveUp(l) \/ Leave(l)
  <2>1. /\ phase[l] = "submitting" /\ attempt' = [attempt EXCEPT ![l] = Null]
        /\ UNCHANGED << asked, request, tables, gen, del >>
    BY <1>2 DEF Receive, GiveUp, Leave
  <2>2. attempt[l] \in Request
    BY <2>1 DEF TypeOK
  <2>3. CASE Receive(l)
    <3>1. /\ phase' = [phase EXCEPT ![l] = IF pc[attempt[l]] = "ok" THEN "done" ELSE "failed"]
          /\ pc[attempt[l]] \in {"ok", "error"} /\ gaveUp' = gaveUp
      BY <2>3 DEF Receive, Ended
    <3>2. QED
      BY <2>1, <2>2, <3>1 DEF TypeOK, Phase
  <2>4. CASE GiveUp(l)
    BY <2>1, <2>2, <2>4 DEF GiveUp, TypeOK, Phase
  <2>5. CASE Leave(l)
    BY <2>1, <2>2, <2>5 DEF Leave, TypeOK, Phase
  <2>6. QED
    BY <1>2, <2>3, <2>4, <2>5
<1>3. QED
  BY <1>1, <1>2

-----------------------------------------------------------------------------
(* Types.                                                                  *)

\* The types, in the parts that steps disturb.
AppTyped ==
    /\ phase \in [Lesson -> Phase] /\ asked \in [Lesson -> SUBSET Question]
    /\ attempt \in [Lesson -> Request \cup {Null}] /\ gaveUp \subseteq Request
    /\ \A l \in Lesson : attempt[l] # Null <=> phase[l] = "submitting"

TablesTyped ==
    /\ bank \subseteq Question /\ stored \subseteq Request
    /\ holder \in Request \cup {Null, Deletion}
    /\ last \in [by : Request \cup {Null}, saw : SUBSET Request]
    /\ older \in [Row -> SUBSET Request]
    /\ gen \in {"idle", "inserted", "committed"}
    /\ del \in {"idle", "row", "cascaded", "deleted"}

HolderWrote == \A r \in Request : pc[r] = "written" <=> holder = r

LEMMA TypeParts == TypeOK <=> AppTyped /\ RequestTyped /\ TablesTyped /\ HolderWrote
BY DEF TypeOK, AppTyped, RequestTyped, TablesTyped, HolderWrote, PC

LEMMA TypeNext == (AppTyped /\ RequestTyped /\ TablesTyped /\ HolderWrote)' => TypeOK'
BY DEF TypeOK, AppTyped, RequestTyped, TablesTyped, HolderWrote, PC

LEMMA TypeInit == Init => TypeOK
<1> SUFFICES ASSUME Init PROVE TypeOK
  OBVIOUS
<1>1. AppTyped
  BY DEF Init, AppTyped, Phase
<1>2. RequestTyped
  BY DEF Init, RequestTyped, PC
<1>3. TablesTyped
  BY BankAssumption DEF Init, TablesTyped, NoLast
<1>4. HolderWrote
  BY NullAssumption DEF Init, HolderWrote
<1>5. QED
  BY <1>1, <1>2, <1>3, <1>4, TypeParts

\* Steps that leave the tables, or nearly, alone.
LEMMA TablesStay ==
    ASSUME TablesTyped, UNCHANGED << bank, stored, last >>,
           holder' \in Request \cup {Null, Deletion}, older' \in [Row -> SUBSET Request],
           gen' \in {"idle", "inserted", "committed"}, del' \in {"idle", "row", "cascaded", "deleted"}
    PROVE  TablesTyped'
BY DEF TablesTyped

LEMMA HolderStays ==
    ASSUME HolderWrote, holder' = holder,
           \A s \in Request : pc[s] # pc'[s] => pc[s] # "written" /\ pc'[s] # "written"
    PROVE  HolderWrote'
<1> SUFFICES ASSUME NEW s \in Request PROVE pc'[s] = "written" <=> holder' = s
  BY DEF HolderWrote
<1>1. pc[s] = "written" <=> holder = s
  BY DEF HolderWrote
<1>2. QED
  BY <1>1

LEMMA TypeStep == TypeOK /\ Locks /\ Carries /\ [Next]_vars => TypeOK'
<1> SUFFICES ASSUME TypeOK, Locks, Carries, [Next]_vars PROVE TypeOK'
  OBVIOUS
<1>t. AppTyped /\ RequestTyped /\ TablesTyped /\ HolderWrote
  BY TypeParts
<1>n. Deletion \notin Request /\ Null \notin Request /\ Deletion # Null
  BY NullAssumption, DeletionAssumption DEF Deletion
<1>1. ASSUME NEW l \in Lesson, Submit(l) \/ RetrySubmit(l) PROVE TypeOK'
  <2>1. PICK r \in Request :
         /\ pc[r] = "free" /\ pc'[r] = "sent" /\ attempt'[l] = r
         /\ \A s \in Request : s # r => Same(s)
    BY <1>1, SendsTo
  <2>2. /\ RequestTyped' /\ UNCHANGED << asked, gaveUp, tables, gen, del >>
        /\ phase' \in [Lesson -> Phase] /\ attempt' \in [Lesson -> Request \cup {Null}]
        /\ phase'[l] = "submitting" /\ \A m \in Lesson : m # l => phase'[m] = phase[m] /\ attempt'[m] = attempt[m]
    BY <1>1, SendsTo
  <2>3. AppTyped'
    BY <1>t, <1>n, <2>1, <2>2 DEF AppTyped
  <2>4. TablesTyped'
    <3>1. UNCHANGED << older, bank, stored, holder, last, gen, del >>
      BY <2>2 DEF tables
    <3>2. QED
      BY <1>t, <3>1, TablesStay DEF TablesTyped
  <2>5. HolderWrote'
    <3>1. holder' = holder
      BY <2>2 DEF tables
    <3>2. \A s \in Request : pc[s] # pc'[s] => pc[s] # "written" /\ pc'[s] # "written"
      BY <2>1 DEF Same
    <3>3. QED
      BY <1>t, <3>1, <3>2, HolderStays
  <2>6. QED
    BY <2>2, <2>3, <2>4, <2>5, TypeNext
<1>2. ASSUME NEW l \in Lesson, Open(l) \/ Receive(l) \/ GiveUp(l) \/ Leave(l) PROVE TypeOK'
  <2>1. /\ phase' \in [Lesson -> Phase] /\ attempt' \in [Lesson -> Request \cup {Null}]
        /\ asked' \in [Lesson -> SUBSET Question] /\ gaveUp' \subseteq Request
        /\ \A m \in Lesson : m # l => phase'[m] = phase[m] /\ attempt'[m] = attempt[m]
        /\ \/ phase[l] = "closed" /\ phase'[l] = "answering" /\ attempt' = attempt
           \/ attempt'[l] = Null /\ phase'[l] \in {"done", "left", "failed"}
        /\ UNCHANGED << request, tables, gen, del >>
    BY <1>2, AppTo
  <2>2. AppTyped'
    BY <1>t, <2>1 DEF AppTyped
  <2>3. RequestTyped'
    BY <1>t, <2>1 DEF RequestTyped, request
  <2>4. UNCHANGED << older, bank, stored, holder, last, gen, del, pc >>
    BY <2>1 DEF request, tables
  <2>5. TablesTyped'
    BY <1>t, <2>4, TablesStay DEF TablesTyped
  <2>6. HolderWrote'
    BY <1>t, <2>4, HolderStays
  <2>7. QED
    BY <2>2, <2>3, <2>5, <2>6, TypeNext
<1>3. ASSUME NEW r \in Request, Serve(r) \/ Fails(r) PROVE TypeOK'
  <2>1. /\ RequestTyped' /\ (\A s \in Request : s # r => Same(s))
        /\ UNCHANGED << phase, asked, attempt, gaveUp, gen, del >>
    BY <1>3, OneRequest
  <2>2. AppTyped'
    BY <1>t, <2>1 DEF AppTyped
  <2>3. stored \subseteq Request /\ Holding \subseteq Request /\ before[r] \subseteq Request
    BY <1>t DEF TablesTyped, RequestTyped, Holding
  <2>4. CASE LoadGoal(r) \/ Grade(r) \/ ReplayHistory(r)
    <3>1. UNCHANGED tables /\ pc[r] # "written" /\ pc'[r] # "written"
      <4>1. pc'[r] \in {"error", "loaded", "graded", "replayed"}
        BY <2>4, EndsTo, GoesTo DEF LoadGoal, Grade, ReplayHistory, PC, Under
      <4>2. QED
        BY <2>4, <4>1 DEF LoadGoal, Grade, ReplayHistory
    <3>2. UNCHANGED << older, bank, stored, holder, last, gen, del >>
      BY <2>1, <3>1 DEF tables
    <3>3. TablesTyped'
      BY <1>t, <3>2, TablesStay DEF TablesTyped
    <3>4. HolderWrote'
      <4>1. \A s \in Request : pc[s] # pc'[s] => pc[s] # "written" /\ pc'[s] # "written"
        BY <2>1, <3>1 DEF Same
      <4>2. QED
        BY <1>t, <3>2, <4>1, HolderStays
    <3>5. QED
      BY <2>1, <2>2, <3>3, <3>4, TypeNext
  <2>5. CASE CreateMany(r)
    <3>1. /\ pc[r] # "written" /\ pc'[r] # "written" /\ UNCHANGED << bank, stored, holder, last >>
          /\ older' \in [Row -> SUBSET Request]
      <4>1. pc'[r] \in {"error", "inserted"}
        BY <2>5, EndsTo, GoesTo DEF CreateMany, PC, Under
      <4>2. QED
        BY <1>t, <2>3, <2>5, <4>1 DEF CreateMany, TablesTyped
    <3>2. TablesTyped'
      <4>1. holder' \in Request \cup {Null, Deletion} /\ gen' = gen /\ del' = del
        BY <1>t, <2>1, <3>1 DEF TablesTyped
      <4>2. QED
        BY <1>t, <3>1, <4>1, TablesStay DEF TablesTyped
    <3>3. HolderWrote'
      <4>1. \A s \in Request : pc[s] # pc'[s] => pc[s] # "written" /\ pc'[s] # "written"
        BY <2>1, <3>1 DEF Same
      <4>2. QED
        BY <1>t, <3>1, <4>1, HolderStays
    <3>4. QED
      BY <2>1, <2>2, <3>2, <3>3, TypeNext
  <2>6. CASE SetRating(r)
    <3>1. pc'[r] = "written" /\ holder = Null /\ holder' = r /\ UNCHANGED << older, bank, stored, last >>
      BY <2>6, GoesTo DEF SetRating, PC, Under
    <3>2. TablesTyped'
      <4>1. holder' \in Request \cup {Null, Deletion} /\ gen' = gen /\ del' = del
        BY <2>1, <3>1
      <4>2. QED
        BY <1>t, <3>1, <4>1, TablesStay DEF TablesTyped
    <3>3. HolderWrote'
      <4> SUFFICES ASSUME NEW s \in Request PROVE pc'[s] = "written" <=> s = r
        BY <3>1 DEF HolderWrote
      <4>1. pc[s] # "written"
        BY <1>t, <1>n, <3>1 DEF HolderWrote
      <4>2. QED
        BY <2>1, <3>1, <4>1 DEF Same
    <3>4. QED
      BY <2>1, <2>2, <3>2, <3>3, TypeNext
  <2>7. CASE Commit(r)
    <3>1. /\ pc[r] = "written" /\ pc'[r] = "ok" /\ holder' = Null /\ UNCHANGED << older, bank >>
          /\ stored' = stored \cup {r} /\ last' = [by |-> r, saw |-> before[r]]
      BY <2>7, GoesTo DEF Commit, PC, Ended
    <3>2. TablesTyped'
      <4>1. last' \in [by : Request \cup {Null}, saw : SUBSET Request] /\ stored' \subseteq Request
        BY <2>3, <3>1
      <4>2. QED
        BY <1>t, <2>1, <3>1, <4>1 DEF TablesTyped
    <3>3. HolderWrote'
      <4> SUFFICES ASSUME NEW s \in Request PROVE pc'[s] # "written"
        BY <1>n, <3>1 DEF HolderWrote
      <4>1. s # r => pc[s] # "written"
        <5>1. holder = r
          BY <1>t, <3>1 DEF HolderWrote
        <5>2. QED
          BY <1>t, <5>1 DEF HolderWrote
      <4>2. QED
        BY <2>1, <3>1, <4>1 DEF Same
    <3>4. QED
      BY <2>1, <2>2, <3>2, <3>3, TypeNext
  <2>8. CASE Fails(r)
    <3>1. /\ pc'[r] = "error" /\ holder' = (IF holder = r THEN Null ELSE holder)
          /\ older' = [row \in Row |-> IF row = r THEN {} ELSE older[row] \ {r}]
          /\ UNCHANGED << bank, stored, last >>
      BY <2>8, EndsTo DEF Fails, RollsBack
    <3>2. older' \in [Row -> SUBSET Request]
      BY <1>t, <3>1 DEF TablesTyped
    <3>3. TablesTyped'
      <4>1. holder' \in Request \cup {Null, Deletion} /\ gen' = gen /\ del' = del
        BY <1>t, <2>1, <3>1 DEF TablesTyped
      <4>2. QED
        BY <1>t, <3>1, <3>2, <4>1, TablesStay DEF TablesTyped
    <3>4. HolderWrote'
      <4> SUFFICES ASSUME NEW s \in Request PROVE pc'[s] = "written" <=> holder' = s
        BY DEF HolderWrote
      <4>1. pc[s] = "written" <=> holder = s
        BY <1>t DEF HolderWrote
      <4>2. CASE s = r
        BY <1>n, <3>1, <4>2
      <4>3. CASE s # r
        <5>1. pc'[s] = pc[s]
          BY <2>1, <4>3 DEF Same
        <5>2. holder' = s <=> holder = s
          BY <1>n, <3>1, <4>3
        <5>3. QED
          BY <4>1, <5>1, <5>2
      <4>4. QED
        BY <4>2, <4>3
    <3>5. QED
      BY <2>1, <2>2, <3>3, <3>4, TypeNext
  <2>9. QED
    BY <1>3, <2>4, <2>5, <2>6, <2>7, <2>8 DEF Serve
<1>4. CASE Generate \/ Delete \/ DeleteFails
  <2>1. UNCHANGED << client, request >>
    BY <1>4 DEF Generate, CreateQuestions, CommitQuestions, Delete, DeleteGoal, Cascade, CommitDelete, DeleteFails
  <2>2. AppTyped' /\ RequestTyped'
    BY <1>t, <2>1 DEF AppTyped, RequestTyped, client, request
  <2>3. stored \subseteq Request /\ Holding \subseteq Request
    BY <1>t DEF TablesTyped, Holding
  <2>4. CASE Generate
    <3>1. /\ older' \in [Row -> SUBSET Request] /\ bank' \subseteq Question /\ UNCHANGED << stored, holder, last, del >>
          /\ gen' \in {"idle", "inserted", "committed"}
      BY <1>t, <2>3, <2>4 DEF Generate, CreateQuestions, CommitQuestions, TablesTyped
    <3>2. TablesTyped'
      BY <1>t, <3>1 DEF TablesTyped
    <3>3. HolderWrote'
      <4>1. pc' = pc
        BY <2>1 DEF request
      <4>2. QED
        BY <1>t, <3>1, <4>1, HolderStays
    <3>4. QED
      BY <2>2, <3>2, <3>3, TypeNext
  <2>5. CASE DeleteGoal
    <3>1. /\ holder = Null /\ holder' = Deletion /\ del' = "row" /\ pc' = pc
          /\ UNCHANGED << older, bank, stored, last, gen >>
      BY <2>1, <2>5 DEF DeleteGoal, request
    <3>2. TablesTyped'
      BY <1>t, <3>1, TablesStay DEF TablesTyped
    <3>3. HolderWrote'
      BY <1>t, <1>n, <3>1 DEF HolderWrote
    <3>4. QED
      BY <2>2, <3>2, <3>3, TypeNext
  <2>8. CASE Cascade
    <3>1. UNCHANGED << older, bank, stored, holder, last, gen >> /\ del' = "cascaded" /\ pc' = pc
      BY <2>1, <2>8 DEF Cascade, request, tables
    <3>2. TablesTyped'
      BY <1>t, <3>1, TablesStay DEF TablesTyped
    <3>3. HolderWrote'
      BY <1>t, <3>1, HolderStays
    <3>4. QED
      BY <2>2, <3>2, <3>3, TypeNext
  <2>6. CASE CommitDelete \/ DeleteFails
    <3>1. holder = Deletion /\ holder' = Null
      BY <2>6 DEF CommitDelete, DeleteFails, Locks
    <3>2. HolderWrote'
      <4>1. pc' = pc
        BY <2>1 DEF request
      <4>2. QED
        BY <1>t, <1>n, <3>1, <4>1 DEF HolderWrote
    <3>3. older' \in [Row -> SUBSET Request] /\ bank' \subseteq Question /\ stored' \subseteq Request
      BY <1>t, <2>6 DEF CommitDelete, DeleteFails, TablesTyped
    <3>4. last' \in [by : Request \cup {Null}, saw : SUBSET Request]
      <4>1. NoLast \in [by : Request \cup {Null}, saw : SUBSET Request]
        BY DEF NoLast
      <4>2. QED
        BY <1>t, <2>6, <4>1 DEF CommitDelete, DeleteFails, TablesTyped
    <3>6. gen' = gen /\ del' \in {"idle", "deleted"}
      BY <2>6 DEF CommitDelete, DeleteFails
    <3>7. TablesTyped'
      BY <1>t, <3>1, <3>3, <3>4, <3>6 DEF TablesTyped
    <3>5. QED
      BY <2>2, <3>2, <3>7, TypeNext
  <2>7. QED
    BY <1>4, <2>4, <2>5, <2>6, <2>8 DEF Delete
<1>5. CASE UNCHANGED vars
  BY <1>5 DEF vars, client, request, tables, TypeOK
<1>6. QED
  BY <1>1, <1>2, <1>3, <1>4, <1>5 DEF Next, App, BreakDeadlock

-----------------------------------------------------------------------------
(* A step, seen from one request and from the tables.                      *)

\* What each statement leaves with its request.
LEMMA Statement ==
    ASSUME TypeOK, NEW r \in Request, Serve(r)
    PROVE  \/ pc[r] \in {"sent", "loaded", "graded"} /\ pc'[r] = "error"
           \/ LoadGoal(r) /\ pc[r] = "sent" /\ pc'[r] = "loaded"
           \/ /\ Grade(r) /\ pc[r] = "loaded" /\ pc'[r] = "graded"
              /\ Asked(r) \subseteq bank /\ known'[r] = bank /\ before'[r] = stored /\ from'[r] = from[r]
           \/ /\ CreateMany(r) /\ Alive /\ del # "cascaded" /\ pc[r] = "graded" /\ pc'[r] = "inserted"
              /\ known'[r] = known[r] /\ before'[r] = before[r] /\ from'[r] = from[r]
           \/ /\ ReplayHistory(r) /\ pc[r] = "inserted" /\ pc'[r] = "replayed"
              /\ known'[r] = known[r] /\ before'[r] = before[r] /\ from'[r] = from[r]
              /\ new'[r] = replay(known[r], stored \cup {r}) /\ elo'[r] = << new'[r], loaded'[r] >>
           \/ /\ SetRating(r) /\ pc[r] = "replayed" /\ pc'[r] = "written"
              /\ known'[r] = known[r] /\ before'[r] = before[r] /\ from'[r] = from[r]
              /\ new'[r] = new[r] /\ elo'[r] = elo[r] /\ loaded'[r] = loaded[r]
           \/ Commit(r) /\ pc[r] = "written" /\ pc'[r] = "ok"
<1>t. \A where \in PC : Goes(r, where) => pc'[r] = where
  BY GoesTo
<1>1. CASE EndsUnstored(r)
  <2>1. pc[r] \in {"sent", "loaded", "graded"} \/ ReplayHistory(r) \/ SetRating(r) \/ Commit(r)
    BY DEF Serve, LoadGoal, Grade, CreateMany
  <2>2. pc'[r] = "error"
    BY <1>1, EndsTo
  <2>3. ~ReplayHistory(r) /\ ~SetRating(r) /\ ~Commit(r)
    BY <1>t, <2>2 DEF ReplayHistory, SetRating, Commit, PC, Under, Ended
  <2>4. QED
    BY <2>1, <2>2, <2>3
<1>2. CASE LoadGoal(r) /\ ~EndsUnstored(r)
  BY <1>t, <1>2 DEF LoadGoal, PC, Under
<1>3. CASE Grade(r) /\ ~EndsUnstored(r)
  <2>1. /\ pc[r] = "loaded" /\ Asked(r) \subseteq bank /\ Goes(r, "graded") /\ from' = from
        /\ known' = [known EXCEPT ![r] = bank] /\ before' = [before EXCEPT ![r] = stored]
    BY <1>3 DEF Grade
  <2>2. known'[r] = bank /\ before'[r] = stored /\ pc'[r] = "graded"
    BY <1>t, <2>1 DEF TypeOK, PC, Under
  <2>3. QED
    BY <1>3, <2>1, <2>2
<1>4. CASE CreateMany(r) /\ ~EndsUnstored(r)
  BY <1>t, <1>4 DEF CreateMany, PC, Under
<1>5. CASE ReplayHistory(r)
  <2>1. pc'[r] = "replayed"
    BY <1>t, <1>5 DEF ReplayHistory, PC, Under
  <2>2. new'[r] = replay(known[r], stored \cup {r}) /\ elo'[r] = << new'[r], loaded'[r] >>
    BY <1>5 DEF ReplayHistory, TypeOK
  <2>3. QED
    BY <1>5, <2>1, <2>2 DEF ReplayHistory
<1>6. CASE SetRating(r)
  BY <1>t, <1>6 DEF SetRating, PC, Under
<1>7. CASE Commit(r)
  BY <1>t, <1>7 DEF Commit, PC, Ended
<1>8. QED
  BY <1>1, <1>2, <1>3, <1>4, <1>5, <1>6, <1>7 DEF Serve

\* What a step may do to a request.
LEMMA ToRequest ==
    ASSUME TypeOK, Carries, [Next]_vars, NEW r \in Request
    PROVE  \/ Same(r)
           \/ pc[r] = "free" /\ pc'[r] = "sent"
           \/ pc[r] \in Under /\ pc'[r] = "error" /\ from'[r] = Null
           \/ Serve(r)
<1>1. ASSUME NEW l \in Lesson, Submit(l) \/ RetrySubmit(l)
      PROVE  Same(r) \/ (pc[r] = "free" /\ pc'[r] = "sent")
  BY <1>1, SendsTo
<1>2. ASSUME NEW l \in Lesson, Open(l) \/ Receive(l) \/ GiveUp(l) \/ Leave(l) PROVE Same(r)
  BY <1>2, AppTo DEF request, Same
<1>3. ASSUME NEW s \in Request, Serve(s) \/ Fails(s)
      PROVE  Same(r) \/ Serve(r) \/ (pc[r] \in Under /\ pc'[r] = "error" /\ from'[r] = Null)
  <2>1. CASE s # r
    BY <1>3, <2>1, OneRequest
  <2>2. CASE s = r
    BY <1>3, <2>2, EndsTo DEF Fails, RollsBack
  <2>3. QED
    BY <2>1, <2>2
<1>4. CASE Generate \/ Delete \/ DeleteFails
  BY <1>4 DEF Generate, CreateQuestions, CommitQuestions, Delete, DeleteGoal, Cascade, CommitDelete, DeleteFails,
              request, Same
<1>5. CASE UNCHANGED vars
  BY <1>5 DEF vars, request, Same
<1>6. QED
  BY <1>1, <1>2, <1>3, <1>4, <1>5 DEF Next, App, BreakDeadlock

\* What a step may do to what is committed.
LEMMA ToTables ==
    ASSUME TypeOK, Carries, [Next]_vars
    PROVE  \/ \E r \in Request : Commit(r)
           \/ CommitDelete
           \/ UNCHANGED << stored, rating, last >> /\ (CommitQuestions \/ bank' = bank)
<1>1. ASSUME NEW l \in Lesson, Submit(l) \/ RetrySubmit(l) PROVE UNCHANGED << stored, rating, last, bank >>
  BY <1>1, SendsTo DEF tables
<1>2. ASSUME NEW l \in Lesson, Open(l) \/ Receive(l) \/ GiveUp(l) \/ Leave(l)
      PROVE  UNCHANGED << stored, rating, last, bank >>
  BY <1>2, AppTo DEF tables
<1>3. ASSUME NEW r \in Request, Serve(r) \/ Fails(r), ~Commit(r) PROVE UNCHANGED << stored, rating, last, bank >>
  BY <1>3 DEF Serve, LoadGoal, Grade, CreateMany, ReplayHistory, SetRating, Fails, tables
<1>4. CASE Generate \/ Delete \/ DeleteFails
  BY <1>4 DEF Generate, CreateQuestions, CommitQuestions, Delete, DeleteGoal, Cascade, DeleteFails, tables
<1>5. CASE UNCHANGED vars
  BY <1>5 DEF vars, tables
<1>6. QED
  BY <1>1, <1>2, <1>3, <1>4, <1>5 DEF Next, App, BreakDeadlock

-----------------------------------------------------------------------------
(* Locks, and who carries a lesson.                                        *)

LEMMA LocksStep == TypeOK /\ Locks /\ Carries /\ [Next]_vars => Locks'
<1> SUFFICES ASSUME TypeOK, Locks, Carries, [Next]_vars PROVE Locks'
  OBVIOUS
<1>n. Deletion \notin Request /\ Deletion # Null
  BY DeletionAssumption DEF Deletion
<1>h. \A r \in Request : pc[r] = "written" <=> holder = r
  BY DEF TypeOK
<1>w. \A r \in Request : pc[r] = "written" => r \in Holding
  BY DEF Holding
<1>1. ASSUME NEW l \in Lesson, App(l) PROVE Locks'
  <2>1. UNCHANGED << holder, gen, del >>
    BY <1>1 DEF App, Open, Submit, RetrySubmit, Sends, Receive, GiveUp, Leave, tables
  <2>2. ASSUME NEW s \in Request, s \in Holding' PROVE s \in Holding
    <3>1. Same(s) \/ pc'[s] \in {"sent", "error"} \/ Serve(s)
      BY ToRequest, <1>1 DEF Next
    <3>2. ~Serve(s) \/ Same(s)
      <4>1. CASE Submit(l) \/ RetrySubmit(l)
        <5>1. PICK r \in Request : pc'[r] = "sent" /\ \A q \in Request : q # r => Same(q)
          BY <4>1, SendsTo
        <5>2. s # r
          BY <2>2, <5>1 DEF Holding
        <5>3. QED
          BY <5>1, <5>2
      <4>2. CASE Open(l) \/ Receive(l) \/ GiveUp(l) \/ Leave(l)
        BY <4>2, AppTo DEF request, Same
      <4>3. QED
        BY <1>1, <4>1, <4>2 DEF App
    <3>3. QED
      BY <2>2, <3>1, <3>2 DEF Holding, Same
  <2>3. QED
    BY <2>1, <2>2 DEF Locks, Holding
<1>2. ASSUME NEW r \in Request, Serve(r) \/ Fails(r) PROVE Locks'
  <2>1. del' = del /\ gen' = gen /\ \A s \in Request : s # r => Same(s)
    BY <1>2, OneRequest
  <2>2. (holder = Deletion) <=> (holder' = Deletion)
    <3>1. CASE SetRating(r)
      BY <1>n, <3>1 DEF SetRating
    <3>2. CASE Commit(r)
      BY <1>n, <1>h, <3>2 DEF Commit
    <3>3. CASE Fails(r)
      BY <1>n, <3>3 DEF Fails, RollsBack
    <3>4. CASE LoadGoal(r) \/ Grade(r) \/ CreateMany(r) \/ ReplayHistory(r)
      BY <3>4 DEF LoadGoal, Grade, CreateMany, ReplayHistory, tables
    <3>5. QED
      BY <1>2, <3>1, <3>2, <3>3, <3>4 DEF Serve
  <2>3. ASSUME NEW s \in Request, s \in Holding', del \in {"cascaded", "deleted"} PROVE s \in Holding
    <3>1. CASE s # r
      BY <2>1, <2>3, <3>1 DEF Same, Holding
    <3>2. CASE s = r /\ Fails(r)
      BY <2>3, <3>2, EndsTo DEF Fails, RollsBack, Holding
    <3>3. CASE s = r /\ Serve(r)
      BY <2>3, <3>3, Statement DEF Holding, Alive
    <3>4. QED
      BY <1>2, <3>1, <3>2, <3>3
  <2>4. del' \in {"row", "cascaded"} <=> holder' = Deletion
    BY <2>1, <2>2 DEF Locks
  <2>5. del' \in {"cascaded", "deleted"} => Holding' = {}
    BY <2>1, <2>3 DEF Locks, Holding
  <2>6. QED
    BY <2>1, <2>4, <2>5 DEF Locks
<1>3. CASE Generate \/ Delete \/ DeleteFails \/ UNCHANGED vars
  <2>1. Holding' = Holding
    BY <1>3 DEF Generate, CreateQuestions, CommitQuestions, Delete, DeleteGoal, Cascade, CommitDelete, DeleteFails,
                request, vars, Holding
  <2>2. CASE CreateQuestions \/ CommitQuestions
    BY <2>1, <2>2 DEF CreateQuestions, CommitQuestions, Locks
  <2>3. CASE DeleteGoal
    BY <1>n, <2>1, <2>3 DEF DeleteGoal, Locks
  <2>4. CASE Cascade
    BY <1>n, <2>1, <2>4 DEF Cascade, Locks, tables
  <2>5. CASE CommitDelete \/ DeleteFails
    BY <1>n, <2>1, <2>5 DEF CommitDelete, DeleteFails, Locks
  <2>6. CASE UNCHANGED vars
    BY <2>1, <2>6 DEF vars, tables, Locks
  <2>7. QED
    BY <1>3, <2>2, <2>3, <2>4, <2>5, <2>6 DEF Generate, Delete
<1>4. QED
  BY <1>1, <1>2, <1>3 DEF Next, BreakDeadlock

LEMMA CarriesStep == TypeOK /\ Carries /\ [Next]_vars => Carries'
<1> SUFFICES ASSUME TypeOK, Carries, [Next]_vars PROVE Carries'
  OBVIOUS
<1>n. Null \notin Lesson
  BY NullAssumption
<1>1. ASSUME NEW l \in Lesson, Submit(l) \/ RetrySubmit(l) PROVE Carries'
  <2>1. PICK r \in Request :
         /\ pc[r] = "free" /\ pc'[r] = "sent" /\ from'[r] = l
         /\ \A s \in Request : s # r => Same(s)
    BY <1>1, SendsTo
  <2>2. phase'[l] = "submitting" /\ \A m \in Lesson : m # l => phase'[m] = phase[m]
    BY <1>1, SendsTo
  <2>3. stored' = stored
    BY <1>1, SendsTo DEF tables
  <2>4. ASSUME NEW s \in Request
        PROVE  /\ pc'[s] \in Under \cup {"ok"} <=> from'[s] # Null
               /\ from'[s] # Null => phase'[from'[s]] # "closed"
    <3>1. CASE s = r
      BY <1>n, <2>1, <2>2, <3>1 DEF Under
    <3>2. CASE s # r
      BY <2>1, <2>2, <3>2 DEF Carries, Same, TypeOK
    <3>3. QED
      BY <3>1, <3>2
  <2>5. ASSUME NEW s \in stored PROVE pc'[s] = "ok"
    BY <2>1, <2>5 DEF Carries, Same, TypeOK
  <2>6. QED
    BY <2>3, <2>4, <2>5 DEF Carries, TypeOK
<1>2. ASSUME NEW l \in Lesson, Open(l) \/ Receive(l) \/ GiveUp(l) \/ Leave(l) PROVE Carries'
  <2>1. phase'[l] # "closed" /\ (\A m \in Lesson : m # l => phase'[m] = phase[m]) /\ UNCHANGED << request, tables >>
    BY <1>2, AppTo
  <2>2. QED
    BY <2>1 DEF Carries, request, tables, TypeOK
<1>3. ASSUME NEW r \in Request, Serve(r) \/ Fails(r) PROVE Carries'
  <2>1. /\ pc[r] \in Under /\ (\A s \in Request : s # r => Same(s)) /\ phase' = phase
        /\ \/ pc'[r] = "error" /\ from'[r] = Null
           \/ pc'[r] \in Under \cup {"ok"} /\ from'[r] = from[r]
    BY <1>3, OneRequest
  <2>2. from[r] # Null
    BY <2>1 DEF Carries
  <2>3. ASSUME NEW s \in Request
        PROVE  /\ pc'[s] \in Under \cup {"ok"} <=> from'[s] # Null
               /\ from'[s] # Null => phase'[from'[s]] # "closed"
    <3>1. CASE s = r
      BY <2>1, <2>2, <3>1 DEF Carries, Under
    <3>2. CASE s # r
      BY <2>1, <3>2 DEF Carries, Same
    <3>3. QED
      BY <3>1, <3>2
  <2>4. r \notin stored /\ \A s \in stored : pc'[s] = "ok"
    BY <2>1 DEF Carries, Same, Under, TypeOK
  <2>5. stored' = stored \/ (stored' = stored \cup {r} /\ pc'[r] = "ok")
    BY <1>3, Statement
       DEF Serve, LoadGoal, Grade, CreateMany, ReplayHistory, SetRating, Commit, Fails, tables
  <2>6. QED
    BY <2>3, <2>4, <2>5 DEF Carries, TypeOK
<1>4. CASE Generate \/ Delete \/ DeleteFails \/ UNCHANGED vars
  <2>1. UNCHANGED << phase, pc, from >> /\ stored' \subseteq stored
    BY <1>4 DEF Generate, CreateQuestions, CommitQuestions, Delete, DeleteGoal, Cascade, CommitDelete, DeleteFails,
                client, request, tables, vars
  <2>2. QED
    BY <2>1 DEF Carries
<1>5. QED
  BY <1>1, <1>2, <1>3, <1>4 DEF Next, App, BreakDeadlock

LEMMA CopiesStep == TypeOK /\ Carries /\ Copies /\ [Next]_vars => Copies'
<1> SUFFICES ASSUME TypeOK, Carries, Copies, [Next]_vars PROVE Copies'
  OBVIOUS
<1>1. ASSUME NEW l \in Lesson, Submit(l) \/ RetrySubmit(l) PROVE Copies'
  <2>1. PICK r \in Request :
         /\ from[r] = Null /\ from'[r] = l /\ attempt'[l] = r
         /\ \A s \in Request : s # r => Same(s)
    BY <1>1, SendsTo
  <2>2. /\ phase[l] \in {"answering", "failed"} /\ attempt[l] = Null /\ gaveUp' = gaveUp
        /\ \A m \in Lesson : m # l => phase'[m] = phase[m] /\ attempt'[m] = attempt[m]
    BY <1>1, SendsTo
  <2>3. \A s \in Request : from[s] = l => s \in gaveUp
    BY <2>2, NullAssumption DEF Copies
  <2>4. ASSUME NEW s \in Request, from'[s] # Null
        PROVE  s \in gaveUp' \/ attempt'[from'[s]] = s \/ phase'[from'[s]] \in {"done", "left"}
    <3>1. CASE s = r
      BY <2>1, <3>1
    <3>2. CASE s # r /\ from[s] = l
      BY <2>2, <2>3, <3>2
    <3>3. CASE s # r /\ from[s] # l
      BY <2>1, <2>2, <2>4, <3>3 DEF Copies, Same, TypeOK
    <3>4. QED
      BY <3>1, <3>2, <3>3
  <2>5. ASSUME NEW s \in Request, NEW t \in Request, s # t, from'[s] = from'[t], from'[s] # Null
        PROVE  {s, t} \cap gaveUp' # {}
    <3>1. CASE s = r \/ t = r
      BY <2>1, <2>2, <2>3, <2>5, <3>1 DEF Same
    <3>2. CASE s # r /\ t # r
      BY <2>1, <2>2, <2>5, <3>2 DEF Copies, Same
    <3>3. QED
      BY <3>1, <3>2
  <2>6. QED
    BY <2>4, <2>5 DEF Copies
<1>2. ASSUME NEW l \in Lesson, Open(l) \/ Receive(l) \/ GiveUp(l) \/ Leave(l) PROVE Copies'
  <2>1. /\ from' = from /\ gaveUp \subseteq gaveUp'
        /\ \A m \in Lesson : m # l => phase'[m] = phase[m] /\ attempt'[m] = attempt[m]
        /\ \/ phase[l] = "closed" /\ attempt' = attempt
           \/ /\ phase[l] = "submitting" /\ attempt[l] \in Request
              /\ phase'[l] \in {"done", "left"} \/ attempt[l] \in gaveUp' \/ pc[attempt[l]] = "error"
    BY <1>2, AppTo DEF request
  <2>2. ASSUME NEW s \in Request, from[s] # Null
        PROVE  s \in gaveUp' \/ attempt'[from[s]] = s \/ phase'[from[s]] \in {"done", "left"}
    <3>1. CASE from[s] # l
      BY <2>1, <2>2, <3>1 DEF Copies, TypeOK
    <3>2. CASE from[s] = l
      <4>1. phase[l] # "closed" /\ pc[s] # "error"
        BY <2>2, <3>2 DEF Carries, Under
      <4>2. s \in gaveUp \/ attempt[l] = s
        BY <2>1, <2>2, <3>2, <4>1 DEF Copies
      <4>3. QED
        BY <2>1, <3>2, <4>1, <4>2
    <3>3. QED
      BY <3>1, <3>2
  <2>3. QED
    BY <2>1, <2>2 DEF Copies
<1>3. ASSUME \A s \in Request : from'[s] \in {Null, from[s]}, UNCHANGED << phase, attempt, gaveUp >> PROVE Copies'
  BY <1>3 DEF Copies
<1>4. ASSUME NEW r \in Request, Serve(r) \/ Fails(r) PROVE Copies'
  <2>1. (\A s \in Request : from'[s] \in {Null, from[s]}) /\ UNCHANGED << phase, attempt, gaveUp >>
    BY <1>4, OneRequest DEF Same
  <2>2. QED
    BY <1>3, <2>1
<1>5. CASE Generate \/ Delete \/ DeleteFails \/ UNCHANGED vars
  <2>1. UNCHANGED << phase, attempt, gaveUp, from >>
    BY <1>5 DEF Generate, CreateQuestions, CommitQuestions, Delete, DeleteGoal, Cascade, CommitDelete, DeleteFails,
                client, request, vars
  <2>2. QED
    BY <1>3, <2>1
<1>6. QED
  BY <1>1, <1>2, <1>4, <1>5 DEF Next, App, BreakDeadlock

-----------------------------------------------------------------------------
(* What was read, and the order of the rows.                               *)

\* Whoever carries a lesson keeps the questions he asked.
LEMMA AskedStays ==
    ASSUME TypeOK, Carries, [Next]_vars, NEW r \in Request, from[r] # Null, from'[r] # Null
    PROVE  Asked(r)' = Asked(r)
<1>1. ASSUME NEW l \in Lesson, Submit(l) \/ RetrySubmit(l) PROVE Asked(r)' = Asked(r)
  BY <1>1, SendsTo DEF Asked, Same
<1>2. ASSUME NEW l \in Lesson, Open(l) \/ Receive(l) \/ GiveUp(l) \/ Leave(l) PROVE Asked(r)' = Asked(r)
  <2>1. from'[r] = from[r] /\ phase[from[r]] # "closed" /\ from[r] \in Lesson
    BY <1>2, AppTo DEF request, Carries, TypeOK
  <2>2. QED
    BY <1>2, <2>1, AppTo DEF Asked
<1>3. ASSUME NEW s \in Request, Serve(s) \/ Fails(s) PROVE Asked(r)' = Asked(r)
  BY <1>3, OneRequest DEF Asked, Same
<1>4. CASE Generate \/ Delete \/ DeleteFails \/ UNCHANGED vars
  BY <1>4 DEF Generate, CreateQuestions, CommitQuestions, Delete, DeleteGoal, Cascade, CommitDelete, DeleteFails,
              client, request, vars, Asked
<1>5. QED
  BY <1>1, <1>2, <1>3, <1>4 DEF Next, App, BreakDeadlock

\* The bank grows by one batch of questions, and goes with its goal.
LEMMA BankStep ==
    ASSUME TypeOK, Locks, Carries, Reads, [Next]_vars
    PROVE  /\ (gen # "committed" => bank \subseteq FirstBank)'
           /\ del' # "deleted" => del # "deleted" /\ bank \subseteq bank' /\ stored \subseteq stored'
<1>1. CASE \E r \in Request : Commit(r)
  <2>1. PICK r \in Request : Commit(r)
    BY <1>1
  <2>2. QED
    BY <2>1 DEF Commit, Reads
<1>2. CASE CommitDelete
  BY <1>2 DEF CommitDelete
<1>3. CASE CommitQuestions
  BY <1>3 DEF CommitQuestions, TypeOK
<1>4. CASE UNCHANGED << stored, bank >>
  <2>1. gen' = gen \/ gen = "idle" \/ CommitQuestions
    <3>1. ASSUME NEW l \in Lesson, App(l) PROVE gen' = gen
      BY <3>1 DEF App, Open, Submit, RetrySubmit, Sends, Receive, GiveUp, Leave
    <3>2. ASSUME NEW r \in Request, Serve(r) \/ Fails(r) PROVE gen' = gen
      BY <3>2, OneRequest
    <3>3. CASE Generate \/ Delete \/ DeleteFails \/ UNCHANGED vars
      BY <3>3 DEF Generate, CreateQuestions, Delete, DeleteGoal, Cascade, CommitDelete, DeleteFails, vars
    <3>4. QED
      BY <3>1, <3>2, <3>3 DEF Next, BreakDeadlock
  <2>2. del' # "deleted" => del # "deleted"
    <3>1. ASSUME NEW l \in Lesson, App(l) PROVE del' = del
      BY <3>1 DEF App, Open, Submit, RetrySubmit, Sends, Receive, GiveUp, Leave
    <3>2. ASSUME NEW r \in Request, Serve(r) \/ Fails(r) PROVE del' = del
      BY <3>2, OneRequest
    <3>3. CASE Generate \/ Delete \/ DeleteFails \/ UNCHANGED vars
      BY <3>3 DEF Generate, CreateQuestions, CommitQuestions, Delete, DeleteGoal, Cascade, CommitDelete, DeleteFails, vars
    <3>4. QED
      BY <3>1, <3>2, <3>3 DEF Next, BreakDeadlock
  <2>3. QED
    BY <1>4, <2>1, <2>2 DEF Reads, CommitQuestions
<1>5. QED
  BY <1>1, <1>2, <1>3, <1>4, ToTables

LEMMA ReadsStep == TypeOK /\ Locks /\ Carries /\ Reads /\ [Next]_vars => Reads'
<1> SUFFICES ASSUME TypeOK, Locks, Carries, Reads, [Next]_vars PROVE Reads'
  OBVIOUS
<1>1. Carries' /\ TypeOK' /\ Locks'
  BY CarriesStep, TypeStep, LocksStep
<1>2. \A r \in Request : from[r] # Null /\ from'[r] # Null => Asked(r)' = Asked(r)
  BY AskedStays
<1>3. \A b \in stored : b \in Request /\ from[b] # Null /\ pc[b] = "ok"
  BY DEF Carries, TypeOK
<1>4. \A b \in stored' : b \in Request /\ from'[b] # Null
  BY <1>1 DEF Carries, TypeOK
<1>5. ASSUME NEW b \in stored' PROVE Asked(b)' \subseteq bank'
  <2>1. CASE b \in stored
    <3>1. Asked(b) \subseteq bank /\ Asked(b)' = Asked(b)
      BY <1>2, <1>3, <1>4, <1>5, <2>1 DEF Reads
    <3>2. bank \subseteq bank'
      BY <1>5, BankStep, ToTables DEF CommitDelete, CommitQuestions, TypeOK, Commit
    <3>3. QED
      BY <3>1, <3>2
  <2>2. CASE b \notin stored
    <3>1. ~CommitDelete /\ stored' # stored
      BY <2>2, <1>5 DEF CommitDelete
    <3>2. PICK r \in Request : Commit(r)
      BY <3>1, ToTables
    <3>3. b = r /\ bank' = bank /\ pc[r] = "written" /\ from'[r] = from[r]
      BY <1>5, <2>2, <3>2 DEF Commit
    <3>4. del # "deleted"
      BY <3>3 DEF Locks, Holding
    <3>5. Asked(r) \subseteq bank
      BY <3>3, <3>4 DEF Reads, Graded
    <3>6. from[r] # Null /\ from'[r] # Null
      BY <1>4, <3>3
    <3>7. QED
      BY <1>2, <3>3, <3>5, <3>6
  <2>3. QED
    BY <2>1, <2>2
<1>6. ASSUME NEW r \in Request, pc'[r] \in Graded, del' # "deleted"
      PROVE  /\ Asked(r)' \subseteq known'[r] /\ known'[r] \subseteq bank'
             /\ before'[r] \subseteq stored'
             /\ \A b \in before'[r] : Asked(b)' \subseteq known'[r]
             /\ last'.by \in before'[r] => before'[r] = stored'
  <2>0. del # "deleted" /\ bank \subseteq bank' /\ stored \subseteq stored'
    BY <1>6, BankStep
  <2>1. CASE pc[r] \in Graded /\ known'[r] = known[r] /\ before'[r] = before[r] /\ from'[r] = from[r]
    <3>1. /\ Asked(r) \subseteq known[r] /\ known[r] \subseteq bank /\ before[r] \subseteq stored
          /\ \A b \in before[r] : Asked(b) \subseteq known[r]
          /\ last.by \in before[r] => before[r] = stored
      BY <2>0, <2>1 DEF Reads
    <3>2. from[r] # Null
      BY <2>1 DEF Carries, Graded, Under
    <3>3. \A b \in before[r] : Asked(b)' = Asked(b)
      BY <1>2, <1>3, <1>4, <2>0, <3>1
    <3>4. last'.by \in before[r] => before[r] = stored'
      <4>1. CASE stored' = stored /\ last' = last
        BY <3>1, <4>1
      <4>2. CASE \E s \in Request : Commit(s)
        <5>1. PICK s \in Request : Commit(s)
          BY <4>2
        <5>2. last'.by = s /\ s \notin stored
          BY <1>3, <5>1 DEF Commit
        <5>3. QED
          BY <3>1, <5>2
      <4>3. CASE CommitDelete
        BY <1>6, <4>3 DEF CommitDelete
      <4>4. QED
        BY <4>1, <4>2, <4>3, ToTables
    <3>5. QED
      BY <1>2, <2>0, <2>1, <3>1, <3>2, <3>3, <3>4
  <2>2. CASE Grade(r) /\ Asked(r) \subseteq bank /\ known'[r] = bank /\ before'[r] = stored /\ from'[r] = from[r]
    <3>1. from[r] # Null /\ bank' = bank /\ stored' = stored
      BY <2>2 DEF Grade, tables, Carries, Under
    <3>2. \A b \in stored : Asked(b) \subseteq bank /\ Asked(b)' = Asked(b)
      BY <1>2, <1>3, <1>4, <3>1 DEF Reads
    <3>3. QED
      BY <1>2, <2>2, <3>1, <3>2
  <2>3. QED
    <3>1. Same(r) \/ Serve(r)
      BY <1>6, ToRequest DEF Graded
    <3>2. CASE Same(r)
      BY <1>6, <2>1, <3>2 DEF Same
    <3>3. CASE Serve(r)
      BY <1>6, <2>1, <2>2, <3>3, Statement DEF Graded
    <3>4. QED
      BY <3>1, <3>2, <3>3
<1>7. QED
  BY <1>5, <1>6, BankStep DEF Reads

\* The order of rows that stay does not change: a batch that is stored or
\* held stays before and after the same batches and questions.
LEMMA OrderStays ==
    ASSUME TypeOK, Locks, Carries, Reads, [Next]_vars,
           NEW b \in Request, b \in stored \cup Holding, b \in stored' \cup Holding',
           NEW x \in Row, x \in bank \/ (x \in stored \cup Holding /\ x \in stored' \cup Holding')
    PROVE  b \in older'[x] <=> b \in older[x]
<1>c. \A s \in stored : s \in Request /\ pc[s] = "ok"
  BY DEF Carries, TypeOK
<1>q. \A s \in Request : s \notin Question
  BY DisjointAssumption
<1>b. bank \subseteq Question
  BY DEF TypeOK
<1>1. ASSUME NEW l \in Lesson, App(l) PROVE older' = older
  BY <1>1 DEF App, Open, Submit, RetrySubmit, Sends, Receive, GiveUp, Leave, tables
<1>2. ASSUME NEW r \in Request, Serve(r), ~CreateMany(r) PROVE older' = older
  BY <1>2 DEF Serve, LoadGoal, Grade, ReplayHistory, SetRating, Commit, tables
<1>3. ASSUME NEW r \in Request, CreateMany(r) PROVE older'[x] = older[x]
  <2>1. pc[r] = "graded"
    BY <1>3 DEF CreateMany
  <2>2. r \notin stored \cup Holding /\ r \notin bank
    BY <1>c, <1>q, <1>b, <2>1 DEF Holding
  <2>3. QED
    BY <1>3, <2>2 DEF CreateMany, TypeOK
<1>4. ASSUME NEW r \in Request, Fails(r) PROVE b \in older'[x] <=> b \in older[x]
  <2>1. pc[r] \in Under /\ pc'[r] = "error" /\ stored' = stored
    BY <1>4, EndsTo DEF Fails, RollsBack
  <2>2. r \notin stored' \cup Holding'
    BY <1>c, <2>1 DEF Holding, Under
  <2>3. b # r /\ x # r
    BY <1>q, <1>b, <2>2
  <2>4. older' = [row \in Row |-> IF row = r THEN {} ELSE older[row] \ {r}]
    BY <1>4 DEF Fails, RollsBack
  <2>5. QED
    BY <2>3, <2>4
<1>5. CASE CreateQuestions
  <2>1. bank \subseteq FirstBank /\ x \notin Question \ FirstBank
    BY <1>5, <1>q, <1>c, <1>b DEF CreateQuestions, Reads, Holding
  <2>2. QED
    BY <1>5, <2>1 DEF CreateQuestions
<1>6. CASE CommitDelete
  <2>1. Holding = {} /\ Holding' = {} /\ stored' = {}
    BY <1>6 DEF CommitDelete, Locks, Holding, request
  <2>2. QED
    BY <2>1
<1>7. CASE CommitQuestions \/ DeleteGoal \/ Cascade \/ DeleteFails \/ UNCHANGED vars
  BY <1>7 DEF CommitQuestions, DeleteGoal, Cascade, DeleteFails, tables, vars
<1>8. QED
  BY <1>1, <1>2, <1>3, <1>4, <1>5, <1>6, <1>7 DEF Next, Generate, Delete, BreakDeadlock

-----------------------------------------------------------------------------
(* The walk.                                                               *)

\* A walk is the same again while its batches ask the same questions and
\* their order, among themselves and with the questions known, is the same.
LEMMA ReplayStays ==
    ASSUME NEW K, NEW B, \A b \in B : Asked(b)' = Asked(b),
           \A b \in B, x \in K \cup B : Earlier(b, x)' <=> Earlier(b, x)
    PROVE  replay(K, B)' = replay(K, B)
<1>1. ASSUME NEW q PROVE Anchor(q, K, B)' = Anchor(q, K, B)
  <2>1. CASE q \in K
    <3>1. {b \in B : Earlier(b, q)'} = {b \in B : Earlier(b, q)}
      BY <2>1
    <3>2. QED
      BY <2>1, <3>1 DEF Anchor
  <2>2. CASE q \notin K
    <3>1. ASSUME NEW b \in B, NEW c \in B
          PROVE  (q \in Asked(c)' => Earlier(b, c)') <=> (q \in Asked(c) => Earlier(b, c))
      OBVIOUS
    <3>2. {b \in B : \A c \in B : q \in Asked(c)' => Earlier(b, c)'}
             = {b \in B : \A c \in B : q \in Asked(c) => Earlier(b, c)}
      BY <3>1
    <3>3. QED
      BY <2>2, <3>2 DEF Anchor
  <2>3. QED
    BY <2>1, <2>2
<1>2. ASSUME NEW b \in B PROVE {c \in B : Earlier(c, b)'} = {c \in B : Earlier(c, b)}
  OBVIOUS
<1>3. ASSUME NEW b \in B
      PROVE  [q \in Asked(b)' |-> Anchor(q, K, B)'] = [q \in Asked(b) |-> Anchor(q, K, B)]
  BY <1>1
<1>4. QED
  BY <1>2, <1>3 DEF replay

\* Of the bank, a walk needs the questions its batches ask.
LEMMA KnownIsEnough ==
    ASSUME NEW K, NEW L, NEW B, \A b \in B : Asked(b) \subseteq K /\ Asked(b) \subseteq L
    PROVE  replay(K, B) = replay(L, B)
<1>1. ASSUME NEW b \in B, NEW q \in Asked(b) PROVE Anchor(q, K, B) = Anchor(q, L, B)
  BY DEF Anchor
<1>2. ASSUME NEW b \in B PROVE [q \in Asked(b) |-> Anchor(q, K, B)] = [q \in Asked(b) |-> Anchor(q, L, B)]
  BY <1>1
<1>3. QED
  BY <1>2 DEF replay

\* What was asked by a batch that is stored or held is asked by it still.
LEMMA HeldAsks ==
    ASSUME TypeOK, Locks, Carries, [Next]_vars, NEW b \in stored \cup Holding, b \in stored' \cup Holding'
    PROVE  Asked(b)' = Asked(b)
<1>1. b \in Request /\ from[b] # Null
  BY DEF Carries, Holding, TypeOK, Under
<1>2. from'[b] # Null
  <2>1. Carries' /\ TypeOK'
    BY CarriesStep, TypeStep
  <2>2. QED
    BY <1>1, <2>1 DEF Carries, Holding, TypeOK, Under
<1>3. QED
  BY <1>1, <1>2, AskedStays

\* The same walk, over rows that stay.
LEMMA WalkStays ==
    ASSUME TypeOK, Locks, Carries, Reads, [Next]_vars,
           NEW K, K \subseteq bank, NEW B, B \subseteq stored \cup Holding, B \subseteq stored' \cup Holding'
    PROVE  replay(K, B)' = replay(K, B)
<1>1. B \subseteq Request /\ K \subseteq Question
  BY DEF TypeOK, Holding
<1>2. ASSUME NEW b \in B PROVE Asked(b)' = Asked(b)
  BY <1>2, HeldAsks
<1>3. ASSUME NEW b \in B, NEW x \in K \cup B PROVE Earlier(b, x)' <=> Earlier(b, x)
  BY <1>1, OrderStays DEF Earlier, Row
<1>4. QED
  BY <1>2, <1>3, ReplayStays

LEMMA WalksStep == TypeOK /\ Locks /\ Carries /\ Reads /\ Walks /\ [Next]_vars => Walks'
<1> SUFFICES ASSUME TypeOK, Locks, Carries, Reads, Walks, [Next]_vars,
                    NEW r \in Request, pc'[r] \in {"replayed", "written"}
             PROVE  Walked(r)'
  BY DEF Walks
<1>h. r \in Holding'
  BY DEF Holding
<1>1. CASE /\ pc[r] \in {"replayed", "written"} /\ known'[r] = known[r] /\ before'[r] = before[r]
           /\ new'[r] = new[r] /\ elo'[r] = elo[r] /\ loaded'[r] = loaded[r]
  <2>1. r \in Holding
    BY <1>1 DEF Holding
  <2>2. del # "deleted" /\ ~CommitDelete
    BY <2>1 DEF Locks, CommitDelete
  <2>3. Walked(r) /\ known[r] \subseteq bank
    BY <1>1, <2>2 DEF Walks, Reads, Graded
  <2>4. stored \subseteq stored'
    BY <2>2, ToTables DEF Commit
  <2>5. replay(known[r], DOMAIN new[r])' = replay(known[r], DOMAIN new[r])
    <3>1. ASSUME NEW K, K = known[r], NEW B, B = DOMAIN new[r] PROVE replay(K, B)' = replay(K, B)
      BY <1>h, <2>1, <2>3, <2>4, <3>1, WalkStays DEF Walked
    <3>2. QED
      BY <1>1, <3>1
  <2>6. QED
    BY <1>1, <2>3, <2>4, <2>5 DEF Walked
<1>2. CASE /\ ReplayHistory(r) /\ pc[r] = "inserted" /\ known'[r] = known[r] /\ before'[r] = before[r]
           /\ new'[r] = replay(known[r], stored \cup {r}) /\ elo'[r] = << new'[r], loaded'[r] >>
  <2>1. UNCHANGED << older, asked, from, stored, del >>
    BY <1>2 DEF ReplayHistory, tables, client
  <2>2. before[r] \subseteq stored
    <3>1. del # "deleted"
      BY <1>2 DEF Locks, Holding
    <3>2. QED
      BY <1>2, <3>1 DEF Reads, Graded
  <2>3. DOMAIN new'[r] = stored \cup {r}
    BY <1>2 DEF replay
  <2>4. ASSUME NEW K, NEW B PROVE replay(K, B)' = replay(K, B)
    BY <2>1, ReplayStays DEF Asked, Earlier
  <2>5. QED
    BY <1>2, <2>1, <2>2, <2>3, <2>4 DEF Walked
<1>3. QED
  <2>1. Same(r) \/ Serve(r)
    BY ToRequest
  <2>2. CASE Same(r)
    BY <1>1, <2>2 DEF Same
  <2>3. CASE Serve(r)
    BY <1>1, <1>2, <2>3, Statement
  <2>4. QED
    BY <2>1, <2>2, <2>3

-----------------------------------------------------------------------------
(* What a submission leaves in the rating.                                 *)

LEMMA LastsStep == TypeOK /\ Carries /\ Locks /\ Reads /\ Lasts /\ [Next]_vars => Lasts'
<1> SUFFICES ASSUME TypeOK, Carries, Locks, Reads, Lasts, [Next]_vars PROVE Lasts'
  OBVIOUS
<1>1. ASSUME NEW r \in Request, Commit(r) PROVE Lasts'
  <2>1. before[r] \subseteq stored
    <3>1. pc[r] = "written" /\ del # "deleted"
      BY <1>1 DEF Commit, Locks, Holding
    <3>2. QED
      BY <3>1 DEF Reads, Graded
  <2>2. r # Null
    BY NullAssumption
  <2>3. QED
    BY <1>1, <2>1, <2>2 DEF Commit, Lasts
<1>2. CASE CommitDelete
  BY <1>2 DEF CommitDelete, Lasts, NoLast
<1>3. CASE UNCHANGED << stored, rating, last >>
  BY <1>3 DEF Lasts
<1>4. QED
  BY <1>1, <1>2, <1>3, ToTables

LEMMA KeepsStep == TypeOK /\ Carries /\ Walks /\ KeepsWhatItSaw /\ [Next]_vars => KeepsWhatItSaw'
<1> SUFFICES ASSUME TypeOK, Carries, Walks, KeepsWhatItSaw, [Next]_vars PROVE KeepsWhatItSaw'
  OBVIOUS
<1>1. ASSUME NEW r \in Request, Commit(r) PROVE KeepsWhatItSaw'
  BY <1>1 DEF Commit, Walks, Walked, KeepsWhatItSaw
<1>2. CASE CommitDelete
  BY <1>2 DEF CommitDelete, KeepsWhatItSaw, NoLast
<1>3. CASE UNCHANGED << stored, rating, last >>
  BY <1>3 DEF KeepsWhatItSaw
<1>4. QED
  BY <1>1, <1>2, <1>3, ToTables

\* A submission that commits after all it saw walked all there is.
LEMMA CommitWalksAll ==
    ASSUME TypeOK, Locks, Carries, Reads, Walks, NEW r \in Request, Commit(r), before[r] = stored
    PROVE  /\ rating' = replay(bank, stored') /\ elo[r] = << rating', loaded[r] >>
           /\ \A b \in stored' : Asked(b) \subseteq bank
<1>1. pc[r] = "written" /\ rating' = new[r] /\ stored' = stored \cup {r}
  BY DEF Commit
<1>2. del # "deleted"
  BY <1>1 DEF Locks, Holding
<1>3. Walked(r) /\ Asked(r) \subseteq known[r] /\ known[r] \subseteq bank /\ \A b \in stored : Asked(b) \subseteq known[r]
  BY <1>1, <1>2 DEF Walks, Reads, Graded
<1>4. DOMAIN new[r] = stored \cup {r}
  BY <1>3 DEF Walked
<1>5. replay(known[r], stored \cup {r}) = replay(bank, stored \cup {r})
  <2>1. \A b \in stored \cup {r} : Asked(b) \subseteq known[r] /\ Asked(b) \subseteq bank
    BY <1>3
  <2>2. QED
    BY <2>1, KnownIsEnough
<1>6. QED
  BY <1>1, <1>3, <1>4, <1>5 DEF Walked

LEMMA RepairedStep ==
    TypeOK /\ Locks /\ Carries /\ Reads /\ Walks /\ RatingRepaired /\ [Next]_vars => RatingRepaired'
<1> SUFFICES ASSUME TypeOK, Locks, Carries, Reads, Walks, RatingRepaired, [Next]_vars,
                    last'.by # Null, last'.saw = stored' \ {last'.by}
             PROVE  rating' = replay(bank, stored)'
  BY DEF RatingRepaired
<1>1. ASSUME NEW r \in Request, Commit(r) PROVE rating' = replay(bank, stored)'
  <2>1. r \notin stored
    BY <1>1 DEF Commit, Carries
  <2>2. before[r] = stored
    BY <1>1, <2>1 DEF Commit
  <2>3. rating' = replay(bank, stored')
    BY <1>1, <2>2, CommitWalksAll
  <2>4. UNCHANGED << older, asked, from, bank >>
    BY <1>1 DEF Commit, client
  <2>5. ASSUME NEW K, NEW B PROVE replay(K, B)' = replay(K, B)
    BY <2>4, ReplayStays DEF Asked, Earlier
  <2>6. QED
    BY <2>3, <2>4, <2>5
<1>2. ~CommitDelete
  BY DEF CommitDelete, NoLast
<1>3. CASE UNCHANGED << stored, rating, last >> /\ (CommitQuestions \/ bank' = bank)
  <2>1. rating = replay(bank, stored)
    BY <1>3 DEF RatingRepaired
  <2>2. ASSUME NEW K, K = bank, NEW B, B = stored PROVE replay(K, B)' = replay(K, B)
    BY <1>3, <2>2, WalkStays
  <2>3. CASE bank' = bank
    BY <1>3, <2>1, <2>2, <2>3
  <2>4. CASE CommitQuestions
    <3>1. UNCHANGED << older, asked, from >> /\ bank' = Question /\ bank \subseteq Question
      BY <2>4 DEF CommitQuestions, client, request, TypeOK
    <3>2. replay(bank, stored) = replay(Question, stored)
      <4>1. \A b \in stored : Asked(b) \subseteq bank /\ Asked(b) \subseteq Question
        BY <3>1 DEF Reads
      <4>2. QED
        BY <4>1, KnownIsEnough
    <3>3. ASSUME NEW K, NEW B PROVE replay(K, B)' = replay(K, B)
      BY <3>1, ReplayStays DEF Asked, Earlier
    <3>4. QED
      BY <1>3, <2>1, <3>1, <3>2, <3>3
  <2>5. QED
    BY <1>3, <2>3, <2>4
<1>4. QED
  BY <1>1, <1>2, <1>3, ToTables

LEMMA IInvInit == Init => IInv
<1> SUFFICES ASSUME Init PROVE IInv
  OBVIOUS
<1>1. TypeOK
  BY TypeInit
<1>2. Locks
  BY NullAssumption, DeletionAssumption DEF Init, Locks, Holding, Deletion
<1>3. Carries /\ Copies
  BY DEF Init, Carries, Copies, Under
<1>4. Reads /\ Walks
  BY DEF Init, Reads, Walks, Graded
<1>5. Lasts /\ KeepsWhatItSaw /\ RatingRepaired
  BY DEF Init, Lasts, KeepsWhatItSaw, RatingRepaired, NoLast
<1>6. QED
  BY <1>1, <1>2, <1>3, <1>4, <1>5 DEF IInv

\* IInv holds in every state of every behaviour: it is true at first and no
\* step breaks it.
THEOREM Inductive == Spec => []IInv
<1>1. IInv /\ [Next]_vars => IInv'
  BY TypeStep, LocksStep, CarriesStep, CopiesStep, ReadsStep, WalksStep, LastsStep, KeepsStep, RepairedStep DEF IInv
<1>2. QED
  BY IInvInit, <1>1, PTL DEF Spec

\* Every variable keeps its type; a lesson waits for a request exactly while
\* it submits, and whoever wrote the goal's row holds it.
THEOREM TypeCorrect == Spec => []TypeOK
<1>1. IInv => TypeOK
  BY DEF IInv
<1>2. QED
  BY Inductive, <1>1, PTL

\* No submission drops from the rating a lesson stored before it began, or
\* its own (submit_lesson_answers replays the whole history it can see).
THEOREM NothingSeenIsDropped == Spec => []KeepsWhatItSaw
<1>1. IInv => KeepsWhatItSaw
  BY DEF IInv
<1>2. QED
  BY Inductive, <1>1, PTL

\* After a submission nothing else was committed beside, the goal's rating is
\* the replay of everything stored, whatever it was before.
THEOREM SubmissionRepairs == Spec => []RatingRepaired
<1>1. IInv => RatingRepaired
  BY DEF IInv
<1>2. QED
  BY Inductive, <1>1, PTL

\* A lesson is stored twice only when its app stopped waiting for one of the
\* two requests.
THEOREM CopiesNeedLoss == Spec => []SecondCopyNeedsLoss
<1>1. IInv => SecondCopyNeedsLoss
  <2> SUFFICES ASSUME IInv, NEW r \in stored, NEW s \in stored, r # s, from[r] = from[s]
               PROVE  {r, s} \cap gaveUp # {}
    BY DEF SecondCopyNeedsLoss
  <2>1. r \in Request /\ s \in Request /\ from[r] # Null
    BY DEF IInv, Carries, TypeOK
  <2>2. QED
    BY <2>1 DEF IInv, Copies
<1>2. QED
  BY Inductive, <1>1, PTL

\* The elo the student is shown is the move his rating made, when nothing
\* else was committed between the rating's read and this commit.
THEOREM ShownEloIsTheMove == Spec => EloIsTheMove
<1>1. ASSUME IInv, NEW r \in Request, Commit(r), last.by = Null \/ last.by \in before[r], loaded[r] = rating
      PROVE  elo[r] = << rating', rating >> /\ rating' = replay(bank, stored')
  <2>1. pc[r] = "written" /\ del # "deleted"
    BY <1>1 DEF IInv, Commit, Locks, Holding
  <2>2. before[r] \subseteq stored /\ (last.by \in before[r] => before[r] = stored)
    BY <1>1, <2>1 DEF IInv, Reads, Graded
  <2>3. before[r] = stored
    BY <1>1, <2>2 DEF IInv, Lasts
  <2>4. QED
    BY <1>1, <2>3, CommitWalksAll DEF IInv
<1>2. IInv /\ [Next]_vars =>
        [\A r \in Request :
            Commit(r) /\ (last.by = Null \/ last.by \in before[r]) /\ loaded[r] = rating
                => elo[r] = << rating', rating >> /\ rating' = replay(bank, stored')]_vars
  BY <1>1
<1>3. QED
  BY Inductive, <1>2, PTL DEF Spec, EloIsTheMove

-----------------------------------------------------------------------------
(* The streak.                                                             *)

\* A set of numbers from a to b that is not empty has its least in it.
LEMMA LeastIs ==
    ASSUME NEW a \in Int, NEW b \in Int, NEW S \in SUBSET (a .. b), S # {}
    PROVE  Min(S) \in S /\ \A x \in S : Min(S) <= x
<1> DEFINE n == b - a + 1
           Clear == {i \in 0 .. n : S \cap (a .. a + i - 1) = {} \/ \E m \in S : \A x \in S \cap (a .. a + i - 1) : m <= x}
<1>1. n \in Nat
  <2>1. PICK x \in S : TRUE
    OBVIOUS
  <2>2. x \in a .. b
    OBVIOUS
  <2>3. QED
    BY <2>2
<1>2. 0 \in Clear
  <2>1. a .. a + 0 - 1 = {}
    OBVIOUS
  <2>2. QED
    BY <1>1, <2>1
<1>3. ASSUME NEW i \in 1 .. n, i - 1 \in Clear PROVE i \in Clear
  <2> DEFINE Up(k) == S \cap (a .. a + k - 1)
  <2>1. Up(i) = IF a + i - 1 \in S THEN Up(i - 1) \cup {a + i - 1} ELSE Up(i - 1)
    OBVIOUS
  <2>2. CASE Up(i - 1) = {}
    <3>1. CASE a + i - 1 \in S
      <4>1. \A x \in Up(i) : a + i - 1 <= x
        BY <2>1, <2>2, <3>1
      <4>2. QED
        BY <3>1, <4>1
    <3>2. QED
      BY <2>1, <2>2, <3>1
  <2>3. CASE Up(i - 1) # {}
    <3>1. PICK m \in S : \A x \in Up(i - 1) : m <= x
      BY <1>3, <2>3
    <3>2. PICK y \in Up(i - 1) : TRUE
      BY <2>3
    <3>3. m <= a + i - 1
      BY <3>1, <3>2
    <3>4. \A x \in Up(i) : m <= x
      BY <2>1, <3>1, <3>3
    <3>5. QED
      BY <3>4
  <2>4. QED
    BY <2>2, <2>3
<1>4. 0 .. n \subseteq Clear
  <2> HIDE DEF Clear
  <2>1. QED
    BY <1>1, <1>2, <1>3, Upwards
<1>5. n \in Clear /\ a + n - 1 = b
  <2> HIDE DEF Clear
  <2>1. QED
    BY <1>1, <1>4
<1>6. \E m \in S : \A x \in S : m <= x
  <2>1. S \cap (a .. a + n - 1) = S
    BY <1>5
  <2>2. QED
    BY <1>5, <2>1
<1>7. QED
  BY <1>6 DEF Min

Lived == [streak : Nat, misses : SUBSET Int]

NoneLived == [streak |-> 0, misses |-> {}]

\* The walk after each of the days.
LivesOn(pass, studied, days) ==
    /\ pass \in [0 .. Len(days) -> Lived] /\ pass[0] = NoneLived
    /\ pass[Len(days)] = FoldLeft(LAMBDA w, d : DayLived(w, d, studied), NoneLived, days)
    /\ \A i \in 1 .. Len(days) : pass[i] = DayLived(pass[i - 1], days[i], studied)

\* The days of a streak, one by one.
LEMMA DaysRun ==
    ASSUME NEW studied, NEW days \in Seq(Int)
    PROVE  \E pass : LivesOn(pass, studied, days)
<1> DEFINE n == Len(days)
           Op == [p \in (Lived) \X (Int) |-> DayLived(p[1], p[2], studied)]
           Solves(f) == f = [T \in SUBSET DOMAIN days |->
                               IF T = {} THEN NoneLived
                               ELSE DayLived(f[T \ {Max(T)}], days[Max(T)], studied)]
           iter == CHOOSE f : Solves(f)
<1>1. Op \in [(Lived) \X (Int) -> Lived] /\ NoneLived \in Lived
  BY DEF DayLived, Missed, Lived, NoneLived
<1>2. ASSUME NEW f, NEW T \in SUBSET DOMAIN days, T # {}, f[T \ {Max(T)}] \in Lived
      PROVE  Op[<<f[T \ {Max(T)}], days[Max(T)]>>] = DayLived(f[T \ {Max(T)}], days[Max(T)], studied)
  <2>1. Len(days) \in Nat /\ DOMAIN days = 1 .. Len(days)
    OBVIOUS
  <2>2. Max(T) \in DOMAIN days
    BY <1>2, <2>1, Greatest
  <2>3. days[Max(T)] \in Int
    BY <2>2
  <2>4. QED
    BY <1>2, <2>3
<1>3. \E f : Solves(f)
  <2> HIDE DEF Op
  <2>1. PICK f : Folds(f, Lived, Op, NoneLived, days)
    BY <1>1, FoldExists
  <2>2. \A T \in SUBSET DOMAIN days : T # {} => f[T \ {Max(T)}] \in Lived
    BY <2>1 DEF Folds
  <2>3. Solves(f)
    BY <1>2, <2>1, <2>2 DEF Folds
  <2> HIDE DEF Solves
  <2>4. QED
    BY <2>3
<1>4. Solves(iter)
  <2> HIDE DEF Solves
  <2>1. QED
    BY <1>3
<1>5. FoldLeft(LAMBDA w, d : DayLived(w, d, studied), NoneLived, days) = iter[DOMAIN days]
  BY DEF FoldLeft, MapThenFoldSet
<1> HIDE DEF iter, Op
<1>6. Unfolds(iter, Lived, Op, NoneLived, days)
  BY <1>2, <1>4 DEF Unfolds
<1> HIDE DEF Solves
<1>7. PICK pass : RunsTo(pass, Lived, Op, NoneLived, days, FoldLeft(LAMBDA w, d : DayLived(w, d, studied), NoneLived, days))
  <2>1. \E pass : RunsTo(pass, Lived, Op, NoneLived, days, iter[DOMAIN days])
    BY <1>1, <1>6, FoldRuns
  <2>2. QED
    BY <1>5, <2>1
<1>8. ASSUME NEW i \in 1 .. n PROVE pass[i] = DayLived(pass[i - 1], days[i], studied)
  <2>1. pass[i - 1] \in Lived /\ days[i] \in Int /\ pass[i] = Op[<<pass[i - 1], days[i]>>]
    <3>1. i \in 1 .. Len(days) /\ i - 1 \in 0 .. Len(days)
      OBVIOUS
    <3>2. pass \in [0 .. Len(days) -> Lived] /\ pass[i] = Op[<<pass[i - 1], days[i]>>]
      BY <1>7, <3>1 DEF RunsTo
    <3>3. QED
      BY <3>1, <3>2, SMTT(30)
  <2>2. QED
    BY <2>1 DEF Op
<1>9. QED
  BY <1>7, <1>8 DEF RunsTo, LivesOn

\* What the rule counts, of the days up to one.
PastBy(studied, first, date) == (first .. date - 1) \ studied

WeekBefore(past, d) == {m \in past : Monday(m) = Monday(d) /\ m < d}

ResetsOf(past) == {d \in past : Cardinality(WeekBefore(past, d)) >= DaysOffPerWeek}

CountedBy(studied, first, date) ==
    {d \in studied : d < date /\ \A reset \in ResetsOf(PastBy(studied, first, date)) : d >= reset}

LivedTo(walk, studied, first, date) ==
    /\ walk.misses = PastBy(studied, first, date)
    /\ walk.streak = Cardinality(CountedBy(studied, first, date))

\* A reset is one of the days that are over.
LEMMA Past ==
    ASSUME NEW past, NEW d \in ResetsOf(past)
    PROVE  d \in past
BY DEF ResetsOf

\* A day more: the walk still holds the days missed and counts the days the
\* rule counts.
LEMMA DayCounts ==
    ASSUME NEW first \in Int, NEW today \in Int, NEW studied \in SUBSET (first .. today),
           NEW date \in first .. today - 1, NEW walk \in Lived
    PROVE  LivedTo(walk, studied, first, date)
              => LivedTo(DayLived(walk, date, studied), studied, first, date + 1)
<1> SUFFICES ASSUME walk.misses = PastBy(studied, first, date),
                    walk.streak = Cardinality(CountedBy(studied, first, date))
             PROVE  /\ DayLived(walk, date, studied).misses = PastBy(studied, first, date + 1)
                    /\ DayLived(walk, date, studied).streak
                          = Cardinality(CountedBy(studied, first, date + 1))
  BY DEF LivedTo
<1> DEFINE past == PastBy(studied, first, date)
           next == PastBy(studied, first, date + 1)
           counted == CountedBy(studied, first, date)
<1>0. /\ date \in Int /\ studied \subseteq Int /\ past \subseteq Int /\ \A m \in past : m < date
      /\ IsFiniteSet(counted)
  <2>1. IsFiniteSet(first .. today)
    BY FS_Interval
  <2>2. counted \subseteq first .. today
    BY DEF CountedBy
  <2>3. IsFiniteSet(counted)
    BY <2>1, <2>2, FS_Subset
  <2>4. QED
    BY <2>3 DEF PastBy
<1>1. CASE date \in studied
  <2>1. next = past
    BY <1>1 DEF PastBy
  <2>2. CountedBy(studied, first, date + 1) = counted \cup {date} /\ date \notin counted
    <3>1. \A reset \in ResetsOf(past) : reset \in Int /\ date >= reset
      <4>1. \A reset \in ResetsOf(past) : reset \in past
        BY Past
      <4>2. past \subseteq Int /\ \A m \in past : m < date
        BY <1>0
      <4>3. ASSUME NEW reset \in ResetsOf(past) PROVE reset \in Int /\ date >= reset
        <5>1. reset \in past
          BY <4>1
        <5> HIDE DEF past
        <5>2. reset \in Int /\ reset < date /\ date \in Int
          BY <1>0, <4>2, <5>1
        <5>3. QED
          BY <5>2
      <4>4. QED
        BY <4>3
    <3>2. ASSUME NEW d \in studied
          PROVE  d \in CountedBy(studied, first, date + 1) <=> d \in counted \/ d = date
      <4>1. d \in Int
        BY <1>0
      <4>2. d < date + 1 <=> d < date \/ d = date
        BY <1>0, <4>1
      <4>3. QED
        BY <2>1, <3>1, <4>2 DEF CountedBy
    <3>3. counted \subseteq studied /\ CountedBy(studied, first, date + 1) \subseteq studied /\ date \notin counted
      BY <1>0 DEF CountedBy
    <3> HIDE DEF counted
    <3>4. QED
      BY <1>1, <3>2, <3>3
  <2>3. Cardinality(counted \cup {date}) = Cardinality(counted) + 1
    BY <1>0, <2>2, FS_AddElement
  <2>4. DayLived(walk, date, studied) = [walk EXCEPT !.streak = @ + 1]
    BY <1>1 DEF DayLived
  <2>5. QED
    BY <2>1, <2>2, <2>3, <2>4 DEF Lived
<1>2. CASE date \notin studied
  <2>1. next = past \cup {date} /\ date \notin past
    BY <1>2 DEF PastBy
  <2>2. DayLived(walk, date, studied) = Missed(walk, date)
    BY <1>2 DEF DayLived
  <2>3. MissedInWeek(walk.misses, date) = WeekBefore(next, date)
    BY <1>0, <2>1 DEF MissedInWeek, WeekBefore
  <2>4. ASSUME NEW d \in past PROVE WeekBefore(next, d) = WeekBefore(past, d)
    BY <1>0, <2>1 DEF WeekBefore
  <2> DEFINE Over == Cardinality(WeekBefore(next, date)) >= DaysOffPerWeek
  <2>5. ResetsOf(next) = ResetsOf(past) \cup (IF Over THEN {date} ELSE {})
    <3> HIDE DEF next, past
    <3>1. QED
      BY <2>1, <2>4 DEF ResetsOf
  <2>6. CASE Over
    <3>1. CountedBy(studied, first, date + 1) = {}
      <4>1. date \in ResetsOf(next)
        BY <2>5, <2>6
      <4>2. ASSUME NEW d \in studied, d < date + 1 PROVE ~(d >= date)
        BY <1>0, <1>2, <4>2
      <4> HIDE DEF next
      <4>3. QED
        BY <4>1, <4>2 DEF CountedBy, next
    <3>2. DayLived(walk, date, studied).misses = next
      BY <2>1, <2>2 DEF Missed
    <3>3. DayLived(walk, date, studied).streak = 0
      BY <2>2, <2>3, <2>6 DEF Missed
    <3>4. Cardinality({}) = 0
      BY FS_EmptySet
    <3>5. QED
      BY <3>1, <3>2, <3>3, <3>4
  <2>7. CASE ~Over
    <3>1. CountedBy(studied, first, date + 1) = counted
      <4>1. ASSUME NEW d \in studied PROVE d < date + 1 <=> d < date
        BY <1>0, <1>2
      <4>2. ResetsOf(next) = ResetsOf(past)
        BY <2>5, <2>7
      <4>3. QED
        BY <4>1, <4>2 DEF CountedBy
    <3>2. QED
      BY <2>1, <2>2, <2>3, <2>7, <3>1 DEF Missed
  <2>8. QED
    BY <2>6, <2>7
<1>3. QED
  BY <1>1, <1>2

\* The streak counted forward is the rule (streak.py:10-32), whatever the days
\* he studied and whatever today is.
THEOREM StreakCounts ==
    ASSUME NEW since \in Int, NEW today \in Int, NEW studied \in SUBSET (since .. today), studied # {}
    PROVE  CurrentStreak(studied, today) = StreakRule(studied, today)
<1> DEFINE first == Min(studied)
           n == today - first
           days == [i \in 1 .. n |-> first + i - 1]
<1>1. first \in studied /\ \A x \in studied : first <= x
  BY LeastIs
<1>2. first \in Int /\ studied \in SUBSET (first .. today) /\ n \in Nat
  <2> HIDE DEF first
  <2>1. \A x \in studied : x \in Int /\ x <= today
    OBVIOUS
  <2>2. first \in Int /\ first <= today
    BY <1>1, <2>1
  <2>3. QED
    BY <1>1, <2>1, <2>2
<1> HIDE DEF first
<1>3. days \in Seq(Int) /\ Len(days) = n /\ \A i \in 1 .. n : days[i] = first + i - 1
  <2>1. days \in [1 .. n -> Int]
    BY <1>2
  <2>2. days \in Seq(Int)
    BY <1>2, <2>1, SeqDef
  <2>3. QED
    BY <1>2, <2>2
<1> HIDE DEF days
<1>3a. PICK pass : LivesOn(pass, studied, days)
  BY <1>3, DaysRun
<1>4. /\ pass \in [0 .. n -> Lived] /\ pass[0] = NoneLived
      /\ pass[n] = FoldLeft(LAMBDA w, d : DayLived(w, d, studied), NoneLived, days)
      /\ \A i \in 1 .. n : pass[i] = DayLived(pass[i - 1], days[i], studied)
  <2>1. Len(days) = n
    BY <1>3
  <2>2. QED
    BY <1>3a, <2>1, Zenon DEF LivesOn
<1> DEFINE Held == {i \in 0 .. n : LivedTo(pass[i], studied, first, first + i)}
<1>5. 0 \in Held
  <2>1. PastBy(studied, first, first + 0) = {}
    BY <1>2 DEF PastBy
  <2>2. CountedBy(studied, first, first + 0) = {}
    <3>1. \A d \in studied : ~(d < first)
      BY <1>2
    <3>2. first + 0 = first
      BY <1>2
    <3>3. QED
      BY <3>1, <3>2 DEF CountedBy
  <2>3. pass[0].misses = {} /\ pass[0].streak = 0
    <3>1. NoneLived.misses = {} /\ NoneLived.streak = 0
      BY DEF NoneLived
    <3>2. QED
      BY <1>4, <3>1, Zenon
  <2>4. Cardinality({}) = 0
    BY FS_EmptySet
  <2>5. LivedTo(pass[0], studied, first, first + 0)
    BY <2>1, <2>2, <2>3, <2>4, Zenon DEF LivedTo
  <2>6. 0 \in 0 .. n
    BY <1>2
  <2>7. QED
    BY <2>5, <2>6
<1>6. ASSUME NEW i \in 1 .. n, i - 1 \in Held PROVE i \in Held
  <2> DEFINE date == first + i - 1
  <2>1. /\ date \in first .. today - 1 /\ date = first + (i - 1) /\ date + 1 = first + i
        /\ i - 1 \in 0 .. n /\ i \in 0 .. n
    BY <1>2
  <2>2. pass[i - 1] \in Lived /\ pass[i] = DayLived(pass[i - 1], date, studied)
    BY <1>3, <1>4, <2>1
  <2>3. LivedTo(pass[i - 1], studied, first, date)
    BY <1>6, <2>1
  <2> HIDE DEF date, Held
  <2>4. LivedTo(DayLived(pass[i - 1], date, studied), studied, first, date + 1)
    BY <1>2, <2>1, <2>2, <2>3, DayCounts
  <2>5. LivedTo(pass[i], studied, first, first + i)
    BY <2>1, <2>2, <2>4
  <2>6. QED
    BY <2>1, <2>5 DEF Held
<1>7. n \in Held
  <2> HIDE DEF Held
  <2>1. 0 .. n \subseteq Held
    BY <1>2, <1>5, <1>6, Upwards
  <2>2. QED
    BY <1>2, <2>1
<1>8. DaysLived(studied, today) = pass[n]
  BY <1>4 DEF DaysLived, NoneLived, days, first
<1> DEFINE counted == CountedBy(studied, first, today)
           rule == {d \in studied : \A reset \in ResetsOf(PastBy(studied, first, today)) : d >= reset}
<1>9. DaysLived(studied, today).streak = Cardinality(counted)
  <2>1. first + n = today /\ LivedTo(pass[n], studied, first, first + n)
    BY <1>2, <1>7
  <2>2. QED
    BY <1>8, <2>1 DEF LivedTo
<1>10. IsFiniteSet(counted) /\ Cardinality(counted) \in Nat /\ today \notin counted
  <2>1. IsFiniteSet(first .. today) /\ counted \subseteq first .. today
    BY <1>2, FS_Interval DEF CountedBy
  <2>2. IsFiniteSet(counted)
    BY <2>1, FS_Subset
  <2>3. QED
    BY <2>2, FS_CardinalityType DEF CountedBy
<1>11. StreakRule(studied, today) = Cardinality(rule)
  BY DEF StreakRule, ResetsOf, WeekBefore, PastBy, first
<1>12. ASSUME NEW reset \in ResetsOf(PastBy(studied, first, today)) PROVE reset \in Int /\ reset < today
  BY <1>2 DEF ResetsOf, PastBy
<1>13. rule = counted \cup (IF today \in studied THEN {today} ELSE {})
  <2>1. ASSUME NEW d \in studied PROVE d \in rule <=> d \in counted \/ d = today
    <3>1. d \in Int /\ d <= today
      BY <1>2
    <3>2. QED
      BY <1>12, <3>1 DEF CountedBy
  <2>2. counted \subseteq studied /\ rule \subseteq studied
    BY DEF CountedBy
  <2> HIDE DEF rule, counted
  <2>3. QED
    BY <2>1, <2>2
<1> HIDE DEF rule, counted
<1>14. CASE today \in studied
  <2>1. Cardinality(rule) = Cardinality(counted) + 1
    BY <1>10, <1>13, <1>14, FS_AddElement
  <2>2. CurrentStreak(studied, today) = DaysLived(studied, today).streak + 1
    BY <1>14 DEF CurrentStreak
  <2>3. QED
    BY <1>9, <1>11, <2>1, <2>2
<1>15. CASE today \notin studied
  <2>1. CurrentStreak(studied, today) = DaysLived(studied, today).streak + 0
    BY <1>15 DEF CurrentStreak
  <2>2. rule = counted
    BY <1>13, <1>15
  <2>3. QED
    BY <1>9, <1>10, <1>11, <2>1, <2>2
<1>16. QED
  BY <1>14, <1>15

-----------------------------------------------------------------------------
(* The arithmetic of the rating and of the ranking stays in the integers.  *)

Counted == [answered : Nat, right : Nat]

Hard == [anchor : Int, skill : 10 .. 990]

\* A difficulty is its anchor and a skill that can be divided by.
LEMMA DifficultyIs ==
    ASSUME NEW anchor \in Int, NEW tally \in Counted
    PROVE  Difficulty(anchor, tally) \in Hard /\ Difficulty(anchor, tally).anchor = anchor
<1> DEFINE observed == (1000 * tally.right + 1250) \div (tally.answered + 2)
           share == ((observed - Guess) * 1000) \div 750
<1>1. tally.right \in Nat /\ tally.answered \in Nat
  BY DEF Counted
<1>2. 1000 * tally.right + 1250 \in Int /\ tally.answered + 2 \in Int /\ tally.answered + 2 > 0
  BY <1>1
<1>3. observed \in Int
  BY <1>2
<1> HIDE DEF observed
<1>4. share \in Int
  BY <1>3 DEF Guess
<1> HIDE DEF share
<1>5. Clamp(share, 10, 990) \in 10 .. 990
  BY <1>4 DEF Clamp
<1>6. Difficulty(anchor, tally) = [anchor |-> anchor, skill |-> Clamp(share, 10, 990)]
  BY DEF Difficulty, share, observed
<1>7. QED
  BY <1>5, <1>6 DEF Hard

\* The table of powers holds natural numbers and does not fall.
LEMMA PowersRise ==
    \A k \in 1 .. 16 : /\ Powers[k] \in Nat /\ Powers[k + 1] \in Nat
                       /\ Powers[k] <= Powers[k + 1]
<1>1. TAKE k \in 1 .. 16
<1>2. \/ k = 1 \/ k = 2 \/ k = 3 \/ k = 4 \/ k = 5 \/ k = 6 \/ k = 7 \/ k = 8
      \/ k = 9 \/ k = 10 \/ k = 11 \/ k = 12 \/ k = 13 \/ k = 14 \/ k = 15 \/ k = 16
  OBVIOUS
<1>3. QED
  BY <1>2 DEF Powers

\* Natural numbers multiply to one.
LEMMA TimesNat ==
    ASSUME NEW x \in Nat, NEW y \in Nat
    PROVE  x * y \in Nat
OBVIOUS

\* A natural number divides to one.
LEMMA OverNat ==
    ASSUME NEW x \in Nat, NEW y \in Nat, y > 0
    PROVE  x \div y \in Nat
OBVIOUS

\* The odds of any number of points are a natural number.
LEMMA OddsNat ==
    ASSUME NEW points \in Int
    PROVE  Odds(points) \in Nat
<1> DEFINE x == Clamp(points, -1200, 1199)
           step == (x % 400) \div 25
           rise == Powers[step + 2] - Powers[step + 1]
           curve == Powers[step + 1] + (rise * (x % 25)) \div 25
<1>1. x \in -1200 .. 1199
  BY DEF Clamp
<1> HIDE DEF x
<1>2. step \in 0 .. 15 /\ x % 25 \in Nat /\ x \div 400 \in -3 .. 2
  <2>1. x % 400 \in 0 .. 399
    BY <1>1
  <2>2. \A y \in 0 .. 399 : y \div 25 \in 0 .. 15
    OBVIOUS
  <2>3. x % 25 \in Nat
    BY <1>1
  <2>4. x \div 400 \in -3 .. 2
    BY <1>1
  <2>5. QED
    BY <2>1, <2>2, <2>3, <2>4
<1>3. x >= 0 => x \div 400 \in 0 .. 2
  BY <1>1
<1> HIDE DEF step
<1>4. Powers[step + 1] \in Nat /\ Powers[step + 2] \in Nat /\ Powers[step + 1] <= Powers[step + 2]
  <2>1. step + 1 \in 1 .. 16 /\ (step + 1) + 1 = step + 2
    BY <1>2
  <2>2. QED
    BY <2>1, PowersRise
<1>5. rise \in Nat
  BY <1>4
<1> HIDE DEF rise
<1>6. (rise * (x % 25)) \div 25 \in Nat
  <2>1. rise * (x % 25) \in Nat
    BY <1>2, <1>5, TimesNat
  <2>2. QED
    BY <2>1, OverNat
<1>7. curve \in Nat
  BY <1>4, <1>6
<1> HIDE DEF curve
<1>8. \A k \in 1 .. 4 : Tens[k] \in Nat /\ Tens[k] > 0
  <2>1. TAKE k \in 1 .. 4
  <2>2. k = 1 \/ k = 2 \/ k = 3 \/ k = 4
    OBVIOUS
  <2>3. QED
    BY <2>2 DEF Tens
<1>9. Odds(points) = IF x >= 0 THEN curve * Tens[x \div 400 + 1] ELSE curve \div Tens[-(x \div 400) + 1]
  BY DEF Odds, x, step, rise, curve
<1>10. CASE x >= 0
  <2>1. x \div 400 + 1 \in 1 .. 4
    BY <1>3, <1>10
  <2>2. Tens[x \div 400 + 1] \in Nat
    BY <1>8, <2>1
  <2>3. QED
    BY <1>7, <1>9, <1>10, <2>2, TimesNat
<1>11. CASE ~(x >= 0)
  <2>1. -(x \div 400) + 1 \in 1 .. 4
    BY <1>1, <1>2, <1>11
  <2>2. Tens[-(x \div 400) + 1] \in Nat /\ Tens[-(x \div 400) + 1] > 0
    BY <1>8, <2>1
  <2>3. QED
    BY <1>7, <1>9, <1>11, <2>2, OverNat
<1>12. QED
  BY <1>10, <1>11

\* A chance is a whole number of thousandths.
LEMMA ExpectedInt ==
    ASSUME NEW theta \in Int, NEW b \in Hard
    PROVE  ExpectedScore(theta, b) \in Int
<1> DEFINE odds == Odds((b.anchor - theta) \div 1000)
           against == (odds * (1000 - b.skill)) \div b.skill
<1>1. b.anchor \in Int /\ b.skill \in Nat /\ b.skill > 0 /\ 1000 - b.skill \in Nat
  BY SMTT(30) DEF Hard
<1>2. odds \in Nat
  <2>1. (b.anchor - theta) \div 1000 \in Int
    BY <1>1
  <2>2. QED
    BY <2>1, OddsNat
<1> HIDE DEF odds
<1>3. against \in Nat
  <2>1. odds * (1000 - b.skill) \in Nat
    BY <1>1, <1>2, TimesNat
  <2>2. QED
    BY <1>1, <2>1, OverNat
<1> HIDE DEF against
<1>4. 750000 \div (1000 + against) \in Nat
  BY <1>3, OverNat
<1>5. ExpectedScore(theta, b) = Guess + 750000 \div (1000 + against)
  BY DEF ExpectedScore, against, odds
<1>6. QED
  BY <1>4, <1>5 DEF Guess

FadeTables == {fades \in Seq(Int) : Len(fades) > 0}

\* A power more keeps the table one of integers.
LEMMA FadeOn ==
    /\ << Unfaded >> \in FadeTables
    /\ \A fades \in FadeTables : NextFade(fades) \in FadeTables /\ Len(NextFade(fades)) = Len(fades) + 1
<1>1. << Unfaded >> \in FadeTables
  <2>1. Unfaded \in Int
    BY SMT DEF Unfaded
  <2>2. QED
    BY <2>1 DEF FadeTables
<1>2. ASSUME NEW fades \in FadeTables
      PROVE  NextFade(fades) \in FadeTables /\ Len(NextFade(fades)) = Len(fades) + 1
  <2>1. fades \in Seq(Int) /\ Len(fades) \in Nat /\ Len(fades) > 0
    BY DEF FadeTables
  <2>2. Last(fades) \in Int
    BY <2>1 DEF Last
  <2> DEFINE next == (Last(fades) * 9512) \div 10000
  <2>3. next \in Int
    BY <2>2
  <2> HIDE DEF next
  <2>4. Append(fades, next) \in Seq(Int) /\ Len(Append(fades, next)) = Len(fades) + 1
    BY <2>1, <2>3
  <2>5. NextFade(fades) = Append(fades, next)
    BY DEF NextFade, next
  <2>6. QED
    BY <2>1, <2>4, <2>5 DEF FadeTables
<1>3. QED
  BY <1>1, <1>2

\* The powers of the table, one by one.
LEMMA FadeRuns ==
    ASSUME NEW steps \in Seq(Int)
    PROVE  \E pass \in [0 .. Len(steps) -> FadeTables] :
              /\ pass[0] = << Unfaded >> /\ pass[Len(steps)] = Fades(steps)
              /\ \A i \in 1 .. Len(steps) :
                    pass[i] = NextFade(pass[i - 1])
<1> DEFINE n == Len(steps)
           Op == [p \in (FadeTables) \X (Int) |-> NextFade(p[1])]
           Solves(f) == f = [T \in SUBSET DOMAIN steps |->
                               IF T = {} THEN << Unfaded >>
                               ELSE NextFade(f[T \ {Max(T)}])]
           iter == CHOOSE f : Solves(f)
<1>1. Op \in [(FadeTables) \X (Int) -> FadeTables] /\ << Unfaded >> \in FadeTables
  BY FadeOn
<1>2. ASSUME NEW f, NEW T \in SUBSET DOMAIN steps, T # {}, f[T \ {Max(T)}] \in FadeTables
      PROVE  Op[<<f[T \ {Max(T)}], steps[Max(T)]>>] = NextFade(f[T \ {Max(T)}])
  <2>1. Len(steps) \in Nat /\ DOMAIN steps = 1 .. Len(steps)
    OBVIOUS
  <2>2. Max(T) \in DOMAIN steps
    BY <1>2, <2>1, Greatest
  <2>3. steps[Max(T)] \in Int
    BY <2>2
  <2>4. QED
    BY <1>2, <2>3
<1>3. \E f : Solves(f)
  <2> HIDE DEF Op
  <2>1. PICK f : Folds(f, FadeTables, Op, << Unfaded >>, steps)
    BY <1>1, FoldExists
  <2>2. \A T \in SUBSET DOMAIN steps : T # {} => f[T \ {Max(T)}] \in FadeTables
    BY <2>1 DEF Folds
  <2>3. Solves(f)
    BY <1>2, <2>1, <2>2 DEF Folds
  <2> HIDE DEF Solves
  <2>4. QED
    BY <2>3
<1>4. Solves(iter)
  <2> HIDE DEF Solves
  <2>1. QED
    BY <1>3
<1>5. Fades(steps) = iter[DOMAIN steps]
  BY DEF Fades, FoldLeft, MapThenFoldSet
<1> HIDE DEF iter, Op
<1>6. Unfolds(iter, FadeTables, Op, << Unfaded >>, steps)
  BY <1>2, <1>4 DEF Unfolds
<1> HIDE DEF Solves
<1>7. PICK pass : RunsTo(pass, FadeTables, Op, << Unfaded >>, steps, Fades(steps))
  <2>1. \E pass : RunsTo(pass, FadeTables, Op, << Unfaded >>, steps, iter[DOMAIN steps])
    BY <1>1, <1>6, FoldRuns
  <2>2. QED
    BY <1>5, <2>1
<1>8. ASSUME NEW i \in 1 .. n PROVE pass[i] = NextFade(pass[i - 1])
  <2>1. pass[i - 1] \in FadeTables /\ steps[i] \in Int /\ pass[i] = Op[<<pass[i - 1], steps[i]>>]
    <3>1. i \in 1 .. Len(steps) /\ i - 1 \in 0 .. Len(steps)
      OBVIOUS
    <3>2. pass \in [0 .. Len(steps) -> FadeTables] /\ pass[i] = Op[<<pass[i - 1], steps[i]>>]
      BY <1>7, <3>1 DEF RunsTo
    <3>3. QED
      BY <3>1, <3>2
  <2>2. QED
    BY <2>1 DEF Op
<1>9. QED
  BY <1>7, <1>8 DEF RunsTo

\* The table of exp(-n / 20) has an integer at each place it is read at.
LEMMA FadeInt == \A n \in 1 .. 201 : Fade[n] \in Int
<1> DEFINE top == 200
           steps == [n \in 1 .. top |-> n]
<1>0. top \in Nat /\ top + 1 = 201
  OBVIOUS
<1>1. steps \in Seq(Int) /\ Len(steps) = top
  <2> HIDE DEF top
  <2>1. steps \in [1 .. top -> Int]
    BY <1>0
  <2>2. steps \in Seq(Int)
    BY <1>0, <2>1, SeqDef
  <2>3. QED
    BY <1>0, <2>1, <2>2
<1>2. Fade = Fades(steps)
  BY DEF Fade
<1> HIDE DEF top, steps
<1>3. PICK pass \in [0 .. top -> FadeTables] :
        /\ pass[0] = << Unfaded >>
        /\ pass[top] = Fade
        /\ \A i \in 1 .. top : pass[i] = NextFade(pass[i - 1])
  BY <1>1, <1>2, FadeRuns
<1> DEFINE Held == {i \in 0 .. top : Len(pass[i]) = i + 1}
<1>4. 0 \in Held
  <2>1. Len(<< Unfaded >>) = 1
    OBVIOUS
  <2>2. Len(pass[0]) = 0 + 1
    BY <1>3, <2>1
  <2>3. 0 \in 0 .. top
    BY <1>0
  <2>4. QED
    BY <2>2, <2>3
<1>5. ASSUME NEW i \in 1 .. top, i - 1 \in Held PROVE i \in Held
  <2>1. pass[i - 1] \in FadeTables /\ Len(pass[i - 1]) = i
    BY <1>0, <1>3, <1>5
  <2>2. Len(pass[i]) = Len(pass[i - 1]) + 1
    BY <1>3, <2>1, FadeOn
  <2>3. QED
    BY <1>0, <2>1, <2>2
<1>6. 0 .. top \subseteq Held
  <2> HIDE DEF Held
  <2>1. top \in Nat
    BY <1>0
  <2>2. \A i \in 1 .. top : i - 1 \in Held => i \in Held
    BY <1>5
  <2>3. QED
    BY <1>4, <2>1, <2>2, Upwards
<1>7. top \in Held
  <2> HIDE DEF Held
  <2>1. QED
    BY <1>0, <1>6
<1>8. Fade \in Seq(Int) /\ Len(Fade) = 201
  <2>1. pass[top] \in FadeTables
    BY <1>0, <1>3
  <2>2. Len(pass[top]) = top + 1
    BY <1>7
  <2>3. QED
    BY <1>0, <1>3, <2>1, <2>2 DEF FadeTables
<1>9. QED
  <2>1. TAKE n \in 1 .. 201
  <2>2. n \in 1 .. Len(Fade)
    BY <1>8
  <2>3. Fade \in Seq(Int)
    BY <1>8
  <2>4. QED
    BY <2>2, <2>3, ElementOfSeq

\* exp(-x) is a whole number of thousandths.
LEMMA DecayInt ==
    ASSUME NEW x \in Nat
    PROVE  Decay(x) \in Int
<1> DEFINE n == x \div 50 + 1
           slope == (Fade[n] - Fade[n + 1]) * (x % 50)
<1>1. CASE x >= 10000
  BY <1>1 DEF Decay
<1>2. CASE ~(x >= 10000)
  <2>1. n \in 1 .. 201 /\ n + 1 \in 1 .. 201 /\ x % 50 \in Int
    BY <1>2
  <2> HIDE DEF n
  <2>2. Fade[n] \in Int /\ Fade[n + 1] \in Int
    BY <2>1, FadeInt
  <2>3. slope \in Int
    BY <2>1, <2>2
  <2> HIDE DEF slope
  <2>4. (Fade[n] - slope \div 50) \div 100 \in Int
    BY <2>2, <2>3
  <2>5. Decay(x) = (Fade[n] - slope \div 50) \div 100
    BY <1>2 DEF Decay, n, slope
  <2>6. QED
    BY <2>4, <2>5
<1>3. QED
  BY <1>1, <1>2

\* The threshold term is an integer.
LEMMA ThresholdInt ==
    ASSUME NEW expected \in Int
    PROVE  ThresholdScore(expected) \in Int
<1> DEFINE width == Tolerance(expected)
           z == ((expected - TargetScore) * 100) \div width
<1>1. width \in {75, 150}
  BY DEF Tolerance, TargetScore, Guess
<1> HIDE DEF width
<1>2. z \in Int
  BY <1>1 DEF TargetScore
<1> HIDE DEF z
<1>3. z * z \in Nat
  BY <1>2
<1>4. (z * z) \div 20 \in Nat
  BY <1>3, OverNat
<1>5. ThresholdScore(expected) = Decay((z * z) \div 20)
  BY DEF ThresholdScore, z, width
<1>6. QED
  BY <1>4, <1>5, DecayInt

Recollection == [at : Int \cup {None}, streak : Nat]

\* The growth of a memory is a fraction of natural numbers.
LEMMA GrowthNat ==
    \A k \in 1 .. 7 : Growth[k][1] \in Nat /\ Growth[k][1] > 0 /\ Growth[k][2] \in Nat
<1>1. TAKE k \in 1 .. 7
<1>2. k = 1 \/ k = 2 \/ k = 3 \/ k = 4 \/ k = 5 \/ k = 6 \/ k = 7
  OBVIOUS
<1>3. QED
  BY <1>2 DEF Growth

\* The horizons that have passed are a natural number of thousandths.
LEMMA HorizonsNat ==
    ASSUME NEW hours \in Nat, NEW streak \in Nat
    PROVE  Horizons(hours, streak) \in Nat
<1> DEFINE k == (IF streak < 6 THEN streak ELSE 6) + 1
           up == Growth[k][2]
           down == Growth[k][1]
<1>1. k \in 1 .. 7
  OBVIOUS
<1> HIDE DEF k
<1>2. up \in Nat /\ down \in Nat /\ down > 0
  BY <1>1, GrowthNat
<1>3. Horizons(hours, streak) = (1000 * hours * up) \div (24 * down)
  BY DEF Horizons, k
<1> HIDE DEF up, down
<1>4. 1000 * hours \in Nat /\ 24 * down \in Nat /\ 24 * down > 0
  BY <1>2
<1>5. 1000 * hours * up \in Nat
  BY <1>2, <1>4, TimesNat
<1>6. QED
  BY <1>3, <1>4, <1>5, OverNat

\* The forgetting term is an integer.
LEMMA ForgettingInt ==
    ASSUME NEW recall \in Recollection, NEW moment \in Int
    PROVE  ForgettingScore(recall, moment) \in Int
<1> DEFINE hours == Clamp(moment - recall.at, 0, WindowHours)
<1>1. CASE recall.at = None
  BY <1>1 DEF ForgettingScore
<1>2. CASE recall.at # None
  <2>1. recall.at \in Int /\ recall.streak \in Nat
    BY <1>2 DEF Recollection
  <2>2. hours \in Nat
    BY <2>1 DEF Clamp, WindowHours
  <2> HIDE DEF hours
  <2>3. Decay(Horizons(hours, recall.streak)) \in Int
    BY <2>1, <2>2, HorizonsNat, DecayInt
  <2>4. ForgettingScore(recall, moment) = 1000 - Decay(Horizons(hours, recall.streak))
    BY <1>2 DEF ForgettingScore, hours
  <2>5. QED
    BY <2>3, <2>4
<1>3. QED
  BY <1>1, <1>2

Directions == 0 .. 7 \cup {None}

\* Two directions have a cosine, a direction and none have none, and a
\* direction is 1000 from itself.
LEMMA CosineIs ==
    /\ \A a, b \in Directions :
          IF None \in {a, b} THEN Cosine(a, b) = None
          ELSE Cosine(a, b) \in {1000, 707, 0, -707, -1000}
    /\ \A a \in 0 .. 7 : Cosine(a, a) = 1000
<1>1. \A k \in 1 .. 8 : Cosines[k] \in {1000, 707, 0, -707, -1000}
  <2>1. TAKE k \in 1 .. 8
  <2>2. k = 1 \/ k = 2 \/ k = 3 \/ k = 4 \/ k = 5 \/ k = 6 \/ k = 7 \/ k = 8
    OBVIOUS
  <2>3. QED
    BY <2>2 DEF Cosines
<1>2. ASSUME NEW a \in Directions, NEW b \in Directions, None \notin {a, b}
      PROVE  Cosine(a, b) \in {1000, 707, 0, -707, -1000}
  <2>1. a \in Int /\ b \in Int
    BY <1>2 DEF Directions
  <2>2. ((a - b) % 8) + 1 \in 1 .. 8
    BY <2>1
  <2>3. Cosine(a, b) = Cosines[((a - b) % 8) + 1]
    BY <1>2 DEF Cosine
  <2>4. QED
    BY <1>1, <2>2, <2>3
<1>3. ASSUME NEW a \in Directions, NEW b \in Directions, None \in {a, b}
      PROVE  Cosine(a, b) = None
  BY <1>3 DEF Cosine
<1>4. ASSUME NEW a \in 0 .. 7 PROVE Cosine(a, a) = 1000
  <2>1. a \in Int /\ a # None
    BY NoneAssumption
  <2>2. ((a - a) % 8) + 1 = 1
    BY <2>1
  <2>3. Cosine(a, a) = Cosines[1]
    BY <2>1, <2>2 DEF Cosine
  <2>4. QED
    BY <2>3 DEF Cosines
<1>5. QED
  BY <1>2, <1>3, <1>4

\* The frontier term is an integer.
LEMMA AffinityInt ==
    ASSUME NEW a \in Directions, NEW b \in Directions
    PROVE  Affinity(a, b) \in Int
<1>1. CASE Cosine(a, b) = None
  BY <1>1 DEF Affinity, Neutral
<1>2. CASE Cosine(a, b) # None
  <2> DEFINE S == {0, Cosine(a, b)}
  <2>1. Cosine(a, b) \in Int
    BY <1>2, CosineIs
  <2>2. S \in SUBSET Int /\ \E m \in S : \A x \in S : x >= m /\ x \in S
    BY <2>1
  <2>3. \E m \in S : \A x \in S : m >= x
    BY <2>1
  <2> HIDE DEF S
  <2>4. Max(S) \in S
    BY <2>3 DEF Max
  <2>5. Affinity(a, b) = Max(S)
    BY <1>2 DEF Affinity, S
  <2>6. QED
    BY <2>2, <2>4, <2>5
<1>3. QED
  BY <1>1, <1>2

Entry == [vec : Directions, expected : Int, threshold : Int, forgetting : Int,
          frontier : Int, novelty : Int]

\* The cosines a question is compared by.
Compared(ranked, taken, q) == {Cosine(ranked[q].vec, ranked[c].vec) : c \in taken} \ {None}

\* The cosines compared have a greatest, if there is one at all.
LEMMA ComparedMax ==
    ASSUME NEW ranked \in Seq(Entry), NEW taken \in SUBSET DOMAIN ranked, NEW q \in DOMAIN ranked
    PROVE  /\ Compared(ranked, taken, q) \subseteq {1000, 707, 0, -707, -1000}
           /\ Compared(ranked, taken, q) # {} =>
                 /\ Max(Compared(ranked, taken, q)) \in Compared(ranked, taken, q)
                 /\ \A x \in Compared(ranked, taken, q) : x <= Max(Compared(ranked, taken, q))
<1> DEFINE C == Compared(ranked, taken, q)
<1>1. \A k \in DOMAIN ranked : ranked[k].vec \in Directions
  <2>1. TAKE k \in DOMAIN ranked
  <2>2. ranked[k] \in Entry
    OBVIOUS
  <2>3. QED
    BY <2>2 DEF Entry
<1>2. C \subseteq {1000, 707, 0, -707, -1000}
  BY <1>1, CosineIs DEF Compared
<1> HIDE DEF C
<1>3. C # {} => \E m \in C : \A x \in C : m >= x
  <2>1. CASE 1000 \in C
    BY <1>2, <2>1
  <2>2. CASE 1000 \notin C /\ 707 \in C
    BY <1>2, <2>2
  <2>3. CASE 1000 \notin C /\ 707 \notin C /\ 0 \in C
    BY <1>2, <2>3
  <2>4. CASE 1000 \notin C /\ 707 \notin C /\ 0 \notin C /\ -707 \in C
    BY <1>2, <2>4
  <2>5. CASE C \subseteq {-1000}
    <3>1. \A m \in C : \A x \in C : m >= x
      BY <2>5
    <3>2. QED
      BY <3>1
  <2>6. QED
    BY <1>2, <2>1, <2>2, <2>3, <2>4, <2>5, SMTT(30)
<1>4. C # {} => Max(C) \in C /\ \A x \in C : Max(C) >= x
  BY <1>3 DEF Max
<1>5. QED
  BY <1>2, <1>4 DEF C

\* The diversity term is an integer.
LEMMA DiversityInt ==
    ASSUME NEW ranked \in Seq(Entry), NEW taken \in SUBSET DOMAIN ranked, NEW q \in DOMAIN ranked
    PROVE  Diversity(ranked, taken, q) \in Int
<1> DEFINE C == Compared(ranked, taken, q)
<1>1. C # {} => Max(C) \in Int
  BY ComparedMax
<1>2. Diversity(ranked, taken, q) = IF C = {} THEN Neutral ELSE 1000 - Clamp(Max(C), 0, 1000)
  BY DEF Diversity, Compared
<1> HIDE DEF C
<1>3. QED
  BY <1>1, <1>2 DEF Clamp, Neutral

\* What a question is worth is an integer.
LEMMA WorthInt ==
    ASSUME NEW ranked \in Seq(Entry), NEW taken \in SUBSET DOMAIN ranked, NEW q \in DOMAIN ranked
    PROVE  Worth(ranked, taken, q) \in Int
<1> DEFINE entry == ranked[q]
           diversity == Diversity(ranked, taken, q)
<1>1. diversity \in Int
  BY DiversityInt
<1>2. entry \in Entry
  OBVIOUS
<1> HIDE DEF entry, diversity
<1>3. (entry.frontier + diversity) \div 2 \in Int
  BY <1>1, <1>2 DEF Entry
<1>4. Score(entry, diversity) = 10 * entry.threshold + 8 * entry.forgetting
                                  + 4 * ((entry.frontier + diversity) \div 2) + 5 * entry.novelty
  BY DEF Score, Weight
<1>5. Score(entry, diversity) \in Int
  <2>1. entry.threshold \in Int /\ entry.forgetting \in Int /\ entry.novelty \in Int
    BY <1>2 DEF Entry
  <2>2. 10 * entry.threshold \in Int /\ 8 * entry.forgetting \in Int /\ 5 * entry.novelty \in Int
    BY <2>1, SMTT(30)
  <2>3. 4 * ((entry.frontier + diversity) \div 2) \in Int
    BY <1>3
  <2>4. QED
    BY <1>4, <2>2, <2>3, SMTT(30)
<1>6. QED
  BY <1>5 DEF Worth, entry, diversity

\* Of numbers that belong to some places of a sequence one is the greatest.
LEMMA GreatestOf ==
    ASSUME NEW n \in Nat, NEW L \in SUBSET (1 .. n), L # {}, NEW f, \A x \in L : f[x] \in Int
    PROVE  \E m \in L : \A x \in L : f[x] <= f[m]
<1> DEFINE Clear == {i \in 0 .. n : \/ L \cap (1 .. i) = {}
                                    \/ \E m \in L : \A x \in L \cap (1 .. i) : f[x] <= f[m]}
<1>1. 0 \in Clear
  OBVIOUS
<1>2. ASSUME NEW i \in 1 .. n, i - 1 \in Clear PROVE i \in Clear
  <2>1. L \cap (1 .. i) = (L \cap (1 .. i - 1)) \cup (IF i \in L THEN {i} ELSE {})
    OBVIOUS
  <2>2. CASE i \notin L
    BY <1>2, <2>1, <2>2
  <2>3. CASE i \in L /\ L \cap (1 .. i - 1) = {}
    <3>1. \A x \in L \cap (1 .. i) : f[x] <= f[i]
      BY <2>1, <2>3
    <3>2. QED
      BY <2>3, <3>1
  <2>4. CASE i \in L /\ L \cap (1 .. i - 1) # {}
    <3>1. PICK m \in L : \A x \in L \cap (1 .. i - 1) : f[x] <= f[m]
      BY <1>2, <2>4
    <3>2. CASE f[i] <= f[m]
      <4>1. \A x \in L \cap (1 .. i) : f[x] <= f[m]
        BY <2>1, <2>4, <3>1, <3>2
      <4>2. QED
        BY <4>1
    <3>3. CASE ~(f[i] <= f[m])
      <4>1. \A x \in L \cap (1 .. i) : f[x] <= f[i]
        BY <2>1, <2>4, <3>1, <3>3
      <4>2. QED
        BY <2>4, <4>1
    <3>4. QED
      BY <3>2, <3>3
  <2>5. QED
    BY <2>2, <2>3, <2>4
<1>3. 0 .. n \subseteq Clear
  <2> HIDE DEF Clear
  <2>1. QED
    BY <1>1, <1>2, Upwards
<1>4. n \in Clear
  <2> HIDE DEF Clear
  <2>1. QED
    BY <1>3
<1>5. L \cap (1 .. n) = L
  OBVIOUS
<1>6. QED
  BY <1>4, <1>5

\* The best of the questions left is one of them, and none is worth more.
LEMMA BestIs ==
    ASSUME NEW ranked \in Seq(Entry), NEW taken \in SUBSET DOMAIN ranked, taken # DOMAIN ranked
    PROVE  /\ Best(ranked, taken) \in DOMAIN ranked \ taken
           /\ \A k \in DOMAIN ranked \ taken :
                 Worth(ranked, taken, k) <= Worth(ranked, taken, Best(ranked, taken))
<1> DEFINE n == Len(ranked)
           left == DOMAIN ranked \ taken
           worth == [q \in left |-> Worth(ranked, taken, q)]
           all == {Worth(ranked, taken, q) : q \in left}
           tops == {q \in left : Worth(ranked, taken, q) = Max(all)}
<1>1. n \in Nat /\ DOMAIN ranked = 1 .. n /\ left \in SUBSET (1 .. n) /\ left # {}
  <2>1. \E x : x \in left
    OBVIOUS
  <2>2. QED
    BY <2>1
<1>2. \A q \in left : Worth(ranked, taken, q) \in Int
  BY WorthInt
<1>3. PICK m \in left : \A q \in left : Worth(ranked, taken, q) <= Worth(ranked, taken, m)
  <2>1. \A q \in left : worth[q] = Worth(ranked, taken, q)
    OBVIOUS
  <2>2. \A q \in left : worth[q] \in Int
    BY <1>2, <2>1
  <2> HIDE DEF worth, left
  <2>3. PICK m \in left : \A q \in left : worth[q] <= worth[m]
    BY <1>1, <2>2, GreatestOf
  <2>4. QED
    BY <2>1, <2>3
<1> HIDE DEF left
<1>4. \E x \in all : \A y \in all : x >= y
  <2>1. Worth(ranked, taken, m) \in all
    OBVIOUS
  <2>2. \A y \in all : Worth(ranked, taken, m) >= y
    BY <1>2, <1>3
  <2>3. QED
    BY <2>1, <2>2
<1> HIDE DEF all
<1>5. Max(all) \in all /\ \A y \in all : Max(all) >= y
  BY <1>4 DEF Max
<1>6. tops # {} /\ tops \in SUBSET (1 .. n)
  <2>1. PICK q \in left : Max(all) = Worth(ranked, taken, q)
    BY <1>5 DEF all
  <2>2. QED
    BY <1>1, <2>1
<1> HIDE DEF tops
<1>7. Min(tops) \in tops
  <2>1. 1 \in Int /\ n \in Int
    BY <1>1
  <2>2. QED
    BY <1>6, <2>1, LeastIs
<1>8. Best(ranked, taken) = Min(tops)
  BY DEF Best, tops, all, left
<1>9. Best(ranked, taken) \in left /\ Worth(ranked, taken, Best(ranked, taken)) = Max(all)
  BY <1>7, <1>8 DEF tops
<1>10. \A k \in left : Worth(ranked, taken, k) \in all
  BY DEF all
<1>11. \A k \in left : Worth(ranked, taken, k) <= Max(all)
  BY <1>2, <1>5, <1>9, <1>10
<1>12. QED
  BY <1>9, <1>11 DEF left

-----------------------------------------------------------------------------
(* The walk over the answers, and where it anchors a question.             *)

BankRow == [born : Int, topic : Topics, vec : Directions]

AnswerOf(rows) == [q : DOMAIN rows, at : Int, right : BOOLEAN, seconds : Paces]

Anchors(D) == UNION {[S -> Int] : S \in SUBSET D}

Walking(rows) == [rating : Int, seen : Nat, anchors : Anchors(DOMAIN rows),
                  tally : [DOMAIN rows -> Counted]]

\* Anchoring keeps the anchors there are and gives the rating to the others.
LEMMA AnchoredIs ==
    ASSUME NEW D, NEW anchors \in Anchors(D), NEW S \in SUBSET D, NEW theta \in Int
    PROVE  /\ Anchored(anchors, S, theta) \in Anchors(D)
           /\ DOMAIN Anchored(anchors, S, theta) = DOMAIN anchors \cup S
           /\ \A q \in DOMAIN anchors : Anchored(anchors, S, theta)[q] = anchors[q]
           /\ \A q \in S \ DOMAIN anchors : Anchored(anchors, S, theta)[q] = theta
           /\ \A q \in DOMAIN anchors \cup S : Anchored(anchors, S, theta)[q] \in Int
<1> DEFINE T == DOMAIN anchors \cup S
           f == Anchored(anchors, S, theta)
<1>1. PICK U \in SUBSET D : anchors \in [U -> Int]
  BY DEF Anchors
<1>2. f = [q \in T |-> IF q \in DOMAIN anchors THEN anchors[q] ELSE theta]
  BY DEF Anchored
<1>3. T \in SUBSET D /\ DOMAIN anchors = U
  BY <1>1
<1>4. f \in [T -> Int]
  BY <1>1, <1>2
<1>5. f \in Anchors(D)
  <2> HIDE DEF f, T
  <2>1. QED
    BY <1>3, <1>4 DEF Anchors
<1>6. QED
  BY <1>2, <1>4, <1>5

\* A tally counts on.
LEMMA ToldIs ==
    ASSUME NEW tally \in Counted, NEW answer, answer.right \in BOOLEAN
    PROVE  Told(tally, answer) \in Counted
BY DEF Counted, Told

\* An answer moves the rating to an integer.
LEMMA RatedInt ==
    ASSUME NEW rows \in Seq(BankRow), NEW walk \in Walking(rows), NEW answer \in AnswerOf(rows),
           NEW anchor \in Int
    PROVE  Rated(walk, answer, anchor) \in Int
<1> DEFINE expected == ExpectedScore(walk.rating, Difficulty(anchor, walk.tally[answer.q]))
           score == IF answer.right THEN 1000 ELSE 0
           k == KFactor(walk.seen)
<1>1. walk.rating \in Int /\ walk.seen \in Nat /\ walk.tally[answer.q] \in Counted
  BY DEF Walking, AnswerOf
<1>2. expected \in Int
  BY <1>1, DifficultyIs, ExpectedInt
<1>3. k \in Int
  BY <1>1, SMT DEF KFactor
<1>4. Rated(walk, answer, anchor) = walk.rating + (k * (score - expected)) \div 1000
  BY DEF Rated
<1>5. score \in Int
  OBVIOUS
<1> HIDE DEF expected, k, score
<1>6. k * (score - expected) \in Int
  BY <1>2, <1>3, <1>5
<1>7. QED
  BY <1>1, <1>4, <1>6

\* One answer keeps the walk's type; it anchors what was born by then and the
\* question it answers, and counts for that question alone.
LEMMA WalkStep ==
    ASSUME NEW rows \in Seq(BankRow), NEW walk \in Walking(rows), NEW answer \in AnswerOf(rows)
    PROVE  /\ WalkAnswer(rows, walk, answer) \in Walking(rows)
           /\ WalkAnswer(rows, walk, answer).anchors
                 = Anchored(walk.anchors, BornBy(rows, answer.at) \cup {answer.q}, walk.rating)
           /\ \A q \in DOMAIN rows \ {answer.q} :
                 WalkAnswer(rows, walk, answer).tally[q] = walk.tally[q]
<1> DEFINE S == BornBy(rows, answer.at) \cup {answer.q}
           anchors == Anchored(walk.anchors, S, walk.rating)
           theta == Rated(walk, answer, anchors[answer.q])
           tally == [walk.tally EXCEPT ![answer.q] = Told(@, answer)]
           new1 == WalkAnswer(rows, walk, answer)
<1>1. /\ walk.rating \in Int /\ walk.seen \in Nat /\ walk.anchors \in Anchors(DOMAIN rows)
      /\ walk.tally \in [DOMAIN rows -> Counted] /\ answer.q \in DOMAIN rows
      /\ answer.right \in BOOLEAN
  BY DEF Walking, AnswerOf
<1>2. S \in SUBSET DOMAIN rows
  BY <1>1 DEF BornBy
<1> HIDE DEF S
<1>3. /\ anchors \in Anchors(DOMAIN rows)
      /\ \A q \in DOMAIN walk.anchors \cup S : anchors[q] \in Int
  <2> DEFINE held == walk.anchors
             theta0 == walk.rating
             D == DOMAIN rows
  <2>1. held \in Anchors(D) /\ S \in SUBSET D /\ theta0 \in Int
    BY <1>1, <1>2
  <2>2. anchors = Anchored(held, S, theta0)
    OBVIOUS
  <2> HIDE DEF held, theta0, D, anchors
  <2>3. anchors \in Anchors(D) /\ \A q \in DOMAIN held \cup S : anchors[q] \in Int
    BY <2>1, <2>2, AnchoredIs
  <2>4. QED
    BY <2>3 DEF held, D
<1>4. answer.q \in S
  BY DEF S
<1> HIDE DEF anchors
<1>5. theta \in Int
  BY <1>3, <1>4, RatedInt
<1> HIDE DEF theta
<1>6. tally \in [DOMAIN rows -> Counted]
  BY <1>1, ToldIs
<1>7. \A q \in DOMAIN rows \ {answer.q} : tally[q] = walk.tally[q]
  BY <1>1
<1> HIDE DEF tally
<1>8. new1 = [rating |-> theta, anchors |-> anchors, tally |-> tally, seen |-> walk.seen + 1]
  BY DEF WalkAnswer, theta, anchors, tally, S
<1> HIDE DEF new1
<1>9. new1 \in Walking(rows) /\ new1.anchors = anchors /\ new1.tally = tally
  BY <1>1, <1>3, <1>5, <1>6, <1>8 DEF Walking
<1>10. QED
  BY <1>7, <1>9 DEF new1, anchors, S

\* Before the first answer nothing is anchored and nothing is told.
LEMMA UnwalkedIs ==
    ASSUME NEW rows \in Seq(BankRow)
    PROVE  /\ Unwalked(rows) \in Walking(rows)
           /\ DOMAIN Unwalked(rows).anchors = {}
           /\ \A q \in DOMAIN rows : Unwalked(rows).tally[q] = Untold
<1>1. StartRating \in Int
  BY SMT DEF StartRating
<1>2. << >> \in Anchors(DOMAIN rows) /\ DOMAIN << >> = {}
  <2>1. << >> \in [{} -> Int] /\ DOMAIN << >> = {}
    OBVIOUS
  <2>2. QED
    BY <2>1 DEF Anchors
<1>3. [q \in DOMAIN rows |-> Untold] \in [DOMAIN rows -> Counted]
  BY DEF Untold, Counted
<1>4. QED
  BY <1>1, <1>2, <1>3 DEF Unwalked, Walking

\* The walk, answer by answer.
LEMMA WalkRuns ==
    ASSUME NEW rows \in Seq(BankRow), NEW told \in Seq(AnswerOf(rows))
    PROVE  \E pass \in [0 .. Len(told) -> Walking(rows)] :
              /\ pass[0] = Unwalked(rows) /\ pass[Len(told)] = Walk(rows, told)
              /\ \A i \in 1 .. Len(told) :
                    pass[i] = WalkAnswer(rows, pass[i - 1], told[i])
<1> DEFINE n == Len(told)
           Op == [p \in (Walking(rows)) \X (AnswerOf(rows)) |-> WalkAnswer(rows, p[1], p[2])]
           Solves(f) == f = [T \in SUBSET DOMAIN told |->
                               IF T = {} THEN Unwalked(rows)
                               ELSE WalkAnswer(rows, f[T \ {Max(T)}], told[Max(T)])]
           iter == CHOOSE f : Solves(f)
<1>1. Op \in [(Walking(rows)) \X (AnswerOf(rows)) -> Walking(rows)] /\ Unwalked(rows) \in Walking(rows)
  BY WalkStep, UnwalkedIs
<1>2. ASSUME NEW f, NEW T \in SUBSET DOMAIN told, T # {}, f[T \ {Max(T)}] \in Walking(rows)
      PROVE  Op[<<f[T \ {Max(T)}], told[Max(T)]>>] = WalkAnswer(rows, f[T \ {Max(T)}], told[Max(T)])
  <2>1. Len(told) \in Nat /\ DOMAIN told = 1 .. Len(told)
    OBVIOUS
  <2>2. Max(T) \in DOMAIN told
    BY <1>2, <2>1, Greatest
  <2>3. told[Max(T)] \in AnswerOf(rows)
    BY <2>2
  <2>4. QED
    BY <1>2, <2>3
<1>3. \E f : Solves(f)
  <2> HIDE DEF Op
  <2>1. PICK f : Folds(f, Walking(rows), Op, Unwalked(rows), told)
    BY <1>1, FoldExists
  <2>2. \A T \in SUBSET DOMAIN told : T # {} => f[T \ {Max(T)}] \in Walking(rows)
    BY <2>1 DEF Folds
  <2>3. Solves(f)
    BY <1>2, <2>1, <2>2 DEF Folds
  <2> HIDE DEF Solves
  <2>4. QED
    BY <2>3
<1>4. Solves(iter)
  <2> HIDE DEF Solves
  <2>1. QED
    BY <1>3
<1>5. Walk(rows, told) = iter[DOMAIN told]
  BY DEF Walk, FoldLeft, MapThenFoldSet
<1> HIDE DEF iter, Op
<1>6. Unfolds(iter, Walking(rows), Op, Unwalked(rows), told)
  BY <1>2, <1>4 DEF Unfolds
<1> HIDE DEF Solves
<1>7. PICK pass : RunsTo(pass, Walking(rows), Op, Unwalked(rows), told, Walk(rows, told))
  <2>1. \E pass : RunsTo(pass, Walking(rows), Op, Unwalked(rows), told, iter[DOMAIN told])
    BY <1>1, <1>6, FoldRuns
  <2>2. QED
    BY <1>5, <2>1
<1>8. ASSUME NEW i \in 1 .. n PROVE pass[i] = WalkAnswer(rows, pass[i - 1], told[i])
  <2>1. pass[i - 1] \in Walking(rows) /\ told[i] \in AnswerOf(rows) /\ pass[i] = Op[<<pass[i - 1], told[i]>>]
    <3>1. i \in 1 .. Len(told) /\ i - 1 \in 0 .. Len(told)
      OBVIOUS
    <3>2. pass \in [0 .. Len(told) -> Walking(rows)] /\ pass[i] = Op[<<pass[i - 1], told[i]>>]
      BY <1>7, <3>1 DEF RunsTo
    <3>3. pass[i - 1] \in Walking(rows)
      BY <3>1, <3>2
    <3>4. told[i] \in AnswerOf(rows)
      BY <3>1, ElementOfSeq
    <3>5. QED
      BY <3>2, <3>3, <3>4
  <2>2. QED
    BY <2>1 DEF Op
<1>9. QED
  BY <1>7, <1>8 DEF RunsTo

\* What is in S up to a place and not after it is split there.
LEMMA Splits ==
    ASSUME NEW X, NEW seq \in Seq(X), NEW S
    PROVE  (\A i, k \in DOMAIN seq : i <= k /\ seq[k] \in S => seq[i] \in S)
              => \E m \in 0 .. Len(seq) : SplitAt(seq, S, m)
<1> SUFFICES ASSUME \A i, k \in DOMAIN seq : i <= k /\ seq[k] \in S => seq[i] \in S
             PROVE  \E m \in 0 .. Len(seq) : SplitAt(seq, S, m)
  OBVIOUS
<1> DEFINE n == Len(seq)
           Cut(m, i) == /\ m \in 0 .. i /\ \A k \in 1 .. m : seq[k] \in S
                        /\ \A k \in m + 1 .. i : seq[k] \notin S
           Held == {i \in 0 .. n : \E m \in 0 .. i : Cut(m, i)}
<1>1. n \in Nat /\ DOMAIN seq = 1 .. n
  OBVIOUS
<1>2. 0 \in Held
  <2>1. Cut(0, 0) /\ 0 \in 0 .. n
    BY <1>1
  <2>2. QED
    BY <2>1
<1>3. ASSUME NEW i \in 1 .. n, i - 1 \in Held PROVE i \in Held
  <2>1. PICK m \in 0 .. i - 1 : Cut(m, i - 1)
    BY <1>3
  <2>2. CASE seq[i] \in S
    <3>1. \A k \in 1 .. i : seq[k] \in S
      BY <1>1, <2>2
    <3>2. Cut(i, i)
      BY <1>1, <3>1
    <3>3. QED
      BY <1>1, <3>2
  <2>3. CASE seq[i] \notin S
    <3>1. Cut(m, i) /\ m \in 0 .. i /\ i \in 0 .. n
      BY <1>1, <2>1, <2>3
    <3> HIDE DEF Cut
    <3>2. QED
      BY <3>1
  <2>4. QED
    BY <2>2, <2>3
<1>4. n \in Held
  <2> HIDE DEF Held
  <2>1. 0 .. n \subseteq Held
    BY <1>1, <1>2, <1>3, Upwards
  <2>2. QED
    BY <1>1, <2>1
<1>5. QED
  BY <1>1, <1>4 DEF SplitAt

\* Answers in the order of their moments, none before its question was born.
Lawful(rows, told) ==
    /\ told \in Seq(AnswerOf(rows))
    /\ \A i, k \in DOMAIN told : i <= k => told[i].at <= told[k].at
    /\ \A i \in DOMAIN told : rows[told[i].q].born <= told[i].at

\* f runs through the walks over the first m answers of a.
WalksBy(rows, f, m, a) == \A i \in 1 .. m : f[i] = WalkAnswer(rows, f[i - 1], a[i])

\* Walks over the same answers from the same start end alike.
LEMMA SameWalk ==
    ASSUME NEW rows, NEW m \in Nat, NEW f, NEW g, NEW a, NEW b,
           f[0] = g[0], WalksBy(rows, f, m, a), WalksBy(rows, g, m, b),
           \A i \in 1 .. m : a[i] = b[i]
    PROVE  f[m] = g[m]
<1> DEFINE Held == {i \in 0 .. m : f[i] = g[i]}
<1>1. 0 \in Held
  OBVIOUS
<1>2. ASSUME NEW i \in 1 .. m, i - 1 \in Held PROVE i \in Held
  <2>1. f[i - 1] = g[i - 1] /\ a[i] = b[i]
    BY <1>2
  <2>2. f[i] = WalkAnswer(rows, f[i - 1], a[i]) /\ g[i] = WalkAnswer(rows, g[i - 1], b[i])
    BY DEF WalksBy
  <2>3. QED
    BY <2>1, <2>2
<1>3. 0 .. m \subseteq Held
  <2> HIDE DEF Held
  <2>1. QED
    BY <1>1, <1>2, Upwards
<1>4. QED
  BY <1>3

\* The walk anchors a question at the rating it had when the question was born,
\* which is the rating the answers before that replay to.
LEMMA AnchorIs ==
    ASSUME NEW rows \in Seq(BankRow), NEW told, Lawful(rows, told), NEW q \in DOMAIN rows
    PROVE  Replay(rows, told).difficulty[q].anchor
              = Replay(rows, Kept(told, {a \in ToSet(told) : a.at < rows[q].born})).rating
<1> DEFINE n == Len(told)
           born == rows[q].born
           S == {a \in ToSet(told) : a.at < born}
           first == Kept(told, S)
<1>1. /\ told \in Seq(AnswerOf(rows)) /\ n \in Nat /\ DOMAIN told = 1 .. n /\ born \in Int
      /\ \A i \in 1 .. n : told[i] \in AnswerOf(rows)
  <2>1. told \in Seq(AnswerOf(rows)) /\ rows[q] \in BankRow
    BY DEF Lawful
  <2>2. born \in Int
    BY <2>1 DEF BankRow
  <2>3. QED
    BY <2>1, <2>2
<1>2. \A i \in 1 .. n : /\ told[i].at \in Int /\ told[i].q \in DOMAIN rows
                        /\ rows[told[i].q].born <= told[i].at
                        /\ (told[i] \in S <=> told[i].at < born)
  <2>1. TAKE i \in 1 .. n
  <2>2. told[i].at \in Int /\ told[i].q \in DOMAIN rows
    BY <1>1 DEF AnswerOf
  <2>3. told[i] \in ToSet(told)
    BY <1>1 DEF ToSet
  <2>4. QED
    BY <1>1, <2>2, <2>3 DEF Lawful
<1> HIDE DEF S
<1>3. PICK m \in 0 .. n : SplitAt(told, S, m)
  <2>1. ASSUME NEW i \in DOMAIN told, NEW k \in DOMAIN told, i <= k, told[k] \in S
        PROVE  told[i] \in S
    <3>1. told[i].at <= told[k].at
      BY <2>1 DEF Lawful
    <3>2. QED
      BY <1>1, <1>2, <2>1, <3>1
  <2>2. QED
    BY <1>1, <2>1, Splits
<1>4. /\ m \in Nat /\ m <= n
      /\ \A i \in 1 .. m : told[i].at < born
      /\ \A i \in m + 1 .. n : ~(told[i].at < born)
  <2>1. m \in Nat /\ m <= n
    BY <1>1
  <2>2. (\A i \in 1 .. m : told[i] \in S) /\ (\A i \in m + 1 .. n : told[i] \notin S)
    BY <1>3 DEF SplitAt
  <2>3. \A i \in 1 .. n : told[i] \in S <=> told[i].at < born
    BY <1>2
  <2>4. (\A i \in 1 .. m : i \in 1 .. n) /\ (\A i \in m + 1 .. n : i \in 1 .. n)
    BY <1>1, <2>1
  <2>5. QED
    BY <2>1, <2>2, <2>3, <2>4, Zenon
<1>5. /\ first \in Seq(AnswerOf(rows)) /\ Len(first) = m
      /\ \A k \in 1 .. m : first[k] = told[k]
  BY <1>1, <1>3, KeptSplit
<1> HIDE DEF first, born
<1>6. PICK pass \in [0 .. n -> Walking(rows)] :
        /\ pass[0] = Unwalked(rows) /\ pass[n] = Walk(rows, told)
        /\ \A i \in 1 .. n : pass[i] = WalkAnswer(rows, pass[i - 1], told[i])
  BY <1>1, WalkRuns
<1>7. PICK early \in [0 .. m -> Walking(rows)] :
        /\ early[0] = Unwalked(rows) /\ early[m] = Walk(rows, first)
        /\ \A i \in 1 .. m : early[i] = WalkAnswer(rows, early[i - 1], first[i])
  BY <1>5, WalkRuns
<1>8. Walk(rows, first) = pass[m]
  <2>1. \A i \in 1 .. m : i \in 1 .. n
    BY <1>4
  <2>2. early[m] = pass[m]
    <3>1. m \in Nat /\ early[0] = pass[0]
      BY <1>4, <1>6, <1>7
    <3>2. WalksBy(rows, early, m, first)
      BY <1>7 DEF WalksBy
    <3>3. WalksBy(rows, pass, m, told)
      BY <1>6, <2>1 DEF WalksBy
    <3>4. \A i \in 1 .. m : first[i] = told[i]
      BY <1>5
    <3>5. QED
      BY <3>1, <3>2, <3>3, <3>4, SameWalk
  <2>3. QED
    BY <1>7, <2>2
<1>9. Replay(rows, first).rating = pass[m].rating
  BY <1>8 DEF Replay
<1> DEFINE S1(i) == BornBy(rows, told[i].at) \cup {told[i].q}
<1>10. ASSUME NEW i \in 1 .. n
       PROVE  /\ i - 1 \in 0 .. n /\ pass[i - 1] \in Walking(rows)
              /\ pass[i - 1].anchors \in Anchors(DOMAIN rows) /\ pass[i - 1].rating \in Int
              /\ S1(i) \in SUBSET DOMAIN rows
              /\ pass[i].anchors = Anchored(pass[i - 1].anchors, S1(i), pass[i - 1].rating)
  <2>1. i - 1 \in 0 .. n
    BY <1>1
  <2>2. pass[i - 1] \in Walking(rows)
    BY <1>6, <2>1
  <2>3. pass[i].anchors = Anchored(pass[i - 1].anchors, S1(i), pass[i - 1].rating)
    <3> DEFINE walk == pass[i - 1]
               answer == told[i]
    <3>1. walk \in Walking(rows) /\ answer \in AnswerOf(rows)
      BY <1>1, <2>2
    <3>2. pass[i] = WalkAnswer(rows, walk, answer)
      BY <1>6
    <3> HIDE DEF walk, answer
    <3>3. pass[i].anchors = Anchored(walk.anchors, BornBy(rows, answer.at) \cup {answer.q}, walk.rating)
      BY <3>1, <3>2, WalkStep, SMTT(30)
    <3>4. QED
      BY <3>3 DEF walk, answer
  <2>4. S1(i) \in SUBSET DOMAIN rows
    BY <1>2 DEF BornBy
  <2>5. QED
    BY <2>1, <2>2, <2>3, <2>4 DEF Walking
<1>11. \A i \in 1 .. n : q \in S1(i) <=> i > m
  <2>1. TAKE i \in 1 .. n
  <2>2. q \in BornBy(rows, told[i].at) <=> born <= told[i].at
    BY DEF BornBy, born
  <2>3. CASE i > m
    BY <1>1, <1>2, <1>4, <2>2, <2>3
  <2>4. CASE ~(i > m)
    <3>1. told[i].at < born
      BY <1>4, <2>4
    <3>2. told[i].q # q
      <4>1. SUFFICES ASSUME told[i].q = q PROVE FALSE
        OBVIOUS
      <4>2. rows[q].born <= told[i].at /\ told[i].at \in Int
        BY <1>2, <4>1
      <4>3. QED
        BY <1>1, <3>1, <4>2 DEF born
    <3>3. QED
      BY <1>1, <1>2, <2>2, <2>4, <3>1, <3>2
  <2>5. QED
    BY <2>3, <2>4
<1> HIDE DEF S1
<1> DEFINE Stands(i) == IF i <= m THEN q \notin DOMAIN pass[i].anchors
                        ELSE q \in DOMAIN pass[i].anchors /\ pass[i].anchors[q] = pass[m].rating
           Held == {i \in 0 .. n : Stands(i)}
<1>12. 0 \in Held
  <2>1. q \notin DOMAIN pass[0].anchors
    BY <1>6, UnwalkedIs
  <2>2. QED
    BY <1>1, <1>4, <2>1
<1>13. ASSUME NEW i \in 1 .. n, i - 1 \in Held PROVE i \in Held
  <2> DEFINE held == pass[i - 1].anchors
             theta == pass[i - 1].rating
             D == DOMAIN rows
             f == pass[i].anchors
             T == S1(i)
  <2>1. held \in Anchors(D) /\ theta \in Int /\ T \in SUBSET D /\ f = Anchored(held, T, theta)
    BY <1>10
  <2>2. q \in T <=> i > m
    BY <1>11
  <2>3. Stands(i - 1)
    BY <1>13
  <2>4. IF i - 1 <= m THEN q \notin DOMAIN held ELSE q \in DOMAIN held /\ held[q] = pass[m].rating
    BY <2>3
  <2>5. i - 1 = m => theta = pass[m].rating
    OBVIOUS
  <2> HIDE DEF held, theta, D, f, T
  <2>6. /\ DOMAIN f = DOMAIN held \cup T
        /\ \A x \in DOMAIN held : f[x] = held[x]
        /\ \A x \in T \ DOMAIN held : f[x] = theta
    BY <2>1 DEF Anchored
  <2>7. IF i <= m THEN q \notin DOMAIN f ELSE q \in DOMAIN f /\ f[q] = pass[m].rating
    <3>1. CASE i <= m
      BY <1>4, <2>2, <2>4, <2>6, <3>1
    <3>2. CASE i > m /\ i - 1 <= m
      <4>1. i - 1 = m /\ q \in T \ DOMAIN held
        BY <1>4, <2>2, <2>4, <3>2
      <4>2. QED
        BY <1>4, <2>5, <2>6, <3>2, <4>1
    <3>3. CASE i > m /\ ~(i - 1 <= m)
      BY <1>4, <2>2, <2>4, <2>6, <3>3
    <3>4. QED
      BY <1>4, <3>1, <3>2, <3>3
  <2>8. Stands(i)
    BY <2>7 DEF f
  <2>9. QED
    BY <1>1, <2>8
<1>14. Stands(n)
  <2>1. 0 .. n \subseteq Held
    <3> HIDE DEF Held
    <3>1. QED
      BY <1>1, <1>12, <1>13, Upwards
  <2>2. n \in Held
    BY <1>1, <2>1
  <2>3. QED
    BY <2>2
<1> DEFINE end == Anchored(pass[n].anchors, DOMAIN rows, pass[n].rating)
<1>15. end[q] = pass[m].rating /\ end[q] \in Int /\ pass[n].tally[q] \in Counted
  <2> DEFINE held == pass[n].anchors
             theta == pass[n].rating
             D == DOMAIN rows
  <2>1. pass[n] \in Walking(rows)
    BY <1>1, <1>6, SMTT(30)
  <2>2. held \in Anchors(D) /\ theta \in Int /\ D \in SUBSET D /\ q \in D /\ pass[n].tally[q] \in Counted
    BY <2>1 DEF Walking
  <2>3. IF n <= m THEN q \notin DOMAIN held ELSE q \in DOMAIN held /\ held[q] = pass[m].rating
    BY <1>14
  <2>4. n <= m => theta = pass[m].rating
    <3>1. n <= m => n = m
      <4>1. n \in Nat /\ m \in Nat /\ m <= n
        BY <1>1, <1>4
      <4>2. QED
        BY <4>1
    <3>2. QED
      BY <3>1
  <2>5. end = Anchored(held, D, theta)
    OBVIOUS
  <2> HIDE DEF held, theta, D, end
  <2>6. end = [x \in DOMAIN held \cup D |-> IF x \in DOMAIN held THEN held[x] ELSE theta]
    BY <2>5 DEF Anchored
  <2>7. \A x \in DOMAIN held : held[x] \in Int
    BY <2>2 DEF Anchors
  <2>8. q \in DOMAIN held => end[q] = held[q]
    BY <2>2, <2>6
  <2>9. q \notin DOMAIN held => end[q] = theta
    BY <2>2, <2>6
  <2>10. end[q] \in Int
    BY <2>2, <2>7, <2>8, <2>9
  <2>11. QED
    BY <2>2, <2>3, <2>4, <2>8, <2>9, <2>10
<1>16. Replay(rows, told).difficulty[q] = Difficulty(end[q], pass[n].tally[q])
  BY <1>6 DEF Replay
<1> HIDE DEF end
<1>17. Replay(rows, told).difficulty[q].anchor = end[q]
  BY <1>15, <1>16, DifficultyIs
<1>18. QED
  BY <1>9, <1>15, <1>17 DEF first, S, born

-----------------------------------------------------------------------------
(* A question nobody has answered, and what the bank's ranking says of it. *)

Unasked(told, q) == \A i \in DOMAIN told : told[i].q # q

\* No answer counts for it.
LEMMA UnaskedTally ==
    ASSUME NEW rows \in Seq(BankRow), NEW told \in Seq(AnswerOf(rows)), NEW q \in DOMAIN rows,
           Unasked(told, q)
    PROVE  Walk(rows, told) \in Walking(rows) /\ Walk(rows, told).tally[q] = Untold
<1> DEFINE n == Len(told)
<1>1. n \in Nat /\ DOMAIN told = 1 .. n
  OBVIOUS
<1>2. PICK pass \in [0 .. n -> Walking(rows)] :
        /\ pass[0] = Unwalked(rows) /\ pass[n] = Walk(rows, told)
        /\ \A i \in 1 .. n : pass[i] = WalkAnswer(rows, pass[i - 1], told[i])
  BY WalkRuns
<1> DEFINE Held == {i \in 0 .. n : pass[i].tally[q] = Untold}
<1>3. 0 \in Held
  BY <1>1, <1>2, UnwalkedIs
<1>4. ASSUME NEW i \in 1 .. n, i - 1 \in Held PROVE i \in Held
  <2> DEFINE walk == pass[i - 1]
             answer == told[i]
  <2>1. walk \in Walking(rows) /\ answer \in AnswerOf(rows)
    BY <1>1, <1>2
  <2>2. pass[i] = WalkAnswer(rows, walk, answer) /\ walk.tally[q] = Untold /\ answer.q # q
    BY <1>1, <1>2, <1>4 DEF Unasked
  <2> HIDE DEF walk, answer
  <2>3. \A x \in DOMAIN rows \ {answer.q} : WalkAnswer(rows, walk, answer).tally[x] = walk.tally[x]
    BY <2>1, WalkStep
  <2>4. pass[i].tally[q] = Untold
    BY <2>2, <2>3
  <2>5. QED
    BY <1>1, <2>4
<1>5. n \in Held
  <2> HIDE DEF Held
  <2>1. 0 .. n \subseteq Held
    BY <1>1, <1>3, <1>4, Upwards
  <2>2. QED
    BY <1>1, <2>1
<1>6. QED
  BY <1>1, <1>2, <1>5

\* The replay rates in integers, and its difficulties can be met.
LEMMA ReplayIs ==
    ASSUME NEW rows \in Seq(BankRow), NEW told \in Seq(AnswerOf(rows)), NEW q \in DOMAIN rows
    PROVE  /\ Replay(rows, told).rating \in Int /\ Replay(rows, told).difficulty[q] \in Hard
           /\ Unasked(told, q) => Replay(rows, told).difficulty[q]
                 = Difficulty(Replay(rows, told).difficulty[q].anchor, Untold)
<1> DEFINE walk == Walk(rows, told)
           held == walk.anchors
           theta == walk.rating
           D == DOMAIN rows
           end == Anchored(held, D, theta)
           tally == walk.tally[q]
<1>1. walk \in Walking(rows)
  <2> DEFINE n == Len(told)
  <2>1. PICK pass \in [0 .. n -> Walking(rows)] :
        /\ pass[0] = Unwalked(rows) /\ pass[n] = Walk(rows, told)
        /\ \A i \in 1 .. n : pass[i] = WalkAnswer(rows, pass[i - 1], told[i])
    BY WalkRuns
  <2>2. QED
    BY <2>1
<1>2. held \in Anchors(D) /\ theta \in Int /\ tally \in Counted
  BY <1>1 DEF Walking
<1>3. Unasked(told, q) => tally = Untold
  BY UnaskedTally
<1>4. /\ Replay(rows, told).rating = theta
      /\ Replay(rows, told).difficulty[q] = Difficulty(end[q], tally)
  BY DEF Replay
<1> HIDE DEF walk, held, theta, tally
<1>5. end[q] \in Int
  <2>1. \A x \in DOMAIN held : held[x] \in Int
    BY <1>2 DEF Anchors
  <2>2. QED
    BY <1>2, <2>1 DEF Anchored
<1> HIDE DEF end
<1>6. Difficulty(end[q], tally) \in Hard /\ Difficulty(end[q], tally).anchor = end[q]
  BY <1>2, <1>5, DifficultyIs
<1>7. QED
  BY <1>2, <1>3, <1>4, <1>6

\* What he recalls of q after an answer.
Reminded(recall, answer, q, moment) ==
    IF answer.q = q THEN Recalled(recall, answer, moment - WindowHours) ELSE recall

Remembers(pass, told, q, moment) ==
    /\ pass \in [0 .. Len(told) -> Recollection]
    /\ pass[0] = NoRecall /\ pass[Len(told)] = Recall(told, q, moment)
    /\ \A i \in 1 .. Len(told) : pass[i] = Reminded(pass[i - 1], told[i], q, moment)

\* An answer more is recalled as a moment and a streak.
LEMMA RecalledIs ==
    ASSUME NEW recall \in Recollection, NEW answer, answer.at \in Int, NEW inside
    PROVE  Recalled(recall, answer, inside) \in Recollection
BY DEF Recalled, Recollection

\* What he recalls of a question, answer by answer.
LEMMA RecallRuns ==
    ASSUME NEW rows \in Seq(BankRow), NEW told \in Seq(AnswerOf(rows)), NEW q, NEW moment
    PROVE  \E pass : Remembers(pass, told, q, moment)
<1> DEFINE n == Len(told)
           Op == [p \in (Recollection) \X (AnswerOf(rows)) |-> Reminded(p[1], p[2], q, moment)]
           Solves(f) == f = [T \in SUBSET DOMAIN told |->
                               IF T = {} THEN NoRecall
                               ELSE Reminded(f[T \ {Max(T)}], told[Max(T)], q, moment)]
           iter == CHOOSE f : Solves(f)
<1>1. Op \in [(Recollection) \X (AnswerOf(rows)) -> Recollection] /\ NoRecall \in Recollection
  BY RecalledIs DEF AnswerOf, NoRecall, Recollection, Reminded
<1>2. ASSUME NEW f, NEW T \in SUBSET DOMAIN told, T # {}, f[T \ {Max(T)}] \in Recollection
      PROVE  Op[<<f[T \ {Max(T)}], told[Max(T)]>>] = Reminded(f[T \ {Max(T)}], told[Max(T)], q, moment)
  <2>1. Len(told) \in Nat /\ DOMAIN told = 1 .. Len(told)
    OBVIOUS
  <2>2. Max(T) \in DOMAIN told
    BY <1>2, <2>1, Greatest
  <2>3. told[Max(T)] \in AnswerOf(rows)
    BY <2>2
  <2>4. QED
    BY <1>2, <2>3
<1>3. \E f : Solves(f)
  <2> HIDE DEF Op
  <2>1. PICK f : Folds(f, Recollection, Op, NoRecall, told)
    BY <1>1, FoldExists
  <2>2. \A T \in SUBSET DOMAIN told : T # {} => f[T \ {Max(T)}] \in Recollection
    BY <2>1 DEF Folds
  <2>3. Solves(f)
    BY <1>2, <2>1, <2>2 DEF Folds
  <2> HIDE DEF Solves
  <2>4. QED
    BY <2>3
<1>4. Solves(iter)
  <2> HIDE DEF Solves
  <2>1. QED
    BY <1>3
<1>5. Recall(told, q, moment) = iter[DOMAIN told]
  BY DEF Recall, Reminded, FoldLeft, MapThenFoldSet
<1> HIDE DEF iter, Op
<1>6. Unfolds(iter, Recollection, Op, NoRecall, told)
  BY <1>2, <1>4 DEF Unfolds
<1> HIDE DEF Solves
<1>7. PICK pass : RunsTo(pass, Recollection, Op, NoRecall, told, Recall(told, q, moment))
  <2>1. \E pass : RunsTo(pass, Recollection, Op, NoRecall, told, iter[DOMAIN told])
    BY <1>1, <1>6, FoldRuns
  <2>2. QED
    BY <1>5, <2>1
<1>8. ASSUME NEW i \in 1 .. n PROVE pass[i] = Reminded(pass[i - 1], told[i], q, moment)
  <2>1. pass[i - 1] \in Recollection /\ told[i] \in AnswerOf(rows) /\ pass[i] = Op[<<pass[i - 1], told[i]>>]
    <3>1. i \in 1 .. Len(told) /\ i - 1 \in 0 .. Len(told)
      OBVIOUS
    <3>2. pass \in [0 .. Len(told) -> Recollection] /\ pass[i] = Op[<<pass[i - 1], told[i]>>]
      BY <1>7, <3>1 DEF RunsTo
    <3>3. QED
      BY <3>1, <3>2
  <2>2. QED
    BY <2>1 DEF Op
<1>9. QED
  BY <1>7, <1>8 DEF RunsTo, Remembers

\* What he recalls of a question is a moment and a streak; of one he never
\* answered, nothing.
LEMMA RecallIs ==
    ASSUME NEW rows \in Seq(BankRow), NEW told \in Seq(AnswerOf(rows)), NEW q, NEW moment
    PROVE  /\ Recall(told, q, moment) \in Recollection
           /\ Unasked(told, q) => Recall(told, q, moment) = NoRecall
<1> DEFINE n == Len(told)
<1>1. n \in Nat /\ DOMAIN told = 1 .. n
  OBVIOUS
<1>2. PICK pass : Remembers(pass, told, q, moment)
  BY RecallRuns
<1>3. ASSUME Unasked(told, q) PROVE pass[n] = NoRecall
  <2> DEFINE Held == {i \in 0 .. n : pass[i] = NoRecall}
  <2>1. 0 \in Held
    BY <1>1, <1>2 DEF Remembers
  <2>2. ASSUME NEW i \in 1 .. n, i - 1 \in Held PROVE i \in Held
    BY <1>1, <1>2, <1>3, <2>2, SMTT(30) DEF Unasked, Reminded, Remembers
  <2>3. n \in Held
    <3> HIDE DEF Held
    <3>1. 0 .. n \subseteq Held
      BY <1>1, <2>1, <2>2, Upwards
    <3>2. QED
      BY <1>1, <3>1
  <2>4. QED
    BY <2>3
<1>4. QED
  BY <1>1, <1>2, <1>3 DEF Remembers

\* The ranking has an entry for every question of the bank.
EntryIs(entry, rows, told, front, moment, q) ==
    LET recall == Recall(told, q, moment)
    IN  /\ entry.vec = rows[q].vec
        /\ entry.threshold = ThresholdScore(ExpectedScore(Replay(rows, told).rating,
                                                          Replay(rows, told).difficulty[q]))
        /\ entry.forgetting = ForgettingScore(recall, moment)
        /\ entry.frontier = Affinity(rows[q].vec, front)
        /\ entry.novelty = IF recall.at = None THEN 1000 ELSE 0

\* The ranking is a sequence of such entries, as long as the bank.
LEMMA RankIs ==
    ASSUME NEW rows \in Seq(BankRow), NEW told \in Seq(AnswerOf(rows)),
           NEW front \in Directions, NEW moment \in Int
    PROVE  /\ RankBank(rows, told, front, moment) \in Seq(Entry)
           /\ Len(RankBank(rows, told, front, moment)) = Len(rows)
           /\ \A q \in DOMAIN rows :
                 EntryIs(RankBank(rows, told, front, moment)[q], rows, told, front, moment, q)
<1> DEFINE ratings == Replay(rows, told)
           Hope(q) == ExpectedScore(ratings.rating, ratings.difficulty[q])
           EntryOf(q) == [vec        |-> rows[q].vec,
                      expected   |-> Hope(q),
                      threshold  |-> ThresholdScore(Hope(q)),
                      forgetting |-> ForgettingScore(Recall(told, q, moment), moment),
                      frontier   |-> Affinity(rows[q].vec, front),
                      novelty    |-> IF Recall(told, q, moment).at = None THEN 1000 ELSE 0]
           seq == [q \in DOMAIN rows |-> EntryOf(q)]
           n == Len(rows)
<1>1. n \in Nat /\ DOMAIN rows = 1 .. n
  OBVIOUS
<1>2. RankBank(rows, told, front, moment) = Tuple(seq)
  BY DEF RankBank
<1>3. ASSUME NEW q \in DOMAIN rows
      PROVE  EntryOf(q) \in Entry /\ EntryIs(EntryOf(q), rows, told, front, moment, q)
  <2>1. rows[q].vec \in Directions
    <3>1. rows[q] \in BankRow
      OBVIOUS
    <3>2. QED
      BY <3>1 DEF BankRow
  <2>2. Hope(q) \in Int
    BY ReplayIs, ExpectedInt
  <2>3. ThresholdScore(Hope(q)) \in Int
    BY <2>2, ThresholdInt
  <2>4. ForgettingScore(Recall(told, q, moment), moment) \in Int
    BY RecallIs, ForgettingInt
  <2>5. Affinity(rows[q].vec, front) \in Int
    BY <2>1, AffinityInt
  <2>6. EntryOf(q) \in Entry
    <3> HIDE DEF Hope
    <3>1. QED
      BY <2>1, <2>2, <2>3, <2>4, <2>5 DEF Entry
  <2>7. QED
    BY <2>6 DEF EntryIs
<1> HIDE DEF EntryOf
<1>4. /\ Tuple(seq) \in Seq(Entry) /\ Len(Tuple(seq)) = n
      /\ \A q \in DOMAIN rows : Tuple(seq)[q] = EntryOf(q)
  <2>1. seq \in [1 .. n -> Entry]
    BY <1>1, <1>3
  <2>2. seq \in Seq(Entry) /\ Len(seq) = n
    BY <1>1, <2>1, SeqDef
  <2>3. Tuple(seq) = SubSeq(seq, 1, n)
    BY <2>2 DEF Tuple
  <2>4. \A q \in 1 .. n : seq[q] \in Entry
    BY <2>1
  <2>5. \A q \in 1 .. n : seq[q] = EntryOf(q)
    BY <1>1
  <2> HIDE DEF seq, n
  <2>6. /\ SubSeq(seq, 1, n) \in Seq(Entry)
        /\ Len(SubSeq(seq, 1, n)) = IF 1 <= n THEN n - 1 + 1 ELSE 0
        /\ \A i \in 1 .. n - 1 + 1 : SubSeq(seq, 1, n)[i] = seq[1 + i - 1]
    BY <1>1, <2>4, SubSeqProperties
  <2>7. QED
    BY <1>1, <2>3, <2>5, <2>6
<1>5. QED
  BY <1>2, <1>3, <1>4

-----------------------------------------------------------------------------
(* The lesson is filled greedily.                                          *)

\* What stands before a place of a sequence.
Ahead(seq, p) == {seq[m] : m \in 1 .. p - 1}

\* At every place stands a question not taken before it, and none that was
\* left at that point is worth more.
Greedy(ranked, chosen) ==
    \A p \in 1 .. Len(chosen) :
       /\ chosen[p] \in DOMAIN ranked \ Ahead(chosen, p)
       /\ \A k \in DOMAIN ranked \ Ahead(chosen, p) :
             Worth(ranked, Ahead(chosen, p), k) <= Worth(ranked, Ahead(chosen, p), chosen[p])

GreedyLessons(ranked) == {chosen \in Seq(DOMAIN ranked) : Greedy(ranked, chosen)}

\* A lesson filled greedily stays so when the best of what is left is added.
LEMMA AddBestIs ==
    ASSUME NEW ranked \in Seq(Entry), NEW size, NEW chosen \in GreedyLessons(ranked)
    PROVE  AddBest(ranked, size, chosen) \in GreedyLessons(ranked)
<1> DEFINE taken == ToSet(chosen)
           n == Len(chosen)
           best == Best(ranked, taken)
           more == Append(chosen, best)
<1>1. chosen \in Seq(DOMAIN ranked) /\ Greedy(ranked, chosen)
  BY DEF GreedyLessons
<1>2. n \in Nat /\ DOMAIN chosen = 1 .. n /\ \A m \in 1 .. n : chosen[m] \in DOMAIN ranked
  BY <1>1
<1>3. taken = {chosen[m] : m \in 1 .. n}
  BY <1>2 DEF ToSet
<1>4. AddBest(ranked, size, chosen) = IF n < size /\ taken # DOMAIN ranked THEN more ELSE chosen
  BY DEF AddBest
<1>5. ASSUME taken # DOMAIN ranked PROVE more \in GreedyLessons(ranked)
  <2>1. taken \in SUBSET DOMAIN ranked
    BY <1>2, <1>3
  <2> HIDE DEF taken
  <2>2. /\ best \in DOMAIN ranked \ taken
        /\ \A k \in DOMAIN ranked \ taken : Worth(ranked, taken, k) <= Worth(ranked, taken, best)
    BY <1>5, <2>1, BestIs
  <2> HIDE DEF best
  <2>3. /\ more \in Seq(DOMAIN ranked) /\ Len(more) = n + 1 /\ more[n + 1] = best
        /\ \A m \in 1 .. n : more[m] = chosen[m]
    BY <1>1, <2>2
  <2> HIDE DEF more
  <2>4. Ahead(more, n + 1) = taken
    BY <1>2, <1>3, <2>3 DEF Ahead
  <2>5. ASSUME NEW p \in 1 .. n PROVE Ahead(more, p) = Ahead(chosen, p)
    <3>1. \A m \in 1 .. p - 1 : more[m] = chosen[m]
      BY <1>2, <2>3
    <3>2. QED
      BY <3>1 DEF Ahead
  <2>6. Greedy(ranked, more)
    <3>1. SUFFICES ASSUME NEW p \in 1 .. n + 1
                   PROVE  /\ more[p] \in DOMAIN ranked \ Ahead(more, p)
                          /\ \A k \in DOMAIN ranked \ Ahead(more, p) :
                                Worth(ranked, Ahead(more, p), k)
                                   <= Worth(ranked, Ahead(more, p), more[p])
      BY <2>3 DEF Greedy
    <3>2. CASE p = n + 1
      BY <2>2, <2>3, <2>4, <3>2
    <3>3. CASE p # n + 1
      <4>1. p \in 1 .. n
        BY <1>2, <3>3
      <4>2. more[p] = chosen[p] /\ Ahead(more, p) = Ahead(chosen, p)
        BY <2>3, <2>5, <4>1
      <4>3. QED
        BY <1>1, <4>1, <4>2 DEF Greedy
    <3>4. QED
      BY <3>2, <3>3
  <2>7. QED
    BY <2>3, <2>6 DEF GreedyLessons
<1>6. QED
  BY <1>4, <1>5

\* What is chosen after each turn.
Fills(pass, ranked, size) ==
    /\ pass \in [0 .. Len(ranked) -> GreedyLessons(ranked)]
    /\ pass[0] = << >> /\ pass[Len(ranked)] = Fill(ranked, size)
    /\ \A i \in 1 .. Len(ranked) : pass[i] = AddBest(ranked, size, pass[i - 1])

\* The lesson, question by question.
LEMMA FillRuns ==
    ASSUME NEW ranked \in Seq(Entry), NEW size
    PROVE  \E pass : Fills(pass, ranked, size)
<1> DEFINE n == Len(ranked)
           Op == [p \in (GreedyLessons(ranked)) \X (Entry) |-> AddBest(ranked, size, p[1])]
           Solves(f) == f = [T \in SUBSET DOMAIN ranked |->
                               IF T = {} THEN << >>
                               ELSE AddBest(ranked, size, f[T \ {Max(T)}])]
           iter == CHOOSE f : Solves(f)
<1>1. Op \in [(GreedyLessons(ranked)) \X (Entry) -> GreedyLessons(ranked)] /\ << >> \in GreedyLessons(ranked)
  BY AddBestIs DEF GreedyLessons, Greedy
<1>2. ASSUME NEW f, NEW T \in SUBSET DOMAIN ranked, T # {}, f[T \ {Max(T)}] \in GreedyLessons(ranked)
      PROVE  Op[<<f[T \ {Max(T)}], ranked[Max(T)]>>] = AddBest(ranked, size, f[T \ {Max(T)}])
  <2>1. Len(ranked) \in Nat /\ DOMAIN ranked = 1 .. Len(ranked)
    OBVIOUS
  <2>2. Max(T) \in DOMAIN ranked
    BY <1>2, <2>1, Greatest
  <2>3. ranked[Max(T)] \in Entry
    BY <2>2
  <2>4. QED
    BY <1>2, <2>3
<1>3. \E f : Solves(f)
  <2> HIDE DEF Op
  <2>1. PICK f : Folds(f, GreedyLessons(ranked), Op, << >>, ranked)
    BY <1>1, FoldExists
  <2>2. \A T \in SUBSET DOMAIN ranked : T # {} => f[T \ {Max(T)}] \in GreedyLessons(ranked)
    BY <2>1 DEF Folds
  <2>3. Solves(f)
    BY <1>2, <2>1, <2>2 DEF Folds
  <2> HIDE DEF Solves
  <2>4. QED
    BY <2>3
<1>4. Solves(iter)
  <2> HIDE DEF Solves
  <2>1. QED
    BY <1>3
<1>5. Fill(ranked, size) = iter[DOMAIN ranked]
  BY DEF Fill, FoldLeft, MapThenFoldSet
<1> HIDE DEF iter, Op
<1>6. Unfolds(iter, GreedyLessons(ranked), Op, << >>, ranked)
  BY <1>2, <1>4 DEF Unfolds
<1> HIDE DEF Solves
<1>7. PICK pass : RunsTo(pass, GreedyLessons(ranked), Op, << >>, ranked, Fill(ranked, size))
  <2>1. \E pass : RunsTo(pass, GreedyLessons(ranked), Op, << >>, ranked, iter[DOMAIN ranked])
    BY <1>1, <1>6, FoldRuns
  <2>2. QED
    BY <1>5, <2>1
<1>8. ASSUME NEW i \in 1 .. n PROVE pass[i] = AddBest(ranked, size, pass[i - 1])
  <2>1. pass[i - 1] \in GreedyLessons(ranked) /\ ranked[i] \in Entry /\ pass[i] = Op[<<pass[i - 1], ranked[i]>>]
    <3>1. i \in 1 .. Len(ranked) /\ i - 1 \in 0 .. Len(ranked)
      OBVIOUS
    <3>2. pass \in [0 .. Len(ranked) -> GreedyLessons(ranked)] /\ pass[i] = Op[<<pass[i - 1], ranked[i]>>]
      BY <1>7, <3>1 DEF RunsTo
    <3>3. QED
      BY <3>1, <3>2
  <2>2. QED
    BY <2>1 DEF Op
<1>9. QED
  BY <1>7, <1>8 DEF RunsTo, Fills

\* The lesson is filled greedily.
LEMMA FillIs ==
    ASSUME NEW ranked \in Seq(Entry), NEW size
    PROVE  Fill(ranked, size) \in GreedyLessons(ranked)
<1>1. PICK pass : Fills(pass, ranked, size)
  BY FillRuns
<1>2. Len(ranked) \in 0 .. Len(ranked)
  <2>1. Len(ranked) \in Nat
    OBVIOUS
  <2>2. QED
    BY <2>1
<1>3. QED
  BY <1>1, <1>2 DEF Fills

-----------------------------------------------------------------------------
(* The inductive invariant of the days, in named parts.                    *)

\* What stands in the bank was stored by this morning, and is about its topic.
Shelf ==
    /\ questions \in Seq(BankRow)
    /\ \A q \in DOMAIN questions : /\ questions[q].born \in Nat /\ questions[q].born <= 24 * day + 10
                                   /\ questions[q].vec \in {None, questions[q].topic}

\* The answers are in the order they were given, to questions he already had.
Record ==
    /\ Lawful(questions, history)
    /\ \A i \in DOMAIN history : history[i].at <= 24 * day + LessonHour

StudyInv ==
    /\ day \in 0 .. MaxDays
    /\ Shelf
    /\ Record
    /\ ToSet(served) \subseteq DOMAIN questions

\* A topic and the frontier are directions.
LEMMA TopicsAre == Topics \subseteq Directions /\ None \in Directions /\ Frontier \in Directions
BY StudyAssumption DEF Directions

\* A batch is rows of the bank, born at once and not embedded.
LEMMA BatchIs ==
    ASSUME NEW n \in Nat, NEW at \in Nat, NEW topics, \A i \in 1 .. n : topics[i] \in Topics
    PROVE  /\ Batch(n, at, topics) \in Seq(BankRow) /\ Len(Batch(n, at, topics)) = n
           /\ \A i \in 1 .. n : Batch(n, at, topics)[i]
                                   = [born |-> at, topic |-> topics[i], vec |-> None]
<1> DEFINE seq == Batch(n, at, topics)
<1>1. seq = [i \in 1 .. n |-> [born |-> at, topic |-> topics[i], vec |-> None]]
  BY DEF Batch
<1>2. \A i \in 1 .. n : [born |-> at, topic |-> topics[i], vec |-> None] \in BankRow
  BY TopicsAre DEF BankRow
<1> HIDE DEF seq
<1>3. seq \in [1 .. n -> BankRow]
  BY <1>1, <1>2
<1>4. seq \in Seq(BankRow) /\ Len(seq) = n
  BY <1>1, <1>3, SeqDef
<1>5. QED
  BY <1>1, <1>4 DEF seq

\* A night asks for a natural number of questions.
LEMMA DecideNat ==
    ASSUME NEW ranked, NEW lesson, NEW answers
    PROVE  Decide(ranked, lesson, answers) \in Nat
BY SizesAssumption DEF Decide

\* The first state has the invariant.
LEMMA StudyInvInit == StudyInit => StudyInv
<1> SUFFICES ASSUME StudyInit PROVE StudyInv
  OBVIOUS
<1>1. PICK topics \in [1 .. PlacementSize -> Topics] : questions = Batch(PlacementSize, 10, topics)
  BY DEF StudyInit
<1>2. day = 0 /\ history = << >> /\ served = << >> /\ MaxDays \in Nat /\ PlacementSize \in Nat
  BY StudyAssumption, SizesAssumption DEF StudyInit
<1>3. /\ questions \in Seq(BankRow) /\ Len(questions) = PlacementSize
      /\ \A i \in 1 .. PlacementSize :
            questions[i] = [born |-> 10, topic |-> topics[i], vec |-> None]
  <2>1. \A i \in 1 .. PlacementSize : topics[i] \in Topics
    BY <1>1
  <2>2. QED
    BY <1>1, <1>2, <2>1, BatchIs
<1>4. Shelf
  BY <1>2, <1>3 DEF Shelf
<1>5. Record
  <2>1. << >> \in Seq(AnswerOf(questions)) /\ DOMAIN << >> = {}
    OBVIOUS
  <2>2. QED
    BY <1>2, <2>1 DEF Record, Lawful
<1>6. ToSet(served) = {}
  BY <1>2 DEF ToSet
<1>7. QED
  BY <1>2, <1>4, <1>5, <1>6 DEF StudyInv

\* The lesson of the day: filled greedily from the ranking of the whole bank.
Ranking == RankBank(questions, history, Frontier, Noon)

\* The lesson served is questions of the bank, taken greedily.
LEMMA LessonIs ==
    ASSUME StudyInv, TakeLesson
    PROVE  /\ Ranking \in Seq(Entry) /\ DOMAIN Ranking = DOMAIN questions /\ Noon \in Nat
           /\ \A q \in DOMAIN questions : EntryIs(Ranking[q], questions, history, Frontier, Noon, q)
           /\ served' \in Seq(DOMAIN questions) /\ Greedy(Ranking, served')
<1>1. questions \in Seq(BankRow) /\ history \in Seq(AnswerOf(questions)) /\ day \in Nat
  BY StudyAssumption DEF StudyInv, Shelf, Record, Lawful
<1>2. Noon \in Nat
  BY <1>1 DEF Noon, LessonHour
<1>3. /\ Ranking \in Seq(Entry) /\ Len(Ranking) = Len(questions)
      /\ \A q \in DOMAIN questions : EntryIs(Ranking[q], questions, history, Frontier, Noon, q)
  BY <1>1, <1>2, TopicsAre, RankIs DEF Ranking
<1>4. DOMAIN Ranking = DOMAIN questions
  BY <1>1, <1>3
<1>5. served' = Fill(Ranking, Size)
  BY DEF TakeLesson, SelectLesson, Ranking
<1> HIDE DEF Ranking
<1>6. served' \in GreedyLessons(Ranking)
  BY <1>3, <1>5, FillIs
<1>7. QED
  BY <1>2, <1>3, <1>4, <1>6 DEF GreedyLessons

\* A lesson taken keeps the invariant.
LEMMA TakeKeeps == StudyInv /\ TakeLesson => StudyInv'
<1> SUFFICES ASSUME StudyInv, TakeLesson PROVE StudyInv'
  OBVIOUS
<1>1. /\ questions \in Seq(BankRow) /\ Lawful(questions, history) /\ day \in Nat
      /\ history \in Seq(AnswerOf(questions)) /\ day' = day /\ questions' = questions
  BY StudyAssumption DEF StudyInv, Shelf, Record, Lawful, TakeLesson
<1>2. served' \in Seq(DOMAIN questions) /\ Noon \in Nat
  BY LessonIs
<1>3. PICK right \in [DOMAIN served' -> BOOLEAN], pace \in Paces :
        history' = history \o
          [n \in DOMAIN served' |->
              [q |-> served'[n], at |-> Noon, right |-> right[n], seconds |-> pace]]
  BY DEF TakeLesson
<1> DEFINE fresh == [n \in DOMAIN served' |->
              [q |-> served'[n], at |-> Noon, right |-> right[n], seconds |-> pace]]
           n1 == Len(history)
           n2 == Len(served')
<1>4. n1 \in Nat /\ n2 \in Nat /\ DOMAIN history = 1 .. n1 /\ DOMAIN served' = 1 .. n2
  BY <1>1, <1>2
<1>5. \A i \in 1 .. n2 : fresh[i] \in AnswerOf(questions) /\ fresh[i].at = Noon
  BY <1>2, <1>4 DEF AnswerOf
<1>6. fresh \in Seq(AnswerOf(questions)) /\ Len(fresh) = n2
  <2>1. fresh = [i \in 1 .. n2 |-> fresh[i]]
    BY <1>4
  <2> HIDE DEF fresh
  <2>2. fresh \in [1 .. n2 -> AnswerOf(questions)]
    BY <1>5, <2>1
  <2>3. QED
    BY <1>4, <2>2, SeqDef
<1> HIDE DEF fresh
<1>7. /\ history' \in Seq(AnswerOf(questions)) /\ Len(history') = n1 + n2
      /\ \A i \in 1 .. n1 : history'[i] = history[i]
      /\ \A i \in n1 + 1 .. n1 + n2 : history'[i] = fresh[i - n1]
  BY <1>1, <1>3, <1>4, <1>6 DEF fresh
<1>8. \A i \in 1 .. n1 : /\ history'[i].at <= Noon /\ history'[i].at = history[i].at
                         /\ history'[i].q = history[i].q
  BY <1>4, <1>7 DEF StudyInv, Record, Noon
<1>9. \A i \in n1 + 1 .. n1 + n2 : history'[i].at = Noon
  <2>1. \A i \in n1 + 1 .. n1 + n2 : i - n1 \in 1 .. n2
    BY <1>4
  <2>2. QED
    BY <1>5, <1>7, <2>1
<1>10. DOMAIN history' = 1 .. n1 + n2
  BY <1>4, <1>7
<1>11. \A i \in DOMAIN history' : history'[i] \in AnswerOf(questions)
  BY <1>4, <1>7, <1>10
<1>12. \A i, k \in DOMAIN history' : i <= k => history'[i].at <= history'[k].at
  <2>1. SUFFICES ASSUME NEW i \in 1 .. n1 + n2, NEW k \in 1 .. n1 + n2, i <= k
                 PROVE  history'[i].at <= history'[k].at
    BY <1>10
  <2>2. CASE k \in 1 .. n1
    <3>1. i \in 1 .. n1
      BY <1>4, <2>1, <2>2
    <3>2. history[i].at <= history[k].at
      BY <1>1, <1>4, <2>1, <2>2, <3>1 DEF Lawful
    <3>3. QED
      BY <1>8, <2>2, <3>1, <3>2
  <2>3. CASE k \in n1 + 1 .. n1 + n2
    <3>1. i \in 1 .. n1 \/ i \in n1 + 1 .. n1 + n2
      BY <1>4
    <3>2. QED
      BY <1>2, <1>8, <1>9, <2>3, <3>1
  <2>4. QED
    BY <1>4, <2>2, <2>3
<1>13. \A i \in DOMAIN history' : questions[history'[i].q].born <= history'[i].at
  <2>1. SUFFICES ASSUME NEW i \in 1 .. n1 + n2
                 PROVE  questions[history'[i].q].born <= history'[i].at
    BY <1>10
  <2>2. CASE i \in 1 .. n1
    <3>1. questions[history[i].q].born <= history[i].at
      BY <1>1, <1>4, <2>2 DEF Lawful
    <3>2. QED
      BY <1>8, <2>2, <3>1
  <2>3. CASE i \in n1 + 1 .. n1 + n2
    <3>1. history'[i].q \in DOMAIN questions /\ history'[i].at = Noon
      BY <1>9, <1>10, <1>11, <2>3 DEF AnswerOf
    <3>2. questions[history'[i].q].born \in Nat /\ questions[history'[i].q].born <= 24 * day + 10
      BY <3>1 DEF StudyInv, Shelf
    <3>3. QED
      BY <1>1, <3>1, <3>2 DEF Noon, LessonHour
  <2>4. QED
    BY <1>4, <2>2, <2>3
<1>14. Record'
  <2>1. \A i \in DOMAIN history' : history'[i].at <= 24 * day + LessonHour
    BY <1>2, <1>4, <1>8, <1>9, <1>10 DEF Noon
  <2>2. QED
    BY <1>1, <1>7, <1>12, <1>13, <2>1 DEF Record, Lawful
<1>15. Shelf' /\ day' \in 0 .. MaxDays
  BY <1>1 DEF StudyInv, Shelf
<1>16. ToSet(served') \subseteq DOMAIN questions
  BY <1>2 DEF ToSet
<1>17. QED
  BY <1>1, <1>14, <1>15, <1>16 DEF StudyInv

\* A night keeps the invariant.
LEMMA NightKeeps == StudyInv /\ Night => StudyInv'
<1> SUFFICES ASSUME StudyInv, Night PROVE StudyInv'
  OBVIOUS
<1>1. /\ questions \in Seq(BankRow) /\ Lawful(questions, history) /\ day \in Nat
      /\ history \in Seq(AnswerOf(questions)) /\ day' = day + 1 /\ history' = history
      /\ served' = served /\ day' \in 0 .. MaxDays
  BY StudyAssumption DEF StudyInv, Shelf, Record, Lawful, Night
<1>2. PICK bought \in Nat, topic \in Topics :
        questions' = Embedded \o Batch(bought, NightRun, [i \in 1 .. bought |-> topic])
  <2> DEFINE ranked == RankBank(Embedded, history, Frontier, NightRun)
             count == IF StudiedOn(day) THEN Decide(ranked, Fill(ranked, Size), Len(history)) ELSE 0
  <2>1. PICK topic \in Topics :
          questions' = Embedded \o Batch(count, NightRun, [i \in 1 .. count |-> topic])
    BY DEF Night
  <2>2. count \in Nat
    <3> HIDE DEF ranked
    <3>1. QED
      BY DecideNat
  <2> HIDE DEF count
  <2>3. QED
    BY <2>1, <2>2
<1> DEFINE batch == Batch(bought, NightRun, [i \in 1 .. bought |-> topic])
           n == Len(questions)
<1>3. n \in Nat /\ DOMAIN questions = 1 .. n
  BY <1>1
<1>4. NightRun \in Nat /\ NightRun = 24 * day' + 3
  BY <1>1 DEF NightRun
<1>5. /\ batch \in Seq(BankRow) /\ Len(batch) = bought
      /\ \A i \in 1 .. bought : batch[i] = [born |-> NightRun, topic |-> topic, vec |-> None]
  <2> DEFINE topics == [i \in 1 .. bought |-> topic]
  <2>1. \A i \in 1 .. bought : topics[i] = topic /\ topics[i] \in Topics
    OBVIOUS
  <2> HIDE DEF topics
  <2>2. /\ Batch(bought, NightRun, topics) \in Seq(BankRow) /\ Len(Batch(bought, NightRun, topics)) = bought
        /\ \A i \in 1 .. bought : Batch(bought, NightRun, topics)[i]
                                   = [born |-> NightRun, topic |-> topics[i], vec |-> None]
    BY <1>4, <2>1, BatchIs
  <2>3. QED
    BY <2>1, <2>2 DEF topics
<1> HIDE DEF batch
<1>6. \A q \in 1 .. n : /\ Embedded[q] \in BankRow /\ Embedded[q].born = questions[q].born
                        /\ Embedded[q].vec = Embedded[q].topic
  <2>1. TAKE q \in 1 .. n
  <2>2. questions[q] \in BankRow /\ Embedded[q] = [questions[q] EXCEPT !.vec = questions[q].topic]
    BY <1>1, <1>3 DEF Embedded
  <2>3. QED
    BY <2>2, TopicsAre DEF BankRow
<1>7. Embedded \in Seq(BankRow) /\ Len(Embedded) = n
  <2>1. Embedded = [q \in 1 .. n |-> Embedded[q]]
    BY <1>3 DEF Embedded
  <2>2. Embedded \in [1 .. n -> BankRow]
    BY <1>6, <2>1
  <2>3. QED
    BY <1>3, <2>2, SeqDef
<1>8. /\ questions' \in Seq(BankRow) /\ Len(questions') = n + bought
      /\ \A i \in 1 .. n : questions'[i] = Embedded[i]
      /\ \A i \in n + 1 .. n + bought : questions'[i] = batch[i - n]
  <2> DEFINE first == Embedded
  <2>1. questions' = first \o batch
    BY <1>2 DEF batch
  <2>2. first \in Seq(BankRow) /\ Len(first) = n
    BY <1>7
  <2> HIDE DEF first, n
  <2>3. /\ first \o batch \in Seq(BankRow) /\ Len(first \o batch) = n + bought
        /\ \A i \in 1 .. n : (first \o batch)[i] = first[i]
        /\ \A i \in n + 1 .. n + bought : (first \o batch)[i] = batch[i - n]
    BY <1>5, <2>2
  <2>4. QED
    BY <2>1, <2>3 DEF first
<1>9. DOMAIN questions' = 1 .. n + bought /\ DOMAIN questions \subseteq DOMAIN questions'
  <2>1. bought \in Nat
    OBVIOUS
  <2> HIDE DEF n
  <2>2. QED
    BY <1>3, <1>8, <2>1
<1>10. \A q \in 1 .. n : questions'[q].born = questions[q].born
  BY <1>6, <1>8
<1>11. Shelf'
  <2>1. SUFFICES ASSUME NEW q \in 1 .. n + bought
                 PROVE  /\ questions'[q].born \in Nat /\ questions'[q].born <= 24 * day' + 10
                        /\ questions'[q].vec \in {None, questions'[q].topic}
    BY <1>8, <1>9 DEF Shelf
  <2>0. q \in 1 .. n \/ q \in n + 1 .. n + bought
    <3> HIDE DEF n
    <3>1. QED
      BY <1>3, <2>1
  <2>2. CASE q \in 1 .. n
    <3>1. questions[q].born \in Nat /\ questions[q].born <= 24 * day + 10
      BY <1>3, <2>2 DEF StudyInv, Shelf
    <3>2. QED
      BY <1>1, <1>6, <1>8, <2>2, <3>1
  <2>3. CASE q \in n + 1 .. n + bought
    <3>1. q - n \in 1 .. bought
      BY <1>2, <1>3, <2>3
    <3>2. questions'[q] = [born |-> NightRun, topic |-> topic, vec |-> None]
      BY <1>5, <1>8, <2>3, <3>1
    <3>3. QED
      BY <1>1, <1>4, <3>2
  <2>4. QED
    BY <2>0, <2>2, <2>3
<1>12. Record'
  <2> DEFINE m == Len(history)
  <2>1. m \in Nat /\ DOMAIN history = 1 .. m
    BY <1>1
  <2>2. \A i \in 1 .. m : history[i] \in AnswerOf(questions)
    BY <1>1, <2>1
  <2>3. \A i \in 1 .. m : history[i] \in AnswerOf(questions')
    BY <1>9, <2>2 DEF AnswerOf
  <2>4. history \in Seq(AnswerOf(questions'))
    <3>1. history \in [1 .. m -> AnswerOf(questions')]
      <4>1. history = [i \in 1 .. m |-> history[i]]
        BY <1>1, <2>1
      <4>2. QED
        BY <2>3, <4>1
    <3>2. QED
      BY <2>1, <3>1, SeqDef
  <2>5. \A i \in 1 .. m : questions'[history[i].q].born <= history[i].at
    <3>1. \A i \in 1 .. m : history[i].q \in 1 .. n
      BY <1>3, <2>2 DEF AnswerOf
    <3>2. \A i \in 1 .. m : questions[history[i].q].born <= history[i].at
      BY <1>1, <2>1 DEF Lawful
    <3>3. QED
      BY <1>10, <3>1, <3>2
  <2>6. \A i \in 1 .. m : history[i].at <= 24 * day' + LessonHour
    <3>1. \A i \in 1 .. m : history[i].at <= 24 * day + LessonHour /\ history[i].at \in Int
      BY <2>1, <2>2 DEF StudyInv, Record, AnswerOf
    <3>2. QED
      BY <1>1, <3>1 DEF LessonHour
  <2>7. \A i, k \in DOMAIN history : i <= k => history[i].at <= history[k].at
    BY <1>1 DEF Lawful
  <2>8. QED
    BY <1>1, <2>1, <2>4, <2>5, <2>6, <2>7 DEF Record, Lawful
<1>13. ToSet(served') \subseteq DOMAIN questions'
  BY <1>1, <1>9 DEF StudyInv
<1>14. QED
  BY <1>1, <1>11, <1>12, <1>13 DEF StudyInv

-----------------------------------------------------------------------------
(* The theorems of the days.                                               *)

\* The invariant holds in every state of the specification.
THEOREM StudyInductive == StudySpec => []StudyInv
<1>1. StudyInv /\ UNCHANGED study => StudyInv'
  BY DEF StudyInv, Shelf, Record, Lawful, AnswerOf, ToSet, study
<1>2. StudyInv /\ [StudyNext]_study => StudyInv'
  BY <1>1, TakeKeeps, NightKeeps DEF StudyNext, Done
<1>3. QED
  BY StudyInvInit, <1>2, PTL DEF StudySpec

\* Every variable of the days keeps its type.
THEOREM StudyTypeCorrect == StudySpec => []StudyTypeOK
<1>1. StudyInv => StudyTypeOK
  <2> SUFFICES ASSUME StudyInv PROVE StudyTypeOK
    OBVIOUS
  <2>1. \A q \in DOMAIN questions :
           /\ questions[q].born \in Nat /\ questions[q].topic \in Topics
           /\ questions[q].vec \in {None, questions[q].topic}
    <3>1. \A q \in DOMAIN questions : questions[q] \in BankRow
      BY DEF StudyInv, Shelf
    <3>2. QED
      BY <3>1 DEF StudyInv, Shelf, BankRow
  <2>2. \A i \in DOMAIN history : history[i].q \in DOMAIN questions /\ history[i].right \in BOOLEAN
    <3>1. \A i \in DOMAIN history : history[i] \in AnswerOf(questions)
      BY DEF StudyInv, Record, Lawful
    <3>2. QED
      BY <3>1 DEF AnswerOf
  <2>3. QED
    BY <2>1, <2>2 DEF StudyTypeOK, StudyInv
<1>2. QED
  BY StudyInductive, <1>1, PTL

\* The anchor a question is given is the rating its student had when it was
\* stored, whatever he answers or is bought later (rasch.replay).
THEOREM AnchorsStand == StudySpec => []AnchoredAtBirth
<1>1. StudyInv => AnchoredAtBirth
  <2> SUFFICES ASSUME StudyInv, NEW q \in DOMAIN questions
               PROVE  Replay(questions, history).difficulty[q].anchor
                         = Replay(questions, AnswersBefore(questions[q].born)).rating
    BY DEF AnchoredAtBirth
  <2>1. questions \in Seq(BankRow) /\ Lawful(questions, history)
    BY DEF StudyInv, Shelf, Record
  <2>2. QED
    BY <2>1, AnchorIs DEF AnswersBefore
<1>2. QED
  BY StudyInductive, <1>1, PTL

\* The streak counted forward, day by day, is the rule as it is written:
\* the days studied since the last third missed day of a week.
THEOREM StreakHolds == StudySpec => []StreakIsTheRule
<1>1. StreakIsTheRule
  <2> SUFFICES ASSUME NEW studied \in (SUBSET (3..15)) \ {{}}
               PROVE  CurrentStreak(studied, 15) = StreakRule(studied, 15)
    BY DEF StreakIsTheRule
  <2> DEFINE since == 3
             today == 15
  <2>1. studied \in SUBSET (since .. today) /\ studied # {} /\ since \in Int /\ today \in Int
    OBVIOUS
  <2> HIDE DEF since, today
  <2>2. CurrentStreak(studied, today) = StreakRule(studied, today)
    BY <2>1, StreakCounts
  <2>3. QED
    BY <2>2 DEF today
<1>2. QED
  BY <1>1, PTL

\* Two questions alike in every term but how they differ from the lesson: the
\* one that repeats a question taken is worth less than one unlike them all.
LEMMA RewordingLoses ==
    ASSUME NEW ranked \in Seq(Entry), NEW taken \in SUBSET DOMAIN ranked,
           NEW i \in taken, NEW j \in DOMAIN ranked, NEW k \in DOMAIN ranked,
           ranked[i].vec # None, ranked[j].vec = ranked[i].vec, ranked[k].vec # None,
           ranked[j].threshold = ranked[k].threshold, ranked[j].forgetting = ranked[k].forgetting,
           ranked[j].novelty = ranked[k].novelty, ranked[j].frontier <= ranked[k].frontier,
           \A c \in taken : ~ (Cosine(ranked[k].vec, ranked[c].vec) > 0)
    PROVE  Worth(ranked, taken, j) < Worth(ranked, taken, k)
<1>1. /\ \A q \in DOMAIN ranked : ranked[q] \in Entry
      /\ \A q \in DOMAIN ranked : ranked[q].vec \in Directions
  <2>1. \A q \in DOMAIN ranked : ranked[q] \in Entry
    OBVIOUS
  <2>2. QED
    BY <2>1 DEF Entry
<1>2. i \in DOMAIN ranked /\ ranked[i].vec \in 0 .. 7 /\ ranked[k].vec \in 0 .. 7
  BY <1>1 DEF Directions
<1>3. Diversity(ranked, taken, j) = 0
  <2> DEFINE same == Compared(ranked, taken, j)
  <2>1. Cosine(ranked[j].vec, ranked[i].vec) = 1000
    BY <1>2, CosineIs
  <2>2. 1000 \in same
    BY <2>1, NoneAssumption DEF Compared
  <2>3. same \subseteq {1000, 707, 0, -707, -1000} /\ Max(same) \in same /\ \A x \in same : x <= Max(same)
    BY <2>2, ComparedMax
  <2>3a. Max(same) \in Int /\ Max(same) <= 1000
    BY <2>2, ComparedMax
  <2>4. Diversity(ranked, taken, j) = IF same = {} THEN Neutral ELSE 1000 - Clamp(Max(same), 0, 1000)
    BY DEF Diversity, Compared
  <2> HIDE DEF same
  <2>5. Max(same) = 1000
    <3>1. 1000 <= Max(same)
      BY <2>2, <2>3
    <3>2. QED
      BY <2>3a, <3>1
  <2>6. Clamp(1000, 0, 1000) = 1000
    BY DEF Clamp
  <2>7. QED
    BY <2>2, <2>4, <2>5, <2>6
<1>4. Diversity(ranked, taken, k) = 1000
  <2> DEFINE unlike == Compared(ranked, taken, k)
  <2>1. Cosine(ranked[k].vec, ranked[i].vec) \in {1000, 707, 0, -707, -1000}
    BY <1>2, CosineIs, NoneAssumption DEF Directions
  <2>2. unlike # {}
    <3>1. Cosine(ranked[k].vec, ranked[i].vec) # None
      BY <2>1, NoneAssumption
    <3>2. Cosine(ranked[k].vec, ranked[i].vec) \in unlike
      BY <3>1 DEF Compared
    <3>3. QED
      BY <3>2
  <2>3. unlike \subseteq {1000, 707, 0, -707, -1000} /\ Max(unlike) \in unlike
    BY <2>2, ComparedMax
  <2>3a. Max(unlike) \in Int
    BY <2>2, ComparedMax
  <2>4. \A x \in unlike : ~ (x > 0)
    BY DEF Compared
  <2>5. Diversity(ranked, taken, k)
           = IF unlike = {} THEN Neutral ELSE 1000 - Clamp(Max(unlike), 0, 1000)
    BY DEF Diversity, Compared
  <2> HIDE DEF unlike
  <2>6. Max(unlike) \in Int /\ ~ (Max(unlike) > 0)
    BY <2>3, <2>3a, <2>4
  <2>7. Clamp(Max(unlike), 0, 1000) = 0
    BY <2>6 DEF Clamp
  <2>8. QED
    BY <2>2, <2>5, <2>7
<1>5. /\ ranked[j].frontier \in Int /\ ranked[k].frontier \in Int /\ ranked[k].threshold \in Int
      /\ ranked[k].forgetting \in Int /\ ranked[k].novelty \in Int
  BY <1>1 DEF Entry
<1>6. /\ Worth(ranked, taken, j) = 10 * ranked[j].threshold + 8 * ranked[j].forgetting
                                   + 4 * ((ranked[j].frontier + 0) \div 2) + 5 * ranked[j].novelty
      /\ Worth(ranked, taken, k) = 10 * ranked[k].threshold + 8 * ranked[k].forgetting
                                   + 4 * ((ranked[k].frontier + 1000) \div 2) + 5 * ranked[k].novelty
  BY <1>3, <1>4 DEF Worth, Score, Weight
<1>7. (ranked[j].frontier + 0) \div 2 < (ranked[k].frontier + 1000) \div 2
  <2> DEFINE x == ranked[j].frontier
             y == ranked[k].frontier
  <2>1. x \in Int /\ y \in Int /\ x <= y
    BY <1>5
  <2> HIDE DEF x, y
  <2>2. (x + 0) \div 2 < (y + 1000) \div 2
    BY <2>1
  <2>3. QED
    BY <2>2 DEF x, y
<1> DEFINE a == ranked[k].threshold
           b == ranked[k].forgetting
           c == ranked[k].novelty
           u == (ranked[j].frontier + 0) \div 2
           v == (ranked[k].frontier + 1000) \div 2
<1>8. a \in Int /\ b \in Int /\ c \in Int /\ u \in Int /\ v \in Int /\ u < v
  <2>1. u \in Int
    BY <1>5
  <2>2. v \in Int
    BY <1>5
  <2>3. QED
    BY <1>5, <1>7, <2>1, <2>2
<1>9. /\ Worth(ranked, taken, j) = 10 * a + 8 * b + 4 * u + 5 * c
      /\ Worth(ranked, taken, k) = 10 * a + 8 * b + 4 * v + 5 * c
  BY <1>6
<1> HIDE DEF a, b, c, u, v
<1>10. QED
  BY <1>8, <1>9

\* No lesson holds two wordings of one question while an equal question about
\* something else is left out (selection.py, the diversity term of the fill).
THEOREM NothingReworded == StudySpec => NoRewordingFirst
<1> DEFINE Fresh(q) == (\A n \in DOMAIN history : history[n].q # q) /\ questions[q].vec # None
           Alike(i, j, k) ==
              /\ i # j /\ questions[i].vec = questions[j].vec
              /\ Fresh(i) /\ Fresh(j) /\ Fresh(k)
              /\ questions[i].born = questions[k].born /\ questions[j].born = questions[k].born
              /\ Affinity(questions[k].vec, Frontier) >= Affinity(questions[j].vec, Frontier)
           Spoken(k) == \E c \in ToSet(served') : Cosine(questions[k].vec, questions[c].vec) > 0
<1>1. ASSUME StudyInv, TakeLesson,
             NEW a \in DOMAIN served', NEW b \in DOMAIN served', a < b,
             NEW k \in DOMAIN questions \ ToSet(served'),
             questions[served'[a]].vec = questions[served'[b]].vec,
             Fresh(served'[a]), Fresh(served'[b]), Fresh(k),
             questions[served'[b]].born = questions[k].born,
             Affinity(questions[k].vec, Frontier) >= Affinity(questions[served'[b]].vec, Frontier),
             ~ Spoken(k)
      PROVE  FALSE
  <2> DEFINE i == served'[a]
             j == served'[b]
             taken == Ahead(served', b)
             ranked == Ranking
  <2>1. /\ ranked \in Seq(Entry) /\ DOMAIN ranked = DOMAIN questions
        /\ \A q \in DOMAIN questions : EntryIs(ranked[q], questions, history, Frontier, Noon, q)
        /\ served' \in Seq(DOMAIN questions) /\ Greedy(ranked, served')
    BY <1>1, LessonIs
  <2>2. DOMAIN served' = 1 .. Len(served') /\ Len(served') \in Nat
    BY <2>1
  <2>3. i \in taken /\ taken \subseteq ToSet(served') /\ taken \in SUBSET DOMAIN ranked
    <3>1. a \in 1 .. b - 1 /\ \A m \in 1 .. b - 1 : m \in DOMAIN served' /\ served'[m] \in DOMAIN ranked
      BY <1>1, <2>1, <2>2
    <3>2. QED
      BY <3>1 DEF Ahead, ToSet
  <2>4. j \in DOMAIN questions /\ k \in DOMAIN ranked \ taken
    BY <1>1, <2>1, <2>3
  <2>5. Worth(ranked, taken, k) <= Worth(ranked, taken, j)
    BY <1>1, <2>1, <2>2, <2>4 DEF Greedy
  <2>6. Unasked(history, j) /\ Unasked(history, k)
    BY <1>1 DEF Unasked
  <2>7. questions \in Seq(BankRow) /\ history \in Seq(AnswerOf(questions)) /\ Lawful(questions, history)
    BY <1>1 DEF StudyInv, Shelf, Record, Lawful
  <2>8. questions[j].born = questions[k].born /\ i \in DOMAIN questions
    BY <1>1, <2>1
  <2> HIDE DEF i, j, taken, ranked
  <2>9. Replay(questions, history).difficulty[j] = Replay(questions, history).difficulty[k]
    <3>1. Replay(questions, history).difficulty[j].anchor = Replay(questions, history).difficulty[k].anchor
      <4>1. k \in DOMAIN questions
        BY <2>1, <2>4
      <4>2. Replay(questions, history).difficulty[j].anchor
               = Replay(questions, AnswersBefore(questions[j].born)).rating
        BY <2>4, <2>7, AnchorIs DEF AnswersBefore
      <4>3. Replay(questions, history).difficulty[k].anchor
               = Replay(questions, AnswersBefore(questions[k].born)).rating
        BY <2>7, <4>1, AnchorIs DEF AnswersBefore
      <4>4. QED
        BY <2>8, <4>2, <4>3
    <3>2. QED
      BY <2>1, <2>4, <2>6, <2>7, <3>1, ReplayIs
  <2>10. Recall(history, j, Noon) = NoRecall /\ Recall(history, k, Noon) = NoRecall
    BY <2>6, <2>7, RecallIs
  <2>11. /\ \A q \in DOMAIN ranked : ranked[q].vec = questions[q].vec
         /\ \A q \in DOMAIN ranked : ranked[q].frontier = Affinity(questions[q].vec, Frontier)
    BY <2>1 DEF EntryIs
  <2>12. /\ ranked[j].threshold = ranked[k].threshold /\ ranked[j].forgetting = ranked[k].forgetting
         /\ ranked[j].novelty = ranked[k].novelty
    <3>1. /\ EntryIs(ranked[j], questions, history, Frontier, Noon, j)
          /\ EntryIs(ranked[k], questions, history, Frontier, Noon, k)
      BY <2>1, <2>4
    <3>2. ranked[j].threshold = ranked[k].threshold
      BY <2>9, <3>1, Zenon DEF EntryIs
    <3>3. ranked[j].forgetting = ranked[k].forgetting
      BY <2>10, <3>1, Zenon DEF EntryIs
    <3>4. ranked[j].novelty = ranked[k].novelty
      <4>1. /\ ranked[j].novelty = IF Recall(history, j, Noon).at = None THEN 1000 ELSE 0
            /\ ranked[k].novelty = IF Recall(history, k, Noon).at = None THEN 1000 ELSE 0
        BY <3>1, Zenon DEF EntryIs
      <4>2. QED
        BY <2>10, <4>1
    <3>5. QED
      BY <3>2, <3>3, <3>4
  <2>13. \A c \in taken : ~ (Cosine(ranked[k].vec, ranked[c].vec) > 0)
    <3>1. \A c \in taken : ~ (Cosine(questions[k].vec, questions[c].vec) > 0)
      BY <1>1, <2>3
    <3>2. QED
      BY <2>3, <2>4, <2>11, <3>1
  <2>14. ranked[j].frontier <= ranked[k].frontier
    <3>1. ranked[j].frontier \in Int /\ ranked[k].frontier \in Int
      <4>1. ranked[j] \in Entry /\ ranked[k] \in Entry
        BY <2>1, <2>4
      <4>2. QED
        BY <4>1 DEF Entry
    <3>2. Affinity(questions[k].vec, Frontier) >= Affinity(questions[j].vec, Frontier)
      BY <1>1 DEF j
    <3>3. ranked[j].frontier = Affinity(questions[j].vec, Frontier)
          /\ ranked[k].frontier = Affinity(questions[k].vec, Frontier)
      BY <2>1, <2>4, <2>11
    <3>4. QED
      BY <3>1, <3>2, <3>3
  <2>15. ranked[i].vec # None /\ ranked[j].vec = ranked[i].vec /\ ranked[k].vec # None
    <3>1. questions[i].vec # None /\ questions[j].vec = questions[i].vec /\ questions[k].vec # None
      BY <1>1 DEF i, j
    <3>2. QED
      BY <2>1, <2>4, <2>8, <2>11, <3>1
  <2>16. Worth(ranked, taken, j) < Worth(ranked, taken, k)
    BY <2>1, <2>3, <2>4, <2>12, <2>13, <2>14, <2>15, RewordingLoses
  <2>17. Worth(ranked, taken, j) \in Int /\ Worth(ranked, taken, k) \in Int
    BY <2>1, <2>3, <2>4, WorthInt
  <2>18. QED
    BY <2>5, <2>16, <2>17
<1>2. ASSUME StudyInv, TakeLesson, NEW i \in ToSet(served'), NEW j \in ToSet(served'),
             NEW k \in DOMAIN questions \ ToSet(served'), Alike(i, j, k)
      PROVE  Spoken(k)
  <2>1. SUFFICES ASSUME ~ Spoken(k) PROVE FALSE
    OBVIOUS
  <2>2. PICK a \in DOMAIN served', b \in DOMAIN served' : served'[a] = i /\ served'[b] = j
    BY DEF ToSet
  <2>3. a \in Int /\ b \in Int /\ a # b
    <3>1. served' \in Seq(DOMAIN questions)
      BY <1>2, LessonIs
    <3>2. QED
      BY <1>2, <2>2, <3>1
  <2> HIDE DEF Spoken, Fresh
  <2>4. CASE a < b
    BY <1>1, <1>2, <2>1, <2>2, <2>4
  <2>5. CASE b < a
    BY <1>1, <1>2, <2>1, <2>2, <2>5
  <2>6. QED
    BY <2>3, <2>4, <2>5
<1>3. StudyInv /\ [StudyNext]_study
        => [TakeLesson => \A i, j \in ToSet(served'), k \in DOMAIN questions \ ToSet(served') :
                             Alike(i, j, k) => Spoken(k)]_study
  BY <1>2
<1>4. QED
  BY StudyInductive, <1>3, PTL DEF StudySpec, NoRewordingFirst

=============================================================================
