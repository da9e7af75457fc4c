---------------------------- MODULE SignInProofs ----------------------------
(***************************************************************************)
(* The safety of the sign-ins, for any number of sign-ins and calls, any   *)
(* languages, and any max-age of Google's certificates.                    *)
(*                                                                         *)
(* The argument has four parts.  Certificates without the next key are     *)
(* stale before that key signs, unless an answer was kept late.  Of two    *)
(* requests under way each knows the other's kind and language.  So what   *)
(* a request saw of the row is still so, or it has met whoever changed it; *)
(* and the language it says is the row's once it will not write it any     *)
(* more, or it has met whoever said another.                               *)
(***************************************************************************)
EXTENDS SignIn, FiniteSetTheorems, FunctionTheorems, TLAPS

-----------------------------------------------------------------------------
(* The inductive invariant, in named parts.                                *)

\* The next key signs only when no answer without it is fresh, and without a
\* slow answer what is kept is what its own age says.
KeyIsPublic(moment) == moment + 1 >= Published + MaxAge

CertsKnow == slow \/ kept.new \/ kept.until < Published + MaxAge

FormIsGenuine(r) ==
    /\ req[r].form = "new" => KeyIsPublic(now) /\ (At(r, "fetch") => KeyIsPublic(req[r].asked))
    /\ At(r, "userinfo") => req[r].form = "access"

Certs == CertsKnow /\ (\A r \in Request : FormIsGenuine(r)) /\ GenuineIsNotRejected

\* Of two requests under way each knows the other's kind and language.
Lang(r) == {req[r].lang} \ {None}
Under(r) == req[r].pc \notin {"idle", "done"}

Meets(r, u) ==
    Under(r) /\ Under(u) => req[u].kind \in req[r].beside /\ Lang(u) \subseteq req[r].said

Company ==
    /\ \A r \in Request : IsFiniteSet(req[r].said) /\ (Under(r) => Lang(r) \subseteq req[r].said)
    /\ \A r, u \in Request : r # u => Meets(r, u)

\* What a request saw of the row is so, or somebody it met has changed it.
HasRow(r) == (At(r, "write") /\ ~req[r].creates) \/ At(r, "reload") \/ At(r, "body")

SawRow(r) ==
    HasRow(r) => req[r].saw # 0 /\ (account = req[r].saw \/ "delete" \in req[r].beside)

SawNobody(r) ==
    req[r].creates =>
        /\ req[r].pc \in {"write", "reload", "done"}
        /\ At(r, "write") => req[r].kind = "signup" /\ (account = 0 \/ "signup" \in req[r].beside)

Row == FailsOnlyByOverlap /\ \A r \in Request : SawRow(r) /\ SawNobody(r)

\* The language of a request that writes it no more is the row's, unless those
\* it met disagree.
Disagree(r) == Cardinality(req[r].said) > 1

SaidIt(r) ==
    /\ At(r, "write") /\ req[r].changes => req[r].lang # None
    /\ \/ At(r, "write") /\ ~req[r].creates /\ ~req[r].changes
       \/ At(r, "body")
       => (req[r].lang # None /\ account = req[r].saw => language = req[r].lang \/ Disagree(r))

Word == LanguageIsTheLast /\ \A r \in Request : SaidIt(r)

IInv == TypeOK /\ Certs /\ Company /\ Row /\ Word

-----------------------------------------------------------------------------
(* What a step does to the one request it serves.                          *)

LEMMA IdleTyped == Idle \in Requests
BY DEF Idle, Requests, PC, Answer

\* The record of a request is one, and so are its successors.
LEMMA Fields ==
    ASSUME TypeOK, NEW r \in Request
    PROVE  /\ req[r].kind \in {"none", "signup", "login", "use", "delete"}
           /\ req[r].lang \in Language \cup {None} /\ req[r].pc \in PC
           /\ req[r].asked \in Nat /\ req[r].saw \in Nat /\ req[r].creates \in BOOLEAN
           /\ req[r].changes \in BOOLEAN /\ req[r].said \subseteq Language
           /\ req[r].form \in {"none", "old", "new", "access", "refused", "valid", "expired"}
           /\ req[r].beside \subseteq {"signup", "login", "use", "delete"}
           /\ req[r].answer \in Answer
BY DEF TypeOK, Requests

\* A record of a request in which one field is another of its type is one.
LEMMA Updated ==
    ASSUME NEW x \in Requests
    PROVE  /\ \A v \in PC : [x EXCEPT !.pc = v] \in Requests
           /\ \A v \in Nat : [x EXCEPT !.asked = v] \in Requests /\ [x EXCEPT !.saw = v] \in Requests
           /\ \A v \in BOOLEAN : [x EXCEPT !.creates = v] \in Requests /\ [x EXCEPT !.changes = v] \in Requests
           /\ \A v \in Answer : [x EXCEPT !.answer = v] \in Requests
           /\ [x EXCEPT !.lang = None] \in Requests /\ [x EXCEPT !.said = {}] \in Requests
<1>1. \A v \in PC : [x EXCEPT !.pc = v] \in Requests
  BY DEF Requests
<1>2. \A v \in Nat : [x EXCEPT !.asked = v] \in Requests /\ [x EXCEPT !.saw = v] \in Requests
  BY DEF Requests
<1>3. \A v \in BOOLEAN : [x EXCEPT !.creates = v] \in Requests /\ [x EXCEPT !.changes = v] \in Requests
  BY DEF Requests
<1>4. \A v \in Answer : [x EXCEPT !.answer = v] \in Requests
  BY DEF Requests
<1>5. [x EXCEPT !.lang = None] \in Requests /\ [x EXCEPT !.said = {}] \in Requests
  BY DEF Requests
<1>6. QED
  BY <1>1, <1>2, <1>3, <1>4, <1>5

LEMMA OneMoves ==
    ASSUME TypeOK, NEW r \in Request, NEW new, req' = [req EXCEPT ![r] = new]
    PROVE  req'[r] = new /\ \A t \in Request : t # r => req'[t] = req[t]
BY DEF TypeOK

LEMMA MovedTyped ==
    ASSUME TypeOK, NEW r \in Request, NEW new \in Requests, req' = [req EXCEPT ![r] = new]
    PROVE  req' \in [Request -> Requests]
BY DEF TypeOK

\* A step leaves the others' records alone.
Others(r) == \A t \in Request : t # r => req'[t] = req[t]

\* It goes on, and is what it was.
GoesOn(r) ==
    /\ req' \in [Request -> Requests] /\ Others(r)
    /\ req'[r].kind = req[r].kind /\ req'[r].form = req[r].form /\ req'[r].lang = req[r].lang
    /\ req'[r].beside = req[r].beside /\ req'[r].said = req[r].said
    /\ req'[r].answer = req[r].answer

LEMMA GoesTo ==
    ASSUME TypeOK, NEW r \in Request, NEW pc \in PC, Goes(r, pc)
    PROVE  /\ GoesOn(r) /\ req'[r].pc = pc
           /\ req'[r].asked = req[r].asked /\ req'[r].saw = req[r].saw
           /\ req'[r].creates = req[r].creates /\ req'[r].changes = req[r].changes
<1>1. [req[r] EXCEPT !.pc = pc] \in Requests
  BY DEF TypeOK, Requests
<1>2. req' = [req EXCEPT ![r] = [req[r] EXCEPT !.pc = pc]]
  BY DEF Goes
<1>3. /\ req' \in [Request -> Requests] /\ Others(r)
      /\ req'[r] = [req[r] EXCEPT !.pc = pc]
  BY <1>1, <1>2, OneMoves, MovedTyped DEF Others
<1>4. QED
  BY <1>3 DEF TypeOK, Requests, GoesOn

LEMMA EndedRecord ==
    ASSUME TypeOK, NEW r \in Request, NEW answer
    PROVE  /\ Ended(r, answer) \in Requests
           /\ Ended(r, answer).pc = "done" /\ Ended(r, answer).asked = 0
           /\ Ended(r, answer).saw \in {0, req[r].saw} /\ Ended(r, answer).said = {}
           /\ \/ Ended(r, answer) = [Idle EXCEPT !.pc = "done"] /\ answer \notin {"rejected", "error"}
              \/ /\ answer \in {"rejected", "error"}
                 /\ Ended(r, answer).answer = answer
                 /\ Ended(r, answer).form = req[r].form
                 /\ Ended(r, answer).kind = req[r].kind
                 /\ Ended(r, answer).creates = req[r].creates /\ Ended(r, answer).said = {}
                 /\ Ended(r, answer).beside = req[r].beside
<1>1. req[r] \in Requests
  BY DEF TypeOK
<1>3. CASE answer \in {"rejected", "error"}
  <2>1. Ended(r, answer) = [req[r] EXCEPT !.pc = "done", !.answer = answer, !.lang = None, !.said = {}, !.asked = 0]
    BY <1>3 DEF Ended
  <2>2. Ended(r, answer) \in Requests
    <3> DEFINE a == [req[r] EXCEPT !.pc = "done"]
               b == [a EXCEPT !.answer = answer]
               c == [b EXCEPT !.lang = None]
               d == [c EXCEPT !.said = {}]
    <3>1. a \in Requests
      BY <1>1, Updated DEF PC
    <3>2. b \in Requests
      BY <1>3, <3>1, Updated DEF Answer
    <3>3. d \in Requests
      BY <3>2, Updated
    <3>4. [d EXCEPT !.asked = 0] \in Requests
      BY <3>3, Updated
    <3>5. QED
      BY <2>1, <3>4
  <2>3. /\ Ended(r, answer).pc = "done" /\ Ended(r, answer).asked = 0
        /\ Ended(r, answer).answer = answer /\ Ended(r, answer).form = req[r].form
        /\ Ended(r, answer).kind = req[r].kind /\ Ended(r, answer).saw = req[r].saw
        /\ Ended(r, answer).creates = req[r].creates /\ Ended(r, answer).said = {}
        /\ Ended(r, answer).beside = req[r].beside
    BY <1>1, <2>1 DEF Requests
  <2>4. QED
    BY <1>3, <2>2, <2>3
<1>4. CASE answer \notin {"rejected", "error"}
  BY <1>4 DEF Ended, Idle, Requests, PC, Answer
<1>5. QED
  BY <1>3, <1>4

LEMMA AnswerTo ==
    ASSUME TypeOK, NEW r \in Request, NEW answer, Answered(r, answer)
    PROVE  req' \in [Request -> Requests] /\ Others(r) /\ req'[r] = Ended(r, answer)
<1>1. req' = [req EXCEPT ![r] = Ended(r, answer)]
  BY DEF Answered
<1>2. QED
  BY <1>1, EndedRecord, OneMoves, MovedTyped DEF Others

LEMMA Judgement ==
    ASSUME NEW r, NEW new, Judged(r, new)
    PROVE  \/ req[r].form = "access" /\ Goes(r, "userinfo")
           \/ req[r].form \in {"old", "new"} /\ Goes(r, "lookup")
           \/ req[r].form # "old" /\ ~(req[r].form = "new" /\ new) /\ Answered(r, "rejected")
BY DEF Judged

LEMMA AskTo ==
    ASSUME TypeOK, NEW r \in Request, Ask(r)
    PROVE  /\ GoesOn(r) /\ req'[r].pc = "fetch"
           /\ req'[r].asked = now /\ req'[r].saw = req[r].saw
           /\ req'[r].creates = req[r].creates /\ req'[r].changes = req[r].changes
<1> DEFINE new == [req[r] EXCEPT !.pc = "fetch", !.asked = now]
<1>0. req[r] \in Requests /\ now \in Nat
  BY TimeAssumption DEF TypeOK
<1>1. new \in Requests
  BY <1>0, Updated DEF PC
<1>2. req' = [req EXCEPT ![r] = new]
  BY DEF Ask
<1> HIDE DEF new
<1>3. req' \in [Request -> Requests] /\ Others(r) /\ req'[r] = new
  BY <1>1, <1>2, OneMoves, MovedTyped DEF Others
<1>4. QED
  BY <1>3 DEF TypeOK, Requests, GoesOn, new

LEMMA LookupTo ==
    ASSUME TypeOK, NEW r \in Request, Lookup(r)
    PROVE  \/ \E answer \in {"notFound", "gone"} : Answered(r, answer)
           \/ /\ GoesOn(r) /\ req'[r].asked = req[r].asked /\ req'[r].changes = Changes(r)
              /\ \/ /\ account # 0 /\ req'[r].saw = account /\ req'[r].creates = req[r].creates
                    /\ req'[r].pc = (IF req[r].kind \in SigningIn \/ Changes(r) THEN "write" ELSE "body")
                 \/ /\ account = 0 /\ req'[r].saw = req[r].saw /\ req'[r].creates /\ req'[r].pc = "write"
                    /\ req[r].kind = "signup"
<1>0. Changes(r) \in BOOLEAN
  BY DEF Changes
<1>1. CASE Finds(r)
  <2> DEFINE pc == IF req[r].kind \in SigningIn \/ Changes(r) THEN "write" ELSE "body"
             new == [req[r] EXCEPT !.saw = account, !.changes = Changes(r), !.pc = pc]
  <2>1. req' = [req EXCEPT ![r] = new]
    BY <1>1 DEF Lookup
  <2>2. new \in Requests
    BY <1>0, Updated DEF TypeOK, PC
  <2> HIDE DEF new
  <2>3. req' \in [Request -> Requests] /\ Others(r) /\ req'[r] = new
    BY <2>1, <2>2, OneMoves, MovedTyped DEF Others
  <2>4. QED
    BY <1>1, <2>3 DEF TypeOK, Requests, GoesOn, new, Finds
<1>2. CASE ~Finds(r) /\ req[r].kind = "signup"
  <2> DEFINE new == [req[r] EXCEPT !.pc = "write", !.creates = TRUE, !.changes = Changes(r)]
  <2>1. req' = [req EXCEPT ![r] = new]
    BY <1>2 DEF Lookup, Missing
  <2>2. new \in Requests
    BY <1>0, Updated DEF TypeOK, PC
  <2> HIDE DEF new
  <2>3. req' \in [Request -> Requests] /\ Others(r) /\ req'[r] = new
    BY <2>1, <2>2, OneMoves, MovedTyped DEF Others
  <2>4. QED
    BY <1>2, <2>3 DEF TypeOK, Requests, GoesOn, new, Finds
<1>3. CASE ~Finds(r) /\ req[r].kind # "signup"
  BY <1>3 DEF Lookup, Missing
<1>4. QED
  BY <1>1, <1>2, <1>3

LEMMA CreateTo ==
    ASSUME TypeOK, NEW r \in Request, Create(r), account = 0
    PROVE  /\ GoesOn(r) /\ req'[r].pc = "reload" /\ req'[r].saw = births + 1
           /\ req'[r].asked = req[r].asked
           /\ req'[r].creates = req[r].creates /\ req'[r].changes = req[r].changes
<1> DEFINE new == [req[r] EXCEPT !.saw = births + 1, !.pc = "reload"]
<1>0. req[r] \in Requests /\ births + 1 \in Nat
  BY DEF TypeOK
<1>1. new \in Requests
  BY <1>0, Updated DEF PC
<1>2. req' = [req EXCEPT ![r] = new]
  BY DEF Create
<1> HIDE DEF new
<1>3. req' \in [Request -> Requests] /\ Others(r) /\ req'[r] = new
  BY <1>1, <1>2, OneMoves, MovedTyped DEF Others
<1>4. QED
  BY <1>3 DEF TypeOK, Requests, GoesOn, new

\* An arrival: the new request, and what those under way learn of it.
Learns(t, kind, said) ==
    /\ req'[t].pc = req[t].pc /\ req'[t].kind = req[t].kind /\ req'[t].form = req[t].form
    /\ req'[t].lang = req[t].lang /\ req'[t].asked = req[t].asked /\ req'[t].saw = req[t].saw
    /\ req'[t].creates = req[t].creates /\ req'[t].changes = req[t].changes
    /\ req'[t].answer = req[t].answer
    /\ req'[t].beside = IF Under(t) THEN req[t].beside \cup {kind} ELSE req[t].beside
    /\ req'[t].said = IF Under(t) THEN req[t].said \cup said ELSE req[t].said

Fresh(x, kind, form, lang, beside, said) ==
    /\ x.kind = kind /\ x.form = form /\ x.lang = lang /\ x.beside = beside /\ x.said = said
    /\ x.pc \in {"google", "token"} /\ x.asked = 0 /\ x.saw = 0 /\ x.creates = FALSE
    /\ x.changes = FALSE /\ x.answer = "none"

Words == {req[u].lang : u \in Running} \ {None}
KindsBeside == {req[u].kind : u \in Running}

LEMMA ArriveTo ==
    ASSUME TypeOK, NEW r \in Request, NEW kind \in Kinds(r), Arrive(r, kind)
    PROVE  \E form \in Forms(kind), lang \in Languages(kind) :
              /\ req' \in [Request -> Requests]
              /\ Fresh(req'[r], kind, form, lang, KindsBeside, ({lang} \ {None}) \cup Words)
              /\ \A t \in Request : t # r => Learns(t, kind, {lang} \ {None})
<1>1. PICK form \in Forms(kind), lang \in Languages(kind) :
         req' = [t \in Request |->
                    IF t = r
                    THEN [Idle EXCEPT !.kind = kind, !.form = form, !.lang = lang,
                                      !.beside = KindsBeside,
                                      !.said = ({lang} \ {None}) \cup Words,
                                      !.pc = IF kind \in SigningIn THEN "google" ELSE "token"]
                    ELSE IF t \in Running THEN [req[t] EXCEPT !.beside = @ \cup {kind}, !.said = @ \cup ({lang} \ {None})]
                    ELSE req[t]]
  BY DEF Arrive, Words, KindsBeside
<1>2. /\ kind \in {"signup", "login", "use", "delete"}
      /\ form \in {"none", "old", "new", "access", "refused", "valid", "expired"}
      /\ lang \in Language \cup {None}
  BY DEF Kinds, Forms, Languages, SigningIn
<1>3. Words \subseteq Language /\ KindsBeside \subseteq {"signup", "login", "use", "delete"}
  <2>1. \A u \in Running : u \in Request /\ req[u].kind \in {"signup", "login", "use", "delete"} /\ req[u].lang \in Language \cup {None}
    BY Fields DEF Running, TypeOK
  <2>2. QED
    BY <2>1 DEF Words, KindsBeside
<1>4. Fresh(req'[r], kind, form, lang, KindsBeside, ({lang} \ {None}) \cup Words)
  BY <1>1 DEF Idle, Fresh
<1>5. req'[r] \in Requests
  <2> DEFINE pc == IF kind \in SigningIn THEN "google" ELSE "token"
             said == ({lang} \ {None}) \cup Words
  <2>1. pc \in PC /\ said \subseteq Language
    BY <1>2, <1>3 DEF PC
  <2>2. req'[r] = [kind |-> kind, form |-> form, lang |-> lang, pc |-> pc, asked |-> 0,
                   saw |-> 0, creates |-> FALSE, changes |-> FALSE, answer |-> "none",
                   beside |-> KindsBeside, said |-> said]
    BY <1>1 DEF Idle
  <2> HIDE DEF pc, said
  <2>3. QED
    BY <1>2, <1>3, <2>1, <2>2 DEF Requests, Answer
<1>6. ASSUME NEW t \in Request, t # r
      PROVE  req'[t] \in Requests /\ Learns(t, kind, {lang} \ {None})
  <2>1. CASE t \in Running
    <3>1. req'[t] = [req[t] EXCEPT !.beside = @ \cup {kind}, !.said = @ \cup ({lang} \ {None})]
      BY <1>1, <1>6, <2>1
    <3>2. req[t] \in Requests /\ Under(t)
      BY <2>1 DEF TypeOK, Running, Under
    <3>3. Learns(t, kind, {lang} \ {None})
      BY <3>1, <3>2 DEF Requests, Learns
    <3> DEFINE a == [req[t] EXCEPT !.beside = @ \cup {kind}]
    <3>4. a \in Requests
      BY <1>2, <3>2 DEF Requests
    <3>5. a.said = req[t].said
      BY <3>2 DEF Requests
    <3>6. req'[t] = [a EXCEPT !.said = @ \cup ({lang} \ {None})]
      BY <3>1
    <3> HIDE DEF a
    <3>7. req'[t] \in Requests
      BY <1>2, <3>4, <3>6 DEF Requests
    <3>8. QED
      BY <3>3, <3>7
  <2>2. CASE t \notin Running
    BY <1>1, <1>6, <2>2 DEF Learns, TypeOK, Running, Under
  <2>3. QED
    BY <2>1, <2>2
<1>7. req' \in [Request -> Requests]
  <2>1. \A t \in Request : req'[t] \in Requests
    BY <1>5, <1>6
  <2>2. QED
    BY <1>1, <2>1
<1>8. QED
  BY <1>4, <1>6, <1>7

-----------------------------------------------------------------------------
(* Types.                                                                  *)

\* The part of TypeOK about the requests.
ReqTyped ==
    /\ req \in [Request -> Requests]
    /\ \A t \in Request :
          /\ req[t].asked <= now /\ req[t].saw <= births
          /\ req[t].pc \notin {"idle", "done"} => req[t].kind # "none"

LEMMA TypeInit == Init => TypeOK
<1> SUFFICES ASSUME Init
             PROVE  TypeOK
  OBVIOUS
<1>1. req \in [Request -> Requests] /\ \A r \in Request : req[r] = Idle
  BY IdleTyped DEF Init
<1>2. kept \in [until : Nat, new : BOOLEAN] /\ slow \in BOOLEAN
  BY DEF Init
<1>3. now \in 0 .. MaxTime /\ now = 0 /\ births = 0 /\ account \in {0, births} /\ births \in Nat
  BY TimeAssumption DEF Init
<1>4. language \in Language \cup {None} /\ settled \in Language \cup {None, "open"}
  BY DEF Init
<1>5. \A r \in Request : req[r].asked = 0 /\ req[r].saw = 0 /\ req[r].pc = "idle"
  BY <1>1 DEF Idle
<1>6. QED
  BY <1>1, <1>2, <1>3, <1>4, <1>5 DEF TypeOK

\* A step that serves r, seen by the types.
LEMMA TypeOfMove ==
    ASSUME TypeOK, NEW r \in Request, Under(r), Others(r), req' \in [Request -> Requests],
           req'[r].asked <= now, req'[r].saw <= births',
           req'[r].kind = req[r].kind \/ req'[r].pc = "done",
           now' = now, births' \in {births, births + 1}
    PROVE  ReqTyped'
<1> SUFFICES ASSUME NEW t \in Request
             PROVE  /\ req'[t].asked <= now' /\ req'[t].saw <= births'
                    /\ req'[t].pc \notin {"idle", "done"} => req'[t].kind # "none"
  BY DEF ReqTyped
<1>1. CASE t = r
  BY <1>1 DEF TypeOK, Under
<1>2. CASE t # r
  <2>1. req'[t] = req[t] /\ req[t].saw \in Nat /\ births \in Nat /\ req[t].saw <= births
    BY <1>2, Fields DEF Others, TypeOK
  <2>2. QED
    BY <2>1 DEF TypeOK
<1>3. QED
  BY <1>1, <1>2

\* An answer, whatever becomes of the row.
LEMMA TypeOfAnswer ==
    ASSUME TypeOK, NEW r \in Request, NEW answer, Answered(r, answer), Under(r), now' = now,
           births' \in {births, births + 1}
    PROVE  ReqTyped'
<1>1. req' \in [Request -> Requests] /\ Others(r) /\ req'[r] = Ended(r, answer)
  BY AnswerTo
<1>2. Ended(r, answer).asked = 0 /\ Ended(r, answer).saw \in {0, req[r].saw} /\ Ended(r, answer).pc = "done"
  BY EndedRecord
<1>3. now \in Nat /\ births \in Nat /\ req[r].saw \in Nat
  BY TimeAssumption, Fields DEF TypeOK
<1>4. req'[r].asked <= now /\ req'[r].saw <= births' /\ req'[r].pc = "done"
  BY <1>1, <1>2, <1>3 DEF TypeOK
<1>5. QED
  BY <1>1, <1>4, TypeOfMove

LEMMA TypeOfGoes ==
    ASSUME TypeOK, NEW r \in Request, NEW pc \in PC, Goes(r, pc), Under(r), now' = now, births' = births
    PROVE  ReqTyped'
<1>1. GoesOn(r) /\ req'[r].asked <= now /\ req'[r].saw <= births'
  BY GoesTo DEF TypeOK
<1>2. QED
  BY <1>1, TypeOfMove DEF GoesOn

LEMMA TypeOfJudged ==
    ASSUME TypeOK, NEW r \in Request, NEW new, Judged(r, new), Under(r), now' = now, births' = births
    PROVE  ReqTyped'
BY Judgement, TypeOfAnswer, TypeOfGoes DEF PC

LEMMA TypeStep == ASSUME TypeOK, [Next]_vars PROVE TypeOK'
<1>0. now \in Nat /\ births \in Nat /\ \A t \in Request : req[t].asked \in Nat /\ req[t].saw \in Nat
  BY TimeAssumption, Fields DEF TypeOK
<1>1. ASSUME Tick PROVE TypeOK'
  <2>1. now' \in 0 .. MaxTime /\ now' = now + 1
    BY <1>0, <1>1, TimeAssumption DEF Tick, TypeOK
  <2>2. QED
    BY <1>0, <1>1, <2>1 DEF Tick, TypeOK, certs, row
<1>2. ASSUME NEW r \in Request, NEW kind \in Kinds(r), Arrive(r, kind) PROVE TypeOK'
  <2>1. /\ req' \in [Request -> Requests] /\ req'[r].asked = 0 /\ req'[r].saw = 0 /\ req'[r].kind = kind
        /\ \A t \in Request : t # r => /\ req'[t].asked = req[t].asked /\ req'[t].saw = req[t].saw
                                      /\ req'[t].kind = req[t].kind /\ req'[t].pc = req[t].pc
    BY <1>2, ArriveTo DEF Fresh, Learns
  <2>2. kind # "none"
    BY DEF Kinds, SigningIn
  <2>3. now' = now /\ UNCHANGED <<certs, row>>
    BY <1>2 DEF Arrive
  <2>4. ReqTyped'
    BY <1>0, <2>1, <2>2, <2>3 DEF TypeOK, row, ReqTyped
  <2>5. QED
    BY <2>3, <2>4 DEF TypeOK, certs, row, ReqTyped
\* What leaves the row and the certificates alone.
<1>3. ASSUME ReqTyped', UNCHANGED <<now, certs, row>>
      PROVE  TypeOK'
  BY <1>3 DEF TypeOK, ReqTyped, certs, row
<1>4. ASSUME NEW r \in Request, Recall(r) PROVE TypeOK'
  <2>1. ReqTyped'
    BY <1>4, TypeOfJudged DEF Recall, At, Under, row
  <2>2. QED
    BY <1>3, <1>4, <2>1 DEF Recall
<1>5. ASSUME NEW r \in Request, FetchFails(r) \/ Reload(r) PROVE TypeOK'
  <2>1. ReqTyped'
    BY <1>5, TypeOfAnswer DEF FetchFails, Reload, At, Under, row
  <2>2. QED
    BY <1>3, <1>5, <2>1 DEF FetchFails, Reload
<1>6. ASSUME NEW r \in Request, Userinfo(r) \/ CheckToken(r) PROVE TypeOK'
  <2>1. ReqTyped'
    BY <1>6, TypeOfAnswer, TypeOfGoes DEF Userinfo, CheckToken, At, Under, row, PC
  <2>2. QED
    BY <1>3, <1>6, <2>1 DEF Userinfo, CheckToken
<1>7. ASSUME NEW r \in Request, Ask(r) PROVE TypeOK'
  <2>1. GoesOn(r) /\ Under(r) /\ req'[r].asked <= now /\ req'[r].saw <= births
    <3>1. Under(r) /\ GoesOn(r) /\ req'[r].asked = now /\ req'[r].saw = req[r].saw
      BY <1>7, AskTo DEF Ask, At, Under
    <3>2. QED
      BY <1>0, <3>1 DEF TypeOK
  <2>2. ReqTyped'
    BY <1>7, <2>1, TypeOfMove DEF GoesOn, Ask, row
  <2>3. QED
    BY <1>3, <1>7, <2>2 DEF Ask
<1>8. ASSUME NEW r \in Request, Lookup(r) PROVE TypeOK'
  <2>1. Under(r) /\ UNCHANGED <<now, certs, row>>
    BY <1>8 DEF Lookup, At, Under
  <2>2. ASSUME GoesOn(r), req'[r].asked = req[r].asked, req'[r].saw \in {account, req[r].saw}
        PROVE  ReqTyped'
    <3>1. req'[r].asked <= now /\ req'[r].saw <= births
      BY <1>0, <2>2 DEF TypeOK
    <3>2. QED
      BY <2>1, <2>2, <3>1, TypeOfMove DEF GoesOn, row
  <2>3. ReqTyped'
    BY <1>8, <2>1, <2>2, LookupTo, TypeOfAnswer DEF row
  <2>4. QED
    BY <1>3, <2>1, <2>3
<1>9. ASSUME NEW r \in Request, Fetched(r) PROVE TypeOK'
  <2>1. PICK at \in req[r].asked .. now, age \in 0 .. MaxEdge, cacheable \in BOOLEAN :
          /\ kept' = IF Lifetime(age, cacheable) > 0
                     THEN [until |-> now + Lifetime(age, cacheable), new |-> Published + age <= at] ELSE kept
          /\ slow' = (slow \/ (Lifetime(age, cacheable) > 0 /\ at < now))
          /\ Judged(r, Published + age <= at)
    BY <1>9 DEF Fetched
  <2>2. ReqTyped'
    BY <1>9, <2>1, TypeOfJudged DEF Fetched, At, Under, row
  <2>3. kept' \in [until : Nat, new : BOOLEAN]
    <3>1. Lifetime(age, cacheable) \in Int
      BY AgeAssumption DEF Lifetime
    <3>2. QED
      BY <1>0, <2>1, <3>1 DEF TypeOK
  <2>4. slow' \in BOOLEAN
    BY <2>1 DEF TypeOK
  <2>5. QED
    BY <1>9, <2>2, <2>3, <2>4 DEF TypeOK, ReqTyped, Fetched, row
<1>10. ASSUME NEW r \in Request, Create(r) PROVE TypeOK'
  <2>1. Under(r) /\ req[r].lang \in Language \cup {None}
    BY <1>10, Fields DEF Create, At, Under
  <2>2. CASE account # 0
    BY <1>3, <1>10, <2>1, <2>2, TypeOfAnswer DEF Create, row
  <2>3. CASE account = 0
    <3>1. GoesOn(r) /\ req'[r].asked <= now /\ req'[r].saw <= births'
      BY <1>0, <1>10, <2>3, CreateTo DEF Create, TypeOK
    <3>2. ReqTyped'
      BY <1>10, <2>1, <2>3, <3>1, TypeOfMove DEF GoesOn, Create
    <3>3. QED
      BY <1>0, <1>10, <2>1, <2>3, <3>2 DEF Create, TypeOK, ReqTyped, certs, Settles
  <2>4. QED
    BY <2>2, <2>3
<1>11. ASSUME NEW r \in Request, Write(r) PROVE TypeOK'
  <2>1. Under(r) /\ req[r].lang \in Language \cup {None}
    BY <1>11, Fields DEF Write, At, Under
  <2>2. CASE account # req[r].saw
    BY <1>3, <1>11, <2>1, <2>2, TypeOfAnswer DEF Write, row
  <2>3. CASE account = req[r].saw
    <3>1. ReqTyped'
      BY <1>11, <2>1, <2>3, TypeOfGoes DEF Write, PC
    <3>2. QED
      BY <1>11, <2>1, <2>3, <3>1 DEF Write, TypeOK, ReqTyped, certs, Settles
  <2>4. QED
    BY <2>2, <2>3
<1>12. ASSUME NEW r \in Request, Use(r) \/ Delete(r) PROVE TypeOK'
  <2>1. Under(r) /\ req[r].lang \in Language \cup {None}
    BY <1>12, Fields DEF Use, Delete, At, Under
  <2>2. ReqTyped'
    BY <1>12, <2>1, TypeOfAnswer DEF Use, Delete
  <2>3. QED
    BY <1>12, <2>1, <2>2 DEF Use, Delete, TypeOK, ReqTyped, certs, Settles
<1>13. ASSUME UNCHANGED vars PROVE TypeOK'
  BY <1>13 DEF vars, certs, row, TypeOK
<1>14. QED
  BY <1>1, <1>2, <1>4, <1>5, <1>6, <1>7, <1>8, <1>9, <1>10, <1>11, <1>12, <1>13 DEF Next, Verify, Serve

-----------------------------------------------------------------------------
(* Google's certificates.                                                  *)

LEMMA CertsInit == Init => Certs
<1> SUFFICES ASSUME Init PROVE Certs
  OBVIOUS
<1>1. \A r \in Request : req[r].form = "none" /\ req[r].pc = "idle" /\ req[r].answer = "none"
  BY DEF Init, Idle
<1>2. CertsKnow
  BY AgeAssumption, TimeAssumption DEF Init, CertsKnow
<1>3. QED
  BY <1>1, <1>2 DEF Certs, FormIsGenuine, GenuineIsNotRejected, At

\* A request that is served without Google leaves the certificates alone.
LEMMA CertsOfMove ==
    ASSUME TypeOK, Certs, NEW r \in Request, Others(r), now' = now, UNCHANGED certs,
           req'[r].form \in {req[r].form, "none"}, req'[r].pc # "fetch",
           req'[r].pc = "userinfo" => req'[r].form = "access",
           req'[r].answer = "rejected" => req'[r].form \notin {"old", "new"} \/ slow
    PROVE  Certs'
<1>1. CertsKnow'
  BY DEF Certs, CertsKnow, certs
<1>2. ASSUME NEW t \in Request
      PROVE  FormIsGenuine(t)' /\ (req'[t].answer = "rejected" /\ req'[t].form \in {"old", "new"} => slow')
  <2>1. CASE t = r
    BY <2>1 DEF Certs, FormIsGenuine, GenuineIsNotRejected, KeyIsPublic, certs, At
  <2>2. CASE t # r
    BY <2>2 DEF Certs, FormIsGenuine, GenuineIsNotRejected, KeyIsPublic, certs, Others, At
  <2>3. QED
    BY <2>1, <2>2
<1>3. QED
  BY <1>1, <1>2 DEF Certs, GenuineIsNotRejected

LEMMA CertsOfGoes ==
    ASSUME TypeOK, Certs, NEW r \in Request, NEW pc \in PC \ {"fetch"}, Goes(r, pc), Under(r),
           pc = "userinfo" => req[r].form = "access", now' = now, UNCHANGED certs
    PROVE  Certs'
BY GoesTo, CertsOfMove DEF GoesOn, Certs, GenuineIsNotRejected

LEMMA CertsOfAnswer ==
    ASSUME TypeOK, Certs, NEW r \in Request, NEW answer, Answered(r, answer),
           answer = "rejected" => req[r].form \notin {"old", "new"},
           now' = now, UNCHANGED certs
    PROVE  Certs'
<1>1. Others(r) /\ req'[r] = Ended(r, answer)
  BY AnswerTo
<1>2. /\ req'[r].form \in {req[r].form, "none"} /\ req'[r].pc = "done"
      /\ req'[r].answer = "rejected" => req'[r].form \notin {"old", "new"}
  BY <1>1, EndedRecord DEF Idle
<1>3. QED
  BY <1>1, <1>2, CertsOfMove

LEMMA CertsStep == ASSUME TypeOK, Certs, [Next]_vars PROVE Certs'
<1>0. /\ now \in Nat /\ Published \in Nat /\ MaxAge \in Nat \ {0} /\ MaxEdge \in 0 .. MaxAge - 1
      /\ kept.until \in Nat /\ \A t \in Request : req[t].asked \in Nat /\ req[t].asked <= now
  BY TimeAssumption, AgeAssumption, Fields DEF TypeOK
<1>1. ASSUME Tick PROVE Certs'
  <2>1. now' = now + 1 /\ req' = req /\ kept' = kept /\ slow' = slow
    BY <1>1 DEF Tick, certs
  <2>2. QED
    BY <1>0, <2>1 DEF Certs, CertsKnow, FormIsGenuine, GenuineIsNotRejected, KeyIsPublic, At
<1>2. ASSUME NEW r \in Request, NEW kind \in Kinds(r), Arrive(r, kind) PROVE Certs'
  <2>1. PICK form \in Forms(kind) :
           /\ req'[r].form = form /\ req'[r].pc \in {"google", "token"} /\ req'[r].answer = "none"
           /\ \A t \in Request : t # r => /\ req'[t].form = req[t].form /\ req'[t].pc = req[t].pc
                                         /\ req'[t].asked = req[t].asked /\ req'[t].answer = req[t].answer
    BY <1>2, ArriveTo DEF Fresh, Learns
  <2>2. form = "new" => KeyIsPublic(now)
    BY DEF Forms, SignsWithNew, KeyIsPublic
  <2>3. now' = now /\ kept' = kept /\ slow' = slow
    BY <1>2 DEF Arrive, certs
  <2>4. \A t \in Request : FormIsGenuine(t)'
    BY <2>1, <2>2, <2>3 DEF Certs, FormIsGenuine, KeyIsPublic, At
  <2>5. GenuineIsNotRejected'
    BY <2>1, <2>3 DEF Certs, GenuineIsNotRejected
  <2>6. QED
    BY <2>3, <2>4, <2>5 DEF Certs, CertsKnow
\* The certificates are fresh: the new key is among them, or not yet in use.
<1>3. ASSUME NEW r \in Request, Recall(r) PROVE Certs'
  <2>1. Under(r) /\ now < kept.until /\ Judged(r, kept.new) /\ now' = now /\ UNCHANGED certs
    BY <1>3 DEF Recall, At, Under
  <2>2. req[r].form = "new" => slow \/ kept.new
    BY <1>0, <2>1 DEF Certs, CertsKnow, FormIsGenuine, KeyIsPublic
  <2>3. CASE Answered(r, "rejected") /\ req[r].form # "old" /\ ~(req[r].form = "new" /\ kept.new)
    <3>1. Others(r) /\ req'[r] = Ended(r, "rejected")
      BY <2>3, AnswerTo
    <3>2. req'[r].form = req[r].form /\ req'[r].pc = "done"
      BY <3>1, EndedRecord
    <3>3. QED
      BY <2>1, <2>2, <2>3, <3>1, <3>2, CertsOfMove
  <2>4. QED
    BY <2>1, <2>3, Judgement, CertsOfGoes DEF PC
<1>4. ASSUME NEW r \in Request, Ask(r) PROVE Certs'
  <2>1. /\ Others(r) /\ req'[r].form = req[r].form /\ req'[r].asked = now
        /\ req'[r].answer = req[r].answer /\ req'[r].pc = "fetch"
    BY <1>4, AskTo DEF GoesOn
  <2>2. now' = now /\ kept' = kept /\ slow' = slow
    BY <1>4 DEF Ask, certs
  <2>3. ASSUME NEW t \in Request PROVE FormIsGenuine(t)'
    BY <2>1, <2>2 DEF Certs, FormIsGenuine, KeyIsPublic, At, Others
  <2>4. GenuineIsNotRejected'
    BY <2>1, <2>2 DEF Certs, GenuineIsNotRejected, Others
  <2>5. QED
    BY <2>2, <2>3, <2>4 DEF Certs, CertsKnow
<1>5. ASSUME NEW r \in Request, Fetched(r) PROVE Certs'
  <2>1. PICK at \in req[r].asked .. now, age \in 0 .. MaxEdge, cacheable \in BOOLEAN :
          /\ age <= at
          /\ kept' = IF Lifetime(age, cacheable) > 0
                     THEN [until |-> now + Lifetime(age, cacheable), new |-> Published + age <= at] ELSE kept
          /\ slow' = (slow \/ (Lifetime(age, cacheable) > 0 /\ at < now))
          /\ Judged(r, Published + age <= at)
    BY <1>5 DEF Fetched
  <2>2. now' = now /\ At(r, "fetch")
    BY <1>5 DEF Fetched
  <2>3. at \in Nat /\ age \in Nat /\ at <= now /\ req[r].asked <= at /\ age < MaxAge
    BY <1>0, <2>1
  \* What is kept without the new key lasts until it can be in use.
  <2>4. CertsKnow'
    <3>1. CASE Lifetime(age, cacheable) > 0 /\ at = now
      <4>1. Lifetime(age, cacheable) = MaxAge - age
        BY <2>3, <3>1 DEF Lifetime
      <4>2. kept'.until = now + (MaxAge - age) /\ (Published + age <= at => kept'.new)
        BY <2>1, <3>1, <4>1
      <4>3. ~kept'.new => kept'.until < Published + MaxAge
        BY <1>0, <2>3, <3>1, <4>2
      <4>4. QED
        BY <4>3 DEF CertsKnow
    <3>2. CASE Lifetime(age, cacheable) > 0 /\ at < now
      BY <2>1, <3>2 DEF CertsKnow
    <3>3. CASE ~(Lifetime(age, cacheable) > 0)
      BY <2>1, <3>3 DEF CertsKnow, Certs
    <3>4. QED
      BY <1>0, <2>3, <3>1, <3>2, <3>3
  \* And an answer given since the new key is in use has it.
  <2>5. req[r].form = "new" => Published + age <= at
    BY <1>0, <2>2, <2>3 DEF Certs, FormIsGenuine, KeyIsPublic
  <2>6. Others(r) /\ req'[r].form \in {req[r].form, "none"} /\ req'[r].pc # "fetch"
        /\ (req'[r].pc = "userinfo" => req'[r].form = "access")
        /\ (req'[r].answer = "rejected" => req'[r].form \notin {"old", "new"} \/ slow)
    <3>1. CASE Goes(r, "lookup") \/ (Goes(r, "userinfo") /\ req[r].form = "access")
      BY <3>1, GoesTo DEF GoesOn, PC, Certs, GenuineIsNotRejected
    <3>2. CASE Answered(r, "rejected") /\ req[r].form \notin {"old", "new"}
      BY <3>2, AnswerTo, EndedRecord
    <3>3. QED
      BY <2>1, <2>5, <3>1, <3>2, Judgement
  <2>7. slow => slow'
    BY <2>1
  <2>8. ASSUME NEW t \in Request
        PROVE  FormIsGenuine(t)' /\ (req'[t].answer = "rejected" /\ req'[t].form \in {"old", "new"} => slow')
    <3>1. CASE t = r
      BY <2>2, <2>6, <2>7, <3>1 DEF Certs, FormIsGenuine, KeyIsPublic, At
    <3>2. CASE t # r
      BY <2>2, <2>6, <2>7, <3>2 DEF Certs, FormIsGenuine, GenuineIsNotRejected, KeyIsPublic, At, Others
    <3>3. QED
      BY <3>1, <3>2
  <2>9. QED
    BY <2>4, <2>8 DEF Certs, GenuineIsNotRejected
<1>6. ASSUME NEW r \in Request, FetchFails(r) \/ Reload(r) PROVE Certs'
  BY <1>6, CertsOfAnswer DEF FetchFails, Reload
<1>7. ASSUME NEW r \in Request, Userinfo(r) PROVE Certs'
  <2>1. req[r].form = "access" /\ Under(r) /\ now' = now /\ UNCHANGED certs
    BY <1>7 DEF Userinfo, Certs, FormIsGenuine, At, Under
  <2>2. QED
    BY <1>7, <2>1, CertsOfAnswer, CertsOfGoes DEF Userinfo, PC
<1>8. ASSUME NEW r \in Request, CheckToken(r) PROVE Certs'
  BY <1>8, CertsOfGoes, CertsOfAnswer DEF CheckToken, At, Under, PC
<1>9. ASSUME NEW r \in Request, Lookup(r) PROVE Certs'
  <2>1. now' = now /\ UNCHANGED certs
    BY <1>9 DEF Lookup
  <2>2. CASE GoesOn(r) /\ req'[r].pc \in {"write", "body"}
    BY <2>1, <2>2, CertsOfMove DEF GoesOn, Certs, GenuineIsNotRejected
  <2>3. QED
    BY <1>9, <2>1, <2>2, LookupTo, CertsOfAnswer
<1>10. ASSUME NEW r \in Request, Create(r) PROVE Certs'
  <2>1. now' = now /\ UNCHANGED certs
    BY <1>10 DEF Create
  <2>2. CASE account = 0
    BY <1>10, <2>1, <2>2, CreateTo, CertsOfMove DEF GoesOn, Certs, GenuineIsNotRejected
  <2>3. CASE account # 0
    BY <1>10, <2>1, <2>3, CertsOfAnswer DEF Create
  <2>4. QED
    BY <2>2, <2>3
<1>11. ASSUME NEW r \in Request, Write(r) PROVE Certs'
  <2>1. now' = now /\ UNCHANGED certs /\ Under(r)
    BY <1>11 DEF Write, At, Under
  <2>2. QED
    BY <1>11, <2>1, CertsOfAnswer, CertsOfGoes DEF Write, PC
<1>12. ASSUME NEW r \in Request, Use(r) \/ Delete(r) PROVE Certs'
  BY <1>12, CertsOfAnswer DEF Use, Delete
<1>13. ASSUME UNCHANGED vars PROVE Certs'
  BY <1>13 DEF vars, certs, row, Certs, CertsKnow, FormIsGenuine, GenuineIsNotRejected, KeyIsPublic, At
<1>14. QED
  BY <1>1, <1>2, <1>3, <1>4, <1>5, <1>6, <1>7, <1>8, <1>9, <1>10, <1>11, <1>12, <1>13 DEF Next, Verify, Serve

-----------------------------------------------------------------------------
(* The company a request keeps.                                            *)

LEMMA WordsFinite == IsFiniteSet(Words)
<1> DEFINE W == {req[u].lang : u \in Running}
           f == [u \in Running |-> req[u].lang]
<1>1. IsFiniteSet(Running)
  BY CallsAssumption, FS_Subset DEF Running, Request
<1>2. f \in Surjection(Running, W)
  BY DEF Surjection
<1>3. IsFiniteSet(W)
  BY <1>1, <1>2, FS_Surjection
<1>4. Words \in SUBSET W
  BY DEF Words
<1>5. QED
  BY <1>3, <1>4, FS_Subset

LEMMA CompanyInit == Init => Company
<1> SUFFICES ASSUME Init PROVE Company
  OBVIOUS
<1>1. \A r \in Request : req[r].pc = "idle" /\ req[r].said = {}
  BY DEF Init, Idle
<1>2. QED
  BY <1>1, FS_EmptySet DEF Company, Under, Meets

\* Every step but an arrival serves one request, or lets it go.
Leaves(r) == Others(r) /\ req'[r].pc = "done" /\ req'[r].said = {}

LEMMA AnswerLeaves ==
    ASSUME TypeOK, NEW r \in Request, NEW answer, Answered(r, answer)
    PROVE  Leaves(r)
BY AnswerTo, EndedRecord DEF Leaves

LEMMA Served ==
    ASSUME TypeOK, NEW r \in Request, Verify(r) \/ Serve(r)
    PROVE  Under(r) /\ (GoesOn(r) \/ Leaves(r))
<1>1. Under(r)
  BY DEF Verify, Serve, Recall, Ask, Fetched, FetchFails, Userinfo, CheckToken, Lookup, Create,
         Write, Reload, Use, Delete, At, Under
<1> SUFFICES GoesOn(r) \/ Leaves(r)
  BY <1>1
<1>2. ASSUME NEW pc \in PC, Goes(r, pc)
      PROVE  GoesOn(r)
  BY <1>2, GoesTo
<1>3. ASSUME NEW new, Judged(r, new)
      PROVE  GoesOn(r) \/ Leaves(r)
  BY <1>2, <1>3, Judgement, AnswerLeaves DEF PC
<1>4. CASE Recall(r) \/ Fetched(r)
  BY <1>3, <1>4 DEF Recall, Fetched
<1>5. CASE Ask(r) \/ FetchFails(r) \/ Userinfo(r) \/ CheckToken(r)
  BY <1>2, <1>5, AskTo, AnswerLeaves DEF FetchFails, Userinfo, CheckToken, PC
<1>6. CASE Lookup(r)
  BY <1>6, LookupTo, AnswerLeaves
<1>7. CASE Create(r)
  BY <1>7, CreateTo, AnswerLeaves DEF Create
<1>8. CASE Write(r)
  BY <1>2, <1>8, AnswerLeaves DEF Write, PC
<1>9. CASE Reload(r) \/ Use(r) \/ Delete(r)
  BY <1>9, AnswerLeaves DEF Reload, Use, Delete
<1>10. QED
  BY <1>4, <1>5, <1>6, <1>7, <1>8, <1>9 DEF Verify, Serve

LEMMA CompanyStep == ASSUME TypeOK, Company, [Next]_vars PROVE Company'
<1>1. ASSUME NEW r \in Request, NEW kind \in Kinds(r), Arrive(r, kind) PROVE Company'
  <2>1. PICK lang \in Languages(kind) :
           /\ req'[r].kind = kind /\ req'[r].lang = lang /\ req'[r].beside = KindsBeside
           /\ req'[r].said = ({lang} \ {None}) \cup Words
           /\ \A t \in Request : t # r => Learns(t, kind, {lang} \ {None})
    BY <1>1, ArriveTo DEF Fresh
  <2>2. IsFiniteSet({lang} \ {None})
    BY FS_Singleton, FS_Subset
  <2>3. ASSUME NEW t \in Request
        PROVE  IsFiniteSet(req'[t].said)
    <3>1. CASE t = r
      <4>1. IsFiniteSet(({lang} \ {None}) \cup Words)
        BY <2>2, WordsFinite, FS_Union
      <4>2. QED
        BY <2>1, <3>1, <4>1
    <3>2. CASE t # r
      <4>1. IsFiniteSet(req[t].said \cup ({lang} \ {None}))
        BY <2>2, FS_Union DEF Company
      <4>2. QED
        BY <2>1, <3>2, <4>1 DEF Learns, Company
    <3>3. QED
      BY <3>1, <3>2
  <2>4. ASSUME NEW t \in Request, Under(t)'
        PROVE  (Lang(t) \subseteq req[t].said)'
    BY <2>1, <2>4 DEF Company, Learns, Under, Lang
  <2>5. ASSUME NEW t \in Request, NEW u \in Request, t # u
        PROVE  Meets(t, u)'
    <3>1. CASE t = r
      <4>1. Under(u)' => req[u].kind \in KindsBeside /\ Lang(u) \subseteq Words
        <5>1. Under(u)' => u \in Running
          BY <2>1, <2>5, <3>1 DEF Learns, Under, Running
        <5>2. u \in Running => req[u].kind \in KindsBeside /\ Lang(u) \subseteq Words
          BY DEF Words, KindsBeside, Lang
        <5>3. QED
          BY <5>1, <5>2
      <4>2. req'[u].kind = req[u].kind /\ Lang(u)' = Lang(u)
        BY <2>1, <2>5, <3>1 DEF Learns, Lang
      <4>3. QED
        BY <2>1, <3>1, <4>1, <4>2 DEF Meets
    <3>2. CASE u = r
      BY <2>1, <2>5, <3>2 DEF Learns, Under, Lang, Meets
    <3>3. CASE t # r /\ u # r
      BY <2>1, <2>5, <3>3 DEF Company, Learns, Under, Lang, Meets
    <3>4. QED
      BY <3>1, <3>2, <3>3
  <2>6. QED
    BY <2>3, <2>4, <2>5 DEF Company
<1>2. ASSUME NEW r \in Request, Verify(r) \/ Serve(r) PROVE Company'
  <2>1. CASE GoesOn(r)
    <3>1. ASSUME NEW t \in Request
          PROVE  /\ req'[t].kind = req[t].kind /\ req'[t].lang = req[t].lang
                 /\ req'[t].said = req[t].said /\ req'[t].beside = req[t].beside
                 /\ Under(t)' => Under(t)
      BY <1>2, <2>1, Served DEF GoesOn, Others, Under
    <3>2. ASSUME NEW t \in Request
          PROVE  IsFiniteSet(req'[t].said) /\ (Under(t)' => (Lang(t) \subseteq req[t].said)')
      BY <3>1 DEF Company, Lang
    <3>3. ASSUME NEW t \in Request, NEW u \in Request, t # u
          PROVE  Meets(t, u)'
      <4>1. Meets(t, u)
        BY <3>3 DEF Company
      <4>2. QED
        BY <3>1, <4>1 DEF Lang, Meets
    <3>4. QED
      BY <3>2, <3>3 DEF Company
  <2>2. CASE Leaves(r)
    BY <2>2, FS_EmptySet DEF Leaves, Company, Lang, Meets, Under, Others
  <2>3. QED
    BY <1>2, <2>1, <2>2, Served
<1>3. CASE Tick \/ UNCHANGED vars
  BY <1>3 DEF Tick, vars, Company, Lang, Meets, Under
<1>4. QED
  BY <1>1, <1>2, <1>3 DEF Next

-----------------------------------------------------------------------------
(* What became of the row.                                                 *)

Failed(r) ==
    req[r].answer = "error" =>
        "delete" \in req[r].beside \/ (req[r].creates /\ "signup" \in req[r].beside)

\* What a step that leaves the account alone has to show of the one it serves.
LEMMA RowOfMove ==
    ASSUME Row, NEW r \in Request, Others(r), account' = account,
           SawRow(r)', SawNobody(r)', Failed(r)'
    PROVE  Row'
<1>1. ASSUME NEW t \in Request
      PROVE  SawRow(t)' /\ SawNobody(t)' /\ Failed(t)'
  <2>1. CASE t = r
    BY <2>1
  <2>2. CASE t # r
    <3>1. SawRow(t) /\ SawNobody(t) /\ Failed(t)
      BY DEF Row, FailsOnlyByOverlap, Failed
    <3>2. QED
      BY <2>2, <3>1 DEF Others, SawRow, SawNobody, Failed, HasRow, At
  <2>3. QED
    BY <2>1, <2>2
<1>2. QED
  BY <1>1 DEF Row, FailsOnlyByOverlap, Failed

\* A request that goes on before it has read the row, or after.
LEMMA RowOfGoes ==
    ASSUME TypeOK, Row, NEW r \in Request, NEW pc \in PC, Goes(r, pc), account' = account,
           ~req[r].creates,
           pc \in {"userinfo", "lookup"} \/ (HasRow(r) /\ pc \in {"reload", "body"})
    PROVE  Row'
<1>1. Others(r) /\ /\ req'[r].pc = pc /\ req'[r].saw = req[r].saw /\ req'[r].creates = req[r].creates
                    /\ req'[r].kind = req[r].kind /\ req'[r].answer = req[r].answer
                    /\ req'[r].beside = req[r].beside
  BY GoesTo DEF GoesOn
<1>2. SawRow(r) /\ Failed(r)
  BY DEF Row, FailsOnlyByOverlap, Failed
<1>3. SawRow(r)' /\ SawNobody(r)' /\ Failed(r)'
  BY <1>1, <1>2 DEF SawRow, SawNobody, Failed, HasRow, At
<1>4. QED
  BY <1>1, <1>3, RowOfMove

\* What is left of an answer that is an error is who it overlapped.
LEMMA FailedWhenAnswered ==
    ASSUME TypeOK, NEW r \in Request, NEW answer, Answered(r, answer),
           answer = "error" =>
              "delete" \in req[r].beside \/ (req[r].creates /\ "signup" \in req[r].beside)
    PROVE  Others(r) /\ SawRow(r)' /\ SawNobody(r)' /\ Failed(r)'
<1>1. Others(r) /\ req'[r] = Ended(r, answer) /\ req'[r].pc = "done"
  BY AnswerTo, EndedRecord
<1>2. Failed(r)'
  <2>1. CASE answer \in {"rejected", "error"}
    BY <1>1, <2>1, EndedRecord DEF Failed
  <2>2. CASE answer \notin {"rejected", "error"}
    BY <1>1, <2>2, EndedRecord DEF Failed, Idle
  <2>3. QED
    BY <2>1, <2>2
<1>3. SawRow(r)' /\ SawNobody(r)'
  BY <1>1 DEF SawRow, SawNobody, HasRow, At
<1>4. QED
  BY <1>1, <1>2, <1>3

LEMMA RowOfAnswer ==
    ASSUME TypeOK, Row, NEW r \in Request, NEW answer, Answered(r, answer), account' = account,
           answer = "error" =>
              "delete" \in req[r].beside \/ (req[r].creates /\ "signup" \in req[r].beside)
    PROVE  Row'
BY FailedWhenAnswered, RowOfMove

LEMMA RowOfJudged ==
    ASSUME TypeOK, Row, NEW r \in Request, NEW new, Judged(r, new), account' = account, ~req[r].creates
    PROVE  Row'
BY Judgement, RowOfGoes, RowOfAnswer DEF PC

LEMMA RowStep == ASSUME TypeOK, Company, Row, [Next]_vars PROVE Row'
<1>0. births \in Nat /\ \A t \in Request : req[t].saw \in Nat /\ req[t].saw <= births
  BY Fields DEF TypeOK
<1>h. ASSUME NEW t \in Request
      PROVE  /\ SawRow(t) /\ SawNobody(t) /\ Failed(t)
             /\ req[t].pc \notin {"write", "reload", "done"} => ~req[t].creates
  BY DEF Row, FailsOnlyByOverlap, Failed, SawNobody
<1>1. CASE Tick \/ UNCHANGED vars
  BY <1>1 DEF Tick, vars, row, Row, FailsOnlyByOverlap, SawRow, SawNobody, HasRow, At
<1>2. ASSUME NEW r \in Request, NEW kind \in Kinds(r), Arrive(r, kind) PROVE Row'
  <2>1. /\ req'[r].pc \in {"google", "token"} /\ req'[r].answer = "none" /\ ~req'[r].creates
    BY <1>2, ArriveTo DEF Fresh
  <2>2. account' = account
    BY <1>2 DEF Arrive, row
  <2>3. ASSUME NEW t \in Request
        PROVE  SawRow(t)' /\ SawNobody(t)' /\ Failed(t)'
    <3>1. CASE t = r
      BY <2>1, <3>1 DEF SawRow, SawNobody, Failed, HasRow, At
    <3>2. CASE t # r
      <4>1. PICK said : Learns(t, kind, said)
        BY <1>2, <3>2, ArriveTo
      <4>2. req[t].beside \subseteq req'[t].beside
        BY <4>1 DEF Learns
      <4>3. QED
        BY <1>h, <2>2, <4>1, <4>2 DEF Learns, SawRow, SawNobody, Failed, HasRow, At
    <3>3. QED
      BY <3>1, <3>2
  <2>4. QED
    BY <2>3 DEF Row, FailsOnlyByOverlap, Failed
<1>3. ASSUME NEW r \in Request, Recall(r) \/ Fetched(r) PROVE Row'
  BY <1>h, <1>3, RowOfJudged DEF Recall, Fetched, row, At
<1>4. ASSUME NEW r \in Request, FetchFails(r) \/ Userinfo(r) \/ CheckToken(r) PROVE Row'
  BY <1>h, <1>4, RowOfAnswer, RowOfGoes DEF FetchFails, Userinfo, CheckToken, row, PC, At
<1>5. ASSUME NEW r \in Request, Ask(r) PROVE Row'
  <2>1. account' = account /\ Failed(r) /\ ~req[r].creates
    BY <1>h, <1>5 DEF Ask, row, At
  <2>2. /\ Others(r) /\ req'[r].pc = "fetch" /\ req'[r].creates = req[r].creates
        /\ req'[r].answer = req[r].answer /\ req'[r].beside = req[r].beside
    BY <1>5, AskTo DEF GoesOn
  <2>3. QED
    BY <2>1, <2>2, RowOfMove DEF SawRow, SawNobody, Failed, HasRow, At
<1>6. ASSUME NEW r \in Request, Lookup(r) PROVE Row'
  <2>1. account' = account /\ Failed(r) /\ ~req[r].creates
    BY <1>h, <1>6 DEF Lookup, row, At
  <2>2. ASSUME GoesOn(r), account # 0, req'[r].saw = account, req'[r].creates = req[r].creates,
               req'[r].pc \in {"write", "body"}
        PROVE  Row'
    <3>1. SawRow(r)' /\ SawNobody(r)' /\ Failed(r)'
      BY <2>1, <2>2 DEF SawRow, SawNobody, Failed, GoesOn
    <3>2. QED
      BY <2>1, <2>2, <3>1, RowOfMove DEF GoesOn
  <2>3. ASSUME GoesOn(r), account = 0, req'[r].creates, req'[r].pc = "write", req[r].kind = "signup"
        PROVE  Row'
    <3>1. SawRow(r)' /\ SawNobody(r)' /\ Failed(r)'
      BY <2>1, <2>3 DEF SawRow, SawNobody, HasRow, At, Failed, GoesOn
    <3>2. QED
      BY <2>1, <2>3, <3>1, RowOfMove DEF GoesOn
  <2>4. QED
    BY <1>6, <2>1, <2>2, <2>3, LookupTo, RowOfAnswer
\* A row comes: who saw one is not he who creates it, and who saw none has met him.
<1>7. ASSUME NEW r \in Request, Create(r) PROVE Row'
  <2>1. At(r, "write") /\ req[r].creates /\ req[r].kind = "signup" /\ Under(r)
    BY <1>7, <1>h DEF Create, SawNobody, At, Under
  <2>2. CASE account # 0
    BY <1>h, <1>7, <2>1, <2>2, RowOfAnswer DEF Create, SawNobody, row
  <2>3. CASE account = 0
    <3>1. account' = births + 1
      BY <1>7, <2>3 DEF Create
    <3>2. /\ GoesOn(r) /\ req'[r].pc = "reload" /\ req'[r].saw = births + 1
          /\ req'[r].creates = req[r].creates /\ births + 1 # 0
      BY <1>0, <1>7, <2>3, CreateTo
    <3>3. ASSUME NEW t \in Request
          PROVE  SawRow(t)' /\ SawNobody(t)' /\ Failed(t)'
      <4>1. CASE t = r
        BY <1>h, <3>1, <3>2, <4>1 DEF SawRow, SawNobody, Failed, GoesOn, At
      <4>2. CASE t # r
        <5>1. req'[t] = req[t]
          BY <3>2, <4>2 DEF GoesOn, Others
        <5>2. HasRow(t) => "delete" \in req[t].beside /\ req[t].saw # 0
          BY <1>h, <2>3 DEF SawRow
        <5>3. At(t, "write") => "signup" \in req[t].beside
          BY <2>1, <4>2 DEF Company, Meets, Under, At
        <5>4. QED
          BY <1>h, <5>1, <5>2, <5>3 DEF SawRow, SawNobody, Failed, HasRow, At
      <4>3. QED
        BY <4>1, <4>2
    <3>4. QED
      BY <3>3 DEF Row, FailsOnlyByOverlap, Failed
  <2>4. QED
    BY <2>2, <2>3
<1>8. ASSUME NEW r \in Request, Write(r) PROVE Row'
  <2>1. account' = account /\ HasRow(r) /\ ~req[r].creates
    BY <1>8 DEF Write, HasRow, row
  <2>2. account # req[r].saw => "delete" \in req[r].beside
    BY <1>h, <2>1 DEF SawRow
  <2>3. QED
    BY <1>8, <2>1, <2>2, RowOfAnswer, RowOfGoes DEF Write, PC
<1>9. ASSUME NEW r \in Request, Reload(r) PROVE Row'
  <2>1. account' = account /\ HasRow(r)
    BY <1>9 DEF Reload, HasRow, row
  <2>2. account # req[r].saw => "delete" \in req[r].beside
    BY <1>h, <2>1 DEF SawRow
  <2>3. QED
    BY <1>9, <2>1, <2>2, RowOfAnswer DEF Reload
<1>10. ASSUME NEW r \in Request, Use(r) PROVE Row'
  BY <1>10, RowOfAnswer DEF Use
\* The row goes: who saw it has met the deletion.
<1>11. ASSUME NEW r \in Request, Delete(r) PROVE Row'
  <2>1. req[r].kind = "delete" /\ Under(r)
    BY <1>11 DEF Delete, At, Under
  <2>2. CASE account # req[r].saw
    BY <1>11, <2>2, RowOfAnswer DEF Delete
  <2>3. CASE account = req[r].saw
    <3>1. account' = 0 /\ Answered(r, "ok")
      BY <1>11, <2>3 DEF Delete
    <3>2. Others(r) /\ SawRow(r)' /\ SawNobody(r)' /\ Failed(r)'
      BY <3>1, FailedWhenAnswered
    <3>3. ASSUME NEW t \in Request, t # r
          PROVE  SawRow(t)' /\ SawNobody(t)' /\ Failed(t)'
      <4>1. req'[t] = req[t]
        BY <3>2, <3>3 DEF Others
      <4>2. HasRow(t) => "delete" \in req[t].beside
        BY <2>1, <3>3 DEF Company, Meets, Under, HasRow, At
      <4>3. QED
        BY <1>h, <3>1, <4>1, <4>2 DEF SawRow, SawNobody, Failed, HasRow, At
    <3>4. QED
      BY <3>2, <3>3 DEF Row, FailsOnlyByOverlap, Failed
  <2>4. QED
    BY <2>2, <2>3
<1>12. QED
  BY <1>1, <1>2, <1>3, <1>4, <1>5, <1>6, <1>7, <1>8, <1>9, <1>10, <1>11 DEF Next, Verify, Serve

-----------------------------------------------------------------------------
(* The language.                                                           *)

LEMMA TwoAreMany ==
    ASSUME NEW S, IsFiniteSet(S), NEW a \in S, NEW b \in S, a # b
    PROVE  Cardinality(S) > 1
<1>1. Cardinality({a}) = 1 /\ IsFiniteSet({a})
  BY FS_Singleton
<1>2. Cardinality({a, b}) = 2
  <2>1. {a, b} = {a} \cup {b} /\ b \notin {a}
    OBVIOUS
  <2>2. QED
    BY <1>1, <2>1, FS_AddElement
<1>3. {a, b} \in SUBSET S
  OBVIOUS
<1>4. Cardinality({a, b}) <= Cardinality(S) /\ Cardinality(S) \in Nat
  BY <1>3, FS_Subset, FS_CardinalityType
<1>5. QED
  BY <1>2, <1>4

LEMMA MoreDisagree ==
    ASSUME NEW S, NEW T, IsFiniteSet(T), S \subseteq T, Cardinality(S) > 1
    PROVE  Cardinality(T) > 1
<1>1. S \in SUBSET T
  OBVIOUS
<1>2. /\ Cardinality(S) <= Cardinality(T) /\ Cardinality(T) \in Nat /\ IsFiniteSet(S)
      /\ Cardinality(S) \in Nat
  BY <1>1, FS_Subset, FS_CardinalityType
<1>3. QED
  BY <1>2

\* A request under way, while the row and its own record are what they were.
LEMMA WordOfMove ==
    ASSUME Word, NEW r \in Request, Others(r), UNCHANGED row, SaidIt(r)'
    PROVE  Word'
<1>1. ASSUME NEW t \in Request, t # r
      PROVE  SaidIt(t)'
  <2>1. req'[t] = req[t] /\ account' = account /\ language' = language
    BY <1>1 DEF Others, row
  <2>2. Disagree(t)' = Disagree(t)
    BY <2>1 DEF Disagree
  <2>3. SaidIt(t)
    BY DEF Word
  <2>4. QED
    BY <2>1, <2>2, <2>3 DEF SaidIt, At
<1>2. LanguageIsTheLast'
  BY DEF Word, LanguageIsTheLast, row
<1>3. QED
  BY <1>1, <1>2 DEF Word

LEMMA WordOfGoes ==
    ASSUME TypeOK, Word, NEW r \in Request, NEW pc \in {"userinfo", "lookup"}, Goes(r, pc), UNCHANGED row
    PROVE  Word'
<1>1. Others(r) /\ req'[r].pc = pc
  BY GoesTo DEF GoesOn, PC
<1>2. QED
  BY <1>1, WordOfMove DEF SaidIt, At

LEMMA WordOfAnswer ==
    ASSUME TypeOK, Word, NEW r \in Request, NEW answer, Answered(r, answer), UNCHANGED row
    PROVE  Word'
BY AnswerLeaves, WordOfMove DEF Leaves, SaidIt, At

LEMMA WordOfJudged ==
    ASSUME TypeOK, Word, NEW r \in Request, NEW new, Judged(r, new), UNCHANGED row
    PROVE  Word'
BY Judgement, WordOfGoes, WordOfAnswer

\* The language once r has settled it, while the row is r's.
LEMMA Settled ==
    ASSUME NEW r \in Request, NEW unsaid, Settles(r, unsaid),
           Disagree(r) \/ (IF req[r].lang = None THEN language' = unsaid \/ unsaid = "open"
                                                 ELSE language' = req[r].lang)
    PROVE  LanguageIsTheLast'
BY DEF LanguageIsTheLast, Settles, Disagree

LEMMA WordStep == ASSUME TypeOK, Company, Row, Word, [Next]_vars PROVE Word'
<1>0. births \in Nat /\ \A t \in Request : req[t].saw \in Nat /\ req[t].saw <= births
  BY Fields DEF TypeOK
<1>h. ASSUME NEW t \in Request
      PROVE  /\ SawRow(t) /\ SawNobody(t) /\ SaidIt(t) /\ IsFiniteSet(req[t].said)
             /\ req[t].pc \notin {"write", "reload", "done"} => ~req[t].creates
  BY DEF Row, Word, SawNobody, Company
<1>1. CASE Tick \/ UNCHANGED vars
  <2>1. UNCHANGED <<row, req>>
    BY <1>1 DEF Tick, vars, row
  <2>2. QED
    BY <2>1 DEF row, Word, LanguageIsTheLast, SaidIt, Disagree, At
<1>2. ASSUME NEW r \in Request, NEW kind \in Kinds(r), Arrive(r, kind) PROVE Word'
  <2>1. req'[r].pc \in {"google", "token"}
    BY <1>2, ArriveTo DEF Fresh
  <2>2. account' = account /\ language' = language /\ settled' = settled
    BY <1>2 DEF Arrive, row
  <2>3. ASSUME NEW t \in Request
        PROVE  SaidIt(t)'
    <3>1. CASE t = r
      BY <2>1, <3>1 DEF SaidIt, At
    <3>2. CASE t # r
      <4>1. PICK said : Learns(t, kind, said)
        BY <1>2, <3>2, ArriveTo
      <4>2. req[t].said \subseteq req'[t].said /\ IsFiniteSet(req'[t].said)
        BY <1>2, <4>1, CompanyStep DEF Learns, Next, Company
      <4>3. Disagree(t) => Disagree(t)'
        BY <4>2, MoreDisagree DEF Disagree
      <4>4. QED
        BY <1>h, <2>2, <4>1, <4>3 DEF Learns, SaidIt, At
    <3>3. QED
      BY <3>1, <3>2
  <2>4. QED
    BY <2>2, <2>3 DEF Word, LanguageIsTheLast
<1>3. ASSUME NEW r \in Request, Recall(r) \/ Fetched(r) PROVE Word'
  BY <1>3, WordOfJudged DEF Recall, Fetched
<1>4. ASSUME NEW r \in Request, FetchFails(r) \/ Userinfo(r) \/ CheckToken(r) \/ Reload(r) PROVE Word'
  BY <1>4, WordOfAnswer, WordOfGoes DEF FetchFails, Userinfo, CheckToken, Reload
<1>5. ASSUME NEW r \in Request, Ask(r) PROVE Word'
  <2>1. Others(r) /\ req'[r].pc = "fetch" /\ UNCHANGED row
    BY <1>5, AskTo DEF GoesOn, Ask
  <2>2. QED
    BY <2>1, WordOfMove DEF SaidIt, At
<1>6. ASSUME NEW r \in Request, Lookup(r) PROVE Word'
  <2>1. UNCHANGED row /\ ~req[r].creates
    BY <1>h, <1>6 DEF Lookup, At
  <2>2. ASSUME GoesOn(r), req'[r].changes = Changes(r), account = req'[r].saw \/ req'[r].creates,
               req'[r].pc = "write" \/ (req'[r].pc = "body" /\ ~Changes(r))
        PROVE  Word'
    <3>1. req'[r].lang = req[r].lang /\ language' = language /\ Others(r)
      BY <2>1, <2>2 DEF GoesOn, row
    <3>2. SaidIt(r)'
      BY <2>2, <3>1 DEF SaidIt, At, Changes
    <3>3. QED
      BY <2>1, <3>1, <3>2, WordOfMove
  <2>3. QED
    BY <1>6, <2>1, <2>2, LookupTo, WordOfAnswer
\* A row of one's own: nobody else saw it.
<1>7. ASSUME NEW r \in Request, Create(r) PROVE Word'
  <2>1. CASE account # 0
    BY <1>7, <2>1, WordOfAnswer DEF Create
  <2>2. CASE account = 0
    <3>1. account' = births + 1 /\ language' = req[r].lang /\ Settles(r, None)
      BY <1>7, <2>2 DEF Create
    <3>2. GoesOn(r) /\ req'[r].pc = "reload"
      BY <1>7, <2>2, CreateTo
    <3>3. ASSUME NEW t \in Request
          PROVE  SaidIt(t)'
      <4>1. CASE t = r
        BY <3>2, <4>1 DEF SaidIt, At
      <4>2. CASE t # r
        <5>1. req'[t] = req[t]
          BY <3>2, <4>2 DEF GoesOn, Others
        <5>2. account' # req'[t].saw
          BY <1>0, <3>1, <5>1
        <5>3. QED
          BY <1>h, <5>1, <5>2 DEF SaidIt, At
      <4>3. QED
        BY <4>1, <4>2
    <3>4. LanguageIsTheLast'
      BY <3>1, Settled
    <3>5. QED
      BY <3>3, <3>4 DEF Word
  <2>3. QED
    BY <2>1, <2>2
\* A row written: who has said another language has met this request.
<1>8. ASSUME NEW r \in Request, Write(r) PROVE Word'
  <2>1. At(r, "write") /\ ~req[r].creates /\ Under(r)
    BY <1>8 DEF Write, At, Under
  <2>2. CASE account # req[r].saw
    BY <1>8, <2>2, WordOfAnswer DEF Write
  <2>3. CASE account = req[r].saw
    <3>1. /\ language' = (IF req[r].changes THEN req[r].lang ELSE language)
          /\ account' = account /\ Settles(r, settled)
          /\ Goes(r, IF req[r].kind \in SigningIn THEN "reload" ELSE "body")
      BY <1>8, <2>3 DEF Write, Stores
    <3>2. /\ GoesOn(r) /\ req'[r].pc \in {"reload", "body"} /\ req'[r].saw = req[r].saw
          /\ req'[r].lang = req[r].lang
      BY <3>1, GoesTo DEF PC, GoesOn
    \* What he says is stored, was already, or is disputed.
    <3>3. req[r].lang # None => language' = req[r].lang \/ Disagree(r)
      BY <1>h, <2>1, <2>3, <3>1 DEF SaidIt
    <3>4. req[r].lang = None => language' = language
      BY <1>h, <2>1, <3>1 DEF SaidIt
    <3>5. LanguageIsTheLast'
      <4>1. account # 0
        BY <1>h, <2>1, <2>3 DEF SawRow, HasRow
      <4>2. language = settled \/ settled = "open"
        BY <4>1 DEF Word, LanguageIsTheLast
      <4>3. QED
        BY <3>1, <3>3, <3>4, <4>2, Settled
    <3>6. ASSUME NEW t \in Request
          PROVE  SaidIt(t)'
      <4>1. CASE t = r
        <5>1. Disagree(t)' = Disagree(t)
          BY <3>2, <4>1 DEF GoesOn, Disagree
        <5>2. QED
          BY <3>2, <3>3, <4>1, <5>1 DEF SaidIt, At
      <4>2. CASE t # r
        <5>1. req'[t] = req[t]
          BY <3>2, <4>2 DEF GoesOn, Others
        <5>2. ASSUME Under(t), req[t].lang # None, req[r].lang # None, req[r].lang # req[t].lang
              PROVE  Disagree(t)
          <6>1. Lang(t) \subseteq req[t].said /\ Lang(r) \subseteq req[t].said /\ IsFiniteSet(req[t].said)
            BY <2>1, <4>2, <5>2 DEF Company, Meets
          <6>2. req[t].lang \in req[t].said /\ req[r].lang \in req[t].said
            BY <5>2, <6>1 DEF Lang
          <6>3. QED
            BY <5>2, <6>1, <6>2, TwoAreMany DEF Disagree
        <5>3. req[r].changes => req[r].lang # None
          BY <1>h, <2>1 DEF SaidIt
        <5>4. At(t, "write") \/ At(t, "body") => Under(t)
          BY DEF At, Under
        <5>5. Disagree(t)' = Disagree(t)
          BY <5>1 DEF Disagree
        <5>6. CASE req[r].changes
          BY <1>h, <3>1, <5>1, <5>2, <5>3, <5>4, <5>5, <5>6 DEF SaidIt, At
        <5>7. CASE ~req[r].changes
          BY <1>h, <3>1, <5>1, <5>5, <5>7 DEF SaidIt, At
        <5>8. QED
          BY <5>6, <5>7
      <4>3. QED
        BY <4>1, <4>2
    <3>7. QED
      BY <3>5, <3>6 DEF Word
  <2>4. QED
    BY <2>2, <2>3
<1>9. ASSUME NEW r \in Request, Use(r) PROVE Word'
  <2>1. /\ At(r, "body") /\ Leaves(r) /\ account' = account /\ language' = language
        /\ IF account = req[r].saw THEN Settles(r, settled) ELSE settled' = settled
    BY <1>9, AnswerLeaves DEF Use
  <2>2. LanguageIsTheLast'
    <3>1. CASE account = req[r].saw
      <4>1. account # 0 /\ (language = settled \/ settled = "open")
        BY <1>h, <2>1, <3>1 DEF SawRow, HasRow, Word, LanguageIsTheLast
      <4>2. req[r].lang # None => language = req[r].lang \/ Disagree(r)
        BY <1>h, <2>1, <3>1 DEF SaidIt
      <4>3. QED
        BY <2>1, <3>1, <4>1, <4>2, Settled
    <3>2. CASE account # req[r].saw
      BY <2>1, <3>2 DEF LanguageIsTheLast, Word
    <3>3. QED
      BY <3>1, <3>2
  <2>3. ASSUME NEW t \in Request
        PROVE  SaidIt(t)'
    <3>1. CASE t = r
      BY <2>1, <3>1 DEF Leaves, SaidIt, At
    <3>2. CASE t # r
      <4>1. req'[t] = req[t]
        BY <2>1, <3>2 DEF Leaves, Others
      <4>2. Disagree(t)' = Disagree(t)
        BY <4>1 DEF Disagree
      <4>3. QED
        BY <1>h, <2>1, <4>1, <4>2 DEF SaidIt, At
    <3>3. QED
      BY <3>1, <3>2
  <2>4. QED
    BY <2>2, <2>3 DEF Word
\* A row deleted: nobody who saw one finds it.
<1>10. ASSUME NEW r \in Request, Delete(r) PROVE Word'
  <2>1. CASE account # req[r].saw
    BY <1>10, <2>1, WordOfAnswer DEF Delete, row
  <2>2. CASE account = req[r].saw
    <3>1. account' = 0 /\ Leaves(r)
      BY <1>10, <2>2, AnswerLeaves DEF Delete
    <3>2. ASSUME NEW t \in Request
          PROVE  SaidIt(t)'
      <4>1. CASE t = r
        BY <3>1, <4>1 DEF Leaves, SaidIt, At
      <4>2. CASE t # r
        <5>1. req'[t] = req[t]
          BY <3>1, <4>2 DEF Leaves, Others
        <5>2. HasRow(t) => req[t].saw # 0
          BY <1>h DEF SawRow
        <5>3. QED
          BY <1>h, <3>1, <5>1, <5>2 DEF SaidIt, HasRow, At
      <4>3. QED
        BY <4>1, <4>2
    <3>3. QED
      BY <3>1, <3>2 DEF Word, LanguageIsTheLast
  <2>3. QED
    BY <2>1, <2>2
<1>11. QED
  BY <1>1, <1>2, <1>3, <1>4, <1>5, <1>6, <1>7, <1>8, <1>9, <1>10 DEF Next, Verify, Serve

-----------------------------------------------------------------------------
(* The theorems.                                                           *)

LEMMA RowWordInit == Init => Row /\ Word
<1> SUFFICES ASSUME Init PROVE Row /\ Word
  OBVIOUS
<1>1. /\ account = 0
      /\ \A r \in Request : req[r].pc = "idle" /\ req[r].answer = "none" /\ ~req[r].creates
  BY DEF Init, Idle
<1>2. QED
  BY <1>1 DEF Row, FailsOnlyByOverlap, SawRow, SawNobody, HasRow, At, Word, LanguageIsTheLast, SaidIt

\* Every reachable state satisfies the inductive invariant.
THEOREM Inductive == Spec => []IInv
<1>1. Init => IInv
  BY TypeInit, CertsInit, CompanyInit, RowWordInit DEF IInv
<1>2. IInv /\ [Next]_vars => IInv'
  BY TypeStep, CertsStep, CompanyStep, RowStep, WordStep DEF IInv
<1>3. QED
  BY <1>1, <1>2, PTL DEF Spec

\* The state of the sign-ins, requests and deletions always has its type.
THEOREM TypeCorrect == Spec => []TypeOK
<1>1. IInv => TypeOK
  BY DEF IInv
<1>2. QED
  BY <1>1, Inductive, PTL

\* However many sign-ins race for the cache and whatever the ages of Google's
\* answers, a token Google signed is not rejected unless an answer of Google's
\* was kept later than it was given.
THEOREM NoGenuineRejection == Spec => []GenuineIsNotRejected
<1>1. IInv => GenuineIsNotRejected
  BY DEF IInv, Certs
<1>2. QED
  BY <1>1, Inductive, PTL

\* Of any number of sign-ins and requests, one fails with a server error only
\* beside a deletion of the account, or as the later of two first sign-ins.
THEOREM OnlyOverlapFails == Spec => []FailsOnlyByOverlap
<1>1. IInv => FailsOnlyByOverlap
  BY DEF IInv, Row
<1>2. QED
  BY <1>1, Inductive, PTL

\* The language stored is the one sent last, through any number of requests,
\* unless requests that overlapped disagreed on it.
THEOREM LastLanguageStays == Spec => []LanguageIsTheLast
<1>1. IInv => LanguageIsTheLast
  BY DEF IInv, Word
<1>2. QED
  BY <1>1, Inductive, PTL
=============================================================================
