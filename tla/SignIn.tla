------------------------------- MODULE SignIn -------------------------------
(***************************************************************************)
(* One person's sign-ins, requests and account deletions, on any of his    *)
(* devices and in any overlap: Google's certificates as the worker keeps   *)
(* them, the verification of Google's token, the students row a sign-in    *)
(* finds or creates, and the language every request mirrors onto it.       *)
(*                                                                         *)
(* The certificates are fetched by worker threads: two may miss the cache  *)
(* at once, and the later answer is kept over the earlier one.  A write to *)
(* the row and its commit are one step, since the row's lock, or that of   *)
(* its google_id in the unique index, is held from the one to the other.   *)
(* The tokens a sign-in is answered with are TokenRotation's.              *)
(***************************************************************************)
EXTENDS Naturals, FiniteSets

CONSTANTS
    Caller,     \* BOUND: the sign-ins, each made once
    Visitor,    \* BOUND: the calls with a session of his, each made once
    Language,
    None,
    MaxAge,     \* Google's Cache-Control: max-age
    MaxEdge,    \* the largest Age its answer carries: it is served while fresh
    Published,  \* when Google publishes its next key
    MaxTime     \* BOUND: the clock

ASSUME NoneAssumption == None \notin Language
ASSUME CallsAssumption == Caller \cap Visitor = {} /\ IsFiniteSet(Caller \cup Visitor)
ASSUME AgeAssumption == MaxAge \in Nat \ {0} /\ MaxEdge \in 0 .. MaxAge - 1
ASSUME TimeAssumption == Published \in Nat /\ MaxTime \in Nat

VARIABLES
    now,
    kept,      \* GOOGLE_CERTS: until when, and is the new key in it?
    account,   \* the id of his row, 0 when there is none
    births,    \* ids given so far
    language,  \* students.language
    req,
    slow,      \* has an answer of Google's been kept later than it was given?
    settled    \* the language he is known to have sent last, or "open"

vars == <<now, kept, account, births, language, req, slow, settled>>
row == <<account, births, language, settled>>
certs == <<kept, slow>>

Request == Caller \cup Visitor
SigningIn == {"signup", "login"}
Kinds(r) == IF r \in Caller THEN SigningIn ELSE {"use", "delete"}
Idle == [kind |-> "none", form |-> "none", lang |-> None, pc |-> "idle", asked |-> 0,
         saw |-> 0, creates |-> FALSE, changes |-> FALSE, answer |-> "none",
         beside |-> {}, said |-> {}]  \* kinds of what overlaps it; languages sent meanwhile
Running == {r \in Request : req[r].pc \notin {"idle", "done"}}

Init ==
    /\ now = 0
    /\ kept = [until |-> 0, new |-> FALSE]
    /\ account = 0 /\ births = 0 /\ language = None
    /\ req = [r \in Request |-> Idle]
    /\ slow = FALSE /\ settled = None

-----------------------------------------------------------------------------
(* Google, the clock, and what he asks for *)

Tick ==
    /\ now < MaxTime
    /\ now' = now + 1
    /\ UNCHANGED <<certs, row, req>>

\* Google signs with its next key once no answer without it is fresh.
SignsWithNew == now + 1 >= Published + MaxAge

\* The ID token of the old or of the new key, one Google refuses, or an access
\* token; of the app's own, one that is valid or one that has expired.
Forms(kind) ==
    IF kind \in SigningIn
    THEN {"old", "access", "refused"} \cup (IF SignsWithNew THEN {"new"} ELSE {})
    ELSE IF births > 0 THEN {"valid", "expired"} ELSE {}

\* POST /login says no language.
Languages(kind) == IF kind = "login" THEN {None} ELSE Language \cup {None}

Arrive(r, kind) ==
    /\ req[r].pc = "idle"
    /\ \E form \in Forms(kind), lang \in Languages(kind) :
          LET said == {lang} \ {None} IN
          req' = [t \in Request |->
                    IF t = r
                    THEN [Idle EXCEPT !.kind = kind, !.form = form, !.lang = lang,
                                      !.beside = {req[u].kind : u \in Running},
                                      !.said = said \cup ({req[u].lang : u \in Running} \ {None}),
                                      !.pc = IF kind \in SigningIn THEN "google" ELSE "token"]
                    ELSE IF t \in Running THEN [req[t] EXCEPT !.beside = @ \cup {kind}, !.said = @ \cup said]
                    ELSE req[t]]
    /\ UNCHANGED <<now, certs, row>>

-----------------------------------------------------------------------------
(* Google's token *)

At(r, pc) == req[r].pc = pc
Goes(r, pc) == req' = [req EXCEPT ![r].pc = pc]
\* Of an answer that is not a refusal of Google's token, nor a server error, no
\* more is kept than that it was given.
Ended(r, answer) ==
    IF answer \in {"rejected", "error"}
    THEN [req[r] EXCEPT !.pc = "done", !.answer = answer, !.lang = None, !.said = {}, !.asked = 0]
    ELSE [Idle EXCEPT !.pc = "done"]
Answered(r, answer) == req' = [req EXCEPT ![r] = Ended(r, answer)]

\* _verify_id_token against these certificates: what is not an ID token is
\* asked about instead.
Judged(r, new) ==
    CASE req[r].form = "access" -> Goes(r, "userinfo")
      [] req[r].form = "old" \/ (req[r].form = "new" /\ new) -> Goes(r, "lookup")
      [] OTHER -> Answered(r, "rejected")

\* The certificates are kept and fresh.
Recall(r) ==
    /\ At(r, "google") /\ now < kept.until
    /\ Judged(r, kept.new)
    /\ UNCHANGED <<now, certs, row>>

\* Or are asked for.
Ask(r) ==
    /\ At(r, "google") /\ now >= kept.until
    /\ req' = [req EXCEPT ![r].pc = "fetch", ![r].asked = now]
    /\ UNCHANGED <<now, certs, row>>

\* FAULT: the age the answer already carries is not taken off.
LifetimeWhole(age, cacheable) == IF cacheable THEN MaxAge ELSE 0

\* _lifetime.
Lifetime(age, cacheable) == IF cacheable THEN MaxAge - age ELSE 0

\* The answer, given at some moment since: kept from now on for its lifetime,
\* over whatever another thread kept meanwhile.
Fetched(r) ==
    /\ At(r, "fetch")
    /\ \E at \in req[r].asked .. now, age \in 0 .. MaxEdge, cacheable \in BOOLEAN :
          LET new  == Published + age <= at
              life == Lifetime(age, cacheable)
          IN  /\ age <= at
              /\ kept' = IF life > 0 THEN [until |-> now + life, new |-> new] ELSE kept
              /\ slow' = (slow \/ (life > 0 /\ at < now))
              /\ Judged(r, new)
    /\ UNCHANGED <<now, row>>

\* A TransportError: nothing is known of the token.
FetchFails(r) ==
    /\ At(r, "fetch")
    /\ Answered(r, "unreachable")
    /\ UNCHANGED <<now, certs, row>>

\* _verify_google_access_token: any error status is taken as a refusal.
Userinfo(r) ==
    /\ At(r, "userinfo")
    /\ Goes(r, "lookup") \/ Answered(r, "rejected") \/ Answered(r, "unreachable")
    /\ UNCHANGED <<now, certs, row>>

-----------------------------------------------------------------------------
(* The app's own token, and the row it names *)

\* verify_token.
CheckToken(r) ==
    /\ At(r, "token")
    /\ IF req[r].form = "valid" THEN Goes(r, "lookup") ELSE Answered(r, "invalid")
    /\ UNCHANGED <<now, certs, row>>

\* FAULT: a sign-up creates without looking.
FindsBlindly(r) == account # 0 /\ req[r].kind # "signup"

\* get_by_google_id.
Finds(r) == account # 0

\* remember_language.
Changes(r) == req[r].lang # None /\ req[r].lang # language

\* What a request that finds nobody is told.
Missing(r) ==
    CASE req[r].kind = "login" -> Answered(r, "notFound")
      [] req[r].kind = "signup" ->
           req' = [req EXCEPT ![r].pc = "write", ![r].creates = TRUE, ![r].changes = Changes(r)]
      [] OTHER -> Answered(r, "gone")

Lookup(r) ==
    /\ At(r, "lookup")
    /\ IF Finds(r)
       THEN req' = [req EXCEPT ![r].saw = account, ![r].changes = Changes(r),
                      ![r].pc = IF req[r].kind \in SigningIn \/ Changes(r) THEN "write" ELSE "body"]
       ELSE Missing(r)
    /\ UNCHANGED <<now, certs, row>>

\* From here on the language is his, unless requests disagree on it.
Settles(r, unsaid) ==
    settled' = IF Cardinality(req[r].said) > 1 THEN "open"
               ELSE IF req[r].lang = None THEN unsaid ELSE req[r].lang

\* A first sign-in: the unique google_id refuses a second row.
Create(r) ==
    /\ At(r, "write") /\ req[r].creates
    /\ IF account = 0
       THEN /\ births' = births + 1 /\ account' = births + 1
            /\ language' = req[r].lang
            /\ Settles(r, None)
            /\ req' = [req EXCEPT ![r].saw = births + 1, ![r].pc = "reload"]
       ELSE Answered(r, "error") /\ UNCHANGED row
    /\ UNCHANGED <<now, certs>>

\* FAULT: get_current_user leaves the commit to the endpoint, and a read never
\* commits.
StoresOnSignIn(r) == req[r].changes /\ req[r].kind # "use"

\* Is the language among the columns written?
Stores(r) == req[r].changes

\* An UPDATE of the row as it was read, and the commit: a row deleted since is
\* an error.
Write(r) ==
    /\ At(r, "write") /\ ~req[r].creates
    /\ IF account = req[r].saw
       THEN /\ language' = IF Stores(r) THEN req[r].lang ELSE language
            /\ Settles(r, settled)
            /\ Goes(r, IF req[r].kind \in SigningIn THEN "reload" ELSE "body")
            /\ UNCHANGED <<account, births>>
       ELSE Answered(r, "error") /\ UNCHANGED row
    /\ UNCHANGED <<now, certs>>

\* _token_response reads the row again after its commit.
Reload(r) ==
    /\ At(r, "reload")
    /\ Answered(r, IF account = req[r].saw THEN "signedIn" ELSE "error")
    /\ UNCHANGED <<now, certs, row>>

\* The endpoint of a request that got in, perhaps to an account that is gone.
Use(r) ==
    /\ At(r, "body") /\ req[r].kind = "use"
    /\ Answered(r, "ok")
    /\ IF account = req[r].saw THEN Settles(r, settled) ELSE UNCHANGED settled
    /\ UNCHANGED <<now, certs, account, births, language>>

\* delete_account.
Delete(r) ==
    /\ At(r, "body") /\ req[r].kind = "delete"
    /\ IF account = req[r].saw
       THEN account' = 0 /\ language' = None /\ settled' = None /\ Answered(r, "ok")
       ELSE Answered(r, "notFound") /\ UNCHANGED <<account, language, settled>>
    /\ UNCHANGED <<now, certs, births>>

-----------------------------------------------------------------------------
Verify(r) == Recall(r) \/ Ask(r) \/ Fetched(r) \/ FetchFails(r) \/ Userinfo(r)

Serve(r) ==
    \/ CheckToken(r) \/ Lookup(r) \/ Create(r) \/ Write(r) \/ Reload(r)
    \/ Use(r) \/ Delete(r)

Next ==
    \/ Tick
    \/ \E r \in Request : Verify(r) \/ Serve(r) \/ \E kind \in Kinds(r) : Arrive(r, kind)

Spec == Init /\ [][Next]_vars

-----------------------------------------------------------------------------
(* Properties *)

\* Types; the row is the one created last, and whoever got in saw one.
PC == {"idle", "google", "fetch", "userinfo", "token", "lookup", "write", "reload", "body", "done"}
Answer == {"none", "rejected", "error"}
Requests ==
    [kind : {"none", "signup", "login", "use", "delete"},
     form : {"none", "old", "new", "access", "refused", "valid", "expired"},
     lang : Language \cup {None}, pc : PC, asked : Nat, saw : Nat,
     creates : BOOLEAN, changes : BOOLEAN, answer : Answer,
     beside : SUBSET {"signup", "login", "use", "delete"}, said : SUBSET Language]

TypeOK ==
    /\ now \in 0 .. MaxTime /\ kept \in [until : Nat, new : BOOLEAN]
    /\ account \in {0, births} /\ births \in Nat
    /\ language \in Language \cup {None} /\ settled \in Language \cup {None, "open"}
    /\ req \in [Request -> Requests] /\ slow \in BOOLEAN
    /\ \A r \in Request :
          /\ req[r].asked <= now /\ req[r].saw <= births
          /\ req[r].pc \notin {"idle", "done"} => req[r].kind # "none"

\* A token Google signed is not rejected, whatever the age of the certificates
\* it is checked against and whether Google can be reached - unless an answer of
\* Google's was kept later than it was given (google_certs.py:7-10,
\* security.py:85-86).
GenuineIsNotRejected ==
    \A r \in Request :
        req[r].answer = "rejected" /\ req[r].form \in {"old", "new"} => slow

\* A sign-in or a request of his fails with a server error only when a deletion
\* of the account overlapped it, or, of two first sign-ins, for the one that
\* came second (auth.py:62-75).
FailsOnlyByOverlap ==
    \A r \in Request : req[r].answer = "error" =>
        "delete" \in req[r].beside \/ (req[r].creates /\ "signup" \in req[r].beside)

\* The language stored is the one he sent last, on a sign-in or on any request,
\* also one that writes nothing else - unless requests that overlapped disagreed
\* on it (student_dependencies.py:45-52).
LanguageIsTheLast ==
    account # 0 /\ settled # "open" => language = settled
=============================================================================
