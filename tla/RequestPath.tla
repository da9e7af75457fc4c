---------------------------- MODULE RequestPath ----------------------------
(***************************************************************************)
(* What every request of the API goes through in one worker: the rate      *)
(* limit (rate_limiter.py), the worker's pool of database connections      *)
(* (database.py), the session check (student_dependencies.py), Gemini      *)
(* under a budget of attempts (gemini_retry.py, gemini_guard.py), and the  *)
(* status that answers it (errors/codes.py) - beside the student chains    *)
(* that share the pool.                                                    *)
(*                                                                         *)
(* Three kinds of request stand for the routes: "tutor" is POST            *)
(* /tutor/messages, "create" is POST /goals, which starts a chain, "ask"   *)
(* is POST /goals/objective-questions, public, with two Gemini calls and   *)
(* no session.  An address is a pair of its /64 and the rest.              *)
(* A request carries its own clock, in half seconds: nothing but Gemini    *)
(* and a wait for a connection takes long enough to be counted.            *)
(***************************************************************************)
EXTENDS Integers, FiniteSets

CONSTANTS Requests,
          Arrivals,        \* BOUND: how many of the requests arrive
          Kind,            \* [Requests -> {"tutor", "create", "ask"}]
          Peer,            \* [Requests -> address] the TCP peer
          Forwarded,       \* [Requests -> address] its CF-Connecting-IP header, or None
          Proxies,         \* addresses on the private networks, where a proxy of ours is
          None,
          Limit,           \* requests a bucket may make in one window
          PoolSize,        \* DB_POOL_SIZE + DB_MAX_OVERFLOW
          Spans,           \* half seconds one attempt that is not cut off may take
          PoolWaits        \* half seconds a connection is waited for, short of the pool's thirty seconds

ASSUME RequestAssumption ==
    /\ IsFiniteSet(Requests) /\ Kind \in [Requests -> {"tutor", "create", "ask"}]
    /\ None \notin Nat /\ Arrivals \in Nat
    /\ Limit \in Nat /\ PoolSize \in Nat \ {0} /\ Spans \subseteq 0..89 /\ PoolWaits \subseteq 1..59

\* The edge writes the header of every request a proxy of ours passes on.
ASSUME EdgeAssumption == \A r \in Requests : Peer[r] \in Proxies => Forwarded[r] # None

VARIABLES req,       \* each request: where it is, its attempt, the calls it has left, its clock,
                     \* the connections it waited for, if it waits for one, if its language was new
          status,    \* what it was answered, or None
          hits,      \* the limiter's counters of this window
          pool,      \* who holds a connection: sessions of requests, and of chains
          chain,     \* what the chain of each "create" request is doing
          stored     \* tutor exchanges written

vars == << req, status, hits, pool, chain, stored >>

\* The two kinds of session that draw on the pool.
Session(r) == << "request", r >>

Chain(r) == << "chain", r >>

-----------------------------------------------------------------------------
(* rate_limiter.py *)

\* FAULT: the bucket is the TCP peer, nginx for everyone.
ClientPeer(r) == Peer[r]

\* The header of a request a proxy of ours passed on, the peer otherwise.
ClientAddress(r) ==
    IF Peer[r] \in Proxies /\ Forwarded[r] # None THEN Forwarded[r] ELSE Peer[r]

\* One subscriber is handed a whole /64.
Bucket(r) == ClientAddress(r)[1]

\* Each route counts for itself, in each bucket.
Counter(r) == << Bucket(r), Kind[r] >>

Admitted(r) == hits[Counter(r)] < Limit

-----------------------------------------------------------------------------
(* gemini_retry.py, gemini_guard.py *)

Attempts == 2

AttemptTimeout == 90

FirstDelay == 1

Outcomes == {"answer", "no_answer", "refused_key", "no_quota", "bad_request",
             "overloaded", "hangs", "unreachable"}

Retryable(outcome) == outcome \in {"no_quota", "overloaded", "hangs", "unreachable"}

\* FAULT: Gemini's own status reaches the app.
ApiErrorPassed(outcome) ==
    CASE outcome = "refused_key" -> 401
      [] outcome = "no_quota"    -> 429
      [] outcome \in {"no_answer", "bad_request", "overloaded"} -> 502
      [] OTHER -> 504

\* Always a 5xx: a failure of Gemini's is never his session nor his pace.
ApiError(outcome) ==
    CASE outcome = "no_quota" -> 503
      [] outcome \in {"hangs", "unreachable"} -> 504
      [] OTHER -> 502

-----------------------------------------------------------------------------

Init ==
    /\ req = [r \in Requests |-> [pc |-> "new", attempt |-> 1, clock |-> 0,
                                  left |-> CASE Kind[r] = "ask" -> 2 [] Kind[r] = "tutor" -> 1
                                             [] OTHER -> 0,
                                  waits |-> 0, queued |-> FALSE, switched |-> FALSE]]
    /\ status = [r \in Requests |-> None]
    /\ hits = [k \in {Counter(r) : r \in Requests} |-> 0]
    /\ pool = {}
    /\ chain = [r \in Requests |-> "none"]
    /\ stored = {}

Goes(r, pc) == req' = [req EXCEPT ![r].pc = pc]

Ended == [pc |-> "done", attempt |-> 1, left |-> 0, clock |-> 0,
          waits |-> 0, queued |-> FALSE, switched |-> FALSE]

Answer(r, code) ==
    /\ status' = [status EXCEPT ![r] = code]
    /\ req' = [req EXCEPT ![r] = Ended]

Arrived == {r \in Requests : req[r].pc # "new"}

Counted(r) == hits' = [hits EXCEPT ![Counter(r)] = @ + 1]

\* The default limit comes before every other dependency; a route with a limit
\* of its own meets it where its body begins, which for POST /goals is after
\* the session was checked (Works).
Arrive(r) ==
    /\ req[r].pc = "new" /\ Cardinality(Arrived) < Arrivals
    /\ \/ /\ Kind[r] = "create"
          /\ Goes(r, "connect")
          /\ UNCHANGED << status, hits >>
       \/ /\ Kind[r] # "create" /\ Admitted(r)
          /\ Counted(r)
          /\ Goes(r, IF Kind[r] = "ask" THEN "gemini" ELSE "connect")
          /\ UNCHANGED status
       \/ /\ Kind[r] # "create" /\ ~ Admitted(r)
          /\ Answer(r, 429)
          /\ UNCHANGED hits
    /\ UNCHANGED << pool, chain, stored >>

\* A fixed window ends.
NewWindow ==
    /\ \E k \in DOMAIN hits : hits[k] > 0 /\ hits' = [hits EXCEPT ![k] = 0]
    /\ UNCHANGED << req, status, pool, chain, stored >>

Connects(who) == Cardinality(pool) < PoolSize /\ pool' = pool \cup {who}

Release(r) == pool' = pool \ {Session(r)}

\* A connection is held for milliseconds by everyone but a call to Gemini.
AcrossGemini(who) == who \notin {Session(r) : r \in {s \in Requests : req[s].pc \in {"check", "insert"}}}

\* Nothing comes back to the pool for longer than milliseconds.
PoolHeld == Cardinality(pool) = PoolSize /\ \A who \in pool : AcrossGemini(who)

NeedsConnection(r) == req[r].pc \in {"connect", "store"}

\* get_db: the session takes a connection at its first statement; a message
\* takes another for its INSERT.  Whoever was queued has waited.
Connect(r) ==
    /\ NeedsConnection(r)
    /\ LET next == IF req[r].pc = "connect" THEN "check" ELSE "insert"
       IN  \/ ~ req[r].queued /\ Goes(r, next)
           \/ /\ req[r].queued
              /\ \E wait \in PoolWaits :
                    req' = [req EXCEPT ![r] =
                              [req[r] EXCEPT !.pc = next, !.queued = FALSE,
                                             !.waits = req[r].waits + 1, !.clock = req[r].clock + wait]]
    /\ Connects(Session(r))
    /\ UNCHANGED << status, hits, chain, stored >>

\* It finds the pool empty, and waits.
Queue(r) ==
    /\ NeedsConnection(r) /\ ~ req[r].queued /\ PoolHeld
    /\ req' = [req EXCEPT ![r].queued = TRUE]
    /\ UNCHANGED << status, hits, pool, chain, stored >>

\* No connection in the pool's thirty seconds: a 500.
PoolTimeout(r) ==
    /\ NeedsConnection(r) /\ req[r].queued /\ PoolHeld
    /\ Answer(r, 500)
    /\ Release(r)
    /\ UNCHANGED << hits, chain, stored >>

\* get_current_user commits a language the app switched to, and gives the
\* connection back with it: what follows takes another.
Remembers(r) ==
    /\ req[r].pc = "check" /\ ~ req[r].switched
    /\ req' = [req EXCEPT ![r] = [@ EXCEPT !.pc = "connect", !.switched = TRUE]]
    /\ Release(r)
    /\ UNCHANGED << status, hits, chain, stored >>

\* get_current_user: a 401 is a problem with the token, and nothing else is.
\* get_active_goal: a student may have no goal.
CheckFails(r) ==
    /\ req[r].pc = "check"
    /\ \/ ~ req[r].switched /\ Answer(r, 401)
       \/ Kind[r] = "tutor" /\ Answer(r, 404)
    /\ Release(r)
    /\ UNCHANGED << hits, chain, stored >>

\* FAULT: the tutor keeps its connection across Gemini.
ReadsHeld(r) ==
    /\ req[r].pc = "check" /\ Kind[r] = "tutor"
    /\ Goes(r, "gemini")
    /\ UNCHANGED << status, hits, pool, chain, stored >>

\* The tutor's reads end with a commit that gives the connection back.
Reads(r) ==
    /\ req[r].pc = "check" /\ Kind[r] = "tutor"
    /\ Goes(r, "gemini")
    /\ Release(r)
    /\ UNCHANGED << status, hits, chain, stored >>

\* create_goal commits the goal and fires its chain, unless its limit is reached.
Works(r) ==
    /\ req[r].pc = "check" /\ Kind[r] = "create"
    /\ \/ /\ Admitted(r)
          /\ Counted(r)
          /\ chain' = [chain EXCEPT ![r] = "connect"]
          /\ Answer(r, 200)
       \/ /\ ~ Admitted(r)
          /\ Answer(r, 429)
          /\ UNCHANGED << hits, chain >>
    /\ Release(r)
    /\ UNCHANGED stored

\* FAULT: the attempts are counted from zero.
SpentLate(r) == req[r].clock > 2 * AttemptTimeout

Spent(r) == req[r].attempt = Attempts

\* One attempt of call_with_retry that ends in `outcome` after `span`.
Attempt(r, outcome, span) ==
    /\ req[r].pc = "gemini"
    /\ outcome = "hangs" <=> span = AttemptTimeout
    /\ LET then == req[r].clock + span
           last == req[r].left = 1
       IN  \/ /\ outcome = "answer" /\ ~ last
              /\ req' = [req EXCEPT ![r] = [@ EXCEPT !.left = 1, !.attempt = 1, !.clock = then]]
              /\ UNCHANGED status
           \/ outcome = "answer" /\ ~ last /\ Answer(r, 400)        \* not a goal
           \/ outcome = "answer" /\ last /\ Kind[r] = "ask" /\ Answer(r, 200)
           \/ /\ outcome = "answer" /\ last /\ Kind[r] = "tutor"
              /\ req' = [req EXCEPT ![r] = [@ EXCEPT !.pc = "store", !.clock = then]]
              /\ UNCHANGED status
           \/ /\ Retryable(outcome) /\ ~ Spent(r)
              /\ req' = [req EXCEPT ![r] = [@ EXCEPT !.attempt = 2, !.clock = then + FirstDelay]]
              /\ UNCHANGED status
           \/ outcome # "answer" /\ (Retryable(outcome) => Spent(r)) /\ Answer(r, ApiError(outcome))
    /\ pool' = IF req'[r].pc = "done" THEN pool \ {Session(r)} ELSE pool
    /\ UNCHANGED << hits, chain, stored >>

\* The exchange is stored, whoever is still listening - unless the goal was
\* deleted during the call, and the INSERT names a row that is gone.
Insert(r) ==
    /\ req[r].pc = "insert"
    /\ \/ Answer(r, 200) /\ stored' = stored \cup {r}
       \/ Answer(r, 500) /\ UNCHANGED stored
    /\ Release(r)
    /\ UNCHANGED << hits, chain >>

\* A chain's session takes a connection at its first read and holds it across
\* the Gemini calls of its step.
ChainConnects(r) ==
    /\ chain[r] = "connect"
    /\ Connects(Chain(r))
    /\ chain' = [chain EXCEPT ![r] = "gemini"]
    /\ UNCHANGED << req, status, hits, stored >>

\* The pool's thirty seconds pass for a chain too: the error ends it.
ChainTimesOut(r) ==
    /\ chain[r] = "connect" /\ PoolHeld
    /\ chain' = [chain EXCEPT ![r] = "done"]
    /\ UNCHANGED << req, status, hits, pool, stored >>

\* The step commits; the next one reads again, or the chain is over.
ChainStepEnds(r) ==
    /\ chain[r] = "gemini"
    /\ pool' = pool \ {Chain(r)}
    /\ \E next \in {"connect", "done"} : chain' = [chain EXCEPT ![r] = next]
    /\ UNCHANGED << req, status, hits, stored >>

Calls(r) == \E outcome \in Outcomes, span \in Spans \cup {AttemptTimeout} : Attempt(r, outcome, span)

Step(r) ==
    \/ Connect(r) \/ Queue(r) \/ PoolTimeout(r)
    \/ Remembers(r) \/ CheckFails(r) \/ Reads(r) \/ Works(r) \/ Calls(r) \/ Insert(r)

ChainStep(r) == ChainConnects(r) \/ ChainTimesOut(r) \/ ChainStepEnds(r)

AllDone == /\ \A r \in Requests : chain[r] \in {"none", "done"}
           /\ \A r \in Arrived : req[r].pc = "done"
           /\ Arrived = Requests \/ Cardinality(Arrived) = Arrivals
           /\ UNCHANGED vars

Next ==
    \/ \E r \in Requests : Arrive(r) \/ Step(r) \/ ChainStep(r)
    \/ NewWindow
    \/ AllDone

Spec == Init /\ [][Next]_vars

-----------------------------------------------------------------------------
(* What is promised.                                                       *)

\* Types; the pool is never exceeded.
Record == [pc : {"new", "connect", "check", "gemini", "store", "insert", "done"},
           attempt : 1..2, left : 0..2, clock : Nat,
           waits : Nat, queued : BOOLEAN, switched : BOOLEAN]

Status == {None, 200, 400, 401, 404, 429, 500, 502, 503, 504}

TypeOK ==
    /\ req \in [Requests -> Record] /\ status \in [Requests -> Status]
    /\ hits \in [{Counter(r) : r \in Requests} -> Nat]
    /\ pool \subseteq {"request", "chain"} \X Requests /\ Cardinality(pool) <= PoolSize
    /\ chain \in [Requests -> {"none", "connect", "gemini", "done"}] /\ stored \subseteq Requests

\* The app signs a student out on a 401 and slows him down on a 429: neither is
\* ever Gemini's doing (codes.py:14-17, gemini_guard.py:18-24).  The docstring of
\* gemini_retry.py:30-31 says the opposite - "Gemini's own status code then
\* reaches the client, so the app can say what happened" - and the code does not
\* do it: README, section 7.
NeverReadAsSignedOut ==
    [][ \A r \in Requests : status'[r] # status[r] =>
          /\ status'[r] = 401 => req[r].pc = "check"
          /\ status'[r] = 429 => req[r].pc \in {"new", "check"} ]_vars

\* A client is refused only for requests that came from his own /64
\* (rate_limiter.py:3-26): not for those that passed the same proxy, nor for
\* those of someone who wrote his address in a header.
NoOneSpendsAnothersLimit ==
    \A r \in Requests :
       LET Origin(s) == IF Peer[s] \in Proxies THEN Forwarded[s][1] ELSE Peer[s][1]
       IN  status[r] = 429 =>
              Cardinality({s \in Requests \ {r} :
                             Origin(s) = Origin(r) /\ Kind[s] = Kind[r]
                             /\ req[s].pc # "new" /\ status[s] # 429}) >= Limit

\* A request waits for a connection, and goes without one, only when the
\* student chains hold them all: no request keeps one across Gemini
\* (config.py:58-60).
StarvedOnlyByChains ==
    [][ \A r \in Requests :
          \/ req'[r].queued /\ ~ req[r].queued
          \/ NeedsConnection(r) /\ status'[r] = 500
          => pool \subseteq {Chain(s) : s \in Requests} ]_vars

\* What a late message was late for.  Gemini's two attempts alone stay inside
\* the hundred seconds Cloudflare holds a request open (gemini_retry.py:27-30):
\* past it there was a wait for a connection, and a failed attempt or another
\* wait.  Past the sixty of nginx.conf:48, one of the two: only then is an
\* exchange stored whose reply nobody hears.
LateForACause ==
    \A r \in Requests : Kind[r] = "tutor" =>
       /\ req[r].pc = "gemini" /\ req[r].clock + AttemptTimeout >= 200 => req[r].waits > 0
       /\ req[r].pc = "insert" /\ req[r].clock >= 120 => req[r].attempt = 2 \/ req[r].waits > 0
       /\ req[r].pc = "insert" /\ req[r].clock >= 200 =>
             req[r].waits > 0 /\ (req[r].attempt = 2 \/ req[r].waits > 1)
=============================================================================
