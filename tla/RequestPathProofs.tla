------------------------- MODULE RequestPathProofs -------------------------
(***************************************************************************)
(* The safety of the request path, for any number of requests from any     *)
(* addresses, any limit, any size of the pool, and any time an attempt     *)
(* that is not cut off, or a wait for a connection, takes.                 *)
(*                                                                         *)
(* The argument: a counter of the limiter counts requests, each once, so   *)
(* whoever is refused is refused for that many others; the pool holds      *)
(* requests that are at the database, and chains; and a clock is what the  *)
(* attempts of one call, and its waits for a connection, can add up to.    *)
(***************************************************************************)
EXTENDS RequestPath, FiniteSetTheorems, TLAPS

-----------------------------------------------------------------------------
(* The inductive invariant, in named parts.                                *)

\* Whoever has an answer is done.
Answered == \A r \in Requests : status[r] # None => req[r].pc = "done"

\* Counted, or on its way: POST /goals is counted where it is answered.
IsCounted(r) ==
    IF Kind[r] = "create" THEN status[r] = 200 ELSE req[r].pc # "new" /\ status[r] # 429

CountedIn(k) == {r \in Requests : Counter(r) = k /\ IsCounted(r)}

\* A counter counts no request twice, and whoever is refused had a full one.
Counters ==
    /\ \A k \in DOMAIN hits : hits[k] <= Cardinality(CountedIn(k))
    /\ \A r \in Requests : status[r] = 429 => Cardinality(CountedIn(Counter(r))) >= Limit

\* Requests hold a connection while they are at the database, never across Gemini.
Sessions == {Session(r) : r \in {s \in Requests : req[s].pc \in {"check", "insert"}}}

Chains == {Chain(r) : r \in Requests}

Holders == pool \subseteq Sessions \cup Chains

\* Half seconds of one wait for a connection that is not given up.
LongestWait == 59

\* A message makes one call: what its attempts and its waits can have taken.
ClockOf(r) ==
    /\ req[r].pc # "done" => req[r].left = 1
    /\ req[r].pc \in {"new", "connect", "check"} =>
          req[r].attempt = 1 /\ req[r].clock <= LongestWait * req[r].waits
    /\ req[r].pc = "gemini" =>
          req[r].clock <= LongestWait * req[r].waits
                          + (IF req[r].attempt = 1 THEN 0 ELSE AttemptTimeout + FirstDelay)
    /\ req[r].pc \in {"store", "insert"} =>
          req[r].clock < LongestWait * req[r].waits
                         + (IF req[r].attempt = 1 THEN AttemptTimeout ELSE 2 * AttemptTimeout + FirstDelay)

Clock == \A r \in Requests : Kind[r] = "tutor" => ClockOf(r)

IInv == TypeOK /\ Answered /\ Counters /\ Holders /\ Clock

-----------------------------------------------------------------------------
(* What a step does to the one request it serves.                          *)

PCs == {"new", "connect", "check", "gemini", "store", "insert", "done"}

Codes == Status \ {None}

\* A step leaves the others alone.
Others(r) == \A t \in Requests : t # r => req'[t] = req[t] /\ status'[t] = status[t]

LEMMA Fields ==
    ASSUME TypeOK, NEW r \in Requests
    PROVE  /\ req[r].pc \in PCs /\ req[r].attempt \in 1..2 /\ req[r].left \in 0..2
           /\ req[r].clock \in Nat /\ status[r] \in Status
           /\ req[r].waits \in Nat /\ req[r].queued \in BOOLEAN /\ req[r].switched \in BOOLEAN
BY DEF TypeOK, Record, PCs

LEMMA EndedTyped == Ended \in Record
BY DEF Ended, Record

\* A step that answers nobody.
LEMMA Moves ==
    ASSUME TypeOK, NEW r \in Requests, NEW new \in Record, req' = [req EXCEPT ![r] = new],
           status' = status
    PROVE  req' \in [Requests -> Record] /\ Others(r) /\ req'[r] = new
BY DEF TypeOK, Others

\* What a request carries from step to step, its place apart.
SameClock(r) == req'[r].clock = req[r].clock /\ req'[r].waits = req[r].waits

SameCall(r) == req'[r].attempt = req[r].attempt /\ req'[r].left = req[r].left

LEMMA GoesTo ==
    ASSUME TypeOK, NEW r \in Requests, NEW pc \in PCs, Goes(r, pc), status' = status
    PROVE  /\ req' \in [Requests -> Record] /\ Others(r) /\ req'[r].pc = pc
           /\ SameCall(r) /\ SameClock(r) /\ req'[r].queued = req[r].queued
<1> DEFINE new == [req[r] EXCEPT !.pc = pc]
<1>1. req[r] \in Record
  BY DEF TypeOK
<1>2. new \in Record /\ new.pc = pc /\ new.attempt = req[r].attempt /\ new.left = req[r].left
      /\ new.clock = req[r].clock /\ new.waits = req[r].waits /\ new.queued = req[r].queued
  BY <1>1 DEF Record, PCs
<1>3. req' = [req EXCEPT ![r] = new]
  BY DEF Goes
<1> HIDE DEF new
<1>4. QED
  BY <1>2, <1>3, Moves DEF SameCall, SameClock

LEMMA QueueTo ==
    ASSUME TypeOK, NEW r \in Requests, Queue(r)
    PROVE  /\ req' \in [Requests -> Record] /\ Others(r) /\ req'[r].pc = req[r].pc
           /\ SameCall(r) /\ SameClock(r)
<1> DEFINE new == [req[r] EXCEPT !.queued = TRUE]
<1>1. req[r] \in Record
  BY DEF TypeOK
<1>2. new \in Record /\ new.pc = req[r].pc /\ new.attempt = req[r].attempt /\ new.left = req[r].left
      /\ new.clock = req[r].clock /\ new.waits = req[r].waits
  BY <1>1 DEF Record
<1>3. req' = [req EXCEPT ![r] = new] /\ status' = status
  BY DEF Queue
<1> HIDE DEF new
<1>4. QED
  BY <1>2, <1>3, Moves DEF SameCall, SameClock

LEMMA RemembersTo ==
    ASSUME TypeOK, NEW r \in Requests, Remembers(r)
    PROVE  /\ req' \in [Requests -> Record] /\ Others(r) /\ req'[r].pc = "connect"
           /\ SameCall(r) /\ SameClock(r) /\ req'[r].queued = req[r].queued
<1> DEFINE away == [req[r] EXCEPT !.pc = "connect"]
           new == [away EXCEPT !.switched = TRUE]
<1>1. req[r] \in Record
  BY DEF TypeOK
<1>2. away \in Record /\ away.pc = "connect" /\ away.attempt = req[r].attempt /\ away.left = req[r].left
      /\ away.clock = req[r].clock /\ away.waits = req[r].waits /\ away.queued = req[r].queued
  BY <1>1 DEF Record
<1>3. req' = [req EXCEPT ![r] = new] /\ status' = status
  BY DEF Remembers
<1> HIDE DEF away
<1>4. new \in Record /\ new.pc = away.pc /\ new.attempt = away.attempt /\ new.left = away.left
      /\ new.clock = away.clock /\ new.waits = away.waits /\ new.queued = away.queued
  BY <1>2 DEF Record
<1> HIDE DEF new
<1>5. QED
  BY <1>2, <1>3, <1>4, Moves DEF SameCall, SameClock

\* A connection is had at once, or after a wait that is on the clock.
LEMMA ConnectTo ==
    ASSUME TypeOK, NEW r \in Requests, Connect(r)
    PROVE  /\ req' \in [Requests -> Record] /\ Others(r) /\ status' = status
           /\ \/ req[r].pc = "connect" /\ req'[r].pc = "check"
              \/ req[r].pc = "store" /\ req'[r].pc = "insert"
           /\ SameCall(r)
           /\ \/ SameClock(r)
              \/ \E wait \in 1 .. LongestWait :
                    req'[r].clock = req[r].clock + wait /\ req'[r].waits = req[r].waits + 1
           /\ ~ req'[r].queued
<1> DEFINE next == IF req[r].pc = "connect" THEN "check" ELSE "insert"
<1>1. /\ next \in PCs /\ status' = status
      /\ (req[r].pc = "connect" /\ next = "check") \/ (req[r].pc = "store" /\ next = "insert")
  BY DEF Connect, NeedsConnection, PCs
<1>2. CASE ~ req[r].queued /\ Goes(r, next)
  <2> HIDE DEF next
  <2>1. /\ req' \in [Requests -> Record] /\ Others(r) /\ req'[r].pc = next
        /\ SameCall(r) /\ SameClock(r) /\ req'[r].queued = req[r].queued
    BY <1>1, <1>2, GoesTo
  <2>2. ~ req'[r].queued
    BY <1>2, <2>1
  <2>3. QED
    BY <1>1, <2>1, <2>2
<1>3. ASSUME NEW wait \in PoolWaits,
             req' = [req EXCEPT ![r] =
                       [req[r] EXCEPT !.pc = next, !.queued = FALSE,
                                      !.waits = req[r].waits + 1, !.clock = req[r].clock + wait]]
      PROVE  /\ req' \in [Requests -> Record] /\ Others(r) /\ req'[r].pc = next
             /\ SameCall(r) /\ ~ req'[r].queued
             /\ req'[r].clock = req[r].clock + wait /\ req'[r].waits = req[r].waits + 1
  <2> HIDE DEF next
  <2> DEFINE more == req[r].waits + 1
             later == req[r].clock + wait
             new == [req[r] EXCEPT !.pc = next, !.queued = FALSE, !.waits = more, !.clock = later]
             there == [req[r] EXCEPT !.pc = next]
             served == [there EXCEPT !.queued = FALSE]
             waited == [served EXCEPT !.waits = more]
             done == [waited EXCEPT !.clock = later]
  <2>1. more \in Nat /\ later \in Nat
    BY Fields, RequestAssumption
  <2>2. req[r] \in Record
    BY DEF TypeOK
  <2>3. req' = [req EXCEPT ![r] = new]
    BY <1>3
  <2> HIDE DEF more, later
  <2>4. there \in Record /\ there.pc = next /\ there.attempt = req[r].attempt /\ there.left = req[r].left
    BY <1>1, <2>2 DEF Record, PCs
  <2>5. new = done
    BY DEF new, done
  <2> HIDE DEF there, new
  <2>6. served \in Record /\ served.pc = next /\ served.attempt = req[r].attempt
        /\ served.left = req[r].left /\ served.queued = FALSE
    BY <2>4 DEF Record
  <2> HIDE DEF served
  <2>7. waited \in Record /\ waited.pc = next /\ waited.attempt = req[r].attempt
        /\ waited.left = req[r].left /\ waited.queued = FALSE /\ waited.waits = more
    BY <2>1, <2>6 DEF Record
  <2> HIDE DEF waited
  <2>8. done \in Record /\ done.pc = next /\ done.attempt = req[r].attempt /\ done.left = req[r].left
        /\ done.queued = FALSE /\ done.waits = more /\ done.clock = later
    BY <2>1, <2>7 DEF Record
  <2> HIDE DEF done
  <2>9. req' \in [Requests -> Record] /\ Others(r) /\ req'[r] = done
    BY <1>1, <2>3, <2>5, <2>8, Moves
  <2>10. ~ req'[r].queued
    BY <2>8, <2>9
  <2>11. req'[r].clock = req[r].clock + wait /\ req'[r].waits = req[r].waits + 1
    BY <2>8, <2>9 DEF more, later
  <2>12. SameCall(r) /\ req'[r].pc = next
    BY <2>8, <2>9 DEF SameCall
  <2>13. QED
    BY <2>9, <2>10, <2>11, <2>12
<1>4. \A wait \in PoolWaits : wait \in 1 .. LongestWait
  BY RequestAssumption DEF LongestWait
<1>5. QED
  <2>1. CASE ~ req[r].queued /\ Goes(r, next)
    BY <1>1, <1>2, <2>1
  <2>2. CASE \E wait \in PoolWaits :
               req' = [req EXCEPT ![r] =
                         [req[r] EXCEPT !.pc = next, !.queued = FALSE,
                                        !.waits = req[r].waits + 1, !.clock = req[r].clock + wait]]
    <3>1. PICK wait \in PoolWaits :
                 req' = [req EXCEPT ![r] =
                           [req[r] EXCEPT !.pc = next, !.queued = FALSE,
                                          !.waits = req[r].waits + 1, !.clock = req[r].clock + wait]]
      BY <2>2
    <3> HIDE DEF next
    <3>2. QED
      BY <1>1, <1>3, <1>4, <3>1
  <2>3. QED
    BY <2>1, <2>2 DEF Connect

LEMMA AnswerTo ==
    ASSUME TypeOK, NEW r \in Requests, NEW code \in Codes, Answer(r, code)
    PROVE  /\ req' \in [Requests -> Record] /\ Others(r) /\ req'[r].pc = "done"
           /\ status' \in [Requests -> Status] /\ status'[r] = code /\ ~ req'[r].queued
<1>1. req' = [req EXCEPT ![r] = Ended] /\ status' = [status EXCEPT ![r] = code]
  BY DEF Answer
<1>2. req' \in [Requests -> Record] /\ req'[r] = Ended
  BY <1>1, EndedTyped DEF TypeOK
<1>3. status' \in [Requests -> Status] /\ status'[r] = code
  BY <1>1 DEF TypeOK, Codes
<1>4. Others(r)
  BY <1>1 DEF TypeOK, Others
<1>5. QED
  BY <1>2, <1>3, <1>4 DEF Ended

\* An attempt starts the second call, stores, tries again, or answers.
LEMMA AttemptTo ==
    ASSUME TypeOK, NEW r \in Requests, NEW outcome \in Outcomes,
           NEW span \in Spans \cup {AttemptTimeout}, Attempt(r, outcome, span)
    PROVE  \/ \E code \in {200, 400, 502, 503, 504} : Answer(r, code)
           \/ /\ req' \in [Requests -> Record] /\ Others(r) /\ status' = status
              /\ req'[r].waits = req[r].waits /\ req'[r].queued = req[r].queued
              /\ \/ req[r].left # 1 /\ req'[r].pc = "gemini"
                 \/ /\ req'[r].pc = "store" /\ req'[r].left = req[r].left
                    /\ req'[r].attempt = req[r].attempt
                    /\ req'[r].clock = req[r].clock + span /\ span # AttemptTimeout
                 \/ /\ req'[r].pc = "gemini" /\ req'[r].left = req[r].left
                    /\ req[r].attempt # Attempts /\ req'[r].attempt = 2
                    /\ req'[r].clock = req[r].clock + span + FirstDelay
<1> DEFINE then == req[r].clock + span
           last == req[r].left = 1
           second == [req[r] EXCEPT !.left = 1, !.attempt = 1, !.clock = then]
           stores == [req[r] EXCEPT !.pc = "store", !.clock = then]
           again == [req[r] EXCEPT !.attempt = 2, !.clock = then + FirstDelay]
<1>1. span \in Nat /\ req[r] \in Record /\ req[r].pc = "gemini" /\ req[r].clock \in Nat
  <2>1. span \in Nat
    BY RequestAssumption DEF AttemptTimeout
  <2>2. req[r] \in Record /\ req[r].pc = "gemini"
    BY DEF TypeOK, Attempt
  <2>3. req[r].clock \in Nat
    BY Fields
  <2>4. QED
    BY <2>1, <2>2, <2>3
<1>2. then \in Nat /\ then + FirstDelay \in Nat
  BY <1>1 DEF FirstDelay
<1>3. /\ second \in Record /\ second.pc = "gemini"
      /\ second.waits = req[r].waits /\ second.queued = req[r].queued
  <2> DEFINE one == [req[r] EXCEPT !.left = 1]
             first == [one EXCEPT !.attempt = 1]
  <2> HIDE DEF then
  <2>1. one \in Record /\ one.pc = "gemini" /\ one.waits = req[r].waits /\ one.queued = req[r].queued
    BY <1>1 DEF Record
  <2> HIDE DEF one
  <2>2. first \in Record /\ first.pc = "gemini" /\ first.waits = one.waits /\ first.queued = one.queued
    BY <2>1 DEF Record
  <2> HIDE DEF first
  <2>3. second = [first EXCEPT !.clock = then]
    BY DEF one, first
  <2> HIDE DEF second
  <2>4. QED
    BY <1>2, <2>1, <2>2, <2>3 DEF Record
<1>4. /\ stores \in Record /\ stores.pc = "store" /\ stores.left = req[r].left
      /\ stores.attempt = req[r].attempt /\ stores.clock = then
      /\ stores.waits = req[r].waits /\ stores.queued = req[r].queued
  BY <1>1, <1>2 DEF Record
<1>5. /\ again \in Record /\ again.pc = "gemini" /\ again.left = req[r].left
      /\ again.attempt = 2 /\ again.clock = then + FirstDelay
      /\ again.waits = req[r].waits /\ again.queued = req[r].queued
  <2> HIDE DEF then
  <2>1. 2 \in 1..2
    OBVIOUS
  <2>2. QED
    BY <1>1, <1>2, <2>1 DEF Record
<1>6. ApiError(outcome) \in {502, 503, 504}
  BY DEF ApiError
<1>7. \/ ~ last /\ req' = [req EXCEPT ![r] = second] /\ status' = status
      \/ outcome = "answer" /\ req' = [req EXCEPT ![r] = stores] /\ status' = status
      \/ ~ Spent(r) /\ req' = [req EXCEPT ![r] = again] /\ status' = status
      \/ Answer(r, 400) \/ Answer(r, 200) \/ Answer(r, ApiError(outcome))
  BY DEF Attempt
<1>8. outcome = "answer" => span # AttemptTimeout
  BY DEF Attempt
<1> HIDE DEF second, stores, again
<1>9. QED
  BY <1>3, <1>4, <1>5, <1>6, <1>7, <1>8, Moves DEF Spent

-----------------------------------------------------------------------------
(* Types.                                                                  *)

LEMMA PoolFinite == ASSUME TypeOK PROVE IsFiniteSet(pool) /\ Cardinality(pool) \in Nat
<1>1. IsFiniteSet({"request", "chain"})
  <2>1. IsFiniteSet({"request"})
    BY FS_Singleton
  <2>2. IsFiniteSet({"request"} \cup {"chain"})
    BY <2>1, FS_AddElement
  <2>3. QED
    BY <2>2
<1>2. IsFiniteSet({"request", "chain"} \X Requests)
  BY <1>1, RequestAssumption, FS_Product
<1>3. QED
  BY <1>2, FS_Subset, FS_CardinalityType DEF TypeOK

LEMMA ReleaseTyped ==
    ASSUME TypeOK, NEW who
    PROVE  pool \ {who} \subseteq {"request", "chain"} \X Requests /\ Cardinality(pool \ {who}) <= PoolSize
<1>1. pool \ {who} \in SUBSET pool
  OBVIOUS
<1>2. Cardinality(pool \ {who}) <= Cardinality(pool) /\ Cardinality(pool \ {who}) \in Nat
  BY <1>1, PoolFinite, FS_Subset, FS_CardinalityType
<1>3. QED
  BY <1>2, PoolFinite, RequestAssumption DEF TypeOK

LEMMA ConnectsTyped ==
    ASSUME TypeOK, NEW who \in {"request", "chain"} \X Requests, Connects(who)
    PROVE  pool' \subseteq {"request", "chain"} \X Requests /\ Cardinality(pool') <= PoolSize
<1>1. Cardinality(pool) < PoolSize /\ pool' = pool \cup {who}
  BY DEF Connects
<1>2. Cardinality(pool \cup {who}) <= Cardinality(pool) + 1
  BY PoolFinite, FS_AddElement
<1>3. QED
  BY <1>1, <1>2, PoolFinite, RequestAssumption, FS_CardinalityType, FS_AddElement DEF TypeOK

LEMMA TypeInit == Init => TypeOK
<1> SUFFICES ASSUME Init PROVE TypeOK
  OBVIOUS
<1>1. req \in [Requests -> Record]
  BY DEF Init, Record
<1>2. hits \in [{Counter(r) : r \in Requests} -> Nat]
  BY DEF Init
<1>3. pool \subseteq {"request", "chain"} \X Requests /\ Cardinality(pool) <= PoolSize
  BY RequestAssumption, FS_EmptySet DEF Init
<1>4. QED
  BY <1>1, <1>2, <1>3 DEF Init, TypeOK, Status

LEMMA CountedTyped ==
    ASSUME TypeOK, NEW r \in Requests, Counted(r)
    PROVE  hits' \in [{Counter(s) : s \in Requests} -> Nat]
BY DEF TypeOK, Counted

LEMMA TypeStep == ASSUME TypeOK, [Next]_vars PROVE TypeOK'
<1>a. ASSUME NEW r \in Requests, NEW code \in {200, 400, 401, 404, 429, 500, 502, 503, 504}, Answer(r, code)
      PROVE  req' \in [Requests -> Record] /\ status' \in [Requests -> Status]
  <2>1. code \in Codes
    BY <1>a, RequestAssumption DEF Codes, Status
  <2>2. QED
    BY <1>a, <2>1, AnswerTo
<1>g. ASSUME NEW r \in Requests, NEW pc \in PCs, Goes(r, pc), status' = status
      PROVE  req' \in [Requests -> Record] /\ status' \in [Requests -> Status]
  BY <1>g, GoesTo DEF TypeOK
<1>1. ASSUME NEW r \in Requests, Arrive(r) PROVE TypeOK'
  <2>1. req' \in [Requests -> Record] /\ status' \in [Requests -> Status]
    BY <1>1, <1>a, <1>g DEF Arrive, PCs
  <2>2. hits' \in [{Counter(s) : s \in Requests} -> Nat]
    BY <1>1, CountedTyped DEF Arrive, TypeOK
  <2>3. QED
    BY <1>1, <2>1, <2>2 DEF Arrive, TypeOK
<1>2. ASSUME NewWindow PROVE TypeOK'
  BY <1>2 DEF NewWindow, TypeOK
<1>3. ASSUME NEW r \in Requests, Connect(r) PROVE TypeOK'
  <2>1. req' \in [Requests -> Record] /\ status' \in [Requests -> Status]
    BY <1>3, ConnectTo DEF TypeOK
  <2>2. pool' \subseteq {"request", "chain"} \X Requests /\ Cardinality(pool') <= PoolSize
    BY <1>3, ConnectsTyped DEF Connect, Session
  <2>3. QED
    BY <1>3, <2>1, <2>2 DEF Connect, TypeOK
<1>q. ASSUME NEW r \in Requests, Queue(r) PROVE TypeOK'
  BY <1>q, QueueTo DEF Queue, TypeOK
<1>r. ASSUME NEW r \in Requests, Remembers(r) PROVE TypeOK'
  <2>1. pool' \subseteq {"request", "chain"} \X Requests /\ Cardinality(pool') <= PoolSize
    BY <1>r, ReleaseTyped DEF Remembers, Release
  <2>2. QED
    BY <1>r, <2>1, RemembersTo DEF Remembers, TypeOK
<1>4. ASSUME NEW r \in Requests, PoolTimeout(r) \/ CheckFails(r) \/ Insert(r) \/ Works(r) \/ Reads(r) PROVE TypeOK'
  <2>1. req' \in [Requests -> Record] /\ status' \in [Requests -> Status]
    BY <1>4, <1>a, <1>g DEF PoolTimeout, CheckFails, Insert, Works, Reads, PCs
  <2>2. pool' \subseteq {"request", "chain"} \X Requests /\ Cardinality(pool') <= PoolSize
    BY <1>4, ReleaseTyped DEF PoolTimeout, CheckFails, Insert, Works, Reads, Release
  <2>3. hits' \in [{Counter(s) : s \in Requests} -> Nat]
    BY <1>4, CountedTyped DEF PoolTimeout, CheckFails, Insert, Works, Reads, TypeOK
  <2>4. chain' \in [Requests -> {"none", "connect", "gemini", "done"}]
    BY <1>4 DEF PoolTimeout, CheckFails, Insert, Works, Reads, TypeOK
  <2>5. stored' \subseteq Requests
    BY <1>4 DEF PoolTimeout, CheckFails, Insert, Works, Reads, TypeOK
  <2>6. QED
    BY <2>1, <2>2, <2>3, <2>4, <2>5 DEF TypeOK
<1>5. ASSUME NEW r \in Requests, Calls(r) PROVE TypeOK'
  <2>1. PICK outcome \in Outcomes, span \in Spans \cup {AttemptTimeout} : Attempt(r, outcome, span)
    BY <1>5 DEF Calls
  <2>2. req' \in [Requests -> Record] /\ status' \in [Requests -> Status]
    BY <1>a, <2>1, AttemptTo DEF TypeOK
  <2>3. pool' \subseteq {"request", "chain"} \X Requests /\ Cardinality(pool') <= PoolSize
    BY <2>1, ReleaseTyped DEF Attempt, TypeOK
  <2>4. QED
    BY <2>1, <2>2, <2>3 DEF Attempt, TypeOK
<1>6. ASSUME NEW r \in Requests, ChainConnects(r) PROVE TypeOK'
  <2>1. pool' \subseteq {"request", "chain"} \X Requests /\ Cardinality(pool') <= PoolSize
    BY <1>6, ConnectsTyped DEF ChainConnects, Chain
  <2>2. QED
    BY <1>6, <2>1 DEF ChainConnects, TypeOK
<1>7. ASSUME NEW r \in Requests, ChainStepEnds(r) PROVE TypeOK'
  <2>1. pool' \subseteq {"request", "chain"} \X Requests /\ Cardinality(pool') <= PoolSize
    BY <1>7, ReleaseTyped DEF ChainStepEnds
  <2>2. QED
    BY <1>7, <2>1 DEF ChainStepEnds, TypeOK
<1>t. ASSUME NEW r \in Requests, ChainTimesOut(r) PROVE TypeOK'
  BY <1>t DEF ChainTimesOut, TypeOK
<1>8. CASE UNCHANGED vars
  BY <1>8 DEF vars, TypeOK
<1>9. QED
  BY <1>1, <1>2, <1>3, <1>q, <1>r, <1>4, <1>5, <1>6, <1>7, <1>t, <1>8 DEF Next, Step, ChainStep, AllDone

-----------------------------------------------------------------------------
(* Answers.                                                                *)

\* What a step does to a request: it goes on, or it is answered, and then the
\* code tells where it was and why.
Lives(t) ==
    \/ /\ status'[t] = status[t]
       /\ req[t].pc = "done" => req'[t].pc = "done"
       /\ req'[t].pc = "new" => req[t].pc = "new"
    \/ /\ req[t].pc # "done" /\ req'[t].pc = "done" /\ status'[t] \in Codes
       /\ status'[t] = 401 => req[t].pc = "check"
       /\ status'[t] = 429 => /\ ~ Admitted(t)
                              /\ req[t].pc = "new" \/ (req[t].pc = "check" /\ Kind[t] = "create")
       /\ status'[t] = 500 /\ req[t].pc \in {"connect", "store"} => \A who \in pool : AcrossGemini(who)

LEMMA CodesAre == {200, 400, 401, 404, 429, 500, 502, 503, 504} \subseteq Codes
BY RequestAssumption DEF Codes, Status

LEMMA LivesOn ==
    ASSUME TypeOK, NEW r \in Requests, NEW t \in Requests, Others(r), status' = status,
           req[r].pc # "done", req'[r].pc # "new"
    PROVE  Lives(t)
BY DEF Others, Lives

\* Answered with a code that says no more than that.
LEMMA LivesDone ==
    ASSUME TypeOK, NEW r \in Requests, NEW t \in Requests, NEW code \in Codes, Answer(r, code),
           req[r].pc # "done",
           code = 401 => req[r].pc = "check",
           code = 429 => ~ Admitted(r) /\ (req[r].pc = "new" \/ (req[r].pc = "check" /\ Kind[r] = "create")),
           code = 500 /\ req[r].pc \in {"connect", "store"} => \A who \in pool : AcrossGemini(who)
    PROVE  Lives(t)
<1>1. CASE t = r
  BY <1>1, AnswerTo DEF Lives
<1>2. CASE t # r
  BY <1>2, AnswerTo DEF Lives, Others
<1>3. QED
  BY <1>1, <1>2

LEMMA EveryoneLives == ASSUME TypeOK, [Next]_vars, NEW t \in Requests PROVE Lives(t)
<1>g. ASSUME NEW r \in Requests, NEW pc \in PCs \ {"new"}, Goes(r, pc), status' = status,
             req[r].pc # "done"
      PROVE  Lives(t)
  BY <1>g, GoesTo, LivesOn
<1>1. ASSUME NEW r \in Requests, Arrive(r) PROVE Lives(t)
  <2>1. req[r].pc = "new"
    BY <1>1 DEF Arrive
  <2>2. CASE \E pc \in {"connect", "gemini"} : Goes(r, pc) /\ status' = status
    BY <1>g, <2>1, <2>2 DEF PCs
  <2>3. CASE Answer(r, 429) /\ ~ Admitted(r)
    BY <2>1, <2>3, CodesAre, LivesDone
  <2>4. QED
    BY <1>1, <2>2, <2>3 DEF Arrive
<1>c. ASSUME NEW r \in Requests, Connect(r) PROVE Lives(t)
  BY <1>c, ConnectTo, LivesOn
<1>2. ASSUME NEW r \in Requests, Reads(r) PROVE Lives(t)
  BY <1>2, <1>g DEF Reads, PCs
<1>q. ASSUME NEW r \in Requests, Queue(r) \/ Remembers(r) PROVE Lives(t)
  <2>1. Others(r) /\ status' = status /\ req[r].pc \notin {"done", "new"} /\ req'[r].pc # "new"
    BY <1>q, QueueTo, RemembersTo DEF Queue, Remembers, NeedsConnection
  <2>2. QED
    BY <2>1, LivesOn
<1>3. ASSUME NEW r \in Requests, PoolTimeout(r) PROVE Lives(t)
  BY <1>3, CodesAre, LivesDone DEF PoolTimeout, PoolHeld, NeedsConnection
<1>4. ASSUME NEW r \in Requests, CheckFails(r) \/ Insert(r) PROVE Lives(t)
  BY <1>4, CodesAre, LivesDone DEF CheckFails, Insert
<1>5. ASSUME NEW r \in Requests, Works(r) PROVE Lives(t)
  BY <1>5, CodesAre, LivesDone DEF Works
<1>6. ASSUME NEW r \in Requests, Calls(r) PROVE Lives(t)
  <2>1. req[r].pc = "gemini"
    BY <1>6 DEF Calls, Attempt
  <2>2. CASE \E code \in {200, 400, 502, 503, 504} : Answer(r, code)
    BY <2>1, <2>2, CodesAre, LivesDone
  <2>3. CASE Others(r) /\ status' = status /\ req'[r].pc \in {"gemini", "store"}
    BY <2>1, <2>3, LivesOn
  <2>4. QED
    BY <1>6, <2>2, <2>3, AttemptTo DEF Calls
<1>7. CASE \/ \E r \in Requests : ChainStep(r)
           \/ NewWindow \/ AllDone \/ UNCHANGED vars
  BY <1>7 DEF ChainStep, ChainConnects, ChainTimesOut, ChainStepEnds, NewWindow, AllDone, vars, Lives
<1>8. QED
  BY <1>1, <1>c, <1>2, <1>q, <1>3, <1>4, <1>5, <1>6, <1>7 DEF Next, Step

\* Nobody begins to wait while anything is about to come back.
LEMMA Queues ==
    ASSUME TypeOK, [Next]_vars, NEW t \in Requests, req'[t].queued, ~ req[t].queued
    PROVE  \A who \in pool : AcrossGemini(who)
<1>0. req'[t] # req[t]
  OBVIOUS
<1>1. ASSUME NEW r \in Requests, Others(r), req'[r].queued => req[r].queued
      PROVE  FALSE
  <2>1. CASE t = r
    BY <1>1, <2>1
  <2>2. CASE t # r
    BY <1>0, <1>1, <2>2 DEF Others
  <2>3. QED
    BY <2>1, <2>2
<1>2. ASSUME NEW r \in Requests, NEW code \in Codes, Answer(r, code) PROVE FALSE
  BY <1>1, <1>2, AnswerTo
<1>3. ASSUME NEW r \in Requests, NEW pc \in PCs, Goes(r, pc), status' = status PROVE FALSE
  BY <1>1, <1>3, GoesTo
<1>4. ASSUME NEW r \in Requests, Arrive(r) \/ Reads(r) PROVE FALSE
  BY <1>2, <1>3, <1>4, CodesAre DEF Arrive, Reads, PCs
<1>5. ASSUME NEW r \in Requests, PoolTimeout(r) \/ CheckFails(r) \/ Works(r) \/ Insert(r) PROVE FALSE
  BY <1>2, <1>5, CodesAre DEF PoolTimeout, CheckFails, Works, Insert
<1>6. ASSUME NEW r \in Requests, Connect(r) PROVE FALSE
  BY <1>1, <1>6, ConnectTo
<1>7. ASSUME NEW r \in Requests, Remembers(r) PROVE FALSE
  BY <1>1, <1>7, RemembersTo
<1>8. ASSUME NEW r \in Requests, Calls(r) PROVE FALSE
  BY <1>1, <1>2, <1>8, AttemptTo, CodesAre DEF Calls
<1>9. CASE NewWindow \/ AllDone \/ UNCHANGED vars \/ \E r \in Requests : ChainStep(r)
  BY <1>0, <1>9 DEF NewWindow, AllDone, vars, ChainStep, ChainConnects, ChainTimesOut, ChainStepEnds
<1>10. ASSUME NEW r \in Requests, Queue(r) PROVE \A who \in pool : AcrossGemini(who)
  BY <1>10 DEF Queue, PoolHeld
<1>11. QED
  BY <1>4, <1>5, <1>6, <1>7, <1>8, <1>9, <1>10 DEF Next, Step

LEMMA AnsweredStep == ASSUME TypeOK, Answered, [Next]_vars PROVE Answered'
BY EveryoneLives DEF Answered, Lives

-----------------------------------------------------------------------------
(* The limit.                                                              *)

\* Once counted, always.
LEMMA StaysCounted ==
    ASSUME TypeOK, Answered, [Next]_vars, NEW t \in Requests, IsCounted(t)
    PROVE  IsCounted(t)'
<1>1. Lives(t) /\ 200 # None
  BY EveryoneLives, RequestAssumption
<1>2. CASE Kind[t] = "create"
  BY <1>1, <1>2 DEF IsCounted, Lives, Answered
<1>3. CASE Kind[t] # "create"
  BY <1>1, <1>3 DEF IsCounted, Lives
<1>4. QED
  BY <1>2, <1>3

LEMMA CountedFinite ==
    ASSUME NEW k
    PROVE  /\ IsFiniteSet(CountedIn(k)) /\ Cardinality(CountedIn(k)) \in Nat
           /\ IsFiniteSet(CountedIn(k)') /\ Cardinality(CountedIn(k)') \in Nat
<1>1. CountedIn(k) \in SUBSET Requests /\ CountedIn(k)' \in SUBSET Requests
  BY DEF CountedIn
<1>2. QED
  BY <1>1, RequestAssumption, FS_Subset, FS_CardinalityType

LEMMA Grow ==
    ASSUME TypeOK, Answered, [Next]_vars, NEW k
    PROVE  Cardinality(CountedIn(k)) <= Cardinality(CountedIn(k)')
<1>1. CountedIn(k) \in SUBSET (CountedIn(k)')
  BY StaysCounted DEF CountedIn, Counter, Bucket, ClientAddress
<1>2. QED
  BY <1>1, CountedFinite, FS_Subset

\* A counter moves only for a request that is counted by it and was not.
LEMMA Tally ==
    ASSUME TypeOK, Answered, [Next]_vars, NEW k \in DOMAIN hits
    PROVE  /\ DOMAIN hits' = DOMAIN hits
           /\ \/ hits'[k] <= hits[k]
              \/ /\ hits'[k] = hits[k] + 1
                 /\ \E t \in Requests : Counter(t) = k /\ ~ IsCounted(t) /\ IsCounted(t)'
<1>0. hits \in [{Counter(r) : r \in Requests} -> Nat]
  BY DEF TypeOK
<1>1. ASSUME NEW r \in Requests, Counted(r), ~ IsCounted(r), IsCounted(r)'
      PROVE  /\ DOMAIN hits' = DOMAIN hits
             /\ \/ hits'[k] <= hits[k]
                \/ /\ hits'[k] = hits[k] + 1
                   /\ \E t \in Requests : Counter(t) = k /\ ~ IsCounted(t) /\ IsCounted(t)'
  BY <1>0, <1>1 DEF Counted
<1>2. CASE hits' = hits
  BY <1>0, <1>2
<1>3. CASE NewWindow
  BY <1>0, <1>3 DEF NewWindow
<1>4. ASSUME NEW r \in Requests, Arrive(r)
      PROVE  hits' = hits \/ (Counted(r) /\ ~ IsCounted(r) /\ IsCounted(r)')
  <2>1. CASE hits' = hits
    BY <2>1
  <2>2. CASE Kind[r] # "create" /\ Counted(r) /\ Goes(r, IF Kind[r] = "ask" THEN "gemini" ELSE "connect") /\ status' = status
    <3>1. req'[r].pc # "new" /\ req[r].pc = "new" /\ status[r] = None
      BY <1>4, <2>2, GoesTo DEF Arrive, PCs, Answered
    <3>2. QED
      BY <2>2, <3>1, RequestAssumption DEF IsCounted
  <2>3. QED
    BY <1>4, <2>1, <2>2 DEF Arrive
<1>5. ASSUME NEW r \in Requests, Works(r)
      PROVE  hits' = hits \/ (Counted(r) /\ ~ IsCounted(r) /\ IsCounted(r)')
  <2>1. CASE Counted(r) /\ Answer(r, 200)
    <3>1. status[r] = None /\ status'[r] = 200 /\ Kind[r] = "create" /\ None # 200
      BY <1>5, <2>1, AnswerTo, CodesAre, RequestAssumption DEF Works, Answered
    <3>2. QED
      BY <2>1, <3>1 DEF IsCounted
  <2>2. QED
    BY <1>5, <2>1 DEF Works
<1>6. ASSUME NEW r \in Requests,
             \/ Connect(r) \/ Queue(r) \/ PoolTimeout(r) \/ Remembers(r) \/ CheckFails(r) \/ Reads(r)
             \/ Calls(r) \/ Insert(r) \/ ChainStep(r)
      PROVE  hits' = hits
  BY <1>6 DEF Connect, Queue, PoolTimeout, Remembers, CheckFails, Reads, Calls, Attempt, Insert, ChainStep,
              ChainConnects, ChainTimesOut, ChainStepEnds
<1>7. CASE AllDone \/ UNCHANGED vars
  BY <1>2, <1>7 DEF AllDone, vars
<1>8. QED
  BY <1>1, <1>2, <1>3, <1>4, <1>5, <1>6, <1>7 DEF Next, Step

LEMMA CountersStep == ASSUME TypeOK, Answered, Counters, [Next]_vars PROVE Counters'
<1>1. ASSUME NEW k \in DOMAIN hits
      PROVE  hits'[k] <= Cardinality(CountedIn(k)')
  <2>0. hits[k] \in Nat /\ hits[k] <= Cardinality(CountedIn(k)) /\ hits'[k] \in Nat
    BY TypeStep DEF TypeOK, Counters
  <2>1. CASE hits'[k] <= hits[k]
    BY <2>0, <2>1, Grow, CountedFinite
  <2>2. ASSUME NEW t \in Requests, Counter(t) = k, ~ IsCounted(t), IsCounted(t)', hits'[k] = hits[k] + 1
        PROVE  hits'[k] <= Cardinality(CountedIn(k)')
    <3>1. CountedIn(k) \cup {t} \in SUBSET (CountedIn(k)')
      BY <2>2, StaysCounted DEF CountedIn, Counter, Bucket, ClientAddress
    <3>2. t \notin CountedIn(k)
      BY <2>2 DEF CountedIn
    <3>3. Cardinality(CountedIn(k) \cup {t}) = Cardinality(CountedIn(k)) + 1
      BY <3>2, CountedFinite, FS_AddElement
    <3>4. Cardinality(CountedIn(k) \cup {t}) <= Cardinality(CountedIn(k)')
      BY <3>1, CountedFinite, FS_Subset
    <3>5. QED
      BY <2>0, <2>2, <3>3, <3>4, CountedFinite
  <2>3. QED
    BY <2>1, <2>2, Tally
<1>2. DOMAIN hits' = DOMAIN hits
  BY TypeStep DEF TypeOK, Counter, Bucket, ClientAddress
<1>3. ASSUME NEW r \in Requests, status'[r] = 429
      PROVE  Cardinality(CountedIn(Counter(r))') >= Limit
  <2>1. Cardinality(CountedIn(Counter(r))) >= Limit
    <3>1. CASE status[r] = 429
      BY <3>1 DEF Counters
    <3>2. CASE status[r] # 429
      <4>1. ~ Admitted(r)
        BY <1>3, <3>2, EveryoneLives DEF Lives
      <4>2. Counter(r) \in DOMAIN hits /\ hits[Counter(r)] \in Nat
        BY DEF TypeOK
      <4>3. QED
        BY <4>1, <4>2, CountedFinite, RequestAssumption DEF Counters, Admitted
    <3>3. QED
      BY <3>1, <3>2
  <2>2. QED
    BY <2>1, Grow, CountedFinite, RequestAssumption DEF Counter, Bucket, ClientAddress
<1>4. QED
  BY <1>1, <1>2, <1>3 DEF Counters, Counter, Bucket, ClientAddress

-----------------------------------------------------------------------------
(* The pool.                                                               *)

LEMMA HoldersStep == ASSUME TypeOK, Holders, [Next]_vars PROVE Holders'
\* Whoever leaves the database leaves the pool.
<1>1. ASSUME NEW r \in Requests, Others(r), Release(r)
      PROVE  Holders'
  <2>1. ASSUME NEW who \in pool'
        PROVE  who \in (Sessions \cup Chains)'
    <3>1. who \in pool /\ who # Session(r)
      BY <1>1, <2>1 DEF Release
    <3>2. CASE who \in Chains
      BY <3>2 DEF Chains, Chain
    <3>3. CASE who \in Sessions
      <4>1. PICK s \in Requests : who = Session(s) /\ req[s].pc \in {"check", "insert"}
        BY <3>3 DEF Sessions
      <4>2. req'[s] = req[s]
        BY <1>1, <3>1, <4>1 DEF Others
      <4>3. QED
        BY <4>1, <4>2 DEF Sessions, Session
    <3>4. QED
      BY <3>1, <3>2, <3>3 DEF Holders
  <2>2. QED
    BY <2>1 DEF Holders
\* And a step that takes nobody away from the database leaves every holder in his right.
<1>2. ASSUME \A s \in Requests : req[s].pc \in {"check", "insert"} => req'[s].pc = req[s].pc,
             NEW who, pool' \subseteq pool \cup {who}, who \in pool \/ who \in (Sessions \cup Chains)'
      PROVE  Holders'
  <2>1. Sessions \subseteq Sessions' /\ Chains \subseteq Chains'
    BY <1>2 DEF Sessions, Chains, Session, Chain
  <2>2. QED
    BY <1>2, <2>1 DEF Holders
<1>3. ASSUME NEW r \in Requests, Arrive(r) PROVE Holders'
  <2>1. \A s \in Requests : req[s].pc \in {"check", "insert"} => req'[s].pc = req[s].pc
    BY <1>3, GoesTo, AnswerTo, CodesAre DEF Arrive, PCs, Others
  <2>2. pool' = pool
    BY <1>3 DEF Arrive
  <2>3. CASE pool = {}
    BY <2>2, <2>3 DEF Holders
  <2>4. CASE pool # {}
    BY <1>2, <2>1, <2>2, <2>4
  <2>5. QED
    BY <2>3, <2>4
<1>4. ASSUME NEW r \in Requests, Connect(r) PROVE Holders'
  <2>1. Others(r) /\ req[r].pc \in {"connect", "store"} /\ req'[r].pc \in {"check", "insert"}
    BY <1>4, ConnectTo
  <2>2. pool' = pool \cup {Session(r)} /\ Session(r) \in Sessions'
    BY <1>4, <2>1 DEF Connect, Connects, Sessions, Session
  <2>3. QED
    BY <1>2, <2>1, <2>2 DEF Others
<1>q. ASSUME NEW r \in Requests, Queue(r) PROVE Holders'
  <2>1. \A s \in Requests : req'[s].pc = req[s].pc
    BY <1>q, QueueTo DEF Others
  <2>2. pool' = pool
    BY <1>q DEF Queue
  <2>3. QED
    BY <2>1, <2>2 DEF Holders, Sessions, Chains, Session, Chain
<1>5. ASSUME NEW r \in Requests,
             PoolTimeout(r) \/ Remembers(r) \/ CheckFails(r) \/ Insert(r) \/ Works(r) \/ Reads(r)
      PROVE  Holders'
  <2>1. Others(r)
    BY <1>5, GoesTo, AnswerTo, RemembersTo, CodesAre DEF PoolTimeout, CheckFails, Insert, Works, Reads, PCs
  <2>2. Release(r)
    BY <1>5 DEF PoolTimeout, Remembers, CheckFails, Insert, Works, Reads
  <2>3. QED
    BY <1>1, <2>1, <2>2
<1>6. ASSUME NEW r \in Requests, Calls(r) PROVE Holders'
  <2>1. Others(r) /\ req[r].pc = "gemini" /\ pool' \in {pool, pool \ {Session(r)}}
    <3>1. PICK outcome \in Outcomes, span \in Spans \cup {AttemptTimeout} : Attempt(r, outcome, span)
      BY <1>6 DEF Calls
    <3>2. Others(r)
      BY <3>1, AttemptTo, AnswerTo, CodesAre
    <3>3. req[r].pc = "gemini" /\ pool' \in {pool, pool \ {Session(r)}}
      BY <3>1 DEF Attempt
    <3>4. QED
      BY <3>2, <3>3
  <2>2. \A s \in Requests : req[s].pc \in {"check", "insert"} => req'[s].pc = req[s].pc
    BY <2>1 DEF Others
  <2>3. CASE pool = {}
    BY <2>1, <2>3 DEF Holders
  <2>4. CASE pool # {}
    BY <1>2, <2>1, <2>2, <2>4
  <2>5. QED
    BY <2>3, <2>4
<1>7. ASSUME NEW r \in Requests, ChainStep(r) PROVE Holders'
  <2>1. req' = req /\ pool' \subseteq pool \cup {Chain(r)}
    BY <1>7 DEF ChainStep, ChainConnects, ChainTimesOut, ChainStepEnds, Connects
  <2>2. Chain(r) \in Chains'
    BY DEF Chains, Chain
  <2>3. QED
    BY <1>2, <2>1, <2>2
<1>8. CASE NewWindow \/ AllDone \/ UNCHANGED vars
  BY <1>8 DEF NewWindow, AllDone, vars, Holders, Sessions, Chains, Session, Chain
<1>9. QED
  BY <1>3, <1>4, <1>q, <1>5, <1>6, <1>7, <1>8 DEF Next, Step

-----------------------------------------------------------------------------
(* The clock.                                                              *)

LEMMA ClockStep == ASSUME TypeOK, Clock, [Next]_vars PROVE Clock'
<1> SUFFICES ASSUME NEW t \in Requests, Kind[t] = "tutor" PROVE ClockOf(t)'
  BY DEF Clock
<1>0. /\ ClockOf(t) /\ req[t].clock \in Nat /\ req[t].waits \in Nat /\ req[t].attempt \in 1..2
      /\ LongestWait = 59 /\ AttemptTimeout = 90 /\ FirstDelay = 1 /\ Attempts = 2
  BY Fields DEF Clock, LongestWait, AttemptTimeout, FirstDelay, Attempts
<1>1. CASE req'[t] = req[t] \/ req'[t].pc = "done"
  BY <1>0, <1>1 DEF ClockOf
\* No time passes.
<1>2. ASSUME SameCall(t), SameClock(t),
             \/ req'[t].pc = req[t].pc
             \/ req[t].pc \in {"new", "connect", "check"} /\ req'[t].pc \in {"connect", "check", "gemini"}
             \/ req[t].pc = "store" /\ req'[t].pc = "insert"
      PROVE  ClockOf(t)'
  BY <1>0, <1>2 DEF ClockOf, SameCall, SameClock
<1>3. CASE Arrive(t)
  <2>1. CASE \E code \in Codes : Answer(t, code)
    BY <1>1, <2>1, AnswerTo
  <2>2. CASE Goes(t, "connect") /\ status' = status /\ req[t].pc = "new"
    BY <1>2, <2>2, GoesTo DEF PCs
  <2>3. QED
    BY <1>3, <2>1, <2>2, CodesAre DEF Arrive
<1>4. CASE Queue(t)
  BY <1>2, <1>4, QueueTo
<1>5. CASE Remembers(t)
  BY <1>2, <1>5, RemembersTo DEF Remembers
<1>6. CASE Reads(t)
  BY <1>2, <1>6, GoesTo DEF Reads, PCs
<1>7. CASE Connect(t)
  <2>1. /\ \/ req[t].pc = "connect" /\ req'[t].pc = "check"
           \/ req[t].pc = "store" /\ req'[t].pc = "insert"
        /\ SameCall(t)
        /\ \/ SameClock(t)
           \/ \E wait \in 1 .. LongestWait :
                 req'[t].clock = req[t].clock + wait /\ req'[t].waits = req[t].waits + 1
    BY <1>7, ConnectTo
  <2>2. CASE SameClock(t)
    BY <1>2, <2>1, <2>2
  <2>3. CASE \E wait \in 1 .. LongestWait :
               req'[t].clock = req[t].clock + wait /\ req'[t].waits = req[t].waits + 1
    <3>1. PICK wait \in 1 .. LongestWait :
                 req'[t].clock = req[t].clock + wait /\ req'[t].waits = req[t].waits + 1
      BY <2>3
    <3>2. QED
      BY <1>0, <2>1, <3>1 DEF ClockOf, SameCall
  <2>4. QED
    BY <2>1, <2>2, <2>3
<1>8. CASE PoolTimeout(t) \/ CheckFails(t) \/ Works(t) \/ Insert(t)
  BY <1>1, <1>8, AnswerTo, CodesAre DEF PoolTimeout, CheckFails, Works, Insert
<1>9. CASE Calls(t)
  <2>1. PICK outcome \in Outcomes, span \in Spans \cup {AttemptTimeout} : Attempt(t, outcome, span)
    BY <1>9 DEF Calls
  <2>2. span \in 0 .. 90
    BY <1>0, RequestAssumption
  <2>3. req[t].pc = "gemini" /\ req[t].left = 1
    BY <1>0, <2>1 DEF Attempt, ClockOf
  <2>4. CASE \E code \in {200, 400, 502, 503, 504} : Answer(t, code)
    BY <1>1, <2>4, AnswerTo, CodesAre
  <2>5. CASE /\ req'[t].pc = "store" /\ req'[t].left = req[t].left
             /\ req'[t].attempt = req[t].attempt /\ req'[t].waits = req[t].waits
             /\ req'[t].clock = req[t].clock + span /\ span # AttemptTimeout
    BY <1>0, <2>2, <2>3, <2>5 DEF ClockOf
  <2>6. CASE /\ req'[t].pc = "gemini" /\ req'[t].left = req[t].left
             /\ req[t].attempt # Attempts /\ req'[t].attempt = 2 /\ req'[t].waits = req[t].waits
             /\ req'[t].clock = req[t].clock + span + FirstDelay
    BY <1>0, <2>2, <2>3, <2>6 DEF ClockOf
  <2>7. QED
    BY <2>1, <2>3, <2>4, <2>5, <2>6, AttemptTo
<1>10. ASSUME NEW r \in Requests, Arrive(r) \/ Step(r), r # t
       PROVE  req'[t] = req[t]
  <2>1. Others(r)
    BY <1>10, GoesTo, AnswerTo, AttemptTo, ConnectTo, QueueTo, RemembersTo, CodesAre
       DEF Arrive, Step, PoolTimeout, CheckFails, Reads, Works, Calls, Insert, PCs
  <2>2. QED
    BY <1>10, <2>1 DEF Others
<1>11. CASE NewWindow \/ AllDone \/ UNCHANGED vars \/ \E r \in Requests : ChainStep(r)
  BY <1>1, <1>11 DEF NewWindow, AllDone, vars, ChainStep, ChainConnects, ChainTimesOut, ChainStepEnds
<1>12. QED
  BY <1>1, <1>3, <1>4, <1>5, <1>6, <1>7, <1>8, <1>9, <1>10, <1>11 DEF Next, Step

-----------------------------------------------------------------------------
(* The theorems.                                                           *)

LEMMA InvInit == Init => IInv
<1> SUFFICES ASSUME Init PROVE IInv
  OBVIOUS
<1>1. TypeOK
  BY TypeInit
<1>2. \A r \in Requests : /\ req[r].pc = "new" /\ req[r].attempt = 1 /\ req[r].clock = 0 /\ req[r].waits = 0
                          /\ status[r] = None
                          /\ Kind[r] = "tutor" => req[r].left = 1
  BY RequestAssumption DEF Init
<1>3. Answered
  BY <1>2 DEF Answered
<1>4. Counters
  <2>1. \A k \in DOMAIN hits : hits[k] = 0
    BY DEF Init
  <2>2. \A r \in Requests : status[r] # 429
    BY <1>2, RequestAssumption
  <2>3. QED
    BY <2>1, <2>2, CountedFinite DEF Counters
<1>5. Holders
  BY DEF Init, Holders
<1>6. Clock
  BY <1>2 DEF Clock, ClockOf, LongestWait
<1>7. QED
  BY <1>1, <1>3, <1>4, <1>5, <1>6 DEF IInv

LEMMA InvStep == IInv /\ [Next]_vars => IInv'
BY TypeStep, AnsweredStep, CountersStep, HoldersStep, ClockStep DEF IInv

\* Every reachable state satisfies the inductive invariant.
THEOREM Inductive == Spec => []IInv
BY InvInit, InvStep, PTL DEF Spec

\* The state of the worker always has its type, and its pool is never exceeded.
THEOREM TypeCorrect == Spec => []TypeOK
<1>1. IInv => TypeOK
  BY DEF IInv
<1>2. QED
  BY <1>1, Inductive, PTL

\* No failure of Gemini's, of the pool's or of the database's is ever answered
\* with the 401 that signs out or the 429 that slows down.
THEOREM StatusesMeanWhatTheySay == Spec => NeverReadAsSignedOut
<1>1. IInv /\ [Next]_vars =>
        [ \A r \in Requests : status'[r] # status[r] =>
             /\ status'[r] = 401 => req[r].pc = "check"
             /\ status'[r] = 429 => req[r].pc \in {"new", "check"} ]_vars
  BY EveryoneLives DEF IInv, Lives
<1>2. QED
  BY <1>1, Inductive, PTL DEF Spec, NeverReadAsSignedOut

\* Whoever is refused for the limit is refused for as many others of his own
\* origin, whatever headers strangers write and whatever proxies pass on.
THEOREM LimitsAreOnesOwn == Spec => []NoOneSpendsAnothersLimit
<1>1. ASSUME IInv, NEW r \in Requests, status[r] = 429
      PROVE  LET Origin(s) == IF Peer[s] \in Proxies THEN Forwarded[s][1] ELSE Peer[s][1]
             IN  Cardinality({s \in Requests \ {r} :
                                Origin(s) = Origin(r) /\ Kind[s] = Kind[r]
                                /\ req[s].pc # "new" /\ status[s] # 429}) >= Limit
  <2> DEFINE Origin(s) == IF Peer[s] \in Proxies THEN Forwarded[s][1] ELSE Peer[s][1]
             Before == {s \in Requests \ {r} :
                          Origin(s) = Origin(r) /\ Kind[s] = Kind[r]
                          /\ req[s].pc # "new" /\ status[s] # 429}
  <2>1. ASSUME NEW s \in Requests
        PROVE  Counter(s) = << Origin(s), Kind[s] >>
    BY EdgeAssumption DEF Counter, Bucket, ClientAddress
  <2>2. CountedIn(Counter(r)) \subseteq Before
    <3>1. ASSUME NEW s \in CountedIn(Counter(r))
          PROVE  s \in Before
      <4>1. s \in Requests /\ Counter(s) = Counter(r) /\ IsCounted(s)
        BY DEF CountedIn
      <4>2. Origin(s) = Origin(r) /\ Kind[s] = Kind[r]
        BY <2>1, <4>1
      <4>3. status[s] # 429 /\ req[s].pc # "new"
        BY <1>1, <4>1, RequestAssumption DEF IsCounted, IInv, Answered
      <4>4. s # r
        BY <1>1, <4>3
      <4>5. QED
        BY <4>1, <4>2, <4>3, <4>4
    <3>2. QED
      BY <3>1
  <2>3. IsFiniteSet(Before)
    <3>1. Before \in SUBSET Requests
      OBVIOUS
    <3>2. QED
      BY <3>1, RequestAssumption, FS_Subset
  <2>4. Cardinality(CountedIn(Counter(r))) >= Limit
    BY <1>1 DEF IInv, Counters
  <2>5. Cardinality(CountedIn(Counter(r))) <= Cardinality(Before) /\ Cardinality(Before) \in Nat
    <3>1. CountedIn(Counter(r)) \in SUBSET Before
      BY <2>2
    <3>2. QED
      BY <2>3, <3>1, FS_Subset, FS_CardinalityType
  <2>6. QED
    BY <2>4, <2>5, CountedFinite, RequestAssumption
<1>2. IInv => NoOneSpendsAnothersLimit
  BY <1>1 DEF NoOneSpendsAnothersLimit
<1>3. QED
  BY <1>2, Inductive, PTL

\* A request is kept waiting for a connection, or sent off without one, only
\* by student chains, whatever the size of the pool and however many calls to
\* Gemini are under way.
THEOREM OnlyChainsStarve == Spec => StarvedOnlyByChains
<1>1. ASSUME IInv, [Next]_vars, NEW r \in Requests,
             \/ req'[r].queued /\ ~ req[r].queued
             \/ NeedsConnection(r) /\ status'[r] = 500
      PROVE  pool \subseteq {Chain(s) : s \in Requests}
  <2>1. TypeOK /\ Answered /\ None # 500
    BY <1>1, RequestAssumption DEF IInv
  <2>2. CASE req'[r].queued /\ ~ req[r].queued
    <3>1. \A who \in pool : AcrossGemini(who)
      BY <1>1, <2>1, <2>2, Queues
    <3>2. QED
      BY <1>1, <3>1 DEF IInv, Holders, Sessions, Chains, AcrossGemini
  <2>3. CASE NeedsConnection(r) /\ status'[r] = 500
    <3>1. req[r].pc \in {"connect", "store"} /\ status[r] = None
      BY <2>1, <2>3 DEF NeedsConnection, Answered
    <3>2. \A who \in pool : AcrossGemini(who)
      BY <1>1, <2>1, <2>3, <3>1, EveryoneLives DEF Lives
    <3>3. QED
      BY <1>1, <3>2 DEF IInv, Holders, Sessions, Chains, AcrossGemini
  <2>4. QED
    BY <1>1, <2>2, <2>3
<1>2. IInv /\ [Next]_vars =>
        [ \A r \in Requests :
             \/ req'[r].queued /\ ~ req[r].queued
             \/ NeedsConnection(r) /\ status'[r] = 500
             => pool \subseteq {Chain(s) : s \in Requests} ]_vars
  BY <1>1
<1>3. QED
  BY <1>2, Inductive, PTL DEF Spec, StarvedOnlyByChains

\* Whatever its attempts and its waits for a connection take, a message passes
\* the edge's patience only after a wait and a failed attempt or another wait,
\* and nginx's only after one of the two.
THEOREM MessagesLateForACause == Spec => []LateForACause
<1>1. IInv => LateForACause
  <2> SUFFICES ASSUME IInv, NEW r \in Requests, Kind[r] = "tutor"
               PROVE  /\ req[r].pc = "gemini" /\ req[r].clock + AttemptTimeout >= 200 => req[r].waits > 0
                      /\ req[r].pc = "insert" /\ req[r].clock >= 120 => req[r].attempt = 2 \/ req[r].waits > 0
                      /\ req[r].pc = "insert" /\ req[r].clock >= 200 =>
                            req[r].waits > 0 /\ (req[r].attempt = 2 \/ req[r].waits > 1)
    BY DEF LateForACause
  <2>1. ClockOf(r) /\ req[r].clock \in Nat /\ req[r].waits \in Nat /\ req[r].attempt \in 1..2
    BY Fields DEF IInv, Clock
  <2>2. QED
    BY <2>1 DEF ClockOf, LongestWait, AttemptTimeout, FirstDelay
<1>2. QED
  BY <1>1, Inductive, PTL
=============================================================================
