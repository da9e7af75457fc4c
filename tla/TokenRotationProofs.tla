------------------------ MODULE TokenRotationProofs -------------------------
(***************************************************************************)
(* The safety of token rotation, for any number of requests, accounts and  *)
(* sign-ins and any bound on the chain.                                    *)
(*                                                                         *)
(* The argument: a transaction that is to replace a token holds its row    *)
(* lock and saw it unrevoked; a walk holds every successor it passed; a    *)
(* deletion about to commit holds every token of the account.  Row locks   *)
(* exclude each other, so what a transaction has seen of the rows it holds *)
(* is still so when it commits, and the chain keeps its shape.             *)
(*                                                                         *)
(* Without a deletion there is no deadlock: a refresh and a logout wait    *)
(* with nothing another may want, so its members are walks, and each waits *)
(* for one that is further along the chain - the furthest for nobody.      *)
(***************************************************************************)
EXTENDS TokenRotation, WellFoundedInduction, TLAPS

-----------------------------------------------------------------------------
(* What one request knows of the committed rows.                           *)

SigningIn == {"create", "login", "commitSignup", "commitLogin"}

\* There is a row under every lock.
HeldRowsExist(r) == \A t \in req[r].held : row[t[1]][t[2]] # "absent"

\* Before its first write to a token a transaction holds none.
HoldsNothing(r) ==
    req[r].pc \in SigningIn \cup {"idle", "guard", "lookup", "revoke", "delete"}
        => req[r].held = {}

\* A refresh is of a token that may be rotated once more; past its guard it
\* holds that token, still unrevoked.
RefreshHolds(r) ==
    /\ req[r].pc \in {"guard", "insert", "commitRefresh"} => req[r].dep < MaxDepth
    /\ req[r].pc \in {"insert", "commitRefresh"} =>
          /\ req[r].held = {<<req[r].fam, req[r].dep>>}
          /\ row[req[r].fam][req[r].dep] \in Unrevoked

\* A walk started at a revoked token - whose row can have gone only with the
\* account - and holds every successor before `at`.
WalkHolds(r) ==
    req[r].pc \in {"walk", "commitWalk"} =>
        /\ req[r].dep < req[r].at
        /\ \A t \in Token :
              t \in req[r].held <=> t[1] = req[r].fam /\ req[r].dep < t[2] /\ t[2] < req[r].at
        /\ row[req[r].fam][req[r].dep] = "revoked" \/ account[Who(r)] = "deleted"
        /\ req[r].pc = "commitWalk" => Status(req[r].fam, req[r].at) = "absent"

LogoutHolds(r) ==
    req[r].pc = "commitLogout" => req[r].held \subseteq {<<req[r].fam, req[r].dep>>}

\* A sign-in's family has no row before it commits.
SignInFresh(r) == req[r].pc \in SigningIn => row[req[r].fam][0] = "absent"

\* What the lock on the students row has established.
AccountLocked(r) ==
    /\ req[r].pc \in {"commitRefresh", "commitLogin", "cascade", "commitDelete"}
          => account[Who(r)] = "present"
    /\ req[r].pc = "commitSignup" => account[Who(r)] = "none"

\* A deletion holds tokens of its account only, and at the end all of them.
DeletionHolds(r) ==
    req[r].pc \in {"cascade", "commitDelete"} =>
        /\ \A t \in req[r].held : Owner[t[1]] = Who(r)
        /\ req[r].pc = "commitDelete" => ToDelete(r) = {}

Local(r) ==
    /\ HeldRowsExist(r) /\ HoldsNothing(r) /\ RefreshHolds(r) /\ WalkHolds(r)
    /\ LogoutHolds(r) /\ SignInFresh(r) /\ AccountLocked(r) /\ DeletionHolds(r)

-----------------------------------------------------------------------------
(* What the locks say of two requests.                                     *)

\* The row locks exclude each other, a sign-in's family is its own, and while
\* an account is being deleted nobody is about to add a token to it.
Pair(q, r) ==
    /\ req[q].held \cap req[r].held = {}
    /\ req[r].pc \in SigningIn => req[q].fam # req[r].fam
    /\ req[q].pc # "idle" /\ req[r].pc \in {"cascade", "commitDelete"} /\ Who(q) = Who(r)
          => req[q].pc \notin {"commitRefresh", "commitLogin", "cascade", "commitDelete"}
    /\ req[q].pc = "commitSignup" /\ req[r].pc = "commitSignup" => Who(q) # Who(r)

\* The inductive invariant.
IInv ==
    /\ TypeOK /\ ChainShape /\ NoOrphanToken
    /\ \A r \in Req : Local(r)
    /\ \A q, r \in Req : q # r => Pair(q, r)

-----------------------------------------------------------------------------
(* What a step leaves alone.                                               *)

\* A request that a step does not touch knows after it what it knew before,
\* when nothing was committed.
LEMMA SameLocal ==
    ASSUME NEW r \in Req, row' = row, account' = account, req'[r] = req[r], Local(r)
    PROVE  Local(r)'
BY DEF Local, HeldRowsExist, HoldsNothing, RefreshHolds, WalkHolds, LogoutHolds,
       SignInFresh, AccountLocked, DeletionHolds, Who, Status, ToDelete

LEMMA SamePair ==
    ASSUME NEW q \in Req, NEW r \in Req,
           req'[q] = req[q], req'[r] = req[r], Pair(q, r)
    PROVE  Pair(q, r)'
BY DEF Pair, Who

LEMMA IdleIsRequest == Idle \in Request
BY DepthAssumption DEF Idle, Request, PC, Depth

\* A transaction that has ended claims nothing.
LEMMA IdleLocal ==
    ASSUME NEW r \in Req, req'[r] = Idle
    PROVE  Local(r)'
BY DEF Local, HeldRowsExist, HoldsNothing, RefreshHolds, WalkHolds, LogoutHolds,
       SignInFresh, AccountLocked, DeletionHolds, Idle, SigningIn

LEMMA IdlePair ==
    ASSUME IInv, NEW r \in Req, req' = [req EXCEPT ![r] = Idle]
    PROVE  \A p, q \in Req : p # q => Pair(p, q)'
<1> SUFFICES ASSUME NEW p \in Req, NEW q \in Req, p # q
             PROVE  Pair(p, q)'
  OBVIOUS
<1>1. Pair(p, q) /\ TypeOK
  BY DEF IInv
<1>2. CASE p = r
  <2>1. req'[p] = Idle /\ req'[q] = req[q]
    BY <1>1, <1>2 DEF TypeOK
  <2>2. req[q].pc \in SigningIn => req[q].fam # NoFamily
    BY <1>1, OwnerAssumption DEF TypeOK, SigningIn
  <2>3. QED
    BY <2>1, <2>2 DEF Pair, Idle
<1>3. CASE q = r
  <2>1. req'[q] = Idle
    BY <1>1, <1>3 DEF TypeOK
  <2>2. QED
    BY <2>1 DEF Pair, Idle, SigningIn
<1>4. CASE p # r /\ q # r
  BY <1>1, <1>4, SamePair DEF TypeOK
<1>5. QED
  BY <1>2, <1>3, <1>4

\* Only request r moves.
Moves(r) == \E new \in Request : req' = [req EXCEPT ![r] = new]

LEMMA OthersStay ==
    ASSUME TypeOK, NEW r \in Req, Moves(r)
    PROVE  /\ req' \in [Req -> Request]
           /\ \A q \in Req \ {r} : req'[q] = req[q]
BY DEF TypeOK, Moves

\* A step that commits nothing and moves one request is harmless when what
\* that request now claims is so.
LEMMA QuietStep ==
    ASSUME IInv, NothingCommitted, NEW r \in Req, Moves(r),
           req'[r].pc # "idle" => req'[r].fam \in Family,
           Local(r)',
           \A q \in Req \ {r} : Pair(q, r)' /\ Pair(r, q)'
    PROVE  IInv'
<1>1. TypeOK'
  BY OthersStay DEF IInv, TypeOK, NothingCommitted
<1>2. ChainShape' /\ NoOrphanToken'
  BY DEF IInv, NothingCommitted, ChainShape, NoOrphanToken
<1>3. ASSUME NEW q \in Req
      PROVE  Local(q)'
  <2>1. CASE q = r
    BY <2>1
  <2>2. CASE q # r
    <3>1. req'[q] = req[q] /\ Local(q)
      BY <2>2, OthersStay DEF IInv
    <3>2. QED
      BY <3>1, SameLocal DEF NothingCommitted
  <2>3. QED
    BY <2>1, <2>2
<1>4. ASSUME NEW p \in Req, NEW q \in Req, p # q
      PROVE  Pair(p, q)'
  <2>1. CASE p = r \/ q = r
    BY <1>4, <2>1
  <2>2. CASE p # r /\ q # r
    <3>1. req'[p] = req[p] /\ req'[q] = req[q] /\ Pair(p, q)
      BY <1>4, <2>2, OthersStay DEF IInv
    <3>2. QED
      BY <3>1, SamePair
  <2>3. QED
    BY <2>1, <2>2
<1>5. QED
  BY <1>1, <1>2, <1>3, <1>4 DEF IInv

\* A rollback: nothing committed, nothing claimed.
LEMMA Rollback ==
    ASSUME IInv, NothingCommitted, NEW r \in Req, End(r)
    PROVE  IInv'
<1>1. req' = [req EXCEPT ![r] = Idle] /\ req'[r] = Idle /\ Moves(r)
  BY IdleIsRequest DEF End, Becomes, IInv, TypeOK, Moves
<1>2. Local(r)' /\ \A p, q \in Req : p # q => Pair(p, q)'
  BY <1>1, IdleLocal, IdlePair
<1>3. QED
  BY <1>1, <1>2, QuietStep DEF Idle

-----------------------------------------------------------------------------
(* The statements: nothing is committed.                                   *)

\* Every token of a family that has a row has a first token.
LEMMA FirstTokenExists ==
    ASSUME IInv, NEW f \in Family, NEW d \in Depth, row[f][d] # "absent"
    PROVE  row[f][0] # "absent"
<1>1. 0 \in Depth /\ (d = 0 \/ 0 < d)
  BY DepthAssumption DEF Depth
<1>2. QED
  BY <1>1 DEF IInv, ChainShape

LEMMA BeginStep ==
    ASSUME IInv, NEW r \in Req, NEW f \in Family, NEW d \in Depth,
           NEW label \in {"guard", "revoke", "create", "login", "delete"},
           Begin(r, f, d, label),
           label = "guard" => d < MaxDepth,
           label \in SigningIn => row[f][0] = "absent" /\ \A q \in Req : req[q].fam # f,
           label \notin SigningIn => row[f][0] # "absent"
    PROVE  IInv'
<1>a. PICK b \in BOOLEAN : b = (row[f][d] # "expired")
  OBVIOUS
<1> DEFINE new == [pc |-> label, fam |-> f, dep |-> d, at |-> 0, fresh |-> b, held |-> {}]
<1>b. NothingCommitted /\ req' = [req EXCEPT ![r] = new]
  BY <1>a, Zenon DEF Begin, Becomes
<1>c. label \in PC /\ 0 \in 0 .. MaxDepth + 1
  BY DepthAssumption DEF PC
<1>d. new \in Request
  BY <1>c, Zenon DEF Request
<1>1. /\ NothingCommitted /\ req' = [req EXCEPT ![r] = new]
      /\ new \in Request /\ new.fam \in Family /\ req'[r] = new
  BY <1>b, <1>d, Zenon DEF IInv, TypeOK
<1>2. /\ new.pc = label /\ new.fam = f /\ new.dep = d /\ new.held = {}
  BY Zenon
<1> HIDE DEF new
<1>3. Local(r)'
  BY <1>1, <1>2 DEF Local, HeldRowsExist, HoldsNothing, RefreshHolds, WalkHolds,
     LogoutHolds, SignInFresh, AccountLocked, DeletionHolds, SigningIn, NothingCommitted
<1>4. ASSUME NEW q \in Req \ {r}
      PROVE  Pair(q, r)' /\ Pair(r, q)'
  <2>1. req'[q] = req[q] /\ Local(q)
    BY <1>1 DEF IInv, TypeOK
  <2>2. Pair(q, r)'
    BY <1>1, <1>2, <2>1 DEF Pair, SigningIn
  <2>3. req[q].pc \in SigningIn => req[q].fam # f
    BY <2>1 DEF Local, SignInFresh
  <2>4. Pair(r, q)'
    BY <1>1, <1>2, <2>1, <2>3 DEF Pair
  <2>5. QED
    BY <2>2, <2>4
<1>5. Moves(r)
  BY <1>1 DEF Moves
<1>6. QED
  BY <1>1, <1>3, <1>4, <1>5, QuietStep

LEMMA ArriveStep ==
    ASSUME IInv, NEW r \in Req, Arrive(r)
    PROVE  IInv'
<1>1. ASSUME NEW f \in Family, NEW d \in Depth, Refresh(r, f, d)
      PROVE  IInv'
  BY <1>1, FirstTokenExists, BeginStep DEF Refresh, SigningIn
<1>2. ASSUME NEW f \in Family, NEW d \in Depth, Logout(r, f, d)
      PROVE  IInv'
  BY <1>2, FirstTokenExists, BeginStep DEF Logout, SigningIn
<1>3. ASSUME NEW f \in Family, SignIn(r, f)
      PROVE  IInv'
  <2>1. 0 \in Depth
    BY DepthAssumption DEF Depth
  <2>2. PICK label \in {"create", "login"} : Begin(r, f, 0, label)
    BY <1>3 DEF SignIn
  <2>3. QED
    BY <1>3, <2>1, <2>2, BeginStep DEF SignIn, SigningIn
<1>4. ASSUME NEW f \in Family, DeleteAccount(r, f)
      PROVE  IInv'
  <2>1. 0 \in Depth
    BY DepthAssumption DEF Depth
  <2>2. QED
    BY <1>4, <2>1, BeginStep DEF DeleteAccount, SigningIn
<1>5. QED
  BY <1>1, <1>2, <1>3, <1>4 DEF Arrive

-----------------------------------------------------------------------------
(* How a statement moves its request.                                      *)

LEMMA GotoMoves ==
    ASSUME TypeOK, NEW r \in Req, NEW label \in PC, Goto(r, label)
    PROVE  /\ Moves(r)
           /\ req'[r].pc = label
           /\ req'[r].fam = req[r].fam /\ req'[r].dep = req[r].dep
           /\ req'[r].at = req[r].at /\ req'[r].held = req[r].held
<1> DEFINE new == [req[r] EXCEPT !.pc = label]
<1>1. req[r] \in Request /\ req' = [req EXCEPT ![r] = new] /\ req'[r] = new
  BY DEF TypeOK, Goto, Becomes
<1>2. new \in Request
  BY <1>1 DEF Request
<1>3. new.pc = label
  BY <1>1 DEF Request
<1>4. new.fam = req[r].fam /\ new.dep = req[r].dep
  BY <1>1 DEF Request
<1>5. new.at = req[r].at /\ new.held = req[r].held
  BY <1>1 DEF Request
<1> HIDE DEF new
<1>6. QED
  BY <1>1, <1>2, <1>3, <1>4, <1>5 DEF Moves

LEMMA LockMoves ==
    ASSUME TypeOK, NEW r \in Req, NEW label \in PC, NEW t \in Token, LockGoto(r, t, label)
    PROVE  /\ Moves(r)
           /\ req'[r].pc = label
           /\ req'[r].fam = req[r].fam /\ req'[r].dep = req[r].dep
           /\ req'[r].at = req[r].at /\ req'[r].held = req[r].held \cup {t}
<1> DEFINE new == [req[r] EXCEPT !.held = @ \cup {t}, !.pc = label]
<1>1. req[r] \in Request /\ req' = [req EXCEPT ![r] = new] /\ req'[r] = new
  BY DEF TypeOK, LockGoto, Becomes
<1>2. new \in Request
  BY <1>1 DEF Request
<1>3. new.pc = label
  BY <1>1 DEF Request
<1>4. new.fam = req[r].fam /\ new.dep = req[r].dep
  BY <1>1 DEF Request
<1>5. new.at = req[r].at
  BY <1>1 DEF Request
<1>6. new.held = req[r].held \cup {t}
  BY <1>1 DEF Request
<1> HIDE DEF new
<1>7. QED
  BY <1>1, <1>2, <1>3, <1>4, <1>5, <1>6 DEF Moves

LEMMA StartWalkMoves ==
    ASSUME TypeOK, NEW r \in Req, NEW n \in 0 .. MaxDepth + 1,
           Becomes(r, [req[r] EXCEPT !.pc = "walk", !.at = n])
    PROVE  /\ Moves(r)
           /\ req'[r].pc = "walk"
           /\ req'[r].fam = req[r].fam /\ req'[r].dep = req[r].dep
           /\ req'[r].at = n /\ req'[r].held = req[r].held
<1> DEFINE new == [req[r] EXCEPT !.pc = "walk", !.at = n]
<1>1. req[r] \in Request /\ req' = [req EXCEPT ![r] = new] /\ req'[r] = new
  BY DEF TypeOK, Becomes
<1>2. new \in Request
  BY <1>1 DEF Request, PC
<1>3. new.pc = "walk" /\ new.at = n
  BY <1>1 DEF Request
<1>4. new.fam = req[r].fam /\ new.dep = req[r].dep
  BY <1>1 DEF Request
<1>5. new.held = req[r].held
  BY <1>1 DEF Request
<1> HIDE DEF new
<1>6. QED
  BY <1>1, <1>2, <1>3, <1>4, <1>5 DEF Moves

LEMMA AdvanceWalkMoves ==
    ASSUME TypeOK, NEW r \in Req, NEW t \in Token, req[r].at + 1 \in 0 .. MaxDepth + 1,
           Becomes(r, [req[r] EXCEPT !.held = @ \cup {t}, !.at = @ + 1])
    PROVE  /\ Moves(r)
           /\ req'[r].pc = req[r].pc
           /\ req'[r].fam = req[r].fam /\ req'[r].dep = req[r].dep
           /\ req'[r].at = req[r].at + 1 /\ req'[r].held = req[r].held \cup {t}
<1> DEFINE new == [req[r] EXCEPT !.held = @ \cup {t}, !.at = @ + 1]
<1>1. req[r] \in Request /\ req' = [req EXCEPT ![r] = new] /\ req'[r] = new
  BY DEF TypeOK, Becomes
<1>2. new \in Request
  BY <1>1 DEF Request
<1>3. new.at = req[r].at + 1
  BY <1>1 DEF Request
<1>4. new.fam = req[r].fam /\ new.dep = req[r].dep
  BY <1>1 DEF Request
<1>5. new.pc = req[r].pc
  BY <1>1 DEF Request
<1>6. new.held = req[r].held \cup {t}
  BY <1>1 DEF Request
<1> HIDE DEF new
<1>7. QED
  BY <1>1, <1>2, <1>3, <1>4, <1>5, <1>6 DEF Moves

-----------------------------------------------------------------------------
(* What a lock is worth against the other requests.                        *)

\* A request that locks at most a token nobody else has locked, and gains no
\* hold on the account by it, stays compatible with every other.
LEMMA LockIsExclusive ==
    ASSUME IInv, NEW r \in Req, NEW t \in Token, Moves(r),
           req[r].pc # "idle", req[r].pc \notin SigningIn,
           req'[r].pc \notin SigningIn \cup {"commitRefresh"},
           req'[r].pc \in {"cascade", "commitDelete"} => req[r].pc = "cascade",
           req'[r].fam = req[r].fam,
           \/ req'[r].held = req[r].held
           \/ req'[r].held = req[r].held \cup {t} /\ LockedByOther(r, t) = {}
    PROVE  \A q \in Req \ {r} : Pair(q, r)' /\ Pair(r, q)'
<1> SUFFICES ASSUME NEW q \in Req \ {r}
             PROVE  Pair(q, r)' /\ Pair(r, q)'
  OBVIOUS
<1>1. req'[q] = req[q] /\ Pair(q, r) /\ Pair(r, q)
  BY OthersStay DEF IInv
<1>2. req[q].held \cap req'[r].held = {}
  BY <1>1 DEF Pair, LockedByOther
<1>3. QED
  BY <1>1, <1>2 DEF Pair, Who, SigningIn

-----------------------------------------------------------------------------
(* The statements, one by one: none commits anything.                      *)

\* The labels of a statement are distinct, so WaitsFor has one case for each.
LEMMA WaitsForRow ==
    ASSUME NEW r \in Req, WaitsFor(r) = {}
    PROVE  /\ req[r].pc = "guard" /\ req[r].fresh /\ row[req[r].fam][req[r].dep] \in Unrevoked
              => LockedByOther(r, <<req[r].fam, req[r].dep>>) = {}
           /\ req[r].pc = "walk" /\ Status(req[r].fam, req[r].at) # "absent"
              => LockedByOther(r, <<req[r].fam, req[r].at>>) = {}
           /\ req[r].pc = "revoke" /\ row[req[r].fam][req[r].dep] # "absent"
              => LockedByOther(r, <<req[r].fam, req[r].dep>>) = {}
BY DEF WaitsFor

LEMMA WaitsForAccount ==
    ASSUME NEW r \in Req, WaitsFor(r) = {}
    PROVE  /\ req[r].pc = "insert" => Holding(Who(r), {"cascade", "commitDelete"}) = {}
           /\ req[r].pc = "create" => Holding(Who(r), {"commitSignup"}) = {}
           /\ req[r].pc = "login"
              => Holding(Who(r), {"commitLogin", "cascade", "commitDelete"}) = {}
           /\ req[r].pc = "delete"
              => Holding(Who(r), {"commitRefresh", "commitLogin", "cascade",
                                  "commitDelete"}) = {}
BY DEF WaitsFor

\* What a request under way is: used in every step below.
LEMMA UnderWay ==
    ASSUME IInv, NEW r \in Req, req[r].pc # "idle"
    PROVE  /\ req[r] \in Request /\ req[r].fam \in Family /\ req[r].dep \in Depth
           /\ req[r].at \in 0 .. MaxDepth + 1
           /\ req[r].held \subseteq Token
           /\ <<req[r].fam, req[r].dep>> \in Token
           /\ Who(r) \in Student
BY OwnerAssumption DEF IInv, TypeOK, Request, Token, Who

LEMMA RevokeIfLiveStep ==
    ASSUME IInv, NEW r \in Req, RevokeIfLive(r)
    PROVE  IInv'
<1> DEFINE t == <<req[r].fam, req[r].dep>>
<1>1. /\ req[r].pc = "guard" /\ WaitsFor(r) = {} /\ NothingCommitted
      /\ Local(r) /\ TypeOK
  BY DEF RevokeIfLive, At, IInv
<1>2. /\ req[r].held = {} /\ req[r].dep < MaxDepth
      /\ t \in Token /\ req[r].fam \in Family /\ "insert" \in PC /\ "lookup" \in PC
  BY <1>1, UnderWay DEF Local, HoldsNothing, RefreshHolds, PC
<1>3. CASE row[req[r].fam][req[r].dep] \in Unrevoked /\ req[r].fresh
  <2>1. LockGoto(r, t, "insert")
    BY <1>3 DEF RevokeIfLive
  <2>2. /\ Moves(r) /\ req'[r].pc = "insert"
        /\ req'[r].fam = req[r].fam /\ req'[r].dep = req[r].dep
        /\ req'[r].held = {t} /\ req'[r].held = req[r].held \cup {t}
    BY <1>1, <1>2, <2>1, LockMoves
  <2>3. LockedByOther(r, t) = {}
    BY <1>1, <1>3, WaitsForRow
  <2>4. \A q \in Req \ {r} : Pair(q, r)' /\ Pair(r, q)'
    BY <1>1, <1>2, <2>2, <2>3, LockIsExclusive DEF SigningIn
  <2>5. Local(r)'
    BY <1>1, <1>2, <1>3, <2>2 DEF Local, HeldRowsExist, HoldsNothing, RefreshHolds,
       WalkHolds, LogoutHolds, SignInFresh, AccountLocked, DeletionHolds, SigningIn,
       NothingCommitted, Unrevoked
  <2>6. QED
    BY <1>1, <1>2, <2>2, <2>4, <2>5, QuietStep
<1>4. CASE ~(row[req[r].fam][req[r].dep] \in Unrevoked /\ req[r].fresh)
  <2>1. Goto(r, "lookup")
    BY <1>4 DEF RevokeIfLive
  <2>2. /\ Moves(r) /\ req'[r].pc = "lookup"
        /\ req'[r].fam = req[r].fam /\ req'[r].held = {} /\ req'[r].held = req[r].held
    BY <1>1, <1>2, <2>1, GotoMoves
  <2>3. \A q \in Req \ {r} : Pair(q, r)' /\ Pair(r, q)'
    BY <1>1, <1>2, <2>2, LockIsExclusive DEF SigningIn
  <2>4. Local(r)'
    BY <2>2 DEF Local, HeldRowsExist, HoldsNothing, RefreshHolds,
       WalkHolds, LogoutHolds, SignInFresh, AccountLocked, DeletionHolds, SigningIn
  <2>5. QED
    BY <1>1, <1>2, <2>2, <2>3, <2>4, QuietStep
<1>5. QED
  BY <1>3, <1>4

LEMMA IssueSuccessorStep ==
    ASSUME IInv, NEW r \in Req, IssueSuccessor(r)
    PROVE  IInv'
<1>1. /\ req[r].pc = "insert" /\ WaitsFor(r) = {} /\ NothingCommitted
      /\ Local(r) /\ TypeOK /\ "commitRefresh" \in PC
  BY DEF IssueSuccessor, At, IInv, PC
<1>2. CASE End(r)
  BY <1>1, <1>2, Rollback
<1>3. CASE account[Who(r)] = "present" /\ Goto(r, "commitRefresh")
  <2>1. /\ Moves(r) /\ req'[r].pc = "commitRefresh" /\ req'[r].fam = req[r].fam
        /\ req'[r].dep = req[r].dep /\ req'[r].held = req[r].held
    BY <1>1, <1>3, GotoMoves
  <2>2. Local(r)'
    BY <1>1, <1>3, <2>1 DEF Local, HeldRowsExist, HoldsNothing, RefreshHolds,
       WalkHolds, LogoutHolds, SignInFresh, AccountLocked, DeletionHolds, SigningIn,
       NothingCommitted, Who
  <2>3. ASSUME NEW q \in Req \ {r}
        PROVE  Pair(q, r)' /\ Pair(r, q)'
    <3>1. req'[q] = req[q] /\ Pair(q, r) /\ Pair(r, q)
      BY <1>1, <2>1, OthersStay DEF IInv
    <3>2. Who(q) = Who(r) => req[q].pc \notin {"cascade", "commitDelete"}
      BY <1>1, WaitsForAccount DEF Holding, Who
    <3>3. QED
      BY <1>1, <2>1, <3>1, <3>2 DEF Pair, Who, SigningIn
  <2>4. req'[r].fam \in Family
    BY <1>1, <2>1, UnderWay
  <2>5. QED
    BY <1>1, <2>1, <2>2, <2>3, <2>4, QuietStep
<1>4. QED
  BY <1>2, <1>3 DEF IssueSuccessor

LEMMA LookupReplayedStep ==
    ASSUME IInv, NEW r \in Req, LookupReplayed(r)
    PROVE  IInv'
<1>1. /\ req[r].pc = "lookup" /\ NothingCommitted /\ Local(r) /\ TypeOK
      /\ req[r].held = {}
  BY DEF LookupReplayed, At, IInv, Local, HoldsNothing
<1>2. CASE End(r)
  BY <1>1, <1>2, Rollback
<1>3. CASE /\ row[req[r].fam][req[r].dep] = "revoked"
           /\ Becomes(r, [req[r] EXCEPT !.pc = "walk", !.at = req[r].dep + 1])
  <2>0. req[r].pc # "idle"
    BY <1>1
  <2>a. req[r].dep \in Depth
    BY <2>0, UnderWay
  <2>1. req[r].dep \in 0 .. MaxDepth /\ req[r].dep + 1 \in 0 .. MaxDepth + 1
    BY <2>a, DepthAssumption DEF Depth
  <2>2. /\ Moves(r) /\ req'[r].pc = "walk" /\ req'[r].fam = req[r].fam
        /\ req'[r].dep = req[r].dep /\ req'[r].at = req[r].dep + 1
        /\ req'[r].held = req[r].held
    BY <1>1, <1>3, <2>1, StartWalkMoves
  <2>3. WalkHolds(r)'
    <3>1. \A t \in Token : ~(req[r].dep < t[2] /\ t[2] < req[r].dep + 1)
      BY <2>1 DEF Token, Depth
    <3>2. QED
      BY <1>1, <1>3, <2>1, <2>2, <3>1 DEF WalkHolds, NothingCommitted
  <2>4. Local(r)'
    BY <1>1, <2>2, <2>3 DEF Local, HeldRowsExist, HoldsNothing, RefreshHolds,
       LogoutHolds, SignInFresh, AccountLocked, DeletionHolds, SigningIn
  <2>5. /\ "walk" \notin SigningIn \cup {"commitRefresh", "cascade", "commitDelete"}
        /\ "lookup" \notin SigningIn
    BY DEF SigningIn
  <2>6. req'[r].fam \in Family /\ <<req[r].fam, req[r].dep>> \in Token
    BY <1>1, <2>2, UnderWay
  <2>7. \A q \in Req \ {r} : Pair(q, r)' /\ Pair(r, q)'
    BY <1>1, <2>2, <2>5, <2>6, LockIsExclusive
  <2>8. QED
    BY <1>1, <2>2, <2>4, <2>6, <2>7, QuietStep
<1>4. QED
  BY <1>2, <1>3 DEF LookupReplayed

LEMMA RevokeSuccessorStep ==
    ASSUME IInv, NEW r \in Req, RevokeSuccessor(r)
    PROVE  IInv'
<1> DEFINE t == <<req[r].fam, req[r].at>>
<1>1. /\ req[r].pc = "walk" /\ WaitsFor(r) = {} /\ NothingCommitted
      /\ Local(r) /\ TypeOK
  BY DEF RevokeSuccessor, At, IInv
<1>2. req[r].pc # "idle"
  BY <1>1
<1>3. /\ req[r].fam \in Family /\ req[r].at \in 0 .. MaxDepth + 1 /\ req[r].dep \in Depth
      /\ "commitWalk" \in PC
  BY <1>2, UnderWay DEF PC
<1>4. /\ {"walk", "commitWalk"} \cap (SigningIn \cup {"commitRefresh", "cascade", "commitDelete"}) = {}
      /\ WalkHolds(r) /\ HeldRowsExist(r)
  BY <1>1 DEF SigningIn, Local
<1>5. CASE /\ Status(req[r].fam, req[r].at) # "absent"
           /\ Becomes(r, [req[r] EXCEPT !.held = @ \cup {t}, !.at = @ + 1])
  <2>1. req[r].at \in Depth /\ row[req[r].fam][req[r].at] # "absent"
    BY <1>5 DEF Status
  <2>2. t \in Token /\ req[r].at + 1 \in 0 .. MaxDepth + 1
    BY <1>3, <2>1, DepthAssumption DEF Token, Depth
  <2>3. /\ Moves(r) /\ req'[r].pc = "walk" /\ req'[r].fam = req[r].fam
        /\ req'[r].dep = req[r].dep /\ req'[r].at = req[r].at + 1
        /\ req'[r].held = req[r].held \cup {t}
    BY <1>1, <1>5, <2>2, AdvanceWalkMoves
  <2>4. WalkHolds(r)'
    <3>1. req[r].dep < req[r].at /\ req[r].dep \in Int /\ req[r].at \in Int
      BY <1>1, <1>3, <1>4 DEF WalkHolds, Depth
    <3>2. ASSUME NEW u \in Token
          PROVE  /\ u \in req'[r].held
                 <=> u[1] = req'[r].fam /\ req'[r].dep < u[2] /\ u[2] < req'[r].at
      <4>1. u = <<u[1], u[2]>> /\ u[2] \in Int
        BY DEF Token, Depth
      <4>2. u[2] < req[r].at + 1 <=> u[2] < req[r].at \/ u[2] = req[r].at
        BY <3>1, <4>1
      <4>3. u = t <=> u[1] = req[r].fam /\ u[2] = req[r].at
        BY <4>1
      <4>4. u \in req[r].held <=> u[1] = req[r].fam /\ req[r].dep < u[2] /\ u[2] < req[r].at
        BY <1>1, <1>4 DEF WalkHolds
      <4>5. QED
        BY <2>3, <3>1, <4>2, <4>3, <4>4
    <3>3. row[req[r].fam][req[r].dep] = "revoked" \/ account[Who(r)] = "deleted"
      BY <1>1, <1>4 DEF WalkHolds
    <3>4. QED
      BY <1>1, <2>3, <3>1, <3>2, <3>3 DEF WalkHolds, Who, NothingCommitted
  <2>5. HeldRowsExist(r)'
    BY <1>1, <1>4, <2>1, <2>3 DEF HeldRowsExist, NothingCommitted
  <2>6. Local(r)'
    BY <2>3, <2>4, <2>5 DEF Local, HoldsNothing, RefreshHolds,
       LogoutHolds, SignInFresh, AccountLocked, DeletionHolds, SigningIn
  <2>7. LockedByOther(r, t) = {}
    BY <1>1, <1>5, WaitsForRow
  <2>8. \A q \in Req \ {r} : Pair(q, r)' /\ Pair(r, q)'
    BY <1>1, <1>4, <2>2, <2>3, <2>7, LockIsExclusive
  <2>9. QED
    BY <1>1, <1>3, <2>3, <2>6, <2>8, QuietStep
<1>6. CASE Status(req[r].fam, req[r].at) = "absent" /\ Goto(r, "commitWalk")
  <2>1. /\ Moves(r) /\ req'[r].pc = "commitWalk" /\ req'[r].fam = req[r].fam
        /\ req'[r].dep = req[r].dep /\ req'[r].at = req[r].at /\ req'[r].held = req[r].held
    BY <1>1, <1>3, <1>6, GotoMoves
  <2>2. WalkHolds(r)'
    BY <1>1, <1>4, <1>6, <2>1 DEF WalkHolds, Who, Status, NothingCommitted
  <2>3. Local(r)'
    BY <1>1, <1>4, <2>1, <2>2 DEF Local, HeldRowsExist, HoldsNothing, RefreshHolds,
       LogoutHolds, SignInFresh, AccountLocked, DeletionHolds, SigningIn, NothingCommitted
  <2>4. <<req[r].fam, req[r].dep>> \in Token
    BY <1>3 DEF Token
  <2>5. \A q \in Req \ {r} : Pair(q, r)' /\ Pair(r, q)'
    BY <1>1, <1>4, <2>1, <2>4, LockIsExclusive
  <2>6. QED
    BY <1>1, <1>3, <2>1, <2>3, <2>5, QuietStep
<1>7. QED
  BY <1>5, <1>6 DEF RevokeSuccessor

LEMMA RevokeByIdStep ==
    ASSUME IInv, NEW r \in Req, RevokeById(r)
    PROVE  IInv'
<1> DEFINE t == <<req[r].fam, req[r].dep>>
<1>1. /\ req[r].pc = "revoke" /\ WaitsFor(r) = {} /\ NothingCommitted
      /\ Local(r) /\ TypeOK /\ "commitLogout" \in PC
  BY DEF RevokeById, At, IInv, PC
<1>2. req[r].held = {} /\ t \in Token /\ req[r].fam \in Family
  BY <1>1, UnderWay DEF Local, HoldsNothing
<1>3. CASE row[req[r].fam][req[r].dep] # "absent" /\ LockGoto(r, t, "commitLogout")
  <2>1. /\ Moves(r) /\ req'[r].pc = "commitLogout" /\ req'[r].fam = req[r].fam
        /\ req'[r].dep = req[r].dep /\ req'[r].held = req[r].held \cup {t}
        /\ req'[r].held = {t}
    BY <1>1, <1>2, <1>3, LockMoves
  <2>2. LockedByOther(r, t) = {}
    BY <1>1, <1>3, WaitsForRow
  <2>3. \A q \in Req \ {r} : Pair(q, r)' /\ Pair(r, q)'
    BY <1>1, <1>2, <2>1, <2>2, LockIsExclusive DEF SigningIn
  <2>4. Local(r)'
    BY <1>1, <1>2, <1>3, <2>1 DEF Local, HeldRowsExist, HoldsNothing, RefreshHolds, WalkHolds,
       LogoutHolds, SignInFresh, AccountLocked, DeletionHolds, SigningIn, NothingCommitted
  <2>5. QED
    BY <1>1, <1>2, <2>1, <2>3, <2>4, QuietStep
<1>4. CASE Goto(r, "commitLogout")
  <2>1. /\ Moves(r) /\ req'[r].pc = "commitLogout" /\ req'[r].fam = req[r].fam
        /\ req'[r].held = req[r].held
    BY <1>1, <1>4, GotoMoves
  <2>2. \A q \in Req \ {r} : Pair(q, r)' /\ Pair(r, q)'
    BY <1>1, <1>2, <2>1, LockIsExclusive DEF SigningIn
  <2>3. Local(r)'
    BY <1>2, <2>1 DEF Local, HeldRowsExist, HoldsNothing, RefreshHolds, WalkHolds,
       LogoutHolds, SignInFresh, AccountLocked, DeletionHolds, SigningIn
  <2>4. QED
    BY <1>1, <1>2, <2>1, <2>2, <2>3, QuietStep
<1>5. QED
  BY <1>3, <1>4 DEF RevokeById

LEMMA CreateAccountStep ==
    ASSUME IInv, NEW r \in Req, CreateAccount(r)
    PROVE  IInv'
<1>1. /\ req[r].pc = "create" /\ WaitsFor(r) = {} /\ NothingCommitted
      /\ Local(r) /\ TypeOK /\ "commitSignup" \in PC
  BY DEF CreateAccount, At, IInv, PC
<1>2. CASE End(r)
  BY <1>1, <1>2, Rollback
<1>3. CASE account[Who(r)] = "none" /\ Goto(r, "commitSignup")
  <2>1. /\ Moves(r) /\ req'[r].pc = "commitSignup" /\ req'[r].fam = req[r].fam
        /\ req'[r].dep = req[r].dep /\ req'[r].held = req[r].held
    BY <1>1, <1>3, GotoMoves
  <2>2. Local(r)'
    BY <1>1, <1>3, <2>1 DEF Local, HeldRowsExist, HoldsNothing, RefreshHolds,
       WalkHolds, LogoutHolds, SignInFresh, AccountLocked, DeletionHolds, SigningIn,
       NothingCommitted, Who
  <2>3. ASSUME NEW q \in Req \ {r}
        PROVE  Pair(q, r)' /\ Pair(r, q)'
    <3>1. req'[q] = req[q] /\ Pair(q, r) /\ Pair(r, q)
      BY <1>1, <2>1, OthersStay DEF IInv
    <3>2. req[q].pc = "commitSignup" => Who(q) # Who(r)
      BY <1>1, WaitsForAccount DEF Holding, Who
    <3>3. QED
      BY <1>1, <2>1, <3>1, <3>2 DEF Pair, Who, SigningIn
  <2>4. req'[r].fam \in Family
    BY <1>1, <2>1, UnderWay
  <2>5. QED
    BY <1>1, <2>1, <2>2, <2>3, <2>4, QuietStep
<1>4. QED
  BY <1>2, <1>3 DEF CreateAccount

LEMMA UpdateAccountStep ==
    ASSUME IInv, NEW r \in Req, UpdateAccount(r)
    PROVE  IInv'
<1>1. /\ req[r].pc = "login" /\ WaitsFor(r) = {} /\ NothingCommitted
      /\ Local(r) /\ TypeOK /\ "commitLogin" \in PC
  BY DEF UpdateAccount, At, IInv, PC
<1>2. CASE End(r)
  BY <1>1, <1>2, Rollback
<1>3. CASE account[Who(r)] = "present" /\ Goto(r, "commitLogin")
  <2>1. /\ Moves(r) /\ req'[r].pc = "commitLogin" /\ req'[r].fam = req[r].fam
        /\ req'[r].dep = req[r].dep /\ req'[r].held = req[r].held
    BY <1>1, <1>3, GotoMoves
  <2>2. Local(r)'
    BY <1>1, <1>3, <2>1 DEF Local, HeldRowsExist, HoldsNothing, RefreshHolds,
       WalkHolds, LogoutHolds, SignInFresh, AccountLocked, DeletionHolds, SigningIn,
       NothingCommitted, Who
  <2>3. ASSUME NEW q \in Req \ {r}
        PROVE  Pair(q, r)' /\ Pair(r, q)'
    <3>1. req'[q] = req[q] /\ Pair(q, r) /\ Pair(r, q)
      BY <1>1, <2>1, OthersStay DEF IInv
    <3>2. req[q].pc \in {"cascade", "commitDelete"} => Who(q) # Who(r)
      BY <1>1, WaitsForAccount DEF Holding, Who
    <3>3. QED
      BY <1>1, <2>1, <3>1, <3>2 DEF Pair, Who, SigningIn
  <2>4. req'[r].fam \in Family
    BY <1>1, <2>1, UnderWay
  <2>5. QED
    BY <1>1, <2>1, <2>2, <2>3, <2>4, QuietStep
<1>4. QED
  BY <1>2, <1>3 DEF UpdateAccount

LEMMA LockAccountStep ==
    ASSUME IInv, NEW r \in Req, LockAccount(r)
    PROVE  IInv'
<1>1. /\ req[r].pc = "delete" /\ WaitsFor(r) = {} /\ NothingCommitted
      /\ Local(r) /\ TypeOK /\ "cascade" \in PC
  BY DEF LockAccount, At, IInv, PC
<1>2. CASE End(r)
  BY <1>1, <1>2, Rollback
<1>3. CASE account[Who(r)] = "present" /\ Goto(r, "cascade")
  <2>1. /\ Moves(r) /\ req'[r].pc = "cascade" /\ req'[r].fam = req[r].fam
        /\ req'[r].dep = req[r].dep /\ req'[r].held = req[r].held
    BY <1>1, <1>3, GotoMoves
  <2>2. Local(r)'
    BY <1>1, <1>3, <2>1 DEF Local, HeldRowsExist, HoldsNothing, RefreshHolds,
       WalkHolds, LogoutHolds, SignInFresh, AccountLocked, DeletionHolds, SigningIn,
       NothingCommitted, Who
  <2>3. ASSUME NEW q \in Req \ {r}
        PROVE  Pair(q, r)' /\ Pair(r, q)'
    <3>1. req'[q] = req[q] /\ Pair(q, r) /\ Pair(r, q)
      BY <1>1, <2>1, OthersStay DEF IInv
    <3>2. req[q].pc \in {"commitRefresh", "commitLogin", "cascade", "commitDelete"}
             => Who(q) # Who(r)
      BY <1>1, WaitsForAccount DEF Holding, Who
    <3>3. QED
      BY <1>1, <2>1, <3>1, <3>2 DEF Pair, Who, SigningIn
  <2>4. req'[r].fam \in Family
    BY <1>1, <2>1, UnderWay
  <2>5. QED
    BY <1>1, <2>1, <2>2, <2>3, <2>4, QuietStep
<1>4. QED
  BY <1>2, <1>3 DEF LockAccount

LEMMA CascadeStep ==
    ASSUME IInv, NEW r \in Req, Cascade(r)
    PROVE  IInv'
<1>1. /\ req[r].pc = "cascade" /\ NothingCommitted
      /\ Local(r) /\ TypeOK /\ {"cascade", "commitDelete"} \subseteq PC
  BY DEF Cascade, At, IInv, PC
<1>2. req[r].fam \in Family /\ <<req[r].fam, req[r].dep>> \in Token
  BY <1>1, UnderWay
<1>3. ASSUME NEW t \in ToDelete(r), LockedByOther(r, t) = {}, LockGoto(r, t, "cascade")
      PROVE  IInv'
  <2>1. t \in Token /\ Owner[t[1]] = Who(r) /\ row[t[1]][t[2]] # "absent"
    BY <1>3 DEF ToDelete
  <2>2. /\ Moves(r) /\ req'[r].pc = "cascade" /\ req'[r].fam = req[r].fam
        /\ req'[r].dep = req[r].dep /\ req'[r].held = req[r].held \cup {t}
    BY <1>1, <1>3, <2>1, LockMoves
  <2>3. \A q \in Req \ {r} : Pair(q, r)' /\ Pair(r, q)'
    BY <1>1, <1>3, <2>1, <2>2, LockIsExclusive DEF SigningIn
  <2>4. Local(r)'
    BY <1>1, <2>1, <2>2 DEF Local, HeldRowsExist, HoldsNothing, RefreshHolds, WalkHolds,
       LogoutHolds, SignInFresh, AccountLocked, DeletionHolds, SigningIn,
       NothingCommitted, Who
  <2>5. QED
    BY <1>1, <1>2, <2>2, <2>3, <2>4, QuietStep
<1>4. ASSUME ToDelete(r) = {}, Goto(r, "commitDelete")
      PROVE  IInv'
  <2>1. /\ Moves(r) /\ req'[r].pc = "commitDelete" /\ req'[r].fam = req[r].fam
        /\ req'[r].dep = req[r].dep /\ req'[r].held = req[r].held
    BY <1>1, <1>4, GotoMoves
  <2>2. \A q \in Req \ {r} : Pair(q, r)' /\ Pair(r, q)'
    BY <1>1, <1>2, <2>1, LockIsExclusive DEF SigningIn
  <2>3. Local(r)'
    BY <1>1, <1>4, <2>1 DEF Local, HeldRowsExist, HoldsNothing, RefreshHolds, WalkHolds,
       LogoutHolds, SignInFresh, AccountLocked, DeletionHolds, SigningIn,
       NothingCommitted, Who, ToDelete
  <2>4. QED
    BY <1>1, <1>2, <2>1, <2>2, <2>3, QuietStep
<1>5. QED
  BY <1>3, <1>4 DEF Cascade

-----------------------------------------------------------------------------
(* The commits.                                                            *)

\* A commit is harmless when it keeps the chains and what the others know.
LEMMA CommitStep ==
    ASSUME IInv, NEW r \in Req, End(r),
           row' \in [Family -> [Depth -> RowStatus]],
           account' \in [Student -> AccountStatus],
           ChainShape', NoOrphanToken',
           \A q \in Req \ {r} : req'[q] = req[q] => Local(q)'
    PROVE  IInv'
<1>1. req' = [req EXCEPT ![r] = Idle] /\ req'[r] = Idle /\ Moves(r)
  BY IdleIsRequest DEF End, Becomes, IInv, TypeOK, Moves
<1>2. /\ req' \in [Req -> Request]
      /\ \A q \in Req \ {r} : req'[q] = req[q]
  BY <1>1, OthersStay DEF IInv
<1>3. TypeOK'
  BY <1>1, <1>2 DEF IInv, TypeOK, Idle
<1>4. \A q \in Req : Local(q)'
  BY <1>1, <1>2, IdleLocal
<1>5. \A p, q \in Req : p # q => Pair(p, q)'
  BY <1>1, IdlePair
<1>6. QED
  BY <1>3, <1>4, <1>5 DEF IInv

\* What every commit below may use of another request.
LEMMA Other ==
    ASSUME IInv, NEW r \in Req, NEW q \in Req \ {r}
    PROVE  /\ Local(q) /\ Pair(q, r) /\ Pair(r, q)
           /\ req[q].held \cap req[r].held = {}
           /\ req[q].held \subseteq Token /\ req[q] \in Request
           /\ req[q].dep \in Depth /\ req[q].at \in 0 .. MaxDepth + 1
           /\ req[q].pc # "idle" => req[q].fam \in Family
BY DEF IInv, TypeOK, Request, Pair

LEMMA CommitRefreshStep ==
    ASSUME IInv, NEW r \in Req, CommitRefresh(r)
    PROVE  IInv'
<1> DEFINE f == req[r].fam
           d == req[r].dep
<1>1. /\ req[r].pc = "commitRefresh" /\ End(r) /\ account' = account
      /\ Local(r) /\ TypeOK
      /\ row' = [row EXCEPT ![f] = [@ EXCEPT ![d] = "revoked", ![d + 1] = "live"]]
  BY DEF CommitRefresh, At, IInv
<1>2. /\ f \in Family /\ d \in Depth /\ Who(r) \in Student
      /\ req[r].held = {<<f, d>>} /\ row[f][d] \in Unrevoked /\ account[Who(r)] = "present"
      /\ d < MaxDepth
  BY <1>1, UnderWay DEF Local, RefreshHolds, AccountLocked
<1>3. d \in Int /\ d + 1 \in Depth /\ d # d + 1
  BY <1>2, DepthAssumption DEF Depth
<1>4. ASSUME NEW g \in Family, NEW e \in Depth
      PROVE  row'[g][e] = IF g = f /\ e = d THEN "revoked"
                          ELSE IF g = f /\ e = d + 1 THEN "live" ELSE row[g][e]
  BY <1>1, <1>2, <1>3 DEF TypeOK
<1>5. row' \in [Family -> [Depth -> RowStatus]]
  <2> DEFINE new == [row[f] EXCEPT ![d] = "revoked", ![d + 1] = "live"]
  <2>1. row[f] \in [Depth -> RowStatus]
    BY <1>1, <1>2 DEF TypeOK
  <2>2. new \in [Depth -> RowStatus]
    BY <2>1, <1>2, <1>3 DEF RowStatus
  <2>3. row' = [row EXCEPT ![f] = new]
    BY <1>1
  <2> HIDE DEF new
  <2>4. QED
    BY <1>1, <1>2, <2>2, <2>3 DEF TypeOK
<1> HIDE DEF f, d
<1>6. \A e \in Depth : e > d => row[f][e] = "absent"
  BY <1>2 DEF IInv, ChainShape, Unrevoked
<1>7. ChainShape'
  <2> SUFFICES ASSUME NEW g \in Family, NEW a \in Depth, NEW e \in Depth,
                      e < a, row'[g][a] # "absent"
               PROVE  row'[g][e] = "revoked"
    BY DEF ChainShape
  <2>1. CASE g # f
    BY <1>4, <2>1 DEF IInv, ChainShape
  <2>2. CASE g = f /\ e = d
    BY <1>4, <2>2
  <2>3. CASE g = f /\ e # d
    <3>1. a \in Int /\ e \in Int
      BY DEF Depth
    <3>2. a = d + 1 \/ a = d \/ row[f][a] # "absent"
      BY <1>4, <2>3
    <3>3. a <= d + 1
      BY <1>3, <1>6, <3>1, <3>2
    <3>4. e < d
      BY <1>3, <2>3, <3>1, <3>3
    <3>5. row[f][e] = "revoked" /\ e # d + 1
      BY <1>2, <1>3, <3>1, <3>4 DEF IInv, ChainShape, Unrevoked
    <3>6. QED
      BY <1>4, <2>3, <3>5
  <2>4. QED
    BY <2>1, <2>2, <2>3
<1>8. NoOrphanToken'
  BY <1>1, <1>2, <1>4 DEF IInv, NoOrphanToken, Who, f
<1>9. ASSUME NEW q \in Req \ {r}, req'[q] = req[q]
      PROVE  Local(q)'
  <2>1. /\ Local(q) /\ Pair(q, r) /\ Pair(r, q) /\ <<f, d>> \notin req[q].held
        /\ req[q].held \subseteq Token
        /\ req[q].dep \in Depth /\ req[q].at \in 0 .. MaxDepth + 1
        /\ req[q].pc # "idle" => req[q].fam \in Family
    BY <1>2, Other
  <2>2. HeldRowsExist(q)'
    <3>1. \A t \in Token : row[t[1]][t[2]] # "absent" => row'[t[1]][t[2]] # "absent"
      BY <1>4 DEF Token
    <3>2. QED
      BY <1>9, <2>1, <3>1 DEF Local, HeldRowsExist
  <2>3. RefreshHolds(q)'
    BY <1>4, <1>9, <2>1 DEF Local, RefreshHolds, Unrevoked
  <2>4. WalkHolds(q)'
    <3> SUFFICES ASSUME req[q].pc \in {"walk", "commitWalk"}
                 PROVE  WalkHolds(q)'
      BY <1>9 DEF WalkHolds
    <3>1. WalkHolds(q) /\ req[q].fam \in Family
      BY <2>1 DEF Local
    <3>2. row[req[q].fam][req[q].dep] = "revoked" => row'[req[q].fam][req[q].dep] = "revoked"
      BY <1>3, <1>4, <1>6, <2>1, <3>1
    <3>3. Status(req[q].fam, req[q].at) = "absent" => Status(req[q].fam, req[q].at)' = "absent"
      <4> SUFFICES ASSUME req[q].fam = f, req[q].at = d + 1
                   PROVE  FALSE
        BY <1>2, <1>4, <1>9, <3>1 DEF Status, Unrevoked
      <4>1. req[q].dep < d + 1 /\ req[q].dep \in Int
        BY <2>1, <3>1 DEF WalkHolds, Depth
      <4>2. <<f, d>> \in Token
        BY <1>2 DEF Token
      <4>3. ~(req[q].dep < d)
        BY <1>3, <2>1, <3>1, <4>2 DEF WalkHolds
      <4>4. req[q].dep = d
        BY <1>3, <4>1, <4>3
      <4>5. row[f][d] = "revoked" \/ account[Who(r)] = "deleted"
        BY <3>1, <4>4 DEF WalkHolds, Who, f
      <4>6. QED
        BY <1>2, <4>5 DEF Unrevoked
    <3>4. QED
      BY <1>1, <1>9, <3>1, <3>2, <3>3 DEF WalkHolds, Who
  <2>5. SignInFresh(q)'
    <3>1. req[q].pc \in SigningIn => req[q].fam # f /\ req[q].fam \in Family
      BY <2>1 DEF Pair, SigningIn, f
    <3>2. 0 \in Depth
      BY DepthAssumption DEF Depth
    <3>3. QED
      BY <1>4, <1>9, <2>1, <3>1, <3>2 DEF Local, SignInFresh
  <2>6. DeletionHolds(q)'
    <3>1. req[q].pc \in {"cascade", "commitDelete"} => Who(q) # Who(r)
      BY <1>1, <2>1 DEF Pair
    <3>2. ASSUME req[q].pc \in {"cascade", "commitDelete"}
          PROVE  ToDelete(q)' = ToDelete(q)
      <4>1. \A t \in Token : Owner[t[1]] = Who(q) =>
                               (row'[t[1]][t[2]] # "absent" <=> row[t[1]][t[2]] # "absent")
        BY <1>4, <3>1, <3>2 DEF Token, Who, f
      <4>2. QED
        BY <1>9, <4>1 DEF ToDelete, Who
    <3>3. QED
      BY <1>9, <2>1, <3>2 DEF Local, DeletionHolds, Who
  <2>7. QED
    BY <1>1, <1>9, <2>1, <2>2, <2>3, <2>4, <2>5, <2>6
       DEF Local, HoldsNothing, LogoutHolds, AccountLocked, Who
<1>10. account' \in [Student -> AccountStatus]
  BY <1>1 DEF TypeOK
<1>11. QED
  BY <1>1, <1>5, <1>7, <1>8, <1>9, <1>10, CommitStep

\* Revoking or expiring rows that no other request holds: no row comes or
\* goes, so only what is usable has changed.
LEMMA Retire ==
    ASSUME IInv, NEW r \in Req, NEW T \in SUBSET Token, End(r), account' = account,
           T = req[r].held, Write(r, "revoked"), HeldRowsExist(r)
    PROVE  IInv'
<1>1. ASSUME NEW g \in Family, NEW e \in Depth
      PROVE  row'[g][e] = IF <<g, e>> \in T THEN "revoked" ELSE row[g][e]
  BY DEF Write
<1>2. ASSUME NEW g \in Family, NEW e \in Depth
      PROVE  row'[g][e] = "absent" <=> row[g][e] = "absent"
  BY <1>1 DEF HeldRowsExist
<1>3. row' \in [Family -> [Depth -> RowStatus]] /\ account' \in [Student -> AccountStatus]
  <2>1. \A g \in Family, e \in Depth : row[g][e] \in RowStatus
    BY DEF IInv, TypeOK
  <2>2. QED
    BY <2>1 DEF Write, RowStatus, IInv, TypeOK
<1>4. ChainShape'
  <2> SUFFICES ASSUME NEW g \in Family, NEW a \in Depth, NEW e \in Depth,
                      e < a, row'[g][a] # "absent"
               PROVE  row'[g][e] = "revoked"
    BY DEF ChainShape
  <2>1. row[g][e] = "revoked"
    BY <1>2 DEF IInv, ChainShape
  <2>2. QED
    BY <1>1, <2>1
<1>5. NoOrphanToken'
  BY <1>2 DEF IInv, NoOrphanToken
<1>6. ASSUME NEW q \in Req \ {r}, req'[q] = req[q]
      PROVE  Local(q)'
  <2>1. /\ Local(q) /\ req[q].held \cap T = {} /\ req[q].held \subseteq Token
        /\ req[q].dep \in Depth /\ req[q].at \in 0 .. MaxDepth + 1
        /\ req[q].pc # "idle" => req[q].fam \in Family
    BY Other
  <2>2. HeldRowsExist(q)'
    BY <1>2, <1>6, <2>1 DEF Local, HeldRowsExist, Token
  <2>3. RefreshHolds(q)'
    <3> SUFFICES ASSUME req[q].pc \in {"insert", "commitRefresh"}
                 PROVE  row'[req[q].fam][req[q].dep] = row[req[q].fam][req[q].dep]
      BY <1>6, <2>1 DEF Local, RefreshHolds
    <3>1. <<req[q].fam, req[q].dep>> \notin T /\ req[q].fam \in Family
      BY <2>1 DEF Local, RefreshHolds
    <3>2. QED
      BY <1>1, <2>1, <3>1
  <2>4. WalkHolds(q)'
    <3> SUFFICES ASSUME req[q].pc \in {"walk", "commitWalk"}
                 PROVE  WalkHolds(q)'
      BY <1>6 DEF WalkHolds
    <3>1. WalkHolds(q) /\ req[q].fam \in Family
      BY <2>1 DEF Local
    <3>2. row[req[q].fam][req[q].dep] = "revoked" => row'[req[q].fam][req[q].dep] = "revoked"
      BY <1>1, <2>1, <3>1
    <3>3. Status(req[q].fam, req[q].at) = "absent" => Status(req[q].fam, req[q].at)' = "absent"
      BY <1>2, <1>6, <3>1 DEF Status
    <3>4. QED
      BY <1>6, <3>1, <3>2, <3>3 DEF WalkHolds, Who
  <2>5. SignInFresh(q)'
    <3>1. 0 \in Depth
      BY DepthAssumption DEF Depth
    <3>2. QED
      BY <1>2, <1>6, <2>1, <3>1 DEF Local, SignInFresh, SigningIn
  <2>6. DeletionHolds(q)'
    <3>1. ToDelete(q)' = ToDelete(q)
      BY <1>2, <1>6 DEF ToDelete, Who, Token
    <3>2. QED
      BY <1>6, <2>1, <3>1 DEF Local, DeletionHolds, Who
  <2>7. QED
    BY <1>6, <2>1, <2>2, <2>3, <2>4, <2>5, <2>6
       DEF Local, HoldsNothing, LogoutHolds, AccountLocked, Who
<1>7. QED
  BY <1>3, <1>4, <1>5, <1>6, CommitStep

LEMMA CommitWalkStep ==
    ASSUME IInv, NEW r \in Req, CommitWalk(r)
    PROVE  IInv'
BY Retire DEF CommitWalk, IInv, Local, TypeOK, Request

LEMMA CommitLogoutStep ==
    ASSUME IInv, NEW r \in Req, CommitLogout(r)
    PROVE  IInv'
BY Retire DEF CommitLogout, IInv, Local, TypeOK, Request

LEMMA CommitSignInStep ==
    ASSUME IInv, NEW r \in Req, CommitSignIn(r)
    PROVE  IInv'
<1> DEFINE f == req[r].fam
<1>1. /\ req[r].pc \in {"commitSignup", "commitLogin"} /\ End(r) /\ Local(r) /\ TypeOK
      /\ row' = [row EXCEPT ![f] = [@ EXCEPT ![0] = "live"]]
      /\ account' = IF req[r].pc = "commitLogin" THEN account
                    ELSE [account EXCEPT ![Who(r)] = "present"]
  BY DEF CommitSignIn, IInv
<1>2. f \in Family /\ Who(r) \in Student /\ row[f][0] = "absent" /\ 0 \in Depth
  <2>1. req[r].pc # "idle" /\ req[r].pc \in SigningIn
    BY <1>1 DEF SigningIn
  <2>2. f \in Family /\ Who(r) \in Student
    BY <2>1, UnderWay
  <2>3. Local(r)
    BY <1>1
  <2>4. row[f][0] = "absent"
    BY <2>1, <2>3 DEF Local, SignInFresh
  <2>5. 0 \in Depth
    BY DepthAssumption DEF Depth
  <2>6. QED
    BY <2>2, <2>4, <2>5
<1>3. \A e \in Depth : row[f][e] = "absent"
  BY <1>2, FirstTokenExists
<1>4. ASSUME NEW g \in Family, NEW e \in Depth
      PROVE  row'[g][e] = IF g = f /\ e = 0 THEN "live" ELSE row[g][e]
  BY <1>1, <1>2 DEF TypeOK
<1>5. /\ account'[Who(r)] = "present"
      /\ account[Who(r)] # "deleted"
      /\ req[r].pc = "commitSignup" => account[Who(r)] = "none"
      /\ \A s \in Student \ {Who(r)} : account'[s] = account[s]
      /\ account' = account \/ req[r].pc = "commitSignup"
  BY <1>1, <1>2 DEF Local, AccountLocked, TypeOK
<1>6. row' \in [Family -> [Depth -> RowStatus]] /\ account' \in [Student -> AccountStatus]
  <2> DEFINE new == [row[f] EXCEPT ![0] = "live"]
  <2>1. new \in [Depth -> RowStatus] /\ row' = [row EXCEPT ![f] = new]
    BY <1>1, <1>2 DEF TypeOK, RowStatus
  <2> HIDE DEF new
  <2>2. QED
    BY <1>1, <1>2, <2>1 DEF TypeOK, AccountStatus
<1> HIDE DEF f
<1>7. ChainShape'
  <2> SUFFICES ASSUME NEW g \in Family, NEW a \in Depth, NEW e \in Depth,
                      e < a, row'[g][a] # "absent"
               PROVE  row'[g][e] = "revoked"
    BY DEF ChainShape
  <2>1. a # 0
    BY DEF Depth
  <2>2. g # f
    BY <1>3, <1>4, <2>1
  <2>3. QED
    BY <1>4, <2>2 DEF IInv, ChainShape
<1>8. NoOrphanToken'
  <2> SUFFICES ASSUME NEW g \in Family, NEW e \in Depth, row'[g][e] # "absent"
               PROVE  account'[Owner[g]] = "present"
    BY DEF NoOrphanToken
  <2>1. CASE g = f
    BY <1>5, <2>1 DEF Who, f
  <2>2. CASE g # f
    <3>1. account[Owner[g]] = "present"
      BY <1>4, <2>2 DEF IInv, NoOrphanToken
    <3>2. QED
      BY <1>5, <3>1, OwnerAssumption
  <2>3. QED
    BY <2>1, <2>2
<1>9. ASSUME NEW q \in Req \ {r}, req'[q] = req[q]
      PROVE  Local(q)'
  <2>1. /\ Local(q) /\ Pair(q, r) /\ Pair(r, q) /\ req[q].held \subseteq Token
        /\ req[q].dep \in Depth /\ req[q].at \in 0 .. MaxDepth + 1
        /\ req[q].pc # "idle" => req[q].fam \in Family
    BY Other
  <2>2. req[q].fam # f
    BY <1>1, <2>1 DEF Pair, SigningIn, f
  <2>3. req[q].pc # "idle" => Who(q) \in Student
    BY <2>1, OwnerAssumption DEF Who
  <2>4. HeldRowsExist(q)'
    <3>1. \A t \in Token : row[t[1]][t[2]] # "absent" => row'[t[1]][t[2]] # "absent"
      BY <1>4 DEF Token
    <3>2. QED
      BY <1>9, <2>1, <3>1 DEF Local, HeldRowsExist
  <2>5. RefreshHolds(q)'
    BY <1>4, <1>9, <2>1, <2>2 DEF Local, RefreshHolds
  <2>6. WalkHolds(q)'
    <3> SUFFICES ASSUME req[q].pc \in {"walk", "commitWalk"}
                 PROVE  WalkHolds(q)'
      BY <1>9 DEF WalkHolds
    <3>1. WalkHolds(q) /\ req[q].fam \in Family /\ Who(q) \in Student
      BY <2>1, <2>3 DEF Local
    <3>2. row'[req[q].fam][req[q].dep] = row[req[q].fam][req[q].dep]
      BY <1>4, <2>1, <2>2, <3>1
    <3>3. Status(req[q].fam, req[q].at)' = Status(req[q].fam, req[q].at)
      BY <1>4, <1>9, <2>2, <3>1 DEF Status
    <3>4. account[Who(q)] = "deleted" => account'[Who(q)] = "deleted"
      BY <1>5, <3>1
    <3>5. QED
      BY <1>9, <3>1, <3>2, <3>3, <3>4 DEF WalkHolds, Who
  <2>7. SignInFresh(q)'
    BY <1>2, <1>4, <1>9, <2>1, <2>2 DEF Local, SignInFresh, SigningIn
  <2>8. AccountLocked(q)'
    <3>1. ASSUME req[q].pc \in {"commitRefresh", "commitLogin", "cascade", "commitDelete"}
          PROVE  account'[Who(q)] = "present"
      BY <1>5, <2>1, <2>3, <3>1 DEF Local, AccountLocked
    <3>2. ASSUME req[q].pc = "commitSignup"
          PROVE  account'[Who(q)] = "none"
      <4>1. account[Who(q)] = "none" /\ Who(q) \in Student
        BY <2>1, <2>3, <3>2 DEF Local, AccountLocked
      <4>2. req[r].pc = "commitSignup" => Who(q) # Who(r)
        BY <2>1, <3>2 DEF Pair
      <4>3. QED
        BY <1>5, <4>1, <4>2
    <3>3. QED
      BY <1>9, <3>1, <3>2 DEF AccountLocked, Who
  <2>9. DeletionHolds(q)'
    <3> SUFFICES ASSUME req[q].pc \in {"cascade", "commitDelete"}
                 PROVE  DeletionHolds(q)'
      BY <1>9 DEF DeletionHolds
    <3>1. account[Who(q)] = "present"
      BY <2>1 DEF Local, AccountLocked
    <3>2. Who(q) # Who(r)
      BY <1>1, <1>5, <2>1, <3>1 DEF Pair
    <3>3. \A t \in Token : Owner[t[1]] = Who(q) => row'[t[1]][t[2]] = row[t[1]][t[2]]
      BY <1>4, <3>2 DEF Token, Who, f
    <3>4. ToDelete(q)' = ToDelete(q)
      BY <1>9, <3>3 DEF ToDelete, Who
    <3>5. QED
      BY <1>9, <2>1, <3>4 DEF Local, DeletionHolds, Who
  <2>10. QED
    BY <1>9, <2>1, <2>4, <2>5, <2>6, <2>7, <2>8, <2>9
       DEF Local, HoldsNothing, LogoutHolds
<1>10. QED
  BY <1>1, <1>6, <1>7, <1>8, <1>9, CommitStep

LEMMA CommitDeleteStep ==
    ASSUME IInv, NEW r \in Req, CommitDelete(r)
    PROVE  IInv'
<1>1. /\ req[r].pc = "commitDelete" /\ End(r) /\ Local(r) /\ TypeOK /\ Write(r, "absent")
      /\ account' = [account EXCEPT ![Who(r)] = "deleted"]
  BY DEF CommitDelete, At, IInv
<1>2. /\ Who(r) \in Student /\ account[Who(r)] = "present" /\ ToDelete(r) = {}
      /\ \A t \in req[r].held : Owner[t[1]] = Who(r)
  BY <1>1, UnderWay DEF Local, AccountLocked, DeletionHolds
<1>3. ASSUME NEW g \in Family, NEW e \in Depth
      PROVE  row'[g][e] = IF Owner[g] = Who(r) THEN "absent" ELSE row[g][e]
  <2>1. row'[g][e] = IF <<g, e>> \in req[r].held THEN "absent" ELSE row[g][e]
    BY <1>1 DEF Write
  <2>2. <<g, e>> \in Token /\ <<g, e>>[1] = g /\ <<g, e>>[2] = e
    BY DEF Token
  <2>3. <<g, e>> \notin req[r].held => Owner[g] # Who(r) \/ row[g][e] = "absent"
    BY <1>2, <2>2 DEF ToDelete
  <2>4. <<g, e>> \in req[r].held => Owner[g] = Who(r)
    BY <1>2, <2>2
  <2>5. QED
    BY <2>1, <2>3, <2>4
<1>4. /\ account'[Who(r)] = "deleted"
      /\ \A s \in Student \ {Who(r)} : account'[s] = account[s]
  BY <1>1, <1>2 DEF TypeOK
<1>5. row' \in [Family -> [Depth -> RowStatus]] /\ account' \in [Student -> AccountStatus]
  <2>1. \A g \in Family, e \in Depth : row[g][e] \in RowStatus
    BY <1>1 DEF TypeOK
  <2>2. QED
    BY <1>1, <2>1 DEF Write, RowStatus, AccountStatus, TypeOK
<1>6. ChainShape'
  BY <1>3 DEF IInv, ChainShape
<1>7. NoOrphanToken'
  BY <1>3, <1>4, OwnerAssumption DEF IInv, NoOrphanToken
<1>8. ASSUME NEW q \in Req \ {r}, req'[q] = req[q]
      PROVE  Local(q)'
  <2>1. /\ Local(q) /\ Pair(q, r) /\ Pair(r, q)
        /\ req[q].held \subseteq Token /\ req[q].held \cap req[r].held = {}
        /\ req[q].dep \in Depth /\ req[q].at \in 0 .. MaxDepth + 1
        /\ req[q].pc # "idle" => req[q].fam \in Family
    BY Other
  <2>2. req[q].pc # "idle" => Who(q) \in Student
    BY <2>1, OwnerAssumption DEF Who
  <2>3. \A t \in req[q].held : row'[t[1]][t[2]] = row[t[1]][t[2]]
    BY <1>1, <2>1 DEF Write, Token
  <2>4. HeldRowsExist(q)'
    BY <1>8, <2>1, <2>3 DEF Local, HeldRowsExist
  <2>5. RefreshHolds(q)'
    <3>1. ASSUME req[q].pc \in {"insert", "commitRefresh"}
          PROVE  row'[req[q].fam][req[q].dep] = row[req[q].fam][req[q].dep]
      <4> DEFINE t == <<req[q].fam, req[q].dep>>
      <4>1. t \in req[q].held /\ t[1] = req[q].fam /\ t[2] = req[q].dep
        BY <2>1, <3>1 DEF Local, RefreshHolds
      <4> HIDE DEF t
      <4>2. QED
        BY <2>3, <4>1
    <3>2. QED
      BY <1>8, <2>1, <3>1 DEF Local, RefreshHolds
  <2>6. WalkHolds(q)'
    <3> SUFFICES ASSUME req[q].pc \in {"walk", "commitWalk"}
                 PROVE  WalkHolds(q)'
      BY <1>8 DEF WalkHolds
    <3>1. WalkHolds(q) /\ req[q].fam \in Family /\ Who(q) \in Student
      BY <2>1, <2>2 DEF Local
    <3>2. row'[req[q].fam][req[q].dep] = "revoked" \/ account'[Who(q)] = "deleted"
      BY <1>3, <1>4, <2>1, <3>1 DEF WalkHolds, Who
    <3>3. Status(req[q].fam, req[q].at) = "absent" => Status(req[q].fam, req[q].at)' = "absent"
      BY <1>3, <1>8, <3>1 DEF Status
    <3>4. QED
      BY <1>8, <3>1, <3>2, <3>3 DEF WalkHolds, Who
  <2>7. SignInFresh(q)'
    <3>1. 0 \in Depth
      BY DepthAssumption DEF Depth
    <3>2. QED
      BY <1>3, <1>8, <2>1, <3>1 DEF Local, SignInFresh, SigningIn
  <2>8. AccountLocked(q)'
    <3>1. ASSUME req[q].pc \in {"commitRefresh", "commitLogin", "cascade", "commitDelete"}
          PROVE  account'[Who(q)] = "present"
      <4>1. Who(q) # Who(r)
        BY <1>1, <2>1, <3>1 DEF Pair
      <4>2. account[Who(q)] = "present" /\ Who(q) \in Student
        BY <2>1, <2>2, <3>1 DEF Local, AccountLocked
      <4>3. QED
        BY <1>4, <4>1, <4>2
    <3>2. ASSUME req[q].pc = "commitSignup"
          PROVE  account'[Who(q)] = "none"
      <4>1. account[Who(q)] = "none" /\ Who(q) \in Student
        BY <2>1, <2>2, <3>2 DEF Local, AccountLocked
      <4>2. QED
        BY <1>2, <1>4, <4>1
    <3>3. QED
      BY <1>8, <3>1, <3>2 DEF AccountLocked, Who
  <2>9. DeletionHolds(q)'
    <3>1. ToDelete(q)' \subseteq ToDelete(q)
      BY <1>3, <1>8 DEF ToDelete, Who, Token
    <3>2. QED
      BY <1>8, <2>1, <3>1 DEF Local, DeletionHolds, Who
  <2>10. QED
    BY <1>8, <2>1, <2>4, <2>5, <2>6, <2>7, <2>8, <2>9
       DEF Local, HoldsNothing, LogoutHolds
<1>9. QED
  BY <1>1, <1>5, <1>6, <1>7, <1>8, CommitStep

LEMMA ExpireStep ==
    ASSUME IInv, NEW f \in Family, NEW d \in Depth, Expire(f, d)
    PROVE  IInv'
<1>1. /\ row[f][d] = "live" /\ account' = account /\ req' = req /\ TypeOK
      /\ row' = [row EXCEPT ![f] = [@ EXCEPT ![d] = "expired"]]
  BY DEF Expire, IInv
<1>2. ASSUME NEW g \in Family, NEW e \in Depth
      PROVE  row'[g][e] = IF g = f /\ e = d THEN "expired" ELSE row[g][e]
  BY <1>1 DEF TypeOK
<1>3. TypeOK'
  <2> DEFINE new == [row[f] EXCEPT ![d] = "expired"]
  <2>1. new \in [Depth -> RowStatus] /\ row' = [row EXCEPT ![f] = new]
    BY <1>1 DEF TypeOK, RowStatus
  <2> HIDE DEF new
  <2>2. QED
    BY <1>1, <2>1 DEF TypeOK
<1>4. \A g \in Family, e \in Depth :
         /\ row'[g][e] = "absent" <=> row[g][e] = "absent"
         /\ row'[g][e] = "revoked" <=> row[g][e] = "revoked"
         /\ row'[g][e] \in Unrevoked <=> row[g][e] \in Unrevoked
  BY <1>1, <1>2 DEF Unrevoked
<1>5. ChainShape' /\ NoOrphanToken'
  BY <1>1, <1>4 DEF IInv, ChainShape, NoOrphanToken
<1>6. ASSUME NEW q \in Req
      PROVE  Local(q)'
  <2>1. /\ Local(q) /\ req[q].held \subseteq Token /\ req[q].dep \in Depth
        /\ req[q].pc # "idle" => req[q].fam \in Family
    BY DEF IInv, TypeOK, Request
  <2>2. HeldRowsExist(q)'
    BY <1>1, <1>4, <2>1 DEF Local, HeldRowsExist, Token
  <2>3. RefreshHolds(q)'
    BY <1>1, <1>4, <2>1 DEF Local, RefreshHolds
  <2>4. WalkHolds(q)'
    <3> SUFFICES ASSUME req[q].pc \in {"walk", "commitWalk"}
                 PROVE  WalkHolds(q)'
      BY <1>1 DEF WalkHolds
    <3>1. WalkHolds(q) /\ req[q].fam \in Family
      BY <2>1 DEF Local
    <3>2. Status(req[q].fam, req[q].at) = "absent" => Status(req[q].fam, req[q].at)' = "absent"
      BY <1>1, <1>4, <3>1 DEF Status
    <3>3. row[req[q].fam][req[q].dep] = "revoked" => row'[req[q].fam][req[q].dep] = "revoked"
      BY <1>4, <2>1, <3>1
    <3>4. QED
      BY <1>1, <3>1, <3>2, <3>3 DEF WalkHolds, Who
  <2>5. SignInFresh(q)'
    <3>1. 0 \in Depth
      BY DepthAssumption DEF Depth
    <3>2. QED
      BY <1>1, <1>4, <2>1, <3>1 DEF Local, SignInFresh, SigningIn
  <2>6. DeletionHolds(q)'
    <3>1. ToDelete(q)' = ToDelete(q)
      BY <1>1, <1>4 DEF ToDelete, Who, Token
    <3>2. QED
      BY <1>1, <2>1, <3>1 DEF Local, DeletionHolds, Who
  <2>7. QED
    BY <1>1, <2>1, <2>2, <2>3, <2>4, <2>5, <2>6
       DEF Local, HoldsNothing, LogoutHolds, AccountLocked, Who
<1>7. \A p, q \in Req : p # q => Pair(p, q)'
  BY <1>1, SamePair DEF IInv
<1>8. QED
  BY <1>3, <1>5, <1>6, <1>7 DEF IInv

-----------------------------------------------------------------------------
(* The invariant is inductive.                                             *)

LEMMA InitIInv == Init => IInv
<1> SUFFICES ASSUME Init
             PROVE  IInv
  OBVIOUS
<1>1. \A r \in Req : req[r] = Idle /\ req[r].pc = "idle" /\ req[r].held = {}
  BY DEF Init, Idle
<1>2. \A f \in Family, d \in Depth : row[f][d] = "absent"
  BY DEF Init
<1>3. TypeOK
  <2>1. req \in [Req -> Request]
    BY IdleIsRequest DEF Init
  <2>2. QED
    BY <1>1, <2>1 DEF Init, TypeOK, RowStatus, AccountStatus, Idle
<1>4. ChainShape /\ NoOrphanToken
  BY <1>2 DEF ChainShape, NoOrphanToken
<1>5. \A r \in Req : Local(r)
  BY <1>1 DEF Local, HeldRowsExist, HoldsNothing, RefreshHolds, WalkHolds, LogoutHolds,
     SignInFresh, AccountLocked, DeletionHolds, SigningIn
<1>6. \A q, r \in Req : Pair(q, r)
  BY <1>1 DEF Pair, SigningIn
<1>7. QED
  BY <1>3, <1>4, <1>5, <1>6 DEF IInv

LEMMA StepIInv ==
    ASSUME IInv, NEW r \in Req, Step(r)
    PROVE  IInv'
BY RevokeIfLiveStep, IssueSuccessorStep, CommitRefreshStep, LookupReplayedStep,
   RevokeSuccessorStep, CommitWalkStep, RevokeByIdStep, CommitLogoutStep,
   CreateAccountStep, UpdateAccountStep, CommitSignInStep, LockAccountStep,
   CascadeStep, CommitDeleteStep DEF Step

LEMMA NextIInv ==
    ASSUME IInv, [Next]_vars
    PROVE  IInv'
<1>1. ASSUME NEW r \in Req, Arrive(r)
      PROVE  IInv'
  BY <1>1, ArriveStep
<1>2. ASSUME NEW r \in Req, Step(r)
      PROVE  IInv'
  BY <1>2, StepIInv
<1>3. ASSUME NEW r \in Req, Crash(r) \/ AbortDeadlocked(r)
      PROVE  IInv'
  BY <1>3, Rollback DEF Crash, AbortDeadlocked
<1>4. ASSUME NEW f \in Family, NEW d \in Depth, Expire(f, d)
      PROVE  IInv'
  BY <1>4, ExpireStep
<1>5. CASE UNCHANGED vars
  <2>1. row' = row /\ account' = account /\ req' = req
    BY <1>5 DEF vars
  <2>2. \A r \in Req : Local(r)'
    BY <2>1, SameLocal DEF IInv
  <2>3. \A p, q \in Req : p # q => Pair(p, q)'
    BY <2>1, SamePair DEF IInv
  <2>4. TypeOK' /\ ChainShape' /\ NoOrphanToken'
    BY <2>1 DEF IInv, TypeOK, ChainShape, NoOrphanToken
  <2>5. QED
    BY <2>2, <2>3, <2>4 DEF IInv
<1>6. QED
  BY <1>1, <1>2, <1>3, <1>4, <1>5 DEF Next

\* Every reachable state satisfies the inductive invariant: what the requests
\* know of the rows they have locked stays so until they commit.
THEOREM Inductive == Spec => []IInv
<1>1. QED
  BY InitIInv, NextIInv, PTL DEF Spec

\* Rows, accounts and requests stay in their types.
THEOREM TypeCorrect == Spec => []TypeOK
<1>1. IInv => TypeOK
  BY DEF IInv
<1>2. QED
  BY <1>1, Inductive, PTL

\* A chain has no gap and everything behind its last token is revoked.
THEOREM ChainsKeepTheirShape == Spec => []ChainShape
<1>1. IInv => ChainShape
  BY DEF IInv
<1>2. QED
  BY <1>1, Inductive, PTL

LEMMA ShapeGivesOneLive ==
    ASSUME ChainShape
    PROVE  OneLiveToken
<1> SUFFICES ASSUME NEW f \in Family, NEW d \in Depth, NEW e \in Depth,
                    row[f][d] \in Unrevoked, row[f][e] \in Unrevoked, d # e
             PROVE  FALSE
  BY DEF OneLiveToken
<1>1. e < d \/ d < e
  BY DEF Depth
<1>2. QED
  BY <1>1 DEF ChainShape, Unrevoked

\* At most one token of a sign-in is live.
THEOREM AtMostOneLive == Spec => []OneLiveToken
<1>1. QED
  BY ChainsKeepTheirShape, ShapeGivesOneLive, PTL

\* No two requests are ever about to replace the same token.
THEOREM OneWinner == Spec => []SingleWinner
<1>1. ASSUME IInv
      PROVE  SingleWinner
  <2> SUFFICES ASSUME NEW q \in Req, NEW r \in Req, q # r,
                      req[q].pc \in {"insert", "commitRefresh"},
                      req[r].pc \in {"insert", "commitRefresh"},
                      req[q].fam = req[r].fam, req[q].dep = req[r].dep
               PROVE  FALSE
    BY DEF SingleWinner
  <2>1. RefreshHolds(q) /\ RefreshHolds(r) /\ Pair(q, r)
    BY <1>1 DEF IInv, Local
  <2>2. req[q].held = req[r].held /\ req[r].held = {<<req[r].fam, req[r].dep>>}
    BY <2>1 DEF RefreshHolds
  <2>3. QED
    BY <2>1, <2>2 DEF Pair
<1>2. QED
  BY <1>1, Inductive, PTL

\* A deleted account has no token.
THEOREM NoTokenOutlivesAccount == Spec => []NoOrphanToken
<1>1. IInv => NoOrphanToken
  BY DEF IInv
<1>2. QED
  BY <1>1, Inductive, PTL

-----------------------------------------------------------------------------
(* Deadlocks.  In one without a deletion every member waits for a walk, a  *)
(* walk waits for one of its own sign-in that is further along the chain,  *)
(* and the chain ends.                                                     *)

\* Of numbers under a bound one is the greatest.
LEMMA Furthest ==
    ASSUME NEW N \in Nat, NEW T, T \subseteq 0 .. N, T # {}
    PROVE  \E x \in T : \A y \in T : y <= x
<1> DEFINE R == {ss \in Nat \X Nat : ss[1] < ss[2]}
           Left == {N - y : y \in T}
<1>1. IsWellFoundedOn(R, Nat)
  BY NatLessThanWellFounded, Zenon DEF OpToRel
<1>2. Left \subseteq Nat /\ Left # {}
  <2>1. ASSUME NEW y \in T PROVE N - y \in Nat
    BY <2>1
  <2>2. PICK y \in T : TRUE
    OBVIOUS
  <2>3. N - y \in Left
    BY <2>2
  <2>4. QED
    BY <2>1, <2>3
<1>3. \A x, y \in Nat : y < x => <<y, x>> \in R
  OBVIOUS
<1> HIDE DEF R
<1>4. PICK x \in Left : \A y \in Left : ~(<<y, x>> \in R)
  <2> HIDE DEF Left
  <2>1. QED
    BY <1>1, <1>2, WFMin
<1>5. PICK z \in T : x = N - z
  OBVIOUS
<1>6. ASSUME NEW y \in T PROVE y <= z
  <2>1. N - y \in Left /\ N - y \in Nat /\ N - z \in Nat
    OBVIOUS
  <2>2. ~(N - y < N - z)
    BY <1>3, <1>4, <1>5, <2>1
  <2>3. QED
    BY <1>6, <2>1, <2>2
<1>7. QED
  BY <1>5, <1>6

\* The members of a deadlock without a deletion wait for a walk, by its lock.
LEMMA DeadlockedWait ==
    ASSUME IInv, NEW S \in SUBSET Req, Deadlocked(S), \A q \in S : req[q].pc # "cascade", NEW q \in S
    PROVE  \E r \in S : /\ r # q /\ req[r].pc = "walk"
                        /\ req[q].pc = "walk" => <<req[q].fam, req[q].at>> \in req[r].held
<1>1. PICK r \in S : r \in WaitsFor(q)
  BY DEF Deadlocked
<1>2. \A p \in S : req[p].pc \in {"guard", "insert", "walk", "revoke", "create", "login", "delete"}
  BY DEF Deadlocked, WaitsFor
<1>3. /\ req[q].pc \in {"guard", "walk", "revoke"}
      /\ \E t : r \in LockedByOther(q, t) /\ (req[q].pc = "walk" => t = <<req[q].fam, req[q].at>>)
  <2>1. \A s, labels : r \in Holding(s, labels) => req[r].pc \in labels
    BY DEF Holding
  <2>2. CASE req[q].pc = "insert"
    BY <1>1, <1>2, <2>1, <2>2 DEF WaitsFor
  <2>3. CASE req[q].pc = "create"
    BY <1>1, <1>2, <2>1, <2>3 DEF WaitsFor
  <2>4. CASE req[q].pc = "login"
    BY <1>1, <1>2, <2>1, <2>4 DEF WaitsFor
  <2>5. CASE req[q].pc = "delete"
    BY <1>1, <1>2, <2>1, <2>5 DEF WaitsFor
  <2>6. CASE req[q].pc = "guard"
    BY <1>1, <2>6 DEF WaitsFor
  <2>7. CASE req[q].pc = "walk"
    BY <1>1, <2>7 DEF WaitsFor
  <2>8. CASE req[q].pc = "revoke"
    BY <1>1, <2>8 DEF WaitsFor
  <2>9. QED
    BY <1>2, <2>2, <2>3, <2>4, <2>5, <2>6, <2>7, <2>8
<1>4. PICK t : r # q /\ t \in req[r].held /\ (req[q].pc = "walk" => t = <<req[q].fam, req[q].at>>)
  BY <1>3 DEF LockedByOther
\* A refresh that holds its token waits for a deletion alone.
<1>5. req[r].pc # "insert"
  <2>1. ASSUME req[r].pc = "insert"
        PROVE  FALSE
    <3>1. PICK p \in S : p \in WaitsFor(r)
      BY DEF Deadlocked
    <3>2. req[p].pc \in {"cascade", "commitDelete"}
      BY <2>1, <3>1 DEF WaitsFor, Holding
    <3>3. QED
      BY <1>2, <3>2
  <2>2. QED
    BY <2>1
<1>6. req[r].pc = "walk"
  BY <1>2, <1>4, <1>5 DEF IInv, Local, HoldsNothing, SigningIn
<1>7. QED
  BY <1>4, <1>6

\* Rotations, replays, logouts and sign-ins do not deadlock by themselves
\* (token_rotation.py:86-93, auth.py:168).
THEOREM DeletionsAloneDeadlock == Spec => []DeadlockNeedsDeletion
<1>1. ASSUME IInv, NEW S \in SUBSET Req, Deadlocked(S), \A q \in S : req[q].pc # "cascade"
      PROVE  FALSE
  <2> DEFINE Walks == {q \in S : req[q].pc = "walk"}
             Places == {req[q].at : q \in Walks}
  <2>1. Walks # {}
    BY <1>1, DeadlockedWait DEF Deadlocked
  <2>2. Places \subseteq 0 .. MaxDepth + 1 /\ Places # {}
    BY <1>1, <2>1, UnderWay
  <2>3. \E at \in Places : \A other \in Places : other <= at
    <3> HIDE DEF Places
    <3>1. MaxDepth + 1 \in Nat
      BY DepthAssumption
    <3>2. QED
      BY <2>2, <3>1, Furthest
  <2>4. PICK q \in Walks : \A p \in Walks : req[p].at <= req[q].at
    BY <2>3
  <2>5. PICK r \in S : r # q /\ req[r].pc = "walk" /\ <<req[q].fam, req[q].at>> \in req[r].held
    <3>1. q \in S /\ req[q].pc = "walk"
      OBVIOUS
    <3>2. \E r \in S : /\ r # q /\ req[r].pc = "walk"
                       /\ req[q].pc = "walk" => <<req[q].fam, req[q].at>> \in req[r].held
      BY <1>1, <3>1, DeadlockedWait
    <3>3. QED
      BY <3>1, <3>2
  <2>6. <<req[q].fam, req[q].at>> \in Token /\ req[r].at \in Int /\ req[q].at \in Int
    <3>1. q \in Req /\ req[q].pc = "walk" /\ r \in Req /\ req[r].pc = "walk"
      BY <2>5
    <3>2. req[q].at \in 0 .. MaxDepth + 1 /\ req[r].at \in 0 .. MaxDepth + 1
      BY <1>1, <3>1, UnderWay
    <3>3. req[r].held \subseteq Token
      BY <1>1, <3>1, UnderWay
    <3>4. QED
      BY <2>5, <3>2, <3>3, DepthAssumption
  <2>7. req[q].at < req[r].at
    BY <1>1, <2>5, <2>6 DEF IInv, Local, WalkHolds
  <2>8. QED
    BY <2>4, <2>5, <2>6, <2>7
<1>2. IInv => DeadlockNeedsDeletion
  BY <1>1 DEF DeadlockNeedsDeletion
<1>3. QED
  BY <1>2, Inductive, PTL

\* The rows that a walk leaves usable when it commits: none.
LEMMA WalkRevokesAll ==
    ASSUME IInv, NEW r \in Req, CommitWalk(r), NEW d \in Depth
    PROVE  row'[req[r].fam][d] \notin Unrevoked
<1> DEFINE f == req[r].fam
<1>1. req[r].pc = "commitWalk" /\ Local(r) /\ TypeOK /\ Write(r, "revoked")
  BY DEF CommitWalk, At, IInv
<1>2. /\ f \in Family /\ req[r].dep \in Depth /\ req[r].at \in 0 .. MaxDepth + 1
      /\ <<f, d>> \in Token
  BY <1>1, UnderWay DEF Token
<1>3. row'[f][d] = IF <<f, d>> \in req[r].held THEN "revoked" ELSE row[f][d]
  BY <1>1, <1>2 DEF Write
<1>4. /\ req[r].dep < req[r].at
      /\ <<f, d>> \in req[r].held <=> req[r].dep < d /\ d < req[r].at
      /\ row[f][req[r].dep] = "revoked" \/ account[Owner[f]] = "deleted"
      /\ Status(f, req[r].at) = "absent"
  BY <1>1, <1>2 DEF Local, WalkHolds, Who
<1> SUFFICES row'[f][d] \notin Unrevoked
  OBVIOUS
<1> HIDE DEF f
<1>5. CASE account[Owner[f]] = "deleted"
  BY <1>2, <1>3, <1>5 DEF IInv, NoOrphanToken, Unrevoked
<1>6. CASE row[f][req[r].dep] = "revoked"
  <2>1. d \in 0 .. MaxDepth /\ req[r].dep \in 0 .. MaxDepth /\ req[r].at \in Int
    BY <1>2, DepthAssumption DEF Depth
  <2>2. CASE d < req[r].dep
    BY <1>2, <1>3, <1>6, <2>2 DEF IInv, ChainShape, Unrevoked
  <2>3. CASE d = req[r].dep
    BY <1>3, <1>6, <2>3 DEF Unrevoked
  <2>4. CASE req[r].dep < d /\ d < req[r].at
    BY <1>3, <1>4, <2>4 DEF Unrevoked
  <2>5. CASE req[r].at <= d
    <3>1. req[r].at \in Depth
      BY <1>2, <2>1, <2>5, DepthAssumption DEF Depth
    <3>2. row[f][req[r].at] = "absent"
      BY <1>4, <3>1 DEF Status
    <3>3. row[f][d] = "absent"
      BY <1>2, <2>1, <2>5, <3>1, <3>2 DEF IInv, ChainShape
    <3>4. QED
      BY <1>3, <3>3 DEF Unrevoked
  <2>6. QED
    BY <2>1, <2>2, <2>3, <2>4, <2>5
<1>7. QED
  BY <1>4, <1>5, <1>6

\* When the walk of a replayed token commits, nothing of that sign-in is live.
THEOREM ReplayRevokesTheSession == Spec => ReplayEndsSession
<1>1. ASSUME IInv
      PROVE  [\A r \in Req : CommitWalk(r) =>
                \A d \in Depth : row'[req[r].fam][d] \notin Unrevoked]_vars
  BY <1>1, WalkRevokesAll
<1>2. QED
  BY <1>1, Inductive, PTL DEF ReplayEndsSession

-----------------------------------------------------------------------------
(* The committed rows implement SessionFamily: a refresh's commit rotates, *)
(* a walk's or a logout's closes, a sign-in's opens, a deletion's forgets, *)
(* and every other step is a stutter.                                      *)

Current(f) == {d \in Depth : row[f][d] \in Unrevoked}
Spent(f) == {d \in Depth : row[f][d] = "revoked"}
Gone == {f \in Family : account[Owner[f]] = "deleted"}

\* A step whose families are as they were, and gone when they were, stutters.
LEMMA SessionStutter ==
    ASSUME \A f \in Family : Current(f)' = Current(f) /\ Spent(f)' = Spent(f),
           Gone' = Gone
    PROVE  UNCHANGED Sessions!session
BY DEF Current, Spent, Gone, Sessions!session

LEMMA QuietStutter ==
    ASSUME NothingCommitted
    PROVE  UNCHANGED Sessions!session
BY SessionStutter DEF NothingCommitted, Current, Spent, Gone

\* A step that changes the sets of one family only.
LEMMA SessionChange ==
    ASSUME NEW f \in Family, NEW C, NEW S,
           \A g \in Family \ {f} : Current(g)' = Current(g) /\ Spent(g)' = Spent(g),
           Current(f)' = C, Spent(f)' = S, Gone' = Gone
    PROVE  /\ [g \in Family |-> Current(g)]' = [[g \in Family |-> Current(g)] EXCEPT ![f] = C]
           /\ [g \in Family |-> Spent(g)]' = [[g \in Family |-> Spent(g)] EXCEPT ![f] = S]
OBVIOUS

LEMMA ExpireStutters ==
    ASSUME IInv, NEW f \in Family, NEW d \in Depth, Expire(f, d)
    PROVE  UNCHANGED Sessions!session
<1>1. ASSUME NEW g \in Family, NEW e \in Depth
      PROVE  /\ row'[g][e] \in Unrevoked <=> row[g][e] \in Unrevoked
             /\ row'[g][e] = "revoked" <=> row[g][e] = "revoked"
  BY DEF Expire, IInv, TypeOK, Unrevoked
<1>2. QED
  BY <1>1, SessionStutter DEF Current, Spent, Gone, Expire

\* What such a step is in SessionFamily.
LEMMA SessionActions ==
    ASSUME NEW f \in Family,
           \A g \in Family \ {f} : Current(g)' = Current(g) /\ Spent(g)' = Spent(g),
           Gone' = Gone
    PROVE  /\ Current(f)' = {} /\ Spent(f)' = Spent(f) \cup Current(f) => Sessions!Close(f)
           /\ f \notin Gone /\ Current(f) = {} /\ Spent(f) = {}
                /\ Current(f)' = {0} /\ Spent(f)' = {} => Sessions!Open(f)
           /\ \A d \in Depth :
                Current(f) = {d} /\ Current(f)' = {d + 1} /\ Spent(f)' = Spent(f) \cup {d}
                   => Sessions!Rotate(f, d)
<1> DEFINE cur == [g \in Family |-> Current(g)]
           spt == [g \in Family |-> Spent(g)]
<1>1. /\ cur' = [cur EXCEPT ![f] = Current(f)'] /\ spt' = [spt EXCEPT ![f] = Spent(f)']
      /\ cur[f] = Current(f) /\ spt[f] = Spent(f)
      /\ Current(f)' = Current(f) => cur' = cur
      /\ Spent(f)' = Spent(f) => spt' = spt
  BY SessionChange
<1>2. /\ cur = [g \in Family |-> {d \in Depth : row[g][d] \in Unrevoked}]
      /\ spt = [g \in Family |-> {d \in Depth : row[g][d] = "revoked"}]
      /\ Gone = {g \in Family : account[Owner[g]] = "deleted"}
  BY DEF Current, Spent, Gone
<1>3. /\ cur' = [g \in Family |-> {d \in Depth : row'[g][d] \in Unrevoked}]
      /\ spt' = [g \in Family |-> {d \in Depth : row'[g][d] = "revoked"}]
      /\ Gone' = {g \in Family : account'[Owner[g]] = "deleted"}
  BY DEF Current, Spent, Gone
<1> HIDE DEF cur, spt
<1>4. ASSUME Current(f)' = {}, Spent(f)' = Spent(f) \cup Current(f)
      PROVE  Sessions!Close(f)
  <2>1. cur' = [cur EXCEPT ![f] = {}] /\ spt' = [spt EXCEPT ![f] = spt[f] \cup cur[f]]
    BY <1>1, <1>4
  <2>2. QED
    BY <1>2, <1>3, <2>1, Zenon DEF Sessions!Close
<1>5. ASSUME f \notin Gone, Current(f) = {}, Spent(f) = {}, Current(f)' = {0}, Spent(f)' = {}
      PROVE  Sessions!Open(f)
  <2>1. cur' = [cur EXCEPT ![f] = {0}] /\ spt' = spt /\ cur[f] = {} /\ spt[f] = {}
    BY <1>1, <1>5
  <2>2. QED
    BY <1>2, <1>3, <1>5, <2>1, Zenon DEF Sessions!Open
<1>6. ASSUME NEW d \in Depth, Current(f) = {d}, Current(f)' = {d + 1},
             Spent(f)' = Spent(f) \cup {d}
      PROVE  Sessions!Rotate(f, d)
  <2>1. /\ cur' = [cur EXCEPT ![f] = {d + 1}] /\ spt' = [spt EXCEPT ![f] = spt[f] \cup {d}]
        /\ cur[f] = {d}
    BY <1>1, <1>6
  <2>2. QED
    BY <1>2, <1>3, <2>1, Zenon DEF Sessions!Rotate
<1>7. QED
  BY <1>4, <1>5, <1>6

\* Revoking what r holds, when that leaves nothing of its sign-in usable.
LEMMA Closes ==
    ASSUME IInv, NEW r \in Req, NEW f \in Family, Write(r, "revoked"), account' = account,
           HeldRowsExist(r), \A t \in req[r].held : t[1] = f,
           \A d \in Depth : row'[f][d] \notin Unrevoked
    PROVE  Sessions!Close(f)
<1>1. ASSUME NEW g \in Family, NEW e \in Depth
      PROVE  row'[g][e] = IF <<g, e>> \in req[r].held THEN "revoked" ELSE row[g][e]
  BY DEF Write
<1>2. ASSUME NEW g \in Family \ {f}
      PROVE  Current(g)' = Current(g) /\ Spent(g)' = Spent(g)
  <2>1. \A e \in Depth : row'[g][e] = row[g][e]
    BY <1>1
  <2>2. QED
    BY <2>1 DEF Current, Spent
<1>3. Spent(f)' = Spent(f) \cup Current(f)
  <2>1. \A e \in Depth : row[f][e] \in RowStatus
    BY DEF IInv, TypeOK
  <2>2. ASSUME NEW e \in Depth
        PROVE  row'[f][e] = "revoked" <=> row[f][e] = "revoked" \/ row[f][e] \in Unrevoked
    <3>1. row'[f][e] \notin Unrevoked
      OBVIOUS
    <3>2. <<f, e>> \in req[r].held => row[f][e] # "absent"
      BY DEF HeldRowsExist
    <3>3. QED
      BY <1>1, <2>1, <3>1, <3>2 DEF Unrevoked, RowStatus
  <2>3. QED
    BY <2>2 DEF Current, Spent
<1>4. Gone' = Gone /\ Current(f)' = {}
  BY DEF Gone, Current
<1>5. QED
  BY <1>2, <1>3, <1>4, SessionActions

LEMMA CommitWalkCloses ==
    ASSUME IInv, NEW r \in Req, CommitWalk(r)
    PROVE  \E f \in Family : Sessions!Close(f)
<1>1. PICK f \in Family : f = req[r].fam
  BY UnderWay DEF CommitWalk, At
<1>2. /\ req[r].pc = "commitWalk" /\ Write(r, "revoked") /\ account' = account
      /\ Local(r) /\ req[r].held \subseteq Token
  BY DEF CommitWalk, At, IInv, TypeOK, Request
<1>3. HeldRowsExist(r) /\ \A t \in req[r].held : t[1] = f
  BY <1>1, <1>2 DEF Local, WalkHolds
<1>4. \A d \in Depth : row'[f][d] \notin Unrevoked
  BY <1>1, WalkRevokesAll
<1>5. QED
  BY <1>2, <1>3, <1>4, Closes

\* A logout closes its session when its token is the live one.
LEMMA CommitLogoutCloses ==
    ASSUME IInv, NEW r \in Req, CommitLogout(r)
    PROVE  (\E f \in Family : Sessions!Close(f)) \/ UNCHANGED Sessions!session
<1>1. PICK f \in Family, d \in Depth : f = req[r].fam /\ d = req[r].dep
  BY UnderWay DEF CommitLogout, At
<1>2. /\ req[r].pc = "commitLogout" /\ Write(r, "revoked") /\ account' = account
      /\ Local(r) /\ req[r].held \subseteq {<<f, d>>} /\ HeldRowsExist(r)
  BY <1>1 DEF CommitLogout, At, IInv, Local, LogoutHolds
<1>3. ASSUME NEW g \in Family, NEW e \in Depth
      PROVE  row'[g][e] = IF <<g, e>> \in req[r].held THEN "revoked" ELSE row[g][e]
  BY <1>2 DEF Write
<1>4. CASE <<f, d>> \in req[r].held /\ row[f][d] \in Unrevoked
  <2>1. ASSUME NEW e \in Depth
        PROVE  row'[f][e] \notin Unrevoked
    <3>1. CASE e = d
      BY <1>3, <1>4, <3>1 DEF Unrevoked
    <3>2. CASE e # d
      BY <1>2, <1>3, <1>4, <3>2, ShapeGivesOneLive DEF IInv, OneLiveToken
    <3>3. QED
      BY <3>1, <3>2
  <2>2. \A t \in req[r].held : t[1] = f
    BY <1>2
  <2>3. QED
    BY <1>2, <2>1, <2>2, Closes
<1>5. CASE ~(<<f, d>> \in req[r].held /\ row[f][d] \in Unrevoked)
  <2>1. ASSUME NEW g \in Family, NEW e \in Depth
        PROVE  row'[g][e] = row[g][e]
    <3>1. row[g][e] \in RowStatus
      BY DEF IInv, TypeOK
    <3>2. CASE <<g, e>> \in req[r].held
      <4>1. g = f /\ e = d /\ row[f][d] # "absent"
        BY <1>2, <3>2 DEF HeldRowsExist
      <4>2. QED
        BY <1>3, <1>5, <3>1, <3>2, <4>1 DEF RowStatus, Unrevoked
    <3>3. QED
      BY <1>3, <3>2
  <2>2. Gone' = Gone
    BY <1>2 DEF Gone
  <2>3. QED
    BY <2>1, <2>2, SessionStutter DEF Current, Spent
<1>6. QED
  BY <1>4, <1>5

LEMMA CommitRefreshRotates ==
    ASSUME IInv, NEW r \in Req, CommitRefresh(r)
    PROVE  \E f \in Family, d \in Depth : Sessions!Rotate(f, d)
<1>1. req[r].pc = "commitRefresh" /\ account' = account /\ Local(r) /\ TypeOK
  BY DEF CommitRefresh, At, IInv
<1>2. PICK f \in Family, d \in Depth : f = req[r].fam /\ d = req[r].dep
  BY <1>1, UnderWay
<1>3. row' = [row EXCEPT ![f] = [@ EXCEPT ![d] = "revoked", ![d + 1] = "live"]]
  BY <1>2 DEF CommitRefresh
<1>4. row[f][d] \in Unrevoked /\ d < MaxDepth /\ d \in Int /\ d + 1 \in Depth
  BY <1>1, <1>2, DepthAssumption DEF Local, RefreshHolds, Depth
<1>5. ASSUME NEW g \in Family, NEW e \in Depth
      PROVE  row'[g][e] = IF g = f /\ e = d THEN "revoked"
                          ELSE IF g = f /\ e = d + 1 THEN "live" ELSE row[g][e]
  BY <1>1, <1>3, <1>4 DEF TypeOK
<1>6. \A g \in Family \ {f} : Current(g)' = Current(g) /\ Spent(g)' = Spent(g)
  BY <1>5 DEF Current, Spent
<1>7. Current(f) = {d}
  BY <1>4, ShapeGivesOneLive DEF IInv, OneLiveToken, Current
<1>8. Current(f)' = {d + 1}
  <2>1. \A e \in Depth : row'[f][e] \in Unrevoked <=> e = d + 1
    BY <1>4, <1>5, <1>7 DEF Current, Unrevoked
  <2>2. QED
    BY <1>4, <2>1 DEF Current
<1>9. Spent(f)' = Spent(f) \cup {d}
  <2>1. row[f][d + 1] # "revoked"
    BY <1>4 DEF IInv, ChainShape, Unrevoked
  <2>2. \A e \in Depth : row'[f][e] = "revoked" <=> row[f][e] = "revoked" \/ e = d
    BY <1>4, <1>5, <2>1
  <2>3. QED
    BY <2>2 DEF Spent
<1>10. Gone' = Gone
  BY <1>1 DEF Gone
<1>11. QED
  BY <1>6, <1>7, <1>8, <1>9, <1>10, SessionActions

LEMMA CommitSignInOpens ==
    ASSUME IInv, NEW r \in Req, CommitSignIn(r)
    PROVE  \E f \in Family : Sessions!Open(f)
<1>1. req[r].pc \in {"commitSignup", "commitLogin"} /\ Local(r) /\ TypeOK
  BY DEF CommitSignIn, IInv
<1>2. PICK f \in Family : f = req[r].fam
  BY <1>1, UnderWay
<1>3. /\ row' = [row EXCEPT ![f] = [@ EXCEPT ![0] = "live"]]
      /\ account' = account \/ account' = [account EXCEPT ![Owner[f]] = "present"]
      /\ account[Owner[f]] \in {"none", "present"} /\ Owner[f] \in Student /\ 0 \in Depth
  BY <1>1, <1>2, OwnerAssumption, DepthAssumption
     DEF CommitSignIn, Who, Local, AccountLocked, Depth
<1>4. row[f][0] = "absent"
  BY <1>1, <1>2 DEF Local, SignInFresh, SigningIn
<1>5. \A e \in Depth : row[f][e] = "absent"
  BY <1>4, FirstTokenExists
<1>6. ASSUME NEW g \in Family, NEW e \in Depth
      PROVE  row'[g][e] = IF g = f /\ e = 0 THEN "live" ELSE row[g][e]
  BY <1>1, <1>3 DEF TypeOK
<1>7. \A g \in Family \ {f} : Current(g)' = Current(g) /\ Spent(g)' = Spent(g)
  BY <1>6 DEF Current, Spent
<1>8. Current(f) = {} /\ Spent(f) = {} /\ Current(f)' = {0} /\ Spent(f)' = {}
  BY <1>3, <1>5, <1>6 DEF Current, Spent, Unrevoked
<1>9. Gone' = Gone /\ f \notin Gone
  <2>1. \A g \in Family : Owner[g] \in Student
    BY OwnerAssumption
  <2>2. \A s \in Student : account'[s] = "deleted" <=> account[s] = "deleted"
    BY <1>1, <1>3 DEF TypeOK
  <2>3. QED
    BY <1>3, <2>1, <2>2 DEF Gone
<1>10. QED
  BY <1>7, <1>8, <1>9, SessionActions

LEMMA CommitDeleteForgets ==
    ASSUME IInv, NEW r \in Req, CommitDelete(r)
    PROVE  \E F \in SUBSET Family : Sessions!Forget(F)
<1>1. req[r].pc = "commitDelete" /\ Local(r) /\ TypeOK /\ req[r].held \subseteq Token
  BY DEF CommitDelete, At, IInv, TypeOK, Request
<1>2. PICK s \in Student : s = Who(r)
  BY <1>1, UnderWay
<1>3. /\ account' = [account EXCEPT ![s] = "deleted"]
      /\ row' = [f \in Family |-> [d \in Depth |->
                   IF <<f, d>> \in req[r].held THEN "absent" ELSE row[f][d]]]
      /\ \A t \in req[r].held : Owner[t[1]] = s
      /\ ToDelete(r) = {}
  BY <1>1, <1>2 DEF CommitDelete, Write, Local, DeletionHolds
<1> DEFINE F == {f \in Family : Owner[f] = s}
<1>4. ASSUME NEW g \in Family, NEW e \in Depth
      PROVE  row'[g][e] = IF g \in F THEN "absent" ELSE row[g][e]
  <2>1. <<g, e>> \in Token /\ <<g, e>>[1] = g /\ <<g, e>>[2] = e
    BY DEF Token
  <2>2. <<g, e>> \notin req[r].held => Owner[g] # s \/ row[g][e] = "absent"
    BY <1>2, <1>3, <2>1 DEF ToDelete
  <2>3. <<g, e>> \in req[r].held => Owner[g] = s
    BY <1>3, <2>1
  <2>4. row'[g][e] = IF <<g, e>> \in req[r].held THEN "absent" ELSE row[g][e]
    BY <1>3
  <2>5. QED
    BY <2>2, <2>3, <2>4
<1>5. ASSUME NEW g \in Family
      PROVE  /\ Current(g)' = IF g \in F THEN {} ELSE Current(g)
             /\ Spent(g)' = IF g \in F THEN {} ELSE Spent(g)
  BY <1>4 DEF Current, Spent, Unrevoked
<1>6. Gone' = Gone \cup F
  <2>1. \A g \in Family : account'[Owner[g]] = IF g \in F THEN "deleted" ELSE account[Owner[g]]
    BY <1>1, <1>3, OwnerAssumption DEF TypeOK
  <2>2. QED
    BY <2>1 DEF Gone
<1>7. F \in SUBSET Family
  OBVIOUS
<1> HIDE DEF F
<1>8. /\ [g \in Family |-> Current(g)]' = [g \in Family |-> IF g \in F THEN {} ELSE Current(g)]
      /\ [g \in Family |-> Spent(g)]' = [g \in Family |-> IF g \in F THEN {} ELSE Spent(g)]
  BY <1>5
<1>9. Sessions!Forget(F)
  BY <1>6, <1>8 DEF Sessions!Forget, Current, Spent, Gone
<1>10. QED
  BY <1>7, <1>9

LEMMA InitSession == Init => Sessions!Init
<1> SUFFICES ASSUME Init
             PROVE  Sessions!Init
  OBVIOUS
<1>1. \A f \in Family, d \in Depth : row[f][d] \notin Unrevoked /\ row[f][d] # "revoked"
  BY DEF Init, Unrevoked
<1>2. \A f \in Family : account[Owner[f]] # "deleted"
  BY OwnerAssumption DEF Init
<1>3. QED
  BY <1>1, <1>2 DEF Sessions!Init

LEMMA StepSession ==
    ASSUME IInv, [Next]_vars
    PROVE  [Sessions!Next]_(Sessions!session)
<1>1. ASSUME NEW r \in Req, Arrive(r)
      PROVE  UNCHANGED Sessions!session
  BY <1>1, QuietStutter
     DEF Arrive, Refresh, Logout, SignIn, DeleteAccount, Begin
<1>2. ASSUME NEW r \in Req,
             \/ RevokeIfLive(r) \/ IssueSuccessor(r) \/ LookupReplayed(r)
             \/ RevokeSuccessor(r) \/ RevokeById(r) \/ CreateAccount(r)
             \/ UpdateAccount(r) \/ LockAccount(r) \/ Cascade(r)
             \/ Crash(r) \/ AbortDeadlocked(r)
      PROVE  UNCHANGED Sessions!session
  BY <1>2, QuietStutter
     DEF RevokeIfLive, IssueSuccessor, LookupReplayed, RevokeSuccessor, RevokeById,
         CreateAccount, UpdateAccount, LockAccount, Cascade, Crash, AbortDeadlocked
<1>3. ASSUME NEW r \in Req,
             \/ CommitRefresh(r) \/ CommitWalk(r) \/ CommitLogout(r)
             \/ CommitSignIn(r) \/ CommitDelete(r)
      PROVE  [Sessions!Next]_(Sessions!session)
  BY <1>3, CommitRefreshRotates, CommitWalkCloses, CommitLogoutCloses, CommitSignInOpens,
     CommitDeleteForgets DEF Sessions!Next
<1>4. ASSUME NEW f \in Family, NEW d \in Depth, Expire(f, d)
      PROVE  UNCHANGED Sessions!session
  BY <1>4, ExpireStutters
<1>5. CASE UNCHANGED vars
  BY <1>5, QuietStutter DEF vars, NothingCommitted
<1>6. QED
  BY <1>1, <1>2, <1>3, <1>4, <1>5 DEF Next, Step

\* Token rotation implements SessionFamily: with every interleaving of its
\* transactions, what is committed is a session that only ever opens, rotates,
\* closes and is forgotten.
THEOREM Refinement == Spec => ImplementsSessions
<1>1. QED
  BY InitSession, StepSession, Inductive, PTL DEF ImplementsSessions, Sessions!Spec, Spec
=============================================================================
