--------------------------- MODULE TokenRotation ---------------------------
(***************************************************************************)
(* Refresh tokens in the database: issued at sign-in, rotated on every     *)
(* refresh, walked forward when a spent one comes back, revoked at logout  *)
(* and taken by the cascade when the account is deleted.                   *)
(*                                                                         *)
(* A request is one transaction at READ COMMITTED, and each action is one  *)
(* SQL statement of its handler, or its commit.  `row` and `account` hold  *)
(* what is committed.  What a transaction has written and not committed is *)
(* `held` - the refresh_tokens rows it has locked - and the statement it   *)
(* has reached, which says what its commit will make of them.  A statement *)
(* that would wait for a row lock is not enabled; when it runs it sees the *)
(* committed version, as the re-check that follows such a wait does.       *)
(*                                                                         *)
(* A family is one sign-in.  Token d of a family is the d-th of its chain: *)
(* the id of d+1 is uuid5 of the id of d, so a token has one successor and *)
(* the chain is walked by id.                                              *)
(***************************************************************************)
EXTENDS Integers

CONSTANTS
    Req,        \* requests in flight at once, one transaction each
    Student,    \* rows of students: one account each, never reused
    Family,     \* sign-ins
    Owner,      \* the account each sign-in is to
    NoFamily,   \* what an idle request is about
    MaxDepth    \* BOUND: how many times a family may be rotated

ASSUME OwnerAssumption == Owner \in [Family -> Student] /\ NoFamily \notin Family
ASSUME DepthAssumption == MaxDepth \in Nat

VARIABLES
    row,        \* row[f][d]: the committed refresh_tokens row, if any
    account,    \* account[s]: the committed students row
    req         \* req[r]: how far request r is, and what it has locked

vars == <<row, account, req>>

Depth == 0 .. MaxDepth
Token == Family \X Depth
RowStatus == {"absent", "live", "expired", "revoked"}
Unrevoked == {"live", "expired"}     \* the column: expired is only the clock's
AccountStatus == {"none", "present", "deleted"}

PC == {"idle",
       "guard", "insert", "commitRefresh",          \* POST /auth/refresh
       "lookup", "walk", "commitWalk",              \*   ... of a token not live
       "revoke", "commitLogout",                    \* POST /auth/logout
       "create", "login", "commitSignup", "commitLogin",
       "delete", "cascade", "commitDelete"}         \* DELETE /auth/account

Request ==
    [pc    : PC,                            \* the statement it runs next
     fam   : Family \cup {NoFamily},        \* the sign-in it is about
     dep   : Depth,                         \* the token it presented
     at    : 0 .. MaxDepth + 1,             \* the chain walk's next_id
     fresh : BOOLEAN,                       \* expires_at > now, when it asked
     held  : SUBSET Token]                  \* the token rows it has locked

Idle == [pc |-> "idle", fam |-> NoFamily, dep |-> 0, at |-> 0,
         fresh |-> FALSE, held |-> {}]

\* The invariant of types: a request that is under way is about some sign-in.
TypeOK ==
    /\ row \in [Family -> [Depth -> RowStatus]]
    /\ account \in [Student -> AccountStatus]
    /\ req \in [Req -> Request]
    /\ \A r \in Req : req[r].pc # "idle" => req[r].fam \in Family

Init ==
    /\ row = [f \in Family |-> [d \in Depth |-> "absent"]]
    /\ account = [s \in Student |-> "none"]
    /\ req = [r \in Req |-> Idle]

-----------------------------------------------------------------------------
(* Row locks: whom a statement has to wait for.                            *)

Who(r) == Owner[req[r].fam]
Status(f, d) == IF d \in Depth THEN row[f][d] ELSE "absent"

LockedByOther(r, t) == {q \in Req \ {r} : t \in req[q].held}

\* The transactions at one of these statements on behalf of student s.  An
\* insert's foreign key has taken FOR KEY SHARE on his row by commitRefresh,
\* the UPDATE of last_login FOR NO KEY UPDATE by commitLogin, and the DELETE
\* the whole row by cascade.
Holding(s, labels) ==
    {q \in Req : req[q].pc \in labels /\ Owner[req[q].fam] = s}

\* The tokens that a student's deletion still has to take with it.
ToDelete(r) ==
    {t \in Token : /\ Owner[t[1]] = Who(r)
                   /\ row[t[1]][t[2]] # "absent"
                   /\ t \notin req[r].held}

\* Whom r's next statement waits for: nobody when it can run.
WaitsFor(r) ==
    LET f == req[r].fam
        d == req[r].dep
    IN  CASE req[r].pc = "guard" /\ req[r].fresh /\ row[f][d] \in Unrevoked
               -> LockedByOther(r, <<f, d>>)
          [] req[r].pc = "insert"
               -> Holding(Who(r), {"cascade", "commitDelete"})
          [] req[r].pc = "walk" /\ Status(f, req[r].at) # "absent"
               -> LockedByOther(r, <<f, req[r].at>>)
          [] req[r].pc = "revoke" /\ row[f][d] # "absent"
               -> LockedByOther(r, <<f, d>>)
          [] req[r].pc = "create"
               -> Holding(Who(r), {"commitSignup"})
          [] req[r].pc = "login"
               -> Holding(Who(r), {"commitLogin", "cascade", "commitDelete"})
          [] req[r].pc = "delete"
               -> Holding(Who(r), {"commitRefresh", "commitLogin", "cascade",
                                   "commitDelete"})
          [] req[r].pc = "cascade" /\ \A t \in ToDelete(r) : LockedByOther(r, t) # {}
               -> UNION {LockedByOther(r, t) : t \in ToDelete(r)}
          [] OTHER -> {}

\* r is at this statement and nothing blocks it.
At(r, label) == req[r].pc = label /\ WaitsFor(r) = {}

Becomes(r, new) == req' = [req EXCEPT ![r] = new]
End(r) == Becomes(r, Idle)
Goto(r, label) == Becomes(r, [req[r] EXCEPT !.pc = label])

\* The row is locked by the statement that writes it.
LockGoto(r, t, label) ==
    Becomes(r, [req[r] EXCEPT !.held = @ \cup {t}, !.pc = label])

NothingCommitted == UNCHANGED <<row, account>>

Begin(r, f, d, label) ==
    /\ req[r].pc = "idle"
    /\ Becomes(r, [pc |-> label, fam |-> f, dep |-> d, at |-> 0,
                   fresh |-> row[f][d] # "expired", held |-> {}])
    /\ NothingCommitted

-----------------------------------------------------------------------------
(* POST /auth/refresh: token_rotation.rotate, then a commit either way.    *)

\* Whoever holds a token may present it, any number of times.  One whose row
\* is gone matches nothing and is answered without a write.
Refresh(r, f, d) ==
    /\ d < MaxDepth
    /\ row[f][d] # "absent"
    /\ Begin(r, f, d, "guard")

\* FAULT: the UPDATE without `revoked IS false`.
RevokeIfUnexpired(r) ==
    /\ At(r, "guard")
    /\ IF row[req[r].fam][req[r].dep] # "absent" /\ req[r].fresh
       THEN LockGoto(r, <<req[r].fam, req[r].dep>>, "insert")
       ELSE Goto(r, "lookup")
    /\ NothingCommitted

\* revoke_if_live: the check and the revocation in one conditional UPDATE.
RevokeIfLive(r) ==
    /\ At(r, "guard")
    /\ IF row[req[r].fam][req[r].dep] \in Unrevoked /\ req[r].fresh
       THEN LockGoto(r, <<req[r].fam, req[r].dep>>, "insert")
       ELSE Goto(r, "lookup")
    /\ NothingCommitted

\* issue(replacing=presented): an insert under the successor's id, whose
\* foreign key locks the student's row.  A duplicate id or a student who is
\* gone fails the statement, and with it the request.
IssueSuccessor(r) ==
    /\ At(r, "insert")
    /\ IF row[req[r].fam][req[r].dep + 1] = "absent" /\ account[Who(r)] = "present"
       THEN Goto(r, "commitRefresh")
       ELSE End(r)
    /\ NothingCommitted

\* FAULT: the successor is issued and the presented token left as it was.
CommitWithoutRevoking(r) ==
    /\ At(r, "commitRefresh")
    /\ row' = [row EXCEPT ![req[r].fam] = [@ EXCEPT ![req[r].dep + 1] = "live"]]
    /\ End(r)
    /\ UNCHANGED account

CommitRefresh(r) ==
    /\ At(r, "commitRefresh")
    /\ row' = [row EXCEPT ![req[r].fam] =
                 [@ EXCEPT ![req[r].dep] = "revoked", ![req[r].dep + 1] = "live"]]
    /\ End(r)
    /\ UNCHANGED account

\* _revoke_successors: a token that is unknown or merely expired has nothing
\* to answer for; a revoked one came back.
LookupReplayed(r) ==
    /\ At(r, "lookup")
    /\ IF row[req[r].fam][req[r].dep] = "revoked"
       THEN Becomes(r, [req[r] EXCEPT !.pc = "walk", !.at = req[r].dep + 1])
       ELSE End(r)
    /\ NothingCommitted

\* FAULT: the walk ends at the first token that is not live.
RevokeWhileLive(r) ==
    /\ At(r, "walk")
    /\ IF Status(req[r].fam, req[r].at) \in Unrevoked
       THEN Becomes(r, [req[r] EXCEPT !.held = @ \cup {<<req[r].fam, req[r].at>>},
                                      !.at = @ + 1])
       ELSE Goto(r, "commitWalk")
    /\ NothingCommitted

\* FAULT: after its first successor the walk takes the others in any order.
RevokeInAnyOrder(r) ==
    /\ At(r, "walk")
    /\ \E next \in req[r].dep + 1 .. MaxDepth + 1 :
         /\ Status(req[r].fam, next) # "absent" => <<req[r].fam, next>> \notin req[r].held
         /\ IF Status(req[r].fam, req[r].at) # "absent"
            THEN Becomes(r, [req[r] EXCEPT !.held = @ \cup {<<req[r].fam, req[r].at>>},
                                           !.at = next])
            ELSE Goto(r, "commitWalk")
    /\ NothingCommitted

\* FAULT: next_id is not advanced.
RevokeSameSuccessor(r) ==
    /\ At(r, "walk")
    /\ IF Status(req[r].fam, req[r].at) # "absent"
       THEN LockGoto(r, <<req[r].fam, req[r].at>>, "walk")
       ELSE Goto(r, "commitWalk")
    /\ NothingCommitted

\* while await repo.revoke(next_id): one UPDATE by primary key at a time,
\* until no row has that id.
RevokeSuccessor(r) ==
    /\ At(r, "walk")
    /\ IF Status(req[r].fam, req[r].at) # "absent"
       THEN Becomes(r, [req[r] EXCEPT !.held = @ \cup {<<req[r].fam, req[r].at>>},
                                      !.at = @ + 1])
       ELSE Goto(r, "commitWalk")
    /\ NothingCommitted

\* Every row the transaction has written, in its new state.
Write(r, status) ==
    row' = [f \in Family |-> [d \in Depth |->
              IF <<f, d>> \in req[r].held THEN status ELSE row[f][d]]]

CommitWalk(r) ==
    /\ At(r, "commitWalk")
    /\ Write(r, "revoked")
    /\ End(r)
    /\ UNCHANGED account

-----------------------------------------------------------------------------
(* POST /auth/logout: the one token presented, whatever its state.         *)

Logout(r, f, d) ==
    /\ row[f][d] # "absent"
    /\ Begin(r, f, d, "revoke")

RevokeById(r) ==
    /\ At(r, "revoke")
    /\ IF row[req[r].fam][req[r].dep] # "absent"
       THEN LockGoto(r, <<req[r].fam, req[r].dep>>, "commitLogout")
       ELSE Goto(r, "commitLogout")
    /\ NothingCommitted

CommitLogout(r) ==
    /\ At(r, "commitLogout")
    /\ Write(r, "revoked")
    /\ End(r)
    /\ UNCHANGED account

-----------------------------------------------------------------------------
(* POST /auth/signup and /auth/login: the account, then a first token.     *)

\* A new family's id is random: no two sign-ins share one.
SignIn(r, f) ==
    /\ row[f][0] = "absent"
    /\ account[Owner[f]] # "deleted"
    /\ \A q \in Req : req[q].fam # f
    /\ Begin(r, f, 0, IF account[Owner[f]] = "present" THEN "login" ELSE "create")

\* The inserts of the student, whose google_id is unique, and of his token.
CreateAccount(r) ==
    /\ At(r, "create")
    /\ IF account[Who(r)] = "none" THEN Goto(r, "commitSignup") ELSE End(r)
    /\ NothingCommitted

\* FAULT: the UPDATE of last_login is not checked for the row it should match.
UpdateAccountUnchecked(r) ==
    /\ At(r, "login")
    /\ Goto(r, "commitLogin")
    /\ NothingCommitted

\* The UPDATE of last_login, which fails when the row is gone, then the insert
\* of the token.
UpdateAccount(r) ==
    /\ At(r, "login")
    /\ IF account[Who(r)] = "present" THEN Goto(r, "commitLogin") ELSE End(r)
    /\ NothingCommitted

CommitSignIn(r) ==
    /\ req[r].pc \in {"commitSignup", "commitLogin"}
    /\ row' = [row EXCEPT ![req[r].fam] = [@ EXCEPT ![0] = "live"]]
    /\ account' = IF req[r].pc = "commitLogin" THEN account
                  ELSE [account EXCEPT ![Who(r)] = "present"]
    /\ End(r)

-----------------------------------------------------------------------------
(* DELETE /auth/account: one DELETE, and its ON DELETE CASCADE.            *)

\* f is the sign-in whose access token authenticates the request.
DeleteAccount(r, f) ==
    /\ account[Owner[f]] = "present"
    /\ row[f][0] # "absent"
    /\ Begin(r, f, 0, "delete")

LockAccount(r) ==
    /\ At(r, "delete")
    /\ IF account[Who(r)] = "present" THEN Goto(r, "cascade") ELSE End(r)
    /\ NothingCommitted

\* The cascade takes the student's tokens in the order its scan meets them,
\* waiting for each one's lock.
Cascade(r) ==
    /\ At(r, "cascade")
    /\ \/ \E t \in ToDelete(r) :
             LockedByOther(r, t) = {} /\ LockGoto(r, t, "cascade")
       \/ ToDelete(r) = {} /\ Goto(r, "commitDelete")
    /\ NothingCommitted

CommitDelete(r) ==
    /\ At(r, "commitDelete")
    /\ Write(r, "absent")
    /\ account' = [account EXCEPT ![Who(r)] = "deleted"]
    /\ End(r)

-----------------------------------------------------------------------------
(* What is not a statement of a handler.                                   *)

\* LIFETIME passes.  Only an unrevoked token's expiry is ever asked about.
Expire(f, d) ==
    /\ row[f][d] = "live"
    /\ row' = [row EXCEPT ![f] = [@ EXCEPT ![d] = "expired"]]
    /\ UNCHANGED <<account, req>>

\* The worker dies or the handler is cancelled: the transaction rolls back.
Crash(r) ==
    /\ req[r].pc # "idle"
    /\ End(r)
    /\ NothingCommitted

\* A set of transactions each waiting for another of the set.
Deadlocked(S) == S # {} /\ \A q \in S : WaitsFor(q) \cap S # {}

\* Postgres finds the cycle and aborts one of its members.
AbortDeadlocked(r) ==
    /\ \E S \in SUBSET Req : r \in S /\ Deadlocked(S)
    /\ End(r)
    /\ NothingCommitted

Step(r) ==
    \/ RevokeIfLive(r) \/ IssueSuccessor(r) \/ CommitRefresh(r)
    \/ LookupReplayed(r) \/ RevokeSuccessor(r) \/ CommitWalk(r)
    \/ RevokeById(r) \/ CommitLogout(r)
    \/ CreateAccount(r) \/ UpdateAccount(r) \/ CommitSignIn(r)
    \/ LockAccount(r) \/ Cascade(r) \/ CommitDelete(r)

Arrive(r) ==
    \/ \E f \in Family, d \in Depth : Refresh(r, f, d) \/ Logout(r, f, d)
    \/ \E f \in Family : SignIn(r, f) \/ DeleteAccount(r, f)

Next ==
    \/ \E r \in Req : Arrive(r) \/ Step(r) \/ Crash(r) \/ AbortDeadlocked(r)
    \/ \E f \in Family, d \in Depth : Expire(f, d)

Spec == Init /\ [][Next]_vars

\* The database runs every statement that is not blocked, serves the waiters
\* of a row in turn, and aborts a member of every deadlock it finds.
FairSpec ==
    Spec /\ \A r \in Req : SF_vars(Step(r)) /\ WF_vars(AbortDeadlocked(r))

-----------------------------------------------------------------------------
(* Properties.                                                             *)

\* At most one token of a sign-in is live, however its refreshes, replays and
\* logouts interleave: the promise of refresh-token rotation that a leaked old
\* token is worth nothing.
OneLiveToken ==
    \A f \in Family, d, e \in Depth :
        row[f][d] \in Unrevoked /\ row[f][e] \in Unrevoked => d = e

\* Tokens are issued along the chain with no gap, and everything behind the
\* last one is revoked: what lets _revoke_successors reach the live token from
\* any older one, and stop at the first id that has no row.
ChainShape ==
    \A f \in Family, d, e \in Depth :
        e < d /\ row[f][d] # "absent" => row[f][e] = "revoked"

\* Of two sessions that present one token at once, one passes the conditional
\* UPDATE: no two requests are ever about to replace the same token.
SingleWinner ==
    \A q, r \in Req :
        /\ req[q].pc \in {"insert", "commitRefresh"}
        /\ req[r].pc \in {"insert", "commitRefresh"}
        /\ req[q].fam = req[r].fam /\ req[q].dep = req[r].dep
        => q = r

\* When the walk of a replayed token commits, nothing of that sign-in is live:
\* not even a successor that another request was issuing meanwhile.
ReplayEndsSession ==
    [][\A r \in Req : CommitWalk(r) =>
          \A d \in Depth : row'[req[r].fam][d] \notin Unrevoked]_vars

\* Deleting an account leaves no token of it behind, whatever refresh or
\* sign-in was under way.
NoOrphanToken ==
    \A f \in Family, d \in Depth :
        row[f][d] # "absent" => account[Owner[f]] = "present"

\* Rotations, replays, logouts and sign-ins take their locks in an order that
\* never deadlocks: every deadlock has an account deletion in it.
DeadlockNeedsDeletion ==
    \A S \in SUBSET Req :
        Deadlocked(S) => \E q \in S : req[q].pc = "cascade"

\* Every request is answered.
Answered == \A r \in Req : req[r].pc # "idle" ~> req[r].pc = "idle"

\* The committed rows are a session as SessionFamily describes it.
Sessions == INSTANCE SessionFamily WITH
    current <- [f \in Family |-> {d \in Depth : row[f][d] \in Unrevoked}],
    spent   <- [f \in Family |-> {d \in Depth : row[f][d] = "revoked"}],
    gone    <- {f \in Family : account[Owner[f]] = "deleted"}

ImplementsSessions == Sessions!Spec
=============================================================================
