---------------------------- MODULE SessionClient ----------------------------
(***************************************************************************)
(* The app's side of a session: ApiClient's refresh-and-replay of a 401,   *)
(* AuthService's sign-in and sign-out, and the two tokens they all keep in *)
(* SettingsStorage.  The server is SessionFamily, which TokenRotation      *)
(* implements.                                                             *)
(*                                                                         *)
(* Dart runs one callback at a time: an action is what happens between two *)
(* awaits.  A write to SharedPreferences changes what is read at once and  *)
(* is then awaited, so two writes in a row are two actions.                *)
(*                                                                         *)
(* An answer may be lost, and a request may reach the server after the app *)
(* gave up on it.                                                          *)
(***************************************************************************)
EXTENDS Integers

CONSTANTS
    Call,       \* ApiClient.send calls in flight at once
    Family,     \* sign-ins
    None,       \* no token, no call
    MaxDepth    \* BOUND: how many times the server rotates a family

ASSUME NoneAssumption == None \notin Call /\ None \notin Family \X Nat
ASSUME DepthAssumption == MaxDepth \in Nat

VARIABLES
    current, spent, gone,   \* the server, as SessionFamily has it
    expired,    \* access tokens past their exp
    store,      \* SettingsStorage: the access and the refresh token
    call,       \* call[c]: where the call is, and the access token it carried
    run,        \* run[c]: the refresh that call c started
    refreshing, \* ApiClient._refreshing: whose run is shared, if one is
    late,       \* refresh requests the app gave up on, not yet at the server
    user,       \* the sign-in or sign-out under way
    lost        \* has the app missed the answer to a rotation?

device == <<expired, store, call, run, refreshing, late, user, lost>>
vars == <<current, spent, gone, device>>

Depth == 0 .. MaxDepth
Token == Family \X Depth
Server == INSTANCE SessionFamily

CallPC == {"idle", "sent", "waiting", "replayed", "clearing"}
RunPC == {"none", "sent", "granted", "refused", "writing"}
UserPC == {"none", "storing", "logout", "clearing"}

NoRun == [pc |-> "none", token |-> None]
NoCall == [pc |-> "idle", with |-> None]

\* The invariant of types: a refresh is run with a token.
TypeOK ==
    /\ current \in [Family -> SUBSET Depth] /\ spent \in [Family -> SUBSET Depth]
    /\ gone \subseteq Family
    /\ expired \subseteq Token /\ late \subseteq Token
    /\ store \in [access : Token \cup {None}, refresh : Token \cup {None}]
    /\ call \in [Call -> [pc : CallPC, with : Token \cup {None}]]
    /\ run \in [Call -> [pc : RunPC, token : Token \cup {None}]]
    /\ \A c \in Call : run[c].pc # "none" => run[c].token \in Token
    /\ refreshing \in Call \cup {None}
    /\ user \in [pc : UserPC, token : Token \cup {None}]
    /\ lost \in BOOLEAN

Init ==
    /\ Server!Init
    /\ expired = {} /\ late = {} /\ lost = FALSE
    /\ store = [access |-> None, refresh |-> None]
    /\ call = [c \in Call |-> NoCall]
    /\ run = [c \in Call |-> NoRun]
    /\ refreshing = None
    /\ user = [pc |-> "none", token |-> None]

ServerIdle == UNCHANGED <<current, spent, gone>>

-----------------------------------------------------------------------------
(* The server.                                                             *)

\* POST /auth/refresh with token t: rotated when it is the live one; when it
\* was spent, the replay ends the session; unknown otherwise.
Granted(t) == current[t[1]] = {t[2]}

Successor(t) == <<t[1], t[2] + 1>>

Present(t) ==
    IF Granted(t) THEN Server!Rotate(t[1], t[2])
    ELSE IF t[2] \in spent[t[1]] THEN Server!Close(t[1])
    ELSE ServerIdle

\* A rotation nobody will hear of.
ServeLate(t) ==
    /\ t \in late /\ t[2] < MaxDepth
    /\ Present(t)
    /\ late' = late \ {t}
    /\ lost' = (lost \/ Granted(t))
    /\ UNCHANGED <<expired, store, call, run, refreshing, user>>

Serve(c) ==
    LET t == run[c].token
    IN  /\ run[c].pc = "sent" /\ t[2] < MaxDepth
        /\ Present(t)
        /\ run' = [run EXCEPT ![c].pc = IF Granted(t) THEN "granted" ELSE "refused"]
        /\ UNCHANGED <<expired, store, call, refreshing, late, user, lost>>

\* The student deletes his account, perhaps from another device, and with it
\* every sign-in there was to it.
DeleteAccount ==
    /\ LET opened == {f \in Family : current[f] \cup spent[f] # {}}
       IN  opened # {} /\ Server!Forget(opened)
    /\ UNCHANGED device

\* verify_token: a signature and a date, whatever became of the session.  An
\* access token lasts longer than any request: when one expires, the requests
\* in flight when it was issued are over, its own first replay included.
ExpireAccess(t) ==
    /\ t \notin expired /\ t[2] < MaxDepth
    /\ t[2] \in current[t[1]] \cup spent[t[1]]
    /\ user.pc = "storing" => user.token # t
    /\ \A c \in Call : call[c].pc # "idle" => call[c].with = t /\ call[c].pc # "replayed"
    /\ \A c \in Call : run[c].pc \in {"granted", "writing"} => Successor(run[c].token) # t
    /\ expired' = expired \cup {t}
    /\ ServerIdle
    /\ UNCHANGED <<store, call, run, refreshing, late, user, lost>>

Accepted(t) == t # None /\ t \notin expired /\ t[1] \notin gone

-----------------------------------------------------------------------------
(* ApiClient.                                                              *)

CallBecomes(c, pc) == call' = [call EXCEPT ![c].pc = pc]
CallEnds(c) == call' = [call EXCEPT ![c] = NoCall]

\* Every attempt reads the access token stored when it is built.
Send(c) ==
    /\ call[c].pc = "idle" /\ store.access # None
    /\ call' = [call EXCEPT ![c] = [pc |-> "sent", with |-> store.access]]
    /\ ServerIdle
    /\ UNCHANGED <<expired, store, run, refreshing, late, user, lost>>

\* Any answer but a 401, or none: the caller gets it or its ApiFailure.
Ends(c) ==
    /\ call[c].pc \in {"sent", "replayed"}
    /\ CallEnds(c)
    /\ ServerIdle
    /\ UNCHANGED <<expired, store, run, refreshing, late, user, lost>>

\* clearSession removes the access token, awaits, then the refresh token.
ClearAccess == store' = [store EXCEPT !.access = None]

\* FAULT: every 401 starts a refresh of its own.
UnauthorizedAlone(c) ==
    /\ call[c].pc = "sent" /\ ~Accepted(call[c].with)
    /\ IF store.refresh = None
       THEN CallBecomes(c, "clearing") /\ ClearAccess /\ UNCHANGED <<run, refreshing>>
       ELSE /\ CallBecomes(c, "waiting")
            /\ run' = [run EXCEPT ![c] = [pc |-> "sent", token |-> store.refresh]]
            /\ refreshing' = c
            /\ UNCHANGED store
    /\ ServerIdle
    /\ UNCHANGED <<expired, late, user, lost>>

\* _refreshOnce: a 401 joins the refresh that runs, or starts one.
Unauthorized(c) ==
    /\ call[c].pc = "sent" /\ ~Accepted(call[c].with)
    /\ IF refreshing # None
       THEN CallBecomes(c, "waiting") /\ UNCHANGED <<store, run, refreshing>>
       ELSE IF store.refresh = None
       THEN CallBecomes(c, "clearing") /\ ClearAccess /\ UNCHANGED <<run, refreshing>>
       ELSE /\ CallBecomes(c, "waiting")
            /\ run' = [run EXCEPT ![c] = [pc |-> "sent", token |-> store.refresh]]
            /\ refreshing' = c
            /\ UNCHANGED store
    /\ ServerIdle
    /\ UNCHANGED <<expired, late, user, lost>>

\* The run of c completes: whenComplete forgets it, then every call that
\* awaits it goes on in the same turn of the event loop.
Completes(c, pc, token) ==
    /\ run' = [run EXCEPT ![c] = NoRun]
    /\ refreshing' = None
    /\ call' = [d \in Call |->
                  IF call[d].pc = "waiting" THEN [pc |-> pc, with |-> token] ELSE call[d]]

\* 200: the access token is stored, then the refresh token, and the waiting
\* calls are replayed with what is stored then.
WriteAccess(c) ==
    /\ run[c].pc = "granted"
    /\ store' = [store EXCEPT !.access = Successor(run[c].token)]
    /\ run' = [run EXCEPT ![c].pc = "writing"]
    /\ ServerIdle
    /\ UNCHANGED <<expired, call, refreshing, late, user, lost>>

WriteRefresh(c) ==
    /\ run[c].pc = "writing"
    /\ store' = [store EXCEPT !.refresh = Successor(run[c].token)]
    /\ Completes(c, "replayed", store.access)
    /\ ServerIdle
    /\ UNCHANGED <<expired, late, user, lost>>

\* 401: each waiting call clears the session.
Refused(c) ==
    /\ run[c].pc = "refused"
    /\ Completes(c, "clearing", run[c].token)
    /\ ClearAccess
    /\ ServerIdle
    /\ UNCHANGED <<expired, late, user, lost>>

\* FAULT: a refresh that failed counts as one refused.
RefreshFailsAsRefused(c) ==
    /\ run[c].pc \in {"sent", "granted", "refused"}
    /\ Completes(c, "clearing", run[c].token)
    /\ ClearAccess
    /\ late' = IF run[c].pc = "sent" THEN late \cup {run[c].token} ELSE late
    /\ lost' = (lost \/ run[c].pc = "granted")
    /\ ServerIdle
    /\ UNCHANGED <<expired, user>>

\* FAULT: no timeout on the transport.
RefreshFailsIfAnswered(c) ==
    /\ run[c].pc \in {"granted", "refused"}
    /\ Completes(c, "idle", None)
    /\ lost' = (lost \/ run[c].pc = "granted")
    /\ ServerIdle
    /\ UNCHANGED <<expired, store, late, user>>

\* A timeout, a 5xx, no network: every waiting call fails and the session is
\* kept.  The request may still arrive; an answer that did is not heard.
RefreshFails(c) ==
    /\ run[c].pc \in {"sent", "granted", "refused"}
    /\ Completes(c, "idle", None)
    /\ late' = IF run[c].pc = "sent" THEN late \cup {run[c].token} ELSE late
    /\ lost' = (lost \/ run[c].pc = "granted")
    /\ ServerIdle
    /\ UNCHANGED <<expired, store, user>>

\* A replay that still answers 401 ends the session too.
ReplayUnauthorized(c) ==
    /\ call[c].pc = "replayed" /\ ~Accepted(call[c].with)
    /\ CallBecomes(c, "clearing")
    /\ ClearAccess
    /\ ServerIdle
    /\ UNCHANGED <<expired, run, refreshing, late, user, lost>>

ClearRefresh(c) ==
    /\ call[c].pc = "clearing"
    /\ store' = [store EXCEPT !.refresh = None]
    /\ CallEnds(c)
    /\ ServerIdle
    /\ UNCHANGED <<expired, run, refreshing, late, user, lost>>

-----------------------------------------------------------------------------
(* AuthService, and the app's own life.                                    *)

\* The start screen offers a sign-in when no session is stored.  storeSession
\* writes the access token, then the refresh token.
SignIn(f) ==
    /\ user.pc = "none" /\ store.access = None
    /\ Server!Open(f)
    /\ store' = [store EXCEPT !.access = <<f, 0>>]
    /\ user' = [pc |-> "storing", token |-> <<f, 0>>]
    /\ UNCHANGED <<expired, call, run, refreshing, late, lost>>

StoreRefresh ==
    /\ user.pc = "storing"
    /\ store' = [store EXCEPT !.refresh = user.token]
    /\ user' = [pc |-> "none", token |-> None]
    /\ ServerIdle
    /\ UNCHANGED <<expired, call, run, refreshing, late, lost>>

\* signOut reads the refresh token and, if there is one, logs out with it.
SignOut ==
    /\ user.pc = "none" /\ store.access # None
    /\ user' = [pc |-> IF store.refresh = None THEN "clearing" ELSE "logout",
                token |-> store.refresh]
    /\ ServerIdle
    /\ UNCHANGED <<expired, store, call, run, refreshing, late, lost>>

\* POST /auth/logout revokes the one token presented, or never arrives.
Logout ==
    /\ user.pc = "logout"
    /\ \/ Granted(user.token) /\ Server!Close(user.token[1])
       \/ ServerIdle
    /\ user' = [user EXCEPT !.pc = "clearing"]
    /\ UNCHANGED <<expired, store, call, run, refreshing, late, lost>>

\* clearAll, whatever became of the logout.
ClearAll ==
    /\ user.pc = "clearing"
    /\ store' = [access |-> None, refresh |-> None]
    /\ user' = [pc |-> "none", token |-> None]
    /\ ServerIdle
    /\ UNCHANGED <<expired, call, run, refreshing, late, lost>>

\* The system ends the app: only what is stored survives.
Killed ==
    /\ user.pc # "none" \/ \E c \in Call : call[c].pc # "idle"
    /\ call' = [c \in Call |-> NoCall]
    /\ run' = [c \in Call |-> NoRun]
    /\ refreshing' = None
    /\ late' = late \cup {run[c].token : c \in {d \in Call : run[d].pc = "sent"}}
    /\ lost' = (lost \/ \E c \in Call : run[c].pc \in {"granted", "writing"})
    /\ user' = [pc |-> "none", token |-> None]
    /\ ServerIdle
    /\ UNCHANGED <<expired, store>>

\* What the app and its timers do by themselves once a call is under way.
Continue(c) ==
    \/ Ends(c) \/ Unauthorized(c) \/ ReplayUnauthorized(c) \/ ClearRefresh(c)
    \/ WriteAccess(c) \/ WriteRefresh(c) \/ Refused(c) \/ RefreshFails(c)

Next ==
    \/ \E c \in Call : Send(c) \/ Serve(c) \/ Continue(c)
    \/ \E t \in Token : ServeLate(t) \/ ExpireAccess(t)
    \/ \E f \in Family : SignIn(f)
    \/ StoreRefresh \/ SignOut \/ Logout \/ ClearAll \/ DeleteAccount \/ Killed

Spec == Init /\ [][Next]_vars

\* Callbacks run, and .timeout(65 s) ends what is never answered.
FairSpec == Spec /\ \A c \in Call : WF_vars(Continue(c))

-----------------------------------------------------------------------------
(* Properties.                                                             *)

\* The server sees a spent token from this app only after the
\* app missed the answer to a rotation, or the session was signed out under
\* the refresh; never because two requests were refused at the same time.
ReplayNeedsLoss ==
    \A c \in Call :
        run[c].pc = "sent" /\ ~lost /\ run[c].token[2] \in spent[run[c].token[1]]
            => current[run[c].token[1]] = {}

\* A call that drops the session it was made in drops one the server has
\* ended: a timeout, a 5xx or a lost answer never signs the student out, once
\* both tokens are stored.
DropsOnlyEndedSession ==
    [][\A c \in Call :
         /\ call[c].pc # "clearing" /\ call'[c].pc = "clearing"
         /\ store.access # None /\ store.refresh # None /\ call[c].with # None
         /\ store.access[1] = call[c].with[1] /\ store.refresh[1] = call[c].with[1]
         => current[store.access[1]] = {}]_vars

\* Every call is answered, or fails.
CallsEnd == \A c \in Call : call[c].pc # "idle" ~> call[c].pc = "idle"
=============================================================================
