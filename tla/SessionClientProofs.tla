------------------------ MODULE SessionClientProofs ------------------------
(***************************************************************************)
(* The safety of the app's session, for any number of calls and sign-ins   *)
(* and any bound on the server's chain.                                    *)
(*                                                                         *)
(* The argument: every token anywhere in the app was issued, so a sign-in  *)
(* that is opened is one nobody holds; there is one refresh at a time, and *)
(* the call that started it waits; a refresh is of the stored session, or  *)
(* of one that was left for a sign-in nothing has used yet; and while no   *)
(* answer was missed the stored refresh token is the server's, but for the *)
(* moment between a rotation and the writing of its answer.                *)
(***************************************************************************)
EXTENDS SessionClient, TLAPS

-----------------------------------------------------------------------------
(* The inductive invariant, in named parts.                                *)

\* The server: one current token at most, later than every spent one, and
\* nothing of a sign-in that is gone.
Chain ==
    /\ \A f \in Family : \A d \in current[f] : /\ \A e \in current[f] : e = d
                                               /\ \A e \in spent[f] : e < d
    /\ \A f \in gone : current[f] = {} /\ spent[f] = {}

\* A token the server gave; it may have forgotten it since.
Issued(t) == t[2] \in current[t[1]] \cup spent[t[1]] \/ t[1] \in gone

Held ==
    ({store.access, store.refresh, user.token} \cup {call[c].with : c \in Call}
       \cup {run[c].token : c \in Call} \cup late \cup expired) \ {None}

HeldIssued == \A t \in Held : Issued(t)

\* One refresh at a time, and who started it waits for it.
OneRun ==
    \A c \in Call :
        /\ run[c].pc # "none" => refreshing = c /\ call[c].pc = "waiting"
        /\ call[c].pc \in {"sent", "waiting"} => call[c].with # None
        /\ call[c].pc = "waiting" => ~Accepted(call[c].with)

\* A rotation's new token is one nobody had; a refusal is for good.
RunKnows(c) ==
    LET t == run[c].token IN
    /\ run[c].pc \in {"granted", "writing"} =>
          /\ t[2] < MaxDepth /\ Issued(Successor(t))
          /\ Successor(t) \notin expired /\ call[c].with # Successor(t)
    /\ run[c].pc = "refused" => current[t[1]] = {}
    /\ run[c].pc = "writing" /\ store.access # None =>
          store.access \notin expired /\ call[c].with # store.access

\* A sign-in that no refresh and no late request is of.
Unused(f) ==
    /\ \A c \in Call : run[c].pc # "none" => run[c].token[1] # f
    /\ \A t \in late : t[1] # f
    /\ current[f] \subseteq {0} /\ spent[f] \subseteq {0}

\* What a sign-in has stored and not stored; a logout is of a token.
Storing ==
    /\ user.pc \in {"storing", "logout"} => user.token # None
    /\ user.pc = "storing" =>
          /\ user.token[2] = 0 /\ Unused(user.token[1])
          /\ store.refresh # None => store.refresh[1] # user.token[1]
          /\ user.token \notin expired
          /\ \A c \in Call : run[c].pc # "none" /\ call[c].with = user.token => user.token[1] \in gone

\* A session stored while another is refreshed is one just signed in to.
Beside ==
    \A c \in Call :
        run[c].pc # "none" /\ store.refresh # None /\ store.refresh[1] # run[c].token[1] =>
            /\ store.refresh[2] = 0 /\ Unused(store.refresh[1])
            /\ store.access # None /\ store.access[1] = store.refresh[1] =>
                  \/ store.access[1] \in gone
                  \/ store.access \notin expired /\ call[c].with # store.access

\* A replay carries what was stored with the answer.
Replays ==
    \A c \in Call : call[c].pc = "replayed" /\ call[c].with # None => call[c].with \notin expired

\* While no answer was missed: who has a refresh token has the server's.
Live(t) == current[t[1]] \subseteq {t[2]}

NothingMissed ==
    ~lost =>
        /\ store.refresh # None =>
              \/ Live(store.refresh)
              \/ \E c \in Call : run[c].pc \in {"granted", "writing"} /\ run[c].token = store.refresh
        /\ \A c \in Call : /\ run[c].pc = "sent" => Live(run[c].token)
                           /\ run[c].pc \in {"granted", "writing"} => Live(Successor(run[c].token))

IInv ==
    /\ TypeOK /\ Chain /\ HeldIssued /\ OneRun /\ \A c \in Call : RunKnows(c)
    /\ Storing /\ Beside /\ Replays /\ NothingMissed

-----------------------------------------------------------------------------
(* What the server does.                                                   *)

\* Types and shape stay, what was issued stays issued, what ended stays ended.
ServerGoes ==
    /\ current' \in [Family -> SUBSET Depth] /\ spent' \in [Family -> SUBSET Depth]
    /\ gone' \subseteq Family /\ gone \subseteq gone' /\ Chain'
    /\ \A t \in Token : Issued(t) => Issued(t)'
    /\ \A t \in Token : Issued(t) /\ current[t[1]] = {} => current'[t[1]] = {}

\* A step that rotates nothing and opens nothing.
ServerShrinks ==
    ServerGoes /\ \A f \in Family : current'[f] \subseteq current[f] /\ spent'[f] \subseteq current[f] \cup spent[f]

\* A step that has to do with one sign-in.
ServerOnly(f) ==
    ServerGoes /\ gone' = gone
    /\ \A g \in Family : g # f => current'[g] = current[g] /\ spent'[g] = spent[g]

LEMMA TokenIs ==
    ASSUME NEW t \in Token
    PROVE  t[1] \in Family /\ t[2] \in Depth /\ t = << t[1], t[2] >> /\ t[2] \in Nat /\ t[2] <= MaxDepth
BY DepthAssumption DEF Token, Depth

LEMMA Tokens ==
    ASSUME NEW f \in Family, NEW d \in Depth
    PROVE  << f, d >> \in Token /\ << f, d >>[1] = f /\ << f, d >>[2] = d /\ << f, d >> # None
BY NoneAssumption, DepthAssumption DEF Token, Depth

LEMMA TokenNotNone == \A t \in Token : t # None
BY NoneAssumption, DepthAssumption DEF Token, Depth

LEMMA IdleGoes == ASSUME TypeOK, Chain, ServerIdle PROVE ServerShrinks
BY DEF ServerIdle, ServerShrinks, ServerGoes, TypeOK, Chain, Issued

LEMMA CloseGoes ==
    ASSUME TypeOK, Chain, NEW f \in Family, Server!Close(f)
    PROVE  ServerShrinks /\ ServerOnly(f) /\ current'[f] = {}
<1>1. /\ current' \in [Family -> SUBSET Depth] /\ spent' \in [Family -> SUBSET Depth] /\ gone' = gone
      /\ current'[f] = {} /\ spent'[f] = spent[f] \cup current[f]
      /\ \A g \in Family : g # f => current'[g] = current[g] /\ spent'[g] = spent[g]
  BY DEF Server!Close, TypeOK
<1>2. Chain'
  <2>1. ASSUME NEW g \in Family
        PROVE  \A d \in current'[g] : (\A e \in current'[g] : e = d) /\ (\A e \in spent'[g] : e < d)
    BY <1>1 DEF Chain
  <2>2. \A g \in gone' : current'[g] = {} /\ spent'[g] = {}
    BY <1>1 DEF Chain, TypeOK
  <2>3. QED
    BY <2>1, <2>2 DEF Chain
<1>3. \A t \in Token : Issued(t) => Issued(t)'
  BY <1>1, TokenIs DEF Issued
<1>4. QED
  BY <1>1, <1>2, <1>3, TokenIs DEF ServerShrinks, ServerGoes, ServerOnly, TypeOK

LEMMA ForgetGoes ==
    ASSUME TypeOK, Chain, NEW F \in SUBSET Family, Server!Forget(F)
    PROVE  ServerShrinks
<1>1. /\ current' \in [Family -> SUBSET Depth] /\ spent' \in [Family -> SUBSET Depth]
      /\ gone' = gone \cup F
      /\ \A g \in Family : IF g \in F THEN current'[g] = {} /\ spent'[g] = {}
                                      ELSE current'[g] = current[g] /\ spent'[g] = spent[g]
  BY DEF Server!Forget, TypeOK
<1>2. Chain'
  BY <1>1 DEF Chain, TypeOK
<1>3. \A t \in Token : Issued(t) => Issued(t)'
  BY <1>1, TokenIs DEF Issued
<1>4. QED
  BY <1>1, <1>2, <1>3, TokenIs DEF ServerShrinks, ServerGoes, TypeOK

LEMMA OpenGoes ==
    ASSUME TypeOK, Chain, NEW f \in Family, Server!Open(f)
    PROVE  /\ ServerGoes /\ ServerOnly(f) /\ current'[f] = {0} /\ spent'[f] = {} /\ f \notin gone
           /\ Issued(<< f, 0 >>)' /\ \A t \in Token : Issued(t) => t[1] # f
<1>0. 0 \in Depth
  BY DepthAssumption DEF Depth
<1>1. /\ current' \in [Family -> SUBSET Depth] /\ spent' = spent /\ gone' = gone
      /\ current[f] = {} /\ spent[f] = {} /\ f \notin gone /\ current'[f] = {0}
      /\ \A g \in Family : g # f => current'[g] = current[g]
  BY <1>0 DEF Server!Open, TypeOK
<1>2. Chain'
  BY <1>1 DEF Chain, TypeOK
<1>3. /\ \A t \in Token : Issued(t) => t[1] # f
      /\ Issued(<< f, 0 >>)'
  BY <1>1 DEF Issued
<1>4. \A t \in Token : Issued(t) => Issued(t)' /\ current'[t[1]] = current[t[1]]
  BY <1>1, <1>3, TokenIs DEF Issued
<1>5. QED
  BY <1>1, <1>2, <1>3, <1>4 DEF ServerGoes, ServerOnly, TypeOK

\* A refresh: the next token, one nobody has, or nothing ever again.
LEMMA PresentGoes ==
    ASSUME TypeOK, Chain, NEW t \in Token, t[2] < MaxDepth, Issued(t), Present(t)
    PROVE  /\ ServerGoes /\ ServerOnly(t[1])
           /\ Granted(t) => /\ current'[t[1]] = {t[2] + 1} /\ Issued(Successor(t))'
                            /\ Successor(t) \in Token /\ ~Issued(Successor(t))
           /\ ~Granted(t) => ServerShrinks /\ current'[t[1]] = {}
<1> DEFINE f == t[1]
           d == t[2]
<1>0. f \in Family /\ d \in Nat /\ d + 1 \in Depth /\ d \in Depth /\ current[f] \in SUBSET Depth
      /\ spent[f] \in SUBSET Depth
  BY TokenIs, DepthAssumption DEF Depth, TypeOK
<1>1. CASE Granted(t)
  <2>1. Server!Rotate(f, d) /\ current[f] = {d}
    BY <1>1 DEF Present, Granted
  <2>2. /\ current' \in [Family -> SUBSET Depth] /\ spent' \in [Family -> SUBSET Depth] /\ gone' = gone
        /\ current'[f] = {d + 1} /\ spent'[f] = spent[f] \cup {d}
        /\ \A g \in Family : g # f => current'[g] = current[g] /\ spent'[g] = spent[g]
    BY <1>0, <2>1 DEF Server!Rotate, TypeOK
  <2>3. f \notin gone /\ \A e \in spent[f] : e < d
    BY <1>0, <2>1 DEF Chain
  <2>4. Chain'
    <3>1. ASSUME NEW g \in Family
          PROVE  \A x \in current'[g] : (\A e \in current'[g] : e = x) /\ (\A e \in spent'[g] : e < x)
      <4>1. CASE g = f
        <5>1. \A e \in spent'[f] : e \in Nat /\ e < d + 1
          BY <1>0, <2>2, <2>3, DepthAssumption DEF Depth
        <5>2. QED
          BY <2>2, <4>1, <5>1
      <4>2. CASE g # f
        BY <2>2, <4>2 DEF Chain
      <4>3. QED
        BY <4>1, <4>2
    <3>2. \A g \in gone' : current'[g] = {} /\ spent'[g] = {}
      BY <2>2, <2>3 DEF Chain, TypeOK
    <3>3. QED
      BY <3>1, <3>2 DEF Chain
  <2>5. \A u \in Token : Issued(u) => Issued(u)'
    BY <2>1, <2>2, TokenIs DEF Issued
  <2>6. Successor(t) = << f, d + 1 >> /\ Successor(t) \in Token /\ Issued(Successor(t))'
    BY <1>0, <2>2, Tokens DEF Successor, Issued
  <2>7. ~Issued(Successor(t))
    <3>1. d + 1 \notin current[f] \cup spent[f]
      BY <1>0, <2>1, <2>3
    <3>2. QED
      BY <1>0, <2>3, <2>6, <3>1, Tokens DEF Issued
  <2>8. \A u \in Token : current[u[1]] = {} => current'[u[1]] = {}
    BY <2>1, <2>2, TokenIs
  <2>9. QED
    BY <1>1, <2>2, <2>4, <2>5, <2>6, <2>7, <2>8 DEF ServerGoes, ServerOnly, TypeOK
<1>2. CASE ~Granted(t) /\ d \in spent[f]
  <2>1. Server!Close(t[1])
    BY <1>2 DEF Present
  <2>2. QED
    BY <1>0, <1>2, <2>1, CloseGoes DEF ServerShrinks
<1>3. CASE ~Granted(t) /\ d \notin spent[f]
  <2>1. ServerIdle
    BY <1>3 DEF Present
  <2>2. current[f] = {}
    BY <1>0, <1>3 DEF Chain, Granted, Issued
  <2>3. QED
    BY <1>3, <2>1, <2>2, IdleGoes DEF ServerIdle, ServerShrinks, ServerOnly
<1>4. QED
  BY <1>1, <1>2, <1>3

-----------------------------------------------------------------------------
(* Types.                                                                  *)

\* What the app keeps, apart from the server's state.
DeviceTyped ==
    /\ expired \subseteq Token /\ late \subseteq Token
    /\ store \in [access : Token \cup {None}, refresh : Token \cup {None}]
    /\ call \in [Call -> [pc : CallPC, with : Token \cup {None}]]
    /\ run \in [Call -> [pc : RunPC, token : Token \cup {None}]]
    /\ \A c \in Call : run[c].pc # "none" => run[c].token \in Token
    /\ refreshing \in Call \cup {None}
    /\ user \in [pc : UserPC, token : Token \cup {None}]
    /\ lost \in BOOLEAN

LEMMA Fields ==
    ASSUME TypeOK, NEW c \in Call
    PROVE  /\ call[c].pc \in CallPC /\ call[c].with \in Token \cup {None}
           /\ run[c].pc \in RunPC /\ run[c].token \in Token \cup {None}
           /\ run[c].pc # "none" => run[c].token \in Token
           /\ store.access \in Token \cup {None} /\ store.refresh \in Token \cup {None}
           /\ user.pc \in UserPC /\ user.token \in Token \cup {None}
BY DEF TypeOK

\* Of one call, or of one refresh, the program counter moves.
LEMMA CallBecomesTo ==
    ASSUME TypeOK, NEW c \in Call, NEW pc \in CallPC, CallBecomes(c, pc)
    PROVE  /\ call' \in [Call -> [pc : CallPC, with : Token \cup {None}]]
           /\ call'[c].pc = pc /\ call'[c].with = call[c].with
           /\ \A d \in Call : d # c => call'[d] = call[d]
BY DEF TypeOK, CallBecomes

LEMMA CallEndsTo ==
    ASSUME TypeOK, NEW c \in Call, CallEnds(c)
    PROVE  /\ call' \in [Call -> [pc : CallPC, with : Token \cup {None}]]
           /\ call'[c].pc = "idle" /\ call'[c].with = None
           /\ \A d \in Call : d # c => call'[d] = call[d]
BY DEF TypeOK, CallEnds, NoCall, CallPC

LEMMA RunBecomesTo ==
    ASSUME TypeOK, NEW c \in Call, NEW pc \in RunPC, run' = [run EXCEPT ![c].pc = pc]
    PROVE  /\ run' \in [Call -> [pc : RunPC, token : Token \cup {None}]]
           /\ run'[c].pc = pc /\ run'[c].token = run[c].token
           /\ \A d \in Call : d # c => run'[d] = run[d]
BY DEF TypeOK

LEMMA RunStartsTo ==
    ASSUME TypeOK, NEW c \in Call, NEW t \in Token, run' = [run EXCEPT ![c] = [pc |-> "sent", token |-> t]]
    PROVE  /\ run' \in [Call -> [pc : RunPC, token : Token \cup {None}]]
           /\ run'[c].pc = "sent" /\ run'[c].token = t
           /\ \A d \in Call : d # c => run'[d] = run[d]
BY DEF TypeOK, RunPC

LEMMA CompletesTo ==
    ASSUME TypeOK, NEW c \in Call, NEW pc \in CallPC, NEW token \in Token \cup {None},
           Completes(c, pc, token)
    PROVE  /\ run' \in [Call -> [pc : RunPC, token : Token \cup {None}]]
           /\ run'[c].pc = "none" /\ run'[c].token = None
           /\ \A d \in Call : d # c => run'[d] = run[d]
           /\ call' \in [Call -> [pc : CallPC, with : Token \cup {None}]]
           /\ \A d \in Call : IF call[d].pc = "waiting"
                              THEN call'[d].pc = pc /\ call'[d].with = token
                              ELSE call'[d] = call[d]
           /\ refreshing' = None
<1>1. /\ run' \in [Call -> [pc : RunPC, token : Token \cup {None}]]
      /\ run'[c].pc = "none" /\ run'[c].token = None
      /\ \A d \in Call : d # c => run'[d] = run[d]
  BY DEF TypeOK, Completes, NoRun, RunPC
<1>2. /\ call' \in [Call -> [pc : CallPC, with : Token \cup {None}]]
      /\ \A d \in Call : IF call[d].pc = "waiting"
                         THEN call'[d].pc = pc /\ call'[d].with = token
                         ELSE call'[d] = call[d]
  BY DEF TypeOK, Completes
<1>3. QED
  BY <1>1, <1>2 DEF Completes

\* Of the two tokens stored one is removed or written.
LEMMA StoreTo ==
    ASSUME TypeOK, NEW t \in Token \cup {None}
    PROVE  /\ store' = [store EXCEPT !.access = t] =>
                /\ store' \in [access : Token \cup {None}, refresh : Token \cup {None}]
                /\ store'.access = t /\ store'.refresh = store.refresh
           /\ store' = [store EXCEPT !.refresh = t] =>
                /\ store' \in [access : Token \cup {None}, refresh : Token \cup {None}]
                /\ store'.access = store.access /\ store'.refresh = t
BY DEF TypeOK

LEMMA KilledTo ==
    ASSUME TypeOK, Killed
    PROVE  /\ DeviceTyped'
           /\ \A c \in Call : /\ call'[c].pc = "idle" /\ call'[c].with = None
                              /\ run'[c].pc = "none" /\ run'[c].token = None
           /\ \A t \in late' : t \in late \/ \E c \in Call : run[c].pc = "sent" /\ t = run[c].token
<1>1. /\ call' = [c \in Call |-> NoCall] /\ run' = [c \in Call |-> NoRun] /\ refreshing' = None
      /\ late' = late \cup {run[c].token : c \in {d \in Call : run[d].pc = "sent"}}
      /\ user' = [pc |-> "none", token |-> None] /\ UNCHANGED << expired, store >>
      /\ lost' \in BOOLEAN
  BY DEF Killed, TypeOK
<1>2. \A t \in late' : t \in late \/ \E c \in Call : run[c].pc = "sent" /\ t = run[c].token
  BY <1>1
<1>3. late' \subseteq Token
  BY <1>2 DEF TypeOK
<1>4. /\ call' \in [Call -> [pc : CallPC, with : Token \cup {None}]]
      /\ run' \in [Call -> [pc : RunPC, token : Token \cup {None}]]
      /\ user' \in [pc : UserPC, token : Token \cup {None}]
      /\ \A c \in Call : /\ call'[c].pc = "idle" /\ call'[c].with = None
                         /\ run'[c].pc = "none" /\ run'[c].token = None
  BY <1>1 DEF NoCall, NoRun, CallPC, RunPC, UserPC
<1>5. QED
  BY <1>1, <1>2, <1>3, <1>4 DEF DeviceTyped, TypeOK

\* A 401: it joins the refresh, starts one, or clears the session.
Joins(c) ==
    /\ refreshing # None /\ UNCHANGED << store, run, refreshing >> /\ call'[c].pc = "waiting"

Starts(c) ==
    /\ refreshing = None /\ store.refresh \in Token /\ UNCHANGED store
    /\ call'[c].pc = "waiting" /\ refreshing' = c
    /\ run'[c].pc = "sent" /\ run'[c].token = store.refresh
    /\ \A d \in Call : d # c => run'[d] = run[d]

Clears(c) ==
    /\ refreshing = None /\ store.refresh = None /\ UNCHANGED << run, refreshing >>
    /\ call'[c].pc = "clearing" /\ store'.access = None /\ store'.refresh = None

LEMMA UnauthorizedTo ==
    ASSUME TypeOK, NEW c \in Call, Unauthorized(c)
    PROVE  /\ DeviceTyped'
           /\ Joins(c) \/ Starts(c) \/ Clears(c)
           /\ call'[c].with = call[c].with /\ \A d \in Call : d # c => call'[d] = call[d]
<1>0. /\ UNCHANGED << expired, late, user, lost >>
      /\ call[c].pc = "sent" /\ "waiting" \in CallPC /\ "clearing" \in CallPC
  BY DEF Unauthorized, CallPC
<1>1. CASE refreshing # None
  <2>1. CallBecomes(c, "waiting") /\ UNCHANGED << store, run, refreshing >>
    BY <1>1 DEF Unauthorized
  <2>2. /\ call' \in [Call -> [pc : CallPC, with : Token \cup {None}]]
        /\ call'[c].pc = "waiting" /\ call'[c].with = call[c].with
        /\ \A d \in Call : d # c => call'[d] = call[d]
    BY <1>0, <2>1, CallBecomesTo
  <2>3. QED
    BY <1>0, <1>1, <2>1, <2>2 DEF Joins, DeviceTyped, TypeOK
<1>2. CASE refreshing = None /\ store.refresh = None
  <2>1. CallBecomes(c, "clearing") /\ ClearAccess /\ UNCHANGED << run, refreshing >>
    BY <1>2 DEF Unauthorized
  <2>2. /\ call' \in [Call -> [pc : CallPC, with : Token \cup {None}]]
        /\ call'[c].pc = "clearing" /\ call'[c].with = call[c].with
        /\ \A d \in Call : d # c => call'[d] = call[d]
    BY <1>0, <2>1, CallBecomesTo
  <2>3. /\ store' \in [access : Token \cup {None}, refresh : Token \cup {None}]
        /\ store'.access = None /\ store'.refresh = None
    BY <1>2, <2>1, StoreTo DEF ClearAccess
  <2>4. QED
    BY <1>0, <1>2, <2>1, <2>2, <2>3 DEF Clears, DeviceTyped, TypeOK
<1>3. CASE refreshing = None /\ store.refresh # None
  <2>1. /\ CallBecomes(c, "waiting") /\ run' = [run EXCEPT ![c] = [pc |-> "sent", token |-> store.refresh]]
        /\ refreshing' = c /\ UNCHANGED store /\ store.refresh \in Token
    BY <1>3, Fields DEF Unauthorized
  <2>2. /\ call' \in [Call -> [pc : CallPC, with : Token \cup {None}]]
        /\ call'[c].pc = "waiting" /\ call'[c].with = call[c].with
        /\ \A d \in Call : d # c => call'[d] = call[d]
    BY <1>0, <2>1, CallBecomesTo
  <2>3. /\ run' \in [Call -> [pc : RunPC, token : Token \cup {None}]]
        /\ run'[c].pc = "sent" /\ run'[c].token = store.refresh
        /\ \A d \in Call : d # c => run'[d] = run[d]
    BY <2>1, RunStartsTo
  <2>4. QED
    BY <1>0, <1>3, <2>1, <2>2, <2>3 DEF Starts, DeviceTyped, TypeOK
<1>4. QED
  BY <1>1, <1>2, <1>3

LEMMA TypeInit == Init => TypeOK
<1> SUFFICES ASSUME Init PROVE TypeOK
  OBVIOUS
<1>1. /\ current \in [Family -> SUBSET Depth] /\ spent \in [Family -> SUBSET Depth] /\ gone \subseteq Family
  BY DEF Init, Server!Init
<1>2. call \in [Call -> [pc : CallPC, with : Token \cup {None}]]
  BY DEF Init, NoCall, CallPC
<1>3. /\ run \in [Call -> [pc : RunPC, token : Token \cup {None}]]
      /\ \A c \in Call : run[c].pc = "none"
  BY DEF Init, NoRun, RunPC
<1>4. /\ store \in [access : Token \cup {None}, refresh : Token \cup {None}]
      /\ user \in [pc : UserPC, token : Token \cup {None}]
  BY DEF Init, UserPC
<1>5. QED
  BY <1>1, <1>2, <1>3, <1>4 DEF Init, TypeOK

\* A step of the server alone, or of the device alone, seen by the types.
LEMMA TypeOfBoth ==
    ASSUME ServerGoes, DeviceTyped'
    PROVE  TypeOK'
BY DEF ServerGoes, DeviceTyped, TypeOK

LEMMA TypeStep ==
    ASSUME TypeOK, Chain, HeldIssued, \A c \in Call : RunKnows(c), Storing, [Next]_vars
    PROVE  TypeOK' /\ ServerGoes
<1>d. DeviceTyped
  BY DEF TypeOK, DeviceTyped
<1>i. ServerIdle => ServerGoes
  BY IdleGoes DEF ServerShrinks
<1>t. TypeOK
  OBVIOUS
<1>1. ASSUME NEW c \in Call, Send(c) PROVE DeviceTyped' /\ ServerGoes
  BY <1>1, <1>d, <1>i DEF Send, DeviceTyped, CallPC
<1>2. ASSUME NEW c \in Call, Serve(c) PROVE DeviceTyped' /\ ServerGoes
  <2>1. run[c].token \in Token /\ Issued(run[c].token) /\ run[c].token[2] < MaxDepth /\ Present(run[c].token)
    BY <1>2, <1>t, Fields, TokenNotNone DEF Serve, HeldIssued, Held
  <2>2. ServerGoes
    BY <2>1, <1>t, PresentGoes
  <2>3. /\ run' \in [Call -> [pc : RunPC, token : Token \cup {None}]]
        /\ run'[c].token = run[c].token /\ \A d \in Call : d # c => run'[d] = run[d]
    BY <1>2, <1>t, RunBecomesTo DEF Serve, RunPC
  <2>4. QED
    BY <1>2, <1>d, <2>1, <2>2, <2>3 DEF Serve, DeviceTyped
<1>3. ASSUME NEW c \in Call, Ends(c) \/ ClearRefresh(c) \/ ReplayUnauthorized(c) PROVE DeviceTyped' /\ ServerGoes
  <2>1. call' \in [Call -> [pc : CallPC, with : Token \cup {None}]]
    BY <1>3, <1>t, CallEndsTo, CallBecomesTo DEF Ends, ClearRefresh, ReplayUnauthorized, CallPC
  <2>2. store' \in [access : Token \cup {None}, refresh : Token \cup {None}]
    BY <1>3, <1>t, StoreTo DEF Ends, ClearRefresh, ReplayUnauthorized, ClearAccess, TypeOK
  <2>3. QED
    BY <1>3, <1>d, <1>i, <2>1, <2>2 DEF Ends, ClearRefresh, ReplayUnauthorized, DeviceTyped
<1>4. ASSUME NEW c \in Call, Unauthorized(c) PROVE DeviceTyped' /\ ServerGoes
  BY <1>4, <1>i, <1>t, UnauthorizedTo DEF Unauthorized
<1>5. ASSUME NEW c \in Call, WriteAccess(c) PROVE DeviceTyped' /\ ServerGoes
  <2>1. /\ run' \in [Call -> [pc : RunPC, token : Token \cup {None}]]
        /\ run'[c].token = run[c].token /\ \A d \in Call : d # c => run'[d] = run[d]
    BY <1>5, <1>t, RunBecomesTo DEF WriteAccess, RunPC
  <2>2. Successor(run[c].token) \in Token /\ run[c].token \in Token
    <3>1. run[c].token \in Token /\ run[c].token[2] < MaxDepth
      BY <1>5, <1>t, Fields DEF WriteAccess, RunKnows
    <3>2. run[c].token[1] \in Family /\ run[c].token[2] + 1 \in Depth
      BY <3>1, TokenIs, DepthAssumption DEF Depth
    <3>3. QED
      BY <3>1, <3>2, Tokens DEF Successor
  <2>3. store' \in [access : Token \cup {None}, refresh : Token \cup {None}]
    BY <1>5, <1>t, <2>2, StoreTo DEF WriteAccess
  <2>4. QED
    BY <1>5, <1>d, <1>i, <2>1, <2>2, <2>3 DEF WriteAccess, DeviceTyped
<1>6. ASSUME NEW c \in Call, WriteRefresh(c) PROVE DeviceTyped' /\ ServerGoes
  <2>1. Successor(run[c].token) \in Token
    <3>1. run[c].token \in Token /\ run[c].token[2] < MaxDepth
      BY <1>6, <1>t, Fields DEF WriteRefresh, RunKnows
    <3>2. run[c].token[1] \in Family /\ run[c].token[2] + 1 \in Depth
      BY <3>1, TokenIs, DepthAssumption DEF Depth
    <3>3. QED
      BY <3>2, Tokens DEF Successor
  <2>2. store' \in [access : Token \cup {None}, refresh : Token \cup {None}]
    BY <1>6, <1>t, <2>1, StoreTo DEF WriteRefresh
  <2>3. Completes(c, "replayed", store.access) /\ store.access \in Token \cup {None} /\ "replayed" \in CallPC
    BY <1>6, <1>t, Fields DEF WriteRefresh, CallPC
  <2>4. /\ run' \in [Call -> [pc : RunPC, token : Token \cup {None}]] /\ run'[c].pc = "none"
        /\ \A d \in Call : d # c => run'[d] = run[d]
        /\ call' \in [Call -> [pc : CallPC, with : Token \cup {None}]] /\ refreshing' = None
    BY <1>t, <2>3, CompletesTo
  <2>5. QED
    BY <1>6, <1>d, <1>i, <2>2, <2>4 DEF WriteRefresh, DeviceTyped
<1>7. ASSUME NEW c \in Call, Refused(c) \/ RefreshFails(c) PROVE DeviceTyped' /\ ServerGoes
  <2>1. \E pc \in CallPC, token \in Token \cup {None} : Completes(c, pc, token)
    BY <1>7, <1>t, Fields DEF Refused, RefreshFails, CallPC
  <2>2. /\ run' \in [Call -> [pc : RunPC, token : Token \cup {None}]] /\ run'[c].pc = "none"
        /\ \A d \in Call : d # c => run'[d] = run[d]
        /\ call' \in [Call -> [pc : CallPC, with : Token \cup {None}]] /\ refreshing' = None
    BY <1>t, <2>1, CompletesTo
  <2>3. store' \in [access : Token \cup {None}, refresh : Token \cup {None}]
    BY <1>7, <1>t, StoreTo DEF Refused, RefreshFails, ClearAccess, TypeOK
  <2>4. late' \subseteq Token /\ lost' \in BOOLEAN
    BY <1>7, <1>t, Fields DEF Refused, RefreshFails, TypeOK
  <2>5. QED
    BY <1>7, <1>d, <1>i, <2>2, <2>3, <2>4 DEF Refused, RefreshFails, DeviceTyped
<1>8. ASSUME NEW t \in Token, ServeLate(t) PROVE DeviceTyped' /\ ServerGoes
  <2>1. Issued(t) /\ t[2] < MaxDepth /\ Present(t)
    BY <1>8, <1>t, TokenNotNone DEF ServeLate, HeldIssued, Held
  <2>2. ServerGoes
    BY <2>1, <1>t, PresentGoes
  <2>3. late' \subseteq Token /\ lost' \in BOOLEAN
    BY <1>8, <1>t DEF ServeLate, TypeOK, Granted
  <2>4. QED
    BY <1>8, <1>d, <2>2, <2>3 DEF ServeLate, DeviceTyped
<1>9. ASSUME NEW t \in Token, ExpireAccess(t) PROVE DeviceTyped' /\ ServerGoes
  BY <1>9, <1>d, <1>i DEF ExpireAccess, DeviceTyped
<1>10. ASSUME NEW f \in Family, SignIn(f) PROVE DeviceTyped' /\ ServerGoes
  <2>1. << f, 0 >> \in Token
    BY Tokens, DepthAssumption DEF Depth
  <2>2. ServerGoes
    BY <1>10, <1>t, OpenGoes DEF SignIn
  <2>3. store' \in [access : Token \cup {None}, refresh : Token \cup {None}]
    BY <1>10, <1>t, <2>1, StoreTo DEF SignIn
  <2>4. user' \in [pc : UserPC, token : Token \cup {None}]
    BY <1>10, <2>1 DEF SignIn, UserPC
  <2>5. QED
    BY <1>10, <1>d, <2>2, <2>3, <2>4 DEF SignIn, DeviceTyped
<1>11. CASE StoreRefresh \/ SignOut \/ ClearAll
  <2>1. store' \in [access : Token \cup {None}, refresh : Token \cup {None}]
    BY <1>11, <1>t, Fields, StoreTo DEF StoreRefresh, SignOut, ClearAll, TypeOK
  <2>2. user' \in [pc : UserPC, token : Token \cup {None}]
    BY <1>11, <1>t DEF StoreRefresh, SignOut, ClearAll, UserPC, TypeOK
  <2>3. QED
    BY <1>11, <1>d, <1>i, <2>1, <2>2, <1>t, TypeOfBoth DEF StoreRefresh, SignOut, ClearAll, DeviceTyped
<1>12. CASE Logout
  <2>1. ServerGoes
    <3>1. CASE ServerIdle
      BY <1>i, <3>1
    <3>2. CASE Granted(user.token) /\ Server!Close(user.token[1])
      <4>1. user.token \in Token
        BY <1>12, <3>2, <1>t DEF Logout, Storing, TypeOK
      <4>2. QED
        BY <3>2, <4>1, <1>t, CloseGoes, TokenIs DEF ServerShrinks
    <3>3. QED
      BY <1>12, <3>1, <3>2 DEF Logout
  <2>2. DeviceTyped'
    BY <1>12, <1>d DEF Logout, DeviceTyped, UserPC
  <2>3. QED
    BY <2>1, <2>2, <1>t, TypeOfBoth
<1>13. CASE DeleteAccount
  <2>1. ServerGoes
    BY <1>13, <1>t, ForgetGoes DEF DeleteAccount, ServerShrinks
  <2>2. DeviceTyped'
    BY <1>13, <1>d DEF DeleteAccount, device, DeviceTyped
  <2>3. QED
    BY <2>1, <2>2, <1>t, TypeOfBoth
<1>14. CASE Killed
  BY <1>14, <1>i, <1>t, KilledTo, TypeOfBoth DEF Killed
<1>15. CASE UNCHANGED vars
  <2>1. ServerGoes
    BY <1>15, <1>i DEF vars, ServerIdle
  <2>2. QED
    BY <1>15, <1>d, <2>1, <1>t, TypeOfBoth DEF vars, device, DeviceTyped
<1>16. QED
  BY <1>1, <1>2, <1>3, <1>4, <1>5, <1>6, <1>7, <1>8, <1>9, <1>10, <1>11, <1>12, <1>13, <1>14, <1>15, TypeOfBoth DEF Next, Continue

-----------------------------------------------------------------------------
(* What every kind of step does to what the calls know.                    *)

Parts == HeldIssued /\ OneRun /\ (\A c \in Call : RunKnows(c)) /\ Storing /\ Beside /\ Replays /\ NothingMissed

\* Tokens that are held afterwards were, or are issued now.
Come(T) == \A t \in T : t = None \/ t \in Held \/ Issued(t)'

LEMMA HeldIs ==
    /\ store.access # None => store.access \in Held
    /\ store.refresh # None => store.refresh \in Held
    /\ user.token # None => user.token \in Held
    /\ \A c \in Call : /\ call[c].with # None => call[c].with \in Held
                       /\ run[c].token # None => run[c].token \in Held
    /\ \A t \in late \cup expired : t # None => t \in Held
BY DEF Held

LEMMA HeldKept ==
    ASSUME TypeOK, HeldIssued, ServerGoes,
           Come({store'.access, store'.refresh, user'.token} \cup late' \cup expired'),
           \A c \in Call : Come({call'[c].with, run'[c].token})
    PROVE  HeldIssued'
<1>1. Held \subseteq Token
  BY DEF Held, TypeOK
<1>2. \A t : t \in Held => Issued(t)'
  BY <1>1 DEF HeldIssued, ServerGoes
<1>3. ASSUME NEW t \in Held' PROVE Issued(t)'
  <2>1. t # None /\ (t = None \/ t \in Held \/ Issued(t)')
    BY <1>3 DEF Held, Come
  <2>2. QED
    BY <1>2, <2>1
<1>4. QED
  BY <1>3 DEF HeldIssued

\* What holds of a step that starts no refresh, hears no answer to one and
\* writes no token: it may remove what is stored, drop a refresh, let calls go
\* on and the server close sessions.
LEMMA QuietKeeps ==
    ASSUME TypeOK, Parts, ServerShrinks,
           store'.access \in {store.access, None}, store'.refresh \in {store.refresh, None},
           lost => lost', expired \subseteq expired',
           \A t \in late' : t \in late \/ \E c \in Call : run[c].pc = "sent" /\ t = run[c].token,
           user' = user \/ /\ user'.pc \in {"none", "logout", "clearing"}
                           /\ user'.token \in {None, user.token, store.refresh}
                           /\ user'.pc = "logout" => user'.token # None,
           \A c \in Call : \/ run'[c] = run[c] /\ (run[c].pc # "none" => refreshing' = refreshing)
                           \/ /\ run'[c].pc = "none" /\ run'[c].token = None
                              /\ run[c].pc \in {"granted", "writing"} => lost',
           \A t \in expired' : \/ t \in expired
                               \/ /\ t \in Token /\ Issued(t) /\ (user.pc = "storing" => user.token # t)
                                  /\ \A c \in Call : call[c].pc # "idle" => call[c].with = t /\ call[c].pc # "replayed"
                                  /\ \A c \in Call : run[c].pc \in {"granted", "writing"} => Successor(run[c].token) # t,
           \A c \in Call : \/ call'[c] = call[c]
                           \/ /\ run'[c].pc = "none" /\ Come({call'[c].with})
                              /\ call'[c].pc # "replayed"
                              /\ call'[c].pc = "sent" => call'[c].with # None
                              /\ call'[c].pc = "waiting" => call'[c].with # None /\ ~Accepted(call'[c].with)
    PROVE  Parts'
<1>h. /\ HeldIssued /\ OneRun /\ (\A c \in Call : RunKnows(c)) /\ Storing /\ Beside /\ Replays /\ NothingMissed
      /\ ServerGoes
  BY DEF Parts, ServerShrinks
<1>1. HeldIssued'
  <2>1. \A c \in Call : Come({call'[c].with, run'[c].token})
    BY HeldIs DEF Come
  <2>2. Come(late' \cup expired')
    BY <1>h, HeldIs DEF Come, ServerGoes
  <2>3. Come({store'.access, store'.refresh, user'.token} \cup late' \cup expired')
    BY <2>2, HeldIs DEF Come
  <2>4. QED
    BY <1>h, <2>1, <2>2, <2>3, HeldKept
<1>2. \A t : ~Accepted(t) => ~Accepted(t)'
  BY <1>h DEF Accepted, ServerGoes
<1>3. OneRun'
  <2>1. ASSUME NEW c \in Call PROVE run'[c].pc # "none" => refreshing' = c /\ call'[c].pc = "waiting"
    BY <1>h DEF OneRun
  <2>2. ASSUME NEW c \in Call
        PROVE  /\ call'[c].pc \in {"sent", "waiting"} => call'[c].with # None
               /\ call'[c].pc = "waiting" => ~Accepted(call'[c].with)
    <3>1. CASE call'[c] = call[c]
      BY <1>h, <3>1 DEF OneRun
    <3>2. CASE call'[c] # call[c]
      BY <3>2
    <3>3. QED
      BY <3>1, <3>2
  <2>3. QED
    BY <1>2, <2>1, <2>2 DEF OneRun, Accepted
<1>u. \A f \in Family : Unused(f) => Unused(f)'
  BY DEF Unused, ServerShrinks
<1>r. \A c \in Call : /\ run[c].pc # "none" => run[c].token \in Token /\ call[c].pc = "waiting"
                      /\ run'[c].pc # "none" => run'[c] = run[c] /\ call'[c] = call[c]
  BY <1>h, Fields DEF OneRun
<1>4. ASSUME NEW c \in Call PROVE RunKnows(c)'
  <2>0. CASE run'[c].pc = "none"
    BY <2>0 DEF RunKnows
  <2> SUFFICES ASSUME run'[c].pc # "none"
               PROVE  RunKnows(c)'
    BY <2>0
  <2>1. CASE run[c].pc = "none" \/ run[c].pc = "sent"
    BY <1>r, <2>1 DEF RunKnows
  <2>2. CASE run[c].pc = "refused"
    <3>1. current[run[c].token[1]] = {} /\ Issued(run[c].token)
      BY <1>h, <1>r, <2>2, HeldIs, TokenNotNone DEF RunKnows, HeldIssued
    <3>2. QED
      BY <1>h, <1>r, <2>2, <3>1 DEF RunKnows, ServerGoes
  <2>3. CASE run[c].pc \in {"granted", "writing"}
    <3>1. /\ run[c].token[2] < MaxDepth /\ Issued(Successor(run[c].token))
          /\ Successor(run[c].token) \notin expired /\ call[c].with # Successor(run[c].token)
      BY <1>h, <2>3 DEF RunKnows
    <3>2. Successor(run[c].token) \in Token
      <4>1. run[c].token[1] \in Family /\ run[c].token[2] + 1 \in Depth
        BY <1>r, <2>3, <3>1, TokenIs, DepthAssumption DEF Depth
      <4>2. QED
        BY <4>1, Tokens DEF Successor
    <3>3. Successor(run'[c].token) = Successor(run[c].token)
      OBVIOUS
    <3>4. Issued(Successor(run[c].token))'
      BY <1>h, <3>1, <3>2 DEF ServerGoes
    <3>5. Successor(run[c].token) \notin expired'
      BY <2>3, <3>1
    <3>6. run[c].pc = "writing" /\ store.access # None => store.access \notin expired' /\ call[c].with # store.access
      BY <1>h, <1>r DEF RunKnows
    <3>7. QED
      BY <1>r, <2>3, <3>1, <3>3, <3>4, <3>5, <3>6 DEF RunKnows, Successor
  <2>4. QED
    BY <2>1, <2>2, <2>3, Fields DEF RunPC
<1>5. Storing'
  <2>1. user.pc = "storing" => user.token \in Token /\ user.token[1] \in Family
    BY <1>h, TokenIs DEF Storing, TypeOK
  <2>2. QED
    BY <1>h, <1>u, <1>r, <2>1 DEF Storing, ServerGoes
<1>6. Beside'
  <2>1. store.refresh # None => store.refresh[1] \in Family
    BY TokenIs DEF TypeOK
  <2>2. QED
    BY <1>h, <1>u, <1>r, <2>1 DEF Beside, ServerGoes
<1>7. Replays'
  BY <1>h DEF Replays
<1>8. NothingMissed'
  <2>1. \A t \in Token : Live(t) => Live(t)'
    BY TokenIs DEF Live, ServerShrinks
  <2>2. \A c \in Call : run[c].pc \in {"granted", "writing"} => Successor(run[c].token) \in Token
    <3>1. ASSUME NEW c \in Call, run[c].pc \in {"granted", "writing"} PROVE Successor(run[c].token) \in Token
      <4>1. run[c].token[1] \in Family /\ run[c].token[2] + 1 \in Depth
        BY <1>h, <1>r, <3>1, TokenIs, DepthAssumption DEF Depth, RunKnows
      <4>2. QED
        BY <4>1, Tokens DEF Successor
    <3>2. QED
      BY <3>1
  <2>3. \A c \in Call : run'[c].pc # "none" => Successor(run'[c].token) = Successor(run[c].token)
    BY <1>r
  <2>4. store.refresh \in Token \cup {None}
    BY DEF TypeOK
  <2>5. QED
    BY <1>h, <1>r, <2>1, <2>2, <2>3, <2>4 DEF NothingMissed, Successor
<1>9. QED
  BY <1>1, <1>3, <1>4, <1>5, <1>6, <1>7, <1>8 DEF Parts

\* The steps that are quiet.
LEMMA Quiet ==
    ASSUME IInv,
           \/ \E c \in Call : Send(c) \/ Ends(c) \/ ReplayUnauthorized(c) \/ ClearRefresh(c) \/ Refused(c) \/ RefreshFails(c)
           \/ \E t \in Token : ExpireAccess(t)
           \/ SignOut \/ Logout \/ ClearAll \/ DeleteAccount \/ Killed \/ UNCHANGED vars
    PROVE  Parts'
<1>h. TypeOK /\ Chain /\ Parts
  BY DEF IInv, Parts
<1>i. ServerIdle => ServerShrinks
  BY <1>h, IdleGoes
<1>s. store.access \in Token \cup {None} /\ store.refresh \in Token \cup {None} /\ user.token \in Token \cup {None}
  BY <1>h DEF TypeOK
<1>1. ASSUME NEW c \in Call, Send(c) PROVE Parts'
  <2>1. /\ call'[c].pc = "sent" /\ call'[c].with = store.access /\ store.access # None /\ run[c].pc = "none"
        /\ \A d \in Call : d # c => call'[d] = call[d]
    BY <1>1, <1>h DEF Send, TypeOK, Parts, OneRun
  <2>2. Come({store.access})
    BY HeldIs DEF Come
  <2>3. UNCHANGED << expired, store, run, refreshing, late, user, lost >> /\ ServerShrinks
    BY <1>1, <1>i DEF Send
  <2>4. QED
    BY <1>h, <2>1, <2>2, <2>3, QuietKeeps
<1>2. ASSUME NEW c \in Call, Ends(c) \/ ReplayUnauthorized(c) \/ ClearRefresh(c) PROVE Parts'
  <2>1. /\ call'[c].pc \in {"idle", "clearing"} /\ call'[c].with \in {None, call[c].with} /\ call[c].pc # "waiting"
        /\ \A d \in Call : d # c => call'[d] = call[d]
    BY <1>2, <1>h, CallEndsTo, CallBecomesTo DEF Ends, ReplayUnauthorized, ClearRefresh, CallPC
  <2>2. Come({call'[c].with}) /\ run[c].pc = "none"
    BY <1>h, <2>1, HeldIs, Fields DEF Come, Parts, OneRun
  <2>3. store'.access \in {store.access, None} /\ store'.refresh \in {store.refresh, None}
    BY <1>2, <1>h, StoreTo DEF Ends, ReplayUnauthorized, ClearRefresh, ClearAccess
  <2>4. UNCHANGED << expired, run, refreshing, late, user, lost >> /\ ServerShrinks
    BY <1>2, <1>i DEF Ends, ReplayUnauthorized, ClearRefresh
  <2>5. QED
    BY <1>h, <2>1, <2>2, <2>3, <2>4, QuietKeeps
<1>3. ASSUME NEW c \in Call, Refused(c) \/ RefreshFails(c) PROVE Parts'
  <2>1. PICK pc \in {"clearing", "idle"}, token \in Token \cup {None} :
           Completes(c, pc, token) /\ token \in {None, run[c].token}
    BY <1>3, <1>h, Fields DEF Refused, RefreshFails
  <2>2. /\ run'[c].pc = "none" /\ run'[c].token = None
        /\ \A d \in Call : d # c => run'[d] = run[d]
        /\ \A d \in Call : IF call[d].pc = "waiting" THEN call'[d].pc = pc /\ call'[d].with = token
                                                     ELSE call'[d] = call[d]
    BY <1>h, <2>1, CompletesTo DEF CallPC
  <2>3. \A d \in Call : run'[d].pc = "none"
    BY <1>3, <1>h, <2>2 DEF Refused, RefreshFails, Parts, OneRun
  <2>4. Come({token})
    BY <2>1, HeldIs DEF Come
  <2>5. store'.access \in {store.access, None} /\ store'.refresh \in {store.refresh, None}
    BY <1>3, <1>h, StoreTo DEF Refused, RefreshFails, ClearAccess
  <2>6. /\ UNCHANGED << expired, user >> /\ ServerShrinks
        /\ \A t \in late' : t \in late \/ \E d \in Call : run[d].pc = "sent" /\ t = run[d].token
        /\ lost => lost'
        /\ run[c].pc \in {"granted", "writing"} => lost'
    <3>1. CASE Refused(c)
      BY <1>i, <3>1 DEF Refused
    <3>2. CASE RefreshFails(c)
      <4>1. lost' = (lost \/ run[c].pc = "granted") /\ run[c].pc # "writing"
        BY <3>2 DEF RefreshFails
      <4>2. QED
        BY <1>i, <3>2, <4>1 DEF RefreshFails
    <3>3. QED
      BY <1>3, <3>1, <3>2
  <2>7. \A d \in Call : run'[d] = run[d] => run[d].pc = "none"
    BY <2>3
  <2>8. QED
    BY <1>h, <2>1, <2>2, <2>3, <2>4, <2>5, <2>6, <2>7, QuietKeeps
<1>4. ASSUME NEW t \in Token, ExpireAccess(t) PROVE Parts'
  <2>1. /\ UNCHANGED << store, call, run, refreshing, late, user, lost >> /\ ServerShrinks
        /\ expired' = expired \cup {t} /\ Issued(t) /\ (user.pc = "storing" => user.token # t)
        /\ \A c \in Call : call[c].pc # "idle" => call[c].with = t /\ call[c].pc # "replayed"
        /\ \A c \in Call : run[c].pc \in {"granted", "writing"} => Successor(run[c].token) # t
    BY <1>4, <1>i DEF ExpireAccess, Issued
  <2>2. QED
    BY <1>h, <2>1, QuietKeeps
<1>5. CASE SignOut \/ Logout \/ ClearAll
  <2>1. ServerShrinks
    <3>1. CASE Logout /\ ~ServerIdle
      <4>1. Server!Close(user.token[1]) /\ user.token \in Token
        BY <1>h, <3>1 DEF Logout, Parts, Storing, TypeOK
      <4>2. QED
        BY <1>h, <4>1, CloseGoes, TokenIs
    <3>2. QED
      BY <1>5, <1>i, <3>1 DEF SignOut, ClearAll
  <2>2. /\ UNCHANGED << expired, call, run, refreshing, late, lost >>
        /\ store'.access \in {store.access, None} /\ store'.refresh \in {store.refresh, None}
    BY <1>5 DEF SignOut, Logout, ClearAll
  <2>3. /\ user'.pc \in {"none", "logout", "clearing"}
        /\ user'.token \in {None, user.token, store.refresh}
        /\ user'.pc = "logout" => user'.token # None
    BY <1>5, <1>h DEF SignOut, Logout, ClearAll, TypeOK
  <2>4. QED
    BY <1>h, <2>1, <2>2, <2>3, QuietKeeps
<1>6. CASE DeleteAccount
  <2>1. ServerShrinks
    BY <1>6, <1>h, ForgetGoes DEF DeleteAccount
  <2>2. QED
    BY <1>6, <1>h, <2>1, QuietKeeps DEF DeleteAccount, device
<1>7. CASE Killed
  <2>1. /\ \A c \in Call : /\ call'[c].pc = "idle" /\ call'[c].with = None
                           /\ run'[c].pc = "none" /\ run'[c].token = None
        /\ \A t \in late' : t \in late \/ \E c \in Call : run[c].pc = "sent" /\ t = run[c].token
    BY <1>7, <1>h, KilledTo
  <2>2. /\ user'.pc = "none" /\ user'.token = None /\ UNCHANGED << expired, store >> /\ ServerShrinks
        /\ lost => lost'
        /\ \A c \in Call : run[c].pc \in {"granted", "writing"} => lost'
    BY <1>7, <1>i DEF Killed
  <2>3. \A c \in Call : run'[c] = run[c] => run[c].pc = "none"
    BY <2>1
  <2>4. QED
    BY <1>h, <2>1, <2>2, <2>3, QuietKeeps DEF Come
<1>8. CASE UNCHANGED vars
  BY <1>8, <1>h, <1>i, QuietKeeps DEF vars, device, ServerIdle
<1>9. QED
  BY <1>1, <1>2, <1>3, <1>4, <1>5, <1>6, <1>7, <1>8

\* A session whose server's state is what it was.
LEMMA SameLive ==
    ASSUME NEW f \in Family, ServerOnly(f), NEW t \in Token, t[1] # f
    PROVE  /\ Live(t) <=> Live(t)'
           /\ Unused(t[1]) /\ UNCHANGED << run, late >> => Unused(t[1])'
BY TokenIs DEF ServerOnly, Live, Unused

LEMMA SuccessorTyped ==
    ASSUME NEW t \in Token, t[2] < MaxDepth
    PROVE  Successor(t) \in Token /\ Successor(t)[1] = t[1] /\ Successor(t)[2] = t[2] + 1
<1>1. t[1] \in Family /\ t[2] + 1 \in Depth
  BY TokenIs, DepthAssumption DEF Depth
<1>2. QED
  BY <1>1, Tokens DEF Successor

LEMMA ServeKeeps ==
    ASSUME IInv, NEW c \in Call, Serve(c), NEW t \in Token, t = run[c].token
    PROVE  Parts'
<1>h. /\ TypeOK /\ Chain /\ HeldIssued /\ OneRun /\ (\A d \in Call : RunKnows(d)) /\ Storing /\ Beside /\ Replays
      /\ NothingMissed
  BY DEF IInv
<1>1. /\ run[c].pc = "sent" /\ t[2] < MaxDepth /\ Present(t) /\ Issued(t)
      /\ UNCHANGED << expired, store, call, refreshing, late, user, lost >>
  BY <1>h, Fields, TokenNotNone, HeldIs DEF Serve, HeldIssued
<1>2. /\ run'[c].pc = (IF Granted(t) THEN "granted" ELSE "refused") /\ run'[c].token = t
      /\ \A d \in Call : d # c => run'[d] = run[d] /\ run[d].pc = "none"
  <2>1. run' = [run EXCEPT ![c].pc = IF Granted(t) THEN "granted" ELSE "refused"]
    BY DEF Serve
  <2>2. \A d \in Call : d # c => run[d].pc = "none"
    BY <1>h, <1>1 DEF OneRun
  <2>3. QED
    BY <1>h, <2>1, <2>2 DEF TypeOK
<1>3. /\ ServerGoes /\ ServerOnly(t[1]) /\ t[1] \in Family
      /\ Granted(t) => /\ current'[t[1]] = {t[2] + 1} /\ Issued(Successor(t))'
                       /\ Successor(t) \in Token /\ ~Issued(Successor(t))
      /\ ~Granted(t) => ServerShrinks /\ current'[t[1]] = {}
  BY <1>h, <1>1, PresentGoes, TokenIs
<1>4. HeldIssued'
  <2>1. \A d \in Call : Come({call'[d].with, run'[d].token})
    BY <1>1, <1>2, <1>h, HeldIs DEF Come
  <2>2. Come({store'.access, store'.refresh, user'.token} \cup late' \cup expired')
    BY <1>1, HeldIs DEF Come
  <2>3. TypeOK /\ HeldIssued /\ ServerGoes
    BY <1>h, <1>3
  <2>4. QED
    BY <2>1, <2>2, <2>3, HeldKept
<1>5. OneRun'
  <2>1. \A u : ~Accepted(u) => ~Accepted(u)'
    BY <1>1, <1>3 DEF Accepted, ServerGoes
  <2>2. \A d \in Call : run'[d].pc # "none" => run[d].pc # "none"
    BY <1>1, <1>2
  <2>3. QED
    BY <1>h, <1>1, <2>1, <2>2 DEF OneRun
<1>6. ASSUME NEW d \in Call PROVE RunKnows(d)'
  <2>1. CASE d # c
    BY <1>2, <2>1 DEF RunKnows
  <2>2. CASE d = c /\ Granted(t)
    <3>1. Successor(t) \notin expired /\ call[c].with # Successor(t)
      BY <1>h, <1>3, <2>2, HeldIs, TokenNotNone DEF HeldIssued
    <3>2. Successor(run'[c].token) = Successor(t)
      BY <1>2
    <3>3. QED
      BY <1>1, <1>2, <1>3, <2>2, <3>1, <3>2 DEF RunKnows, Successor
  <2>3. CASE d = c /\ ~Granted(t)
    BY <1>1, <1>2, <1>3, <2>3 DEF RunKnows
  <2>4. QED
    BY <2>1, <2>2, <2>3
<1>7. ASSUME NEW f \in Family, Unused(f)
      PROVE  Unused(f)' /\ f # t[1]
  <2>1. f # t[1]
    BY <1>1, <1>7 DEF Unused
  <2>2. QED
    BY <1>1, <1>2, <1>3, <1>7, <2>1 DEF Unused, ServerOnly
<1>8. Storing'
  <2>1. user.pc = "storing" => user.token[1] \in Family
    BY <1>h, TokenIs DEF Storing, TypeOK
  <2>2. \A d \in Call : run'[d].pc # "none" => run[d].pc # "none"
    BY <1>1, <1>2
  <2>3. QED
    BY <1>h, <1>1, <1>3, <1>7, <2>1, <2>2 DEF Storing, ServerGoes
<1>9. Beside'
  <2>1. store.refresh # None => store.refresh[1] \in Family
    BY <1>h, TokenIs DEF TypeOK
  <2>2. \A d \in Call : run'[d].pc # "none" => run[d].pc # "none" /\ run'[d].token = run[d].token
    BY <1>1, <1>2
  <2>3. QED
    BY <1>h, <1>1, <1>3, <1>7, <2>1, <2>2 DEF Beside, ServerGoes
<1>10. Replays'
  BY <1>h, <1>1 DEF Replays
<1>11. NothingMissed'
  <2> SUFFICES ASSUME ~lost PROVE NothingMissed'
    BY <1>1 DEF NothingMissed
  <2>1. ASSUME store.refresh # None
        PROVE  \/ Live(store.refresh)'
               \/ \E d \in Call : run'[d].pc \in {"granted", "writing"} /\ run'[d].token = store.refresh
    <3>1. Live(store.refresh) /\ store.refresh \in Token
      <4>1. \A d \in Call : run[d].pc \notin {"granted", "writing"}
        BY <1>1, <1>2
      <4>2. store.refresh \in Token
        BY <1>h, <2>1 DEF TypeOK
      <4>3. QED
        BY <1>h, <2>1, <4>1, <4>2 DEF NothingMissed
    <3>2. CASE store.refresh[1] # t[1]
      BY <1>1, <1>3, <3>1, <3>2, SameLive
    <3>3. CASE store.refresh[1] = t[1] /\ Granted(t)
      <4>1. store.refresh = t
        BY <1>1, <3>1, <3>3, TokenIs DEF Live, Granted
      <4>2. run'[c].pc = "granted" /\ run'[c].token = store.refresh
        BY <1>2, <3>3, <4>1
      <4>3. QED
        BY <4>2
    <3>4. CASE store.refresh[1] = t[1] /\ ~Granted(t)
      BY <1>1, <1>3, <3>4 DEF Live
    <3>5. QED
      BY <3>2, <3>3, <3>4
  <2>2. ASSUME NEW d \in Call
        PROVE  /\ run'[d].pc # "sent"
               /\ run'[d].pc \in {"granted", "writing"} => Live(Successor(run[d].token))' /\ run'[d].token = run[d].token
    <3>1. CASE d # c
      BY <1>2, <3>1
    <3>2. CASE d = c
      <4>1. Granted(t) => Live(Successor(t))'
        BY <1>1, <1>3, SuccessorTyped DEF Live
      <4>2. QED
        BY <1>2, <3>2, <4>1
    <3>3. QED
      BY <3>1, <3>2
  <2>3. \A d \in Call : run'[d].token = run[d].token => Successor(run'[d].token) = Successor(run[d].token)
    OBVIOUS
  <2>4. QED
    BY <1>1, <2>1, <2>2, <2>3 DEF NothingMissed, Live, Successor
<1>12. QED
  BY <1>4, <1>5, <1>6, <1>8, <1>9, <1>10, <1>11 DEF Parts

LEMMA ServeLateKeeps == ASSUME IInv, NEW t \in Token, ServeLate(t) PROVE Parts'
<1>h. /\ TypeOK /\ Chain /\ HeldIssued /\ OneRun /\ (\A d \in Call : RunKnows(d)) /\ Storing /\ Beside /\ Replays
      /\ NothingMissed /\ Parts
  BY DEF IInv, Parts
<1>1. /\ t \in late /\ t[2] < MaxDepth /\ Present(t) /\ Issued(t) /\ late' = late \ {t}
      /\ UNCHANGED << expired, store, call, run, refreshing, user >>
      /\ lost' = (lost \/ Granted(t))
  BY <1>h, TokenNotNone, HeldIs DEF ServeLate, HeldIssued
<1>2. ServerGoes /\ ServerOnly(t[1]) /\ (~Granted(t) => ServerShrinks)
  BY <1>h, <1>1, PresentGoes
<1>3. CASE ~Granted(t)
  BY <1>h, <1>1, <1>2, <1>3, QuietKeeps
<1>4. CASE Granted(t)
  <2>1. HeldIssued'
    BY <1>h, <1>1, <1>2, HeldIs, HeldKept DEF Come
  <2>2. OneRun'
    BY <1>h, <1>1, <1>2 DEF OneRun, Accepted, ServerGoes
  <2>3. ASSUME NEW d \in Call PROVE RunKnows(d)'
    <3>1. run[d].pc # "none" => run[d].token \in Token /\ Issued(run[d].token)
      BY <1>h, Fields, HeldIs, TokenNotNone DEF HeldIssued
    <3>2. CASE run[d].pc \in {"granted", "writing"}
      <4>1. Issued(Successor(run[d].token)) /\ Successor(run[d].token) \in Token
        BY <1>h, <3>1, <3>2, SuccessorTyped DEF RunKnows
      <4>2. Issued(Successor(run[d].token))' /\ Successor(run'[d].token) = Successor(run[d].token)
        BY <1>1, <1>2, <4>1 DEF ServerGoes
      <4>3. QED
        BY <1>h, <1>1, <3>2, <4>2 DEF RunKnows, Successor
    <3>3. CASE run[d].pc = "refused"
      BY <1>h, <1>1, <1>2, <3>1, <3>3 DEF RunKnows, ServerGoes
    <3>4. CASE run[d].pc \notin {"granted", "writing", "refused"}
      BY <1>1, <3>4 DEF RunKnows
    <3>5. QED
      BY <3>2, <3>3, <3>4
  <2>4. ASSUME NEW f \in Family, Unused(f)
        PROVE  Unused(f)'
    <3>1. f # t[1]
      BY <1>1, <2>4 DEF Unused
    <3>2. QED
      BY <1>1, <1>2, <2>4, <3>1 DEF Unused, ServerOnly
  <2>5. Storing'
    <3>1. user.pc = "storing" => user.token[1] \in Family
      BY <1>h, TokenIs DEF Storing, TypeOK
    <3>2. QED
      BY <1>h, <1>1, <1>2, <2>4, <3>1 DEF Storing, ServerGoes
  <2>6. Beside'
    <3>1. store.refresh # None => store.refresh[1] \in Family
      BY <1>h, TokenIs DEF TypeOK
    <3>2. QED
      BY <1>h, <1>1, <1>2, <2>4, <3>1 DEF Beside, ServerGoes
  <2>7. Replays' /\ NothingMissed'
    BY <1>h, <1>1, <1>4 DEF Replays, NothingMissed
  <2>8. QED
    BY <2>1, <2>2, <2>3, <2>5, <2>6, <2>7 DEF Parts
<1>5. QED
  BY <1>3, <1>4

LEMMA UnauthorizedKeeps == ASSUME IInv, NEW c \in Call, Unauthorized(c) PROVE Parts'
<1>h. /\ TypeOK /\ Chain /\ HeldIssued /\ OneRun /\ (\A d \in Call : RunKnows(d)) /\ Storing /\ Beside /\ Replays
      /\ NothingMissed /\ Parts
  BY DEF IInv, Parts
<1>1. /\ call[c].pc = "sent" /\ ~Accepted(call[c].with) /\ call[c].with # None /\ run[c].pc = "none"
      /\ UNCHANGED << expired, late, user, lost, current, spent, gone >>
  BY <1>h DEF Unauthorized, OneRun, ServerIdle
<1>2. /\ Joins(c) \/ Starts(c) \/ Clears(c)
      /\ call'[c].with = call[c].with /\ \A d \in Call : d # c => call'[d] = call[d]
  BY <1>h, UnauthorizedTo
<1>3. ServerShrinks /\ ServerGoes
  BY <1>h, <1>1, IdleGoes DEF ServerIdle, ServerShrinks
<1>4. CASE Joins(c) \/ Clears(c)
  <2>1. /\ call'[c].pc \in {"waiting", "clearing"} /\ UNCHANGED << run, refreshing >>
        /\ store'.access \in {store.access, None} /\ store'.refresh \in {store.refresh, None}
    BY <1>4 DEF Joins, Clears
  <2>2. Come({call[c].with})
    BY HeldIs DEF Come
  <2>3. QED
    BY <1>h, <1>1, <1>2, <1>3, <2>1, <2>2, QuietKeeps
<1>5. CASE Starts(c)
  <2>1. /\ refreshing = None /\ store.refresh \in Token /\ store.refresh # None /\ UNCHANGED store
        /\ call'[c].pc = "waiting" /\ refreshing' = c /\ run'[c].pc = "sent" /\ run'[c].token = store.refresh
        /\ \A d \in Call : d # c => run'[d] = run[d]
    BY <1>5, TokenNotNone DEF Starts
  <2>2. \A d \in Call : run[d].pc = "none"
    BY <1>h, <2>1, NoneAssumption DEF OneRun
  <2>3. HeldIssued'
    <3>1. \A d \in Call : Come({call'[d].with, run'[d].token})
      BY <1>2, <2>1, HeldIs DEF Come
    <3>2. Come({store'.access, store'.refresh, user'.token} \cup late' \cup expired')
      BY <1>1, <2>1, HeldIs DEF Come
    <3>3. QED
      BY <1>h, <1>3, <3>1, <3>2, HeldKept
  <2>4. OneRun'
    BY <1>h, <1>1, <1>2, <2>1, <2>2 DEF OneRun, Accepted
  <2>5. \A d \in Call : RunKnows(d)'
    BY <2>1, <2>2 DEF RunKnows
  <2>6. Storing'
    <3>1. CASE user.pc # "storing"
      BY <1>h, <1>1, <3>1 DEF Storing
    <3>2. CASE user.pc = "storing"
      <4>1. /\ user.token[2] = 0 /\ Unused(user.token[1]) /\ user.token # None /\ user.token \notin expired
            /\ store.refresh[1] # user.token[1]
        BY <1>h, <2>1, <3>2 DEF Storing
      <4>2. Unused(user.token[1])'
        BY <1>1, <2>1, <2>2, <4>1 DEF Unused
      <4>3. \A d \in Call : run'[d].pc # "none" /\ call'[d].with = user.token => user.token[1] \in gone
        BY <1>1, <1>2, <2>1, <2>2, <4>1 DEF Accepted
      <4>4. QED
        BY <1>1, <2>1, <4>1, <4>2, <4>3 DEF Storing
    <3>3. QED
      BY <3>1, <3>2
  <2>7. Beside'
    BY <2>1, <2>2 DEF Beside
  <2>8. Replays'
    BY <1>h, <1>1, <1>2, <2>1 DEF Replays
  <2>9. NothingMissed'
    <3>1. lost \/ Live(store.refresh)
      BY <1>h, <2>1, <2>2 DEF NothingMissed
    <3>2. \A d \in Call : run'[d].pc # "none" => run'[d].pc = "sent" /\ run'[d].token = store.refresh
      BY <2>1, <2>2
    <3>3. QED
      BY <1>1, <2>1, <3>1, <3>2 DEF NothingMissed, Live
  <2>10. QED
    BY <2>3, <2>4, <2>5, <2>6, <2>7, <2>8, <2>9 DEF Parts
<1>6. QED
  BY <1>2, <1>4, <1>5

LEMMA WriteAccessKeeps ==
    ASSUME IInv, NEW c \in Call, WriteAccess(c), NEW t \in Token, t = run[c].token
    PROVE  Parts'
<1>h. /\ TypeOK /\ Chain /\ HeldIssued /\ OneRun /\ (\A d \in Call : RunKnows(d)) /\ Storing /\ Beside /\ Replays
      /\ NothingMissed
  BY DEF IInv
<1>1. /\ run[c].pc = "granted" /\ UNCHANGED << expired, call, refreshing, late, user, lost, current, spent, gone >>
      /\ \A d \in Call : d # c => run[d].pc = "none"
  BY <1>h DEF WriteAccess, ServerIdle, OneRun
<1>2. /\ t[2] < MaxDepth /\ Issued(Successor(t)) /\ Successor(t) \notin expired /\ call[c].with # Successor(t)
      /\ Successor(t) \in Token /\ Successor(t)[1] = t[1]
  BY <1>h, <1>1, SuccessorTyped DEF RunKnows
<1>3. /\ run'[c].pc = "writing" /\ run'[c].token = t /\ \A d \in Call : d # c => run'[d] = run[d]
      /\ store'.access = Successor(t) /\ store'.refresh = store.refresh
  BY <1>h, <1>2, RunBecomesTo, StoreTo DEF WriteAccess, RunPC
<1>4. ServerShrinks /\ ServerGoes
  BY <1>h, <1>1, IdleGoes DEF ServerIdle, ServerShrinks
<1>5. HeldIssued'
  <2>1. \A d \in Call : Come({call'[d].with, run'[d].token})
    BY <1>1, <1>3, HeldIs DEF Come
  <2>2. Come({Successor(t)})
    BY <1>2, <1>4 DEF Come, ServerGoes
  <2>3. Come({store'.access, store'.refresh, user'.token} \cup late' \cup expired')
    BY <1>1, <1>3, <2>2, HeldIs DEF Come
  <2>4. QED
    BY <1>h, <1>4, <2>1, <2>3, HeldKept
<1>6. OneRun'
  BY <1>h, <1>1, <1>3 DEF OneRun, Accepted
<1>7. ASSUME NEW d \in Call PROVE RunKnows(d)'
  <2>1. CASE d # c
    BY <1>1, <1>3, <2>1 DEF RunKnows
  <2>2. CASE d = c
    <3>1. Successor(run'[c].token) = Successor(t) /\ Issued(Successor(t))'
      BY <1>2, <1>3, <1>4 DEF ServerGoes
    <3>2. QED
      BY <1>1, <1>2, <1>3, <2>2, <3>1 DEF RunKnows, Successor
  <2>3. QED
    BY <2>1, <2>2
<1>8. \A f \in Family : Unused(f) => Unused(f)'
  BY <1>1, <1>3 DEF Unused
<1>9. Storing'
  <2>1. user.pc = "storing" => user.token[1] \in Family
    BY <1>h, TokenIs DEF Storing, TypeOK
  <2>2. \A d \in Call : run'[d].pc # "none" => run[d].pc # "none"
    BY <1>1, <1>3
  <2>3. QED
    BY <1>h, <1>1, <1>3, <1>8, <2>1, <2>2 DEF Storing
<1>10. Beside'
  <2>1. store.refresh # None => store.refresh[1] \in Family
    BY <1>h, TokenIs DEF TypeOK
  <2>2. \A d \in Call : run'[d].pc # "none" => d = c
    BY <1>1, <1>3
  <2>3. run[c].pc # "none" /\ run[c].token = run'[c].token
    BY <1>1, <1>3
  <2>4. QED
    BY <1>h, <1>2, <1>3, <1>8, <2>1, <2>2, <2>3 DEF Beside
<1>11. Replays'
  BY <1>h, <1>1 DEF Replays
<1>12. NothingMissed'
  <2>1. \A d \in Call : run'[d].pc # "none" => d = c
    BY <1>1, <1>3
  <2>2. lost \/ Live(Successor(t))
    BY <1>h, <1>1 DEF NothingMissed
  <2>3. Successor(run'[c].token) = Successor(t)
    BY <1>3
  <2>4. lost \/ store.refresh = None \/ Live(store.refresh) \/ store.refresh = t
    BY <1>h, <1>1 DEF NothingMissed
  <2>5. QED
    BY <1>1, <1>3, <2>1, <2>2, <2>3, <2>4 DEF NothingMissed, Live, Successor
<1>13. QED
  BY <1>5, <1>6, <1>7, <1>9, <1>10, <1>11, <1>12 DEF Parts

LEMMA WriteRefreshKeeps ==
    ASSUME IInv, NEW c \in Call, WriteRefresh(c), NEW t \in Token, t = run[c].token
    PROVE  Parts'
<1>h. /\ TypeOK /\ Chain /\ HeldIssued /\ OneRun /\ (\A d \in Call : RunKnows(d)) /\ Storing /\ Beside /\ Replays
      /\ NothingMissed
  BY DEF IInv
<1>1. /\ run[c].pc = "writing" /\ UNCHANGED << expired, late, user, lost, current, spent, gone >>
      /\ \A d \in Call : d # c => run[d].pc = "none"
  BY <1>h DEF WriteRefresh, ServerIdle, OneRun
<1>2. /\ t[2] < MaxDepth /\ Issued(Successor(t)) /\ Successor(t) \in Token /\ Successor(t)[1] = t[1]
  BY <1>h, <1>1, SuccessorTyped DEF RunKnows
<1>3. store'.access = store.access /\ store'.refresh = Successor(t)
  BY <1>h, <1>2, StoreTo DEF WriteRefresh
<1>4. /\ \A d \in Call : run'[d].pc = "none"
      /\ \A d \in Call : run'[d].token \in {None, run[d].token}
      /\ \A d \in Call : IF call[d].pc = "waiting" THEN call'[d].pc = "replayed" /\ call'[d].with = store.access
                                                   ELSE call'[d] = call[d]
  <2>1. Completes(c, "replayed", store.access) /\ store.access \in Token \cup {None} /\ "replayed" \in CallPC
    BY <1>h, Fields DEF WriteRefresh, CallPC
  <2>2. /\ run'[c].pc = "none" /\ run'[c].token = None
        /\ \A d \in Call : d # c => run'[d] = run[d]
        /\ \A d \in Call : IF call[d].pc = "waiting" THEN call'[d].pc = "replayed" /\ call'[d].with = store.access
                                                     ELSE call'[d] = call[d]
    BY <1>h, <2>1, CompletesTo
  <2>3. QED
    BY <1>1, <2>2
<1>5. ServerShrinks /\ ServerGoes
  BY <1>h, <1>1, IdleGoes DEF ServerIdle, ServerShrinks
<1>6. HeldIssued'
  <2>1. \A d \in Call : Come({call'[d].with, run'[d].token})
    BY <1>4, HeldIs DEF Come
  <2>2. Come({Successor(t)})
    BY <1>2, <1>5 DEF Come, ServerGoes
  <2>3. Come({store'.access, store'.refresh, user'.token} \cup late' \cup expired')
    BY <1>1, <1>3, <2>2, HeldIs DEF Come
  <2>4. QED
    BY <1>h, <1>5, <2>1, <2>3, HeldKept
<1>7. OneRun'
  BY <1>h, <1>1, <1>4 DEF OneRun, Accepted
<1>8. \A d \in Call : RunKnows(d)'
  BY <1>4 DEF RunKnows
<1>9. Storing'
  <2>1. CASE user.pc # "storing"
    BY <1>h, <1>1, <2>1 DEF Storing
  <2>2. CASE user.pc = "storing"
    <3>1. user.token[2] = 0 /\ Unused(user.token[1]) /\ user.token # None /\ user.token \notin expired
      BY <1>h, <2>2 DEF Storing
    <3>2. Unused(user.token[1])' /\ t[1] # user.token[1]
      BY <1>1, <1>4, <3>1 DEF Unused
    <3>3. QED
      BY <1>1, <1>2, <1>3, <1>4, <3>1, <3>2 DEF Storing
  <2>3. QED
    BY <2>1, <2>2
<1>10. Beside'
  BY <1>4 DEF Beside
<1>11. Replays'
  <2>1. store.access # None => store.access \notin expired
    BY <1>h, <1>1 DEF RunKnows
  <2>2. QED
    BY <1>h, <1>1, <1>4, <2>1 DEF Replays
<1>12. NothingMissed'
  <2>1. lost \/ Live(Successor(t))
    BY <1>h, <1>1 DEF NothingMissed
  <2>2. QED
    BY <1>1, <1>3, <1>4, <2>1 DEF NothingMissed, Live
<1>13. QED
  BY <1>6, <1>7, <1>8, <1>9, <1>10, <1>11, <1>12 DEF Parts

LEMMA SignInKeeps == ASSUME IInv, NEW f \in Family, SignIn(f) PROVE Parts'
<1>h. /\ TypeOK /\ Chain /\ HeldIssued /\ OneRun /\ (\A d \in Call : RunKnows(d)) /\ Storing /\ Beside /\ Replays
      /\ NothingMissed
  BY DEF IInv
<1>t. << f, 0 >> \in Token /\ << f, 0 >>[1] = f /\ << f, 0 >>[2] = 0 /\ << f, 0 >> # None
  BY Tokens, DepthAssumption DEF Depth
<1>1. /\ UNCHANGED << expired, call, run, refreshing, late, lost >> /\ user.pc = "none"
      /\ user'.pc = "storing" /\ user'.token = << f, 0 >>
      /\ store'.access = << f, 0 >> /\ store'.refresh = store.refresh
  BY <1>h, <1>t, StoreTo DEF SignIn
<1>2. /\ ServerGoes /\ ServerOnly(f) /\ current'[f] = {0} /\ spent'[f] = {}
      /\ Issued(<< f, 0 >>)' /\ \A t \in Token : Issued(t) => t[1] # f
  BY <1>h, OpenGoes DEF SignIn
<1>3. \A t \in Held : t \in Token /\ Issued(t) /\ t[1] # f
  <2>1. Held \subseteq Token
    BY <1>h DEF Held, TypeOK
  <2>2. QED
    BY <1>h, <1>2, <2>1 DEF HeldIssued
<1>4. HeldIssued'
  <2>1. \A d \in Call : Come({call'[d].with, run'[d].token})
    BY <1>1, HeldIs DEF Come
  <2>2. Come({<< f, 0 >>})
    BY <1>2 DEF Come
  <2>3. Come({store'.access, store'.refresh, user'.token} \cup late' \cup expired')
    BY <1>1, <2>2, HeldIs DEF Come
  <2>4. QED
    BY <1>h, <1>2, <2>1, <2>3, HeldKept
<1>5. OneRun'
  <2>1. \A u : ~Accepted(u) => ~Accepted(u)'
    BY <1>1, <1>2 DEF Accepted, ServerGoes
  <2>2. QED
    BY <1>h, <1>1, <2>1 DEF OneRun
<1>6. << f, 0 >> \notin expired /\ \A d \in Call : call[d].with # << f, 0 >>
  BY <1>3, <1>t, HeldIs
<1>r. \A d \in Call : run[d].pc # "none" => run[d].token \in Token /\ Issued(run[d].token) /\ run[d].token[1] # f
  BY <1>h, <1>3, Fields, HeldIs, TokenNotNone
<1>7. ASSUME NEW d \in Call PROVE RunKnows(d)'
  <2>1. CASE run[d].pc \in {"granted", "writing"}
    <3>1. Issued(Successor(run[d].token)) /\ Successor(run[d].token) \in Token
      BY <1>h, <1>r, <2>1, SuccessorTyped DEF RunKnows
    <3>2. Issued(Successor(run[d].token))' /\ Successor(run'[d].token) = Successor(run[d].token)
      BY <1>1, <1>2, <3>1 DEF ServerGoes
    <3>3. QED
      BY <1>h, <1>1, <1>6, <2>1, <3>2 DEF RunKnows, Successor
  <2>2. CASE run[d].pc = "refused"
    BY <1>h, <1>1, <1>2, <1>r, <2>2 DEF RunKnows, ServerGoes
  <2>3. CASE run[d].pc \notin {"granted", "writing", "refused"}
    BY <1>1, <2>3 DEF RunKnows
  <2>4. QED
    BY <2>1, <2>2, <2>3
<1>8. Unused(f)'
  <2>1. \A t \in late : t[1] # f
    BY <1>h, <1>3, HeldIs, TokenNotNone DEF TypeOK
  <2>2. QED
    BY <1>1, <1>2, <1>r, <2>1 DEF Unused
<1>9. store.refresh # None => store.refresh \in Token /\ store.refresh[1] # f
  BY <1>3, HeldIs
<1>10. Storing'
  BY <1>1, <1>6, <1>8, <1>9, <1>t DEF Storing
<1>11. Beside'
  <2>1. store.refresh # None /\ Unused(store.refresh[1]) => Unused(store.refresh[1])'
    BY <1>1, <1>2, <1>9, SameLive
  <2>2. QED
    BY <1>h, <1>1, <1>9, <1>t, <2>1 DEF Beside
<1>12. Replays'
  BY <1>h, <1>1 DEF Replays
<1>13. NothingMissed'
  <2>1. \A t \in Token : t[1] # f /\ Live(t) => Live(t)'
    BY <1>2, SameLive
  <2>2. \A d \in Call : run[d].pc \in {"granted", "writing"} => Successor(run[d].token) \in Token /\ Successor(run[d].token)[1] # f
    BY <1>h, <1>r, SuccessorTyped DEF RunKnows
  <2>3. \A d \in Call : Successor(run'[d].token) = Successor(run[d].token)
    BY <1>1
  <2>4. QED
    BY <1>h, <1>1, <1>9, <1>r, <2>1, <2>2, <2>3 DEF NothingMissed, Successor
<1>14. QED
  BY <1>4, <1>5, <1>7, <1>10, <1>11, <1>12, <1>13 DEF Parts

LEMMA StoreRefreshKeeps == ASSUME IInv, StoreRefresh PROVE Parts'
<1>h. /\ TypeOK /\ Chain /\ HeldIssued /\ OneRun /\ (\A d \in Call : RunKnows(d)) /\ Storing /\ Beside /\ Replays
      /\ NothingMissed
  BY DEF IInv
<1>1. /\ UNCHANGED << expired, call, run, refreshing, late, lost, current, spent, gone >> /\ user.pc = "storing"
      /\ user'.pc = "none" /\ user'.token = None
      /\ store'.access = store.access /\ store'.refresh = user.token
  <2>1. user.token \in Token \cup {None}
    BY <1>h DEF TypeOK
  <2>2. QED
    BY <1>h, <2>1, StoreTo DEF StoreRefresh, ServerIdle
<1>2. /\ user.token \in Token /\ user.token # None /\ user.token[1] \in Family /\ user.token[2] = 0
      /\ Unused(user.token[1]) /\ user.token \notin expired
      /\ \A c \in Call : run[c].pc # "none" /\ call[c].with = user.token => user.token[1] \in gone
  BY <1>h, <1>1, TokenIs DEF Storing, TypeOK
<1>3. ServerShrinks /\ ServerGoes
  BY <1>h, <1>1, IdleGoes DEF ServerIdle, ServerShrinks
<1>4. HeldIssued'
  <2>1. \A d \in Call : Come({call'[d].with, run'[d].token})
    BY <1>1, HeldIs DEF Come
  <2>2. Come({store'.access, store'.refresh, user'.token} \cup late' \cup expired')
    BY <1>1, HeldIs DEF Come
  <2>3. QED
    BY <1>h, <1>3, <2>1, <2>2, HeldKept
<1>5. OneRun'
  BY <1>h, <1>1 DEF OneRun, Accepted
<1>6. ASSUME NEW d \in Call PROVE RunKnows(d)'
  <2>1. RunKnows(d) /\ run' = run
    BY <1>h, <1>1
  <2>2. QED
    BY <1>1, <2>1 DEF RunKnows, Successor, Issued
<1>7. Storing'
  BY <1>1 DEF Storing
<1>8. \A f \in Family : Unused(f) => Unused(f)'
  BY <1>1 DEF Unused
<1>9. store.access # None /\ store.access[1] = user.token[1] => store.access[1] \in gone \/ store.access = user.token
  <2>1. ASSUME store.access # None, store.access[1] = user.token[1], store.access[1] \notin gone
        PROVE  store.access = user.token
    <3>1. store.access \in Token /\ Issued(store.access)
      BY <1>h, <2>1, HeldIs DEF TypeOK, HeldIssued
    <3>2. store.access[2] = 0
      BY <1>2, <2>1, <3>1 DEF Issued, Unused
    <3>3. QED
      BY <1>2, <2>1, <3>1, <3>2, TokenIs
  <2>2. QED
    BY <2>1
<1>10. Beside'
  BY <1>1, <1>2, <1>8, <1>9 DEF Beside
<1>11. Replays'
  BY <1>h, <1>1 DEF Replays
<1>12. NothingMissed'
  <2>1. Live(user.token)
    BY <1>2 DEF Live, Unused
  <2>2. QED
    BY <1>h, <1>1, <1>2, <2>1 DEF NothingMissed, Live, Successor
<1>13. QED
  BY <1>4, <1>5, <1>6, <1>7, <1>10, <1>11, <1>12 DEF Parts

-----------------------------------------------------------------------------
(* The invariant.                                                          *)

LEMMA InvInit == Init => IInv
<1> SUFFICES ASSUME Init PROVE IInv
  OBVIOUS
<1>1. TypeOK
  BY TypeInit
<1>2. /\ \A f \in Family : current[f] = {} /\ spent[f] = {}
      /\ gone = {} /\ expired = {} /\ late = {} /\ store.access = None /\ store.refresh = None
      /\ \A c \in Call : /\ call[c].pc = "idle" /\ call[c].with = None
                         /\ run[c].pc = "none" /\ run[c].token = None
      /\ user.pc = "none" /\ user.token = None
  BY DEF Init, Server!Init, NoCall, NoRun
<1>3. Held = {}
  BY <1>2 DEF Held
<1>4. Chain /\ HeldIssued /\ OneRun /\ (\A c \in Call : RunKnows(c))
  BY <1>2, <1>3 DEF Chain, HeldIssued, OneRun, RunKnows
<1>5. Storing /\ Beside /\ Replays /\ NothingMissed
  BY <1>2 DEF Storing, Beside, Replays, NothingMissed
<1>6. QED
  BY <1>1, <1>4, <1>5 DEF IInv

LEMMA InvStep == IInv /\ [Next]_vars => IInv'
<1> SUFFICES ASSUME IInv, [Next]_vars PROVE IInv'
  OBVIOUS
<1>1. TypeOK' /\ Chain'
  BY TypeStep DEF IInv, ServerGoes
<1>t. /\ TypeOK /\ \A c \in Call : run[c].pc # "none" => run[c].token \in Token
  BY DEF IInv, TypeOK
<1>2. Parts'
  <2>1. ASSUME NEW c \in Call, Serve(c) \/ WriteAccess(c) \/ WriteRefresh(c) PROVE Parts'
    <3>1. run[c].token \in Token
      BY <2>1, <1>t DEF Serve, WriteAccess, WriteRefresh
    <3>2. QED
      BY <2>1, <3>1, ServeKeeps, WriteAccessKeeps, WriteRefreshKeeps
  <2>2. ASSUME NEW c \in Call, Unauthorized(c) PROVE Parts'
    BY <2>2, UnauthorizedKeeps
  <2>3. ASSUME NEW t \in Token, ServeLate(t) PROVE Parts'
    BY <2>3, ServeLateKeeps
  <2>4. ASSUME NEW f \in Family, SignIn(f) PROVE Parts'
    BY <2>4, SignInKeeps
  <2>5. StoreRefresh => Parts'
    BY StoreRefreshKeeps
  <2>6. QED
    BY <2>1, <2>2, <2>3, <2>4, <2>5, Quiet DEF Next, Continue
<1>3. QED
  BY <1>1, <1>2 DEF IInv, Parts

\* The session's invariant holds, from the first step on.
THEOREM Inductive == Spec => []IInv
BY InvInit, InvStep, PTL DEF Spec

\* Every token and every program counter stays of its type; a refresh is run
\* with a token.
THEOREM TypeCorrect == Spec => []TypeOK
<1>1. IInv => TypeOK
  BY DEF IInv
<1>2. QED
  BY <1>1, Inductive, PTL

\* _refreshOnce: the app does not itself present a spent token: until it
\* misses the answer to a rotation, what it refreshes with is the server's
\* current token or belongs to a session that is over.
THEOREM OneRefreshNoReplay == Spec => []ReplayNeedsLoss
<1>1. IInv => ReplayNeedsLoss
  <2> SUFFICES ASSUME IInv, NEW c \in Call, run[c].pc = "sent", ~lost,
                      run[c].token[2] \in spent[run[c].token[1]]
               PROVE  current[run[c].token[1]] = {}
    BY DEF ReplayNeedsLoss
  <2>1. PICK f \in Family, d \in Depth : f = run[c].token[1] /\ d = run[c].token[2]
    BY TokenIs DEF IInv, TypeOK
  <2>2. current[f] \subseteq {d}
    BY <2>1 DEF IInv, NothingMissed, Live
  <2>3. d \in spent[f] /\ d \in Nat
    BY <2>1, DepthAssumption DEF Depth
  <2>4. d \notin current[f]
    BY <2>3 DEF IInv, Chain
  <2>5. QED
    BY <2>1, <2>2, <2>4
<1>2. QED
  BY <1>1, Inductive, PTL

\* Who starts to clear the session: a refused refresh, a refused replay, or a
\* call refused when no refresh token is stored.
LEMMA WhoClears ==
    ASSUME IInv, [Next]_vars, NEW c \in Call, call[c].pc # "clearing", call'[c].pc = "clearing"
    PROVE  \/ store.refresh = None
           \/ ReplayUnauthorized(c)
           \/ call[c].pc = "waiting" /\ \E d \in Call : Refused(d)
<1>t. TypeOK
  BY DEF IInv
<1>c. "idle" \in CallPC /\ "clearing" \in CallPC /\ "replayed" \in CallPC
  BY DEF CallPC
<1>1. ASSUME NEW d \in Call, Send(d) PROVE FALSE
  BY <1>1, <1>t DEF Send, TypeOK
<1>2. ASSUME NEW d \in Call, Ends(d) \/ ClearRefresh(d) PROVE FALSE
  BY <1>2, <1>t, CallEndsTo DEF Ends, ClearRefresh
<1>3. ASSUME NEW d \in Call, Unauthorized(d) PROVE store.refresh = None
  BY <1>3, <1>t, UnauthorizedTo DEF Joins, Starts, Clears
<1>4. ASSUME NEW d \in Call, ReplayUnauthorized(d) PROVE ReplayUnauthorized(c)
  BY <1>4, <1>t, <1>c, CallBecomesTo DEF ReplayUnauthorized
<1>5. ASSUME NEW d \in Call, WriteRefresh(d) PROVE FALSE
  <2>1. Completes(d, "replayed", store.access) /\ store.access \in Token \cup {None}
    BY <1>5, <1>t, Fields DEF WriteRefresh
  <2>2. QED
    BY <1>c, <1>t, <2>1, CompletesTo
<1>6. ASSUME NEW d \in Call, RefreshFails(d) PROVE FALSE
  <2>1. Completes(d, "idle", None)
    BY <1>6 DEF RefreshFails
  <2>2. QED
    BY <1>c, <1>t, <2>1, CompletesTo
<1>7. ASSUME NEW d \in Call, Refused(d) PROVE call[c].pc = "waiting"
  <2>1. Completes(d, "clearing", run[d].token) /\ run[d].token \in Token \cup {None}
    BY <1>7, <1>t, Fields DEF Refused
  <2>2. QED
    BY <1>c, <1>t, <2>1, CompletesTo
<1>8. ASSUME NEW d \in Call, Serve(d) \/ WriteAccess(d) PROVE FALSE
  BY <1>8 DEF Serve, WriteAccess
<1>9. ASSUME NEW t \in Token, ServeLate(t) \/ ExpireAccess(t) PROVE FALSE
  BY <1>9 DEF ServeLate, ExpireAccess
<1>10. ASSUME NEW f \in Family, SignIn(f) PROVE FALSE
  BY <1>10 DEF SignIn
<1>11. ~(StoreRefresh \/ SignOut \/ Logout \/ ClearAll \/ DeleteAccount \/ UNCHANGED vars)
  BY DEF StoreRefresh, SignOut, Logout, ClearAll, DeleteAccount, vars, device
<1>12. ~Killed
  BY <1>t, KilledTo
<1>13. QED
  BY <1>1, <1>2, <1>3, <1>4, <1>5, <1>6, <1>7, <1>8, <1>9, <1>10, <1>11, <1>12 DEF Next, Continue

\* _unauthorized: with both tokens of a call's session stored, the call clears
\* them only when the server has ended that session.
THEOREM OnlyEndedSessionsDropped == Spec => DropsOnlyEndedSession
<1>1. IInv /\ [Next]_vars =>
        \A c \in Call :
          /\ call[c].pc # "clearing" /\ call'[c].pc = "clearing"
          /\ store.access # None /\ store.refresh # None /\ call[c].with # None
          /\ store.access[1] = call[c].with[1] /\ store.refresh[1] = call[c].with[1]
          => current[store.access[1]] = {}
  <2> SUFFICES ASSUME IInv, [Next]_vars, NEW c \in Call,
                      call[c].pc # "clearing", call'[c].pc = "clearing",
                      store.access # None, store.refresh # None, call[c].with # None,
                      store.access[1] = call[c].with[1], store.refresh[1] = call[c].with[1]
               PROVE  current[store.access[1]] = {}
    OBVIOUS
  <2>h. TypeOK /\ Chain /\ HeldIssued /\ OneRun /\ (\A d \in Call : RunKnows(d)) /\ Beside /\ Replays
    BY DEF IInv
  <2>1. PICK g \in Family : g = store.access[1]
    BY <2>h, TokenIs DEF TypeOK
  <2>2. /\ store.access \in Token /\ call[c].with \in Token
        /\ Issued(store.access) /\ Issued(call[c].with)
    BY <2>h, HeldIs, Fields DEF HeldIssued
  <2>3. g \in gone => current[g] = {}
    BY <2>h DEF Chain
  <2>4. CASE ReplayUnauthorized(c)
    <3>1. call[c].with \notin expired /\ ~Accepted(call[c].with)
      BY <2>h, <2>4 DEF ReplayUnauthorized, Replays
    <3>2. QED
      BY <2>1, <2>3, <3>1 DEF Accepted
  <2>5. ASSUME NEW d \in Call, Refused(d), call[c].pc = "waiting" PROVE current[g] = {}
    <3>1. run[d].pc = "refused" /\ current[run[d].token[1]] = {}
      BY <2>h, <2>5 DEF Refused, RunKnows
    <3>2. CASE run[d].token[1] = g
      BY <3>1, <3>2
    <3>3. CASE run[d].token[1] # g /\ g \notin gone
      <4>1. Unused(g) /\ store.access \notin expired
        BY <2>h, <2>1, <3>1, <3>3 DEF Beside
      <4>2. store.access[2] = 0 /\ call[c].with[2] = 0
        BY <2>1, <2>2, <3>3, <4>1 DEF Issued, Unused
      <4>3. store.access = call[c].with
        BY <2>2, <4>2, TokenIs
      <4>4. Accepted(call[c].with)
        BY <2>1, <3>3, <4>1, <4>3 DEF Accepted
      <4>5. QED
        BY <2>h, <2>5, <4>4 DEF OneRun
    <3>4. QED
      BY <2>3, <3>2, <3>3
  <2>6. QED
    BY <2>1, <2>4, <2>5, WhoClears
<1>2. QED
  BY <1>1, Inductive, PTL DEF Spec, DropsOnlyEndedSession
=============================================================================
